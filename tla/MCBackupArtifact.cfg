\* One crash between the two renames and one failed rename after it.
CONSTANTS
    MaxWrites = 1
    MaxCrashes = 1
    MaxFaults = 1
SPECIFICATION Spec
INVARIANTS
    AnArtifactSurvives
