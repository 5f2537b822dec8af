\* Two PUT requests for one source.
CONSTANTS
    Sources = {s1}
    Jobs = {j1}
    Editors = {e1, e2}
    Urls = {u1}
    Secrets = {h1, h2}
    NoInput = NoInput
    NoJob = NoJob
    MaxEdits = 2
    MaxCrashes = 0
    MaxFaults = 0
SPECIFICATION Spec
PROPERTIES
    RetainKeepsSecret
