------------------------------- MODULE Keyring -------------------------------
(*****************************************************************************)
(* The keyring that protects profiles at rest, and the envelopes written     *)
(* with it (internal/security/profilestorage).  An identifier names secret   *)
(* material; an envelope carries the identifier, not the material, and is    *)
(* bound to its row.                                                         *)
(*****************************************************************************)
EXTENDS FiniteSets

CONSTANTS
  EncryptionIds, IndexIds,   \* identifiers of encryption and of blind index keys
  Materials,                 \* 32 byte secrets
  Nothing

\* What a keyring file may say: two maps and an active identifier of each.
Files == [keys : UNION {[ids -> Materials] : ids \in SUBSET EncryptionIds}, active : EncryptionIds,
          indexKeys : UNION {[ids -> Materials] : ids \in SUBSET IndexIds}, activeIndex : IndexIds]

Injective(f) == \A x, y \in DOMAIN f : f[x] = f[y] => x = y
Values(f) == {f[x] : x \in DOMAIN f}

\* LoadKeyringJSON: no material has two names, of either kind.
Loads(file) ==
  /\ file.active \in DOMAIN file.keys /\ file.activeIndex \in DOMAIN file.indexKeys
  /\ Injective(file.keys) /\ Injective(file.indexKeys)
  /\ Values(file.keys) \cap Values(file.indexKeys) = {}

\* Envelopes and indexes as far as a program without the material can tell them apart.
Encrypt(ring, row, plain) ==
  [key |-> ring.active, material |-> ring.keys[ring.active], row |-> row, plain |-> plain]
BlindIndex(ring, plain) == <<ring.indexKeys[ring.activeIndex], plain>>

\* InspectEnvelope reads the identifier; Decrypt authenticates material and row.
Known(ring, envelope) == envelope.key \in DOMAIN ring.keys
Decrypts(ring, row, envelope) ==
  Known(ring, envelope) /\ ring.keys[envelope.key] = envelope.material /\ envelope.row = row
=============================================================================
