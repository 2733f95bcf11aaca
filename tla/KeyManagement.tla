--------------------------- MODULE KeyManagement ---------------------------
(***************************************************************************)
(* Cloud KMS: key rings, crypto keys, their versions and the operations      *)
(* that use a version's secret.  Every handler is cut where it awaits        *)
(* between a read and the write that depends on it, and the allocations of   *)
(* version numbers are queued per key.                                       *)
(***************************************************************************)
EXTENDS Absent, Naturals, Sequences, FiniteSets

CONSTANTS
  CryptoKeys,      (* the crypto keys, each of which belongs to one ring     *)
  KeyRings, RingOf,
  KmsCallers,      (* bound: requests in progress at once                    *)
  KmsVersions,     (* bound: versions ever created                           *)
  KeyAlgorithms    (* the algorithms of the instance                         *)

(* The algorithms and the one purpose each of them serves                    *)
PurposeOf == [SYMMETRIC |-> "ENCRYPT_DECRYPT", HMAC |-> "MAC", EC_SIGN |-> "ASYMMETRIC_SIGN",
              RSA_SIGN |-> "ASYMMETRIC_SIGN", RSA_DECRYPT |-> "ASYMMETRIC_DECRYPT"]
Purposes == {"ENCRYPT_DECRYPT", "MAC", "ASYMMETRIC_SIGN", "ASYMMETRIC_DECRYPT"}
VersionStates == {"ENABLED", "DISABLED", "DESTROY_SCHEDULED"}
CryptoKeyRecords == [purpose : Purposes, algorithm : KeyAlgorithms, primary : Nat \cup {NoRow}]

ASSUME KmsAssumption ==
  /\ RingOf \in [CryptoKeys -> KeyRings] /\ KmsVersions \in Nat
  /\ KeyAlgorithms \subseteq DOMAIN PurposeOf
  /\ NoRow \notin Nat \cup KmsCallers \cup CryptoKeyRecords

VARIABLES
  rings,        (* kms_key_rings                                             *)
  cryptoKeys,   (* kms_crypto_keys: purpose, template algorithm, primary     *)
  keyVersions,  (* kms_crypto_key_versions: by key, then by number           *)
  secrets,      (* secrets generated so far                                  *)
  allocations,  (* versionAllocations: the callers waiting for a number      *)
  kmsCalls,     (* what each caller's request is doing                       *)
  minted        (* ciphertexts, MACs and signatures handed to clients        *)

kmsVars == <<rings, cryptoKeys, keyVersions, secrets, allocations, kmsCalls, minted>>

VersionRecords == [state : VersionStates, algorithm : KeyAlgorithms, secret : Nat]
Outputs == [key : CryptoKeys, number : Nat, secret : Nat]
KeyRequests == [purpose : Purposes, algorithm : KeyAlgorithms, skipInitialVersion : BOOLEAN]
NoKmsCall == [step |-> "idle"]

KmsInit ==
  /\ rings = {} /\ secrets = 0 /\ minted = {}
  /\ cryptoKeys = [k \in CryptoKeys |-> NoRow]
  /\ keyVersions = [k \in CryptoKeys |-> <<>>]
  /\ allocations = [k \in CryptoKeys |-> <<>>]
  /\ kmsCalls = [c \in KmsCallers |-> NoKmsCall]

(* purposeUsesPrimaryVersion(), algorithmMatchesPurpose()                    *)
UsesPrimary(k) == cryptoKeys[k].purpose = "ENCRYPT_DECRYPT"
Suits(algorithm, purpose) == PurposeOf[algorithm] = purpose
IsCryptoKey(k) == cryptoKeys[k] # NoRow
IsVersion(k, n) == n \in DOMAIN keyVersions[k]
IsEnabled(k, n) == IsVersion(k, n) /\ keyVersions[k][n].state = "ENABLED"
IsIdle(c) == kmsCalls[c] = NoKmsCall
Becomes(c, call) == kmsCalls' = [kmsCalls EXCEPT ![c] = call]
KeysKept == UNCHANGED <<rings, cryptoKeys>>
VersionsKept == UNCHANGED <<keyVersions, secrets, minted>>

-----------------------------------------------------------------------------
(* Key rings and keys                                                        *)

CreateKeyRing(r) ==
  /\ r \notin rings /\ rings' = rings \cup {r}
  /\ UNCHANGED <<cryptoKeys, allocations, kmsCalls>> /\ VersionsKept

(* addVersion() puts the caller at the end of the key's chain of promises.   *)
AddVersion(c, k) ==
  /\ allocations' = [allocations EXCEPT ![k] = Append(@, c)]
  /\ Becomes(c, [step |-> "queued", key |-> k])

CreateCryptoKey(c, k, request) ==
  /\ IsIdle(c) /\ RingOf[k] \in rings /\ ~IsCryptoKey(k)
  /\ Suits(request.algorithm, request.purpose)
  /\ cryptoKeys' = [cryptoKeys EXCEPT ![k] = [purpose |-> request.purpose,
                                              algorithm |-> request.algorithm, primary |-> NoRow]]
  /\ IF request.skipInitialVersion THEN UNCHANGED <<allocations, kmsCalls>> ELSE AddVersion(c, k)
  /\ UNCHANGED rings /\ VersionsKept

(* A new version template applies to the versions created from now on.       *)
UpdateCryptoKey(k, algorithm) ==
  /\ IsCryptoKey(k) /\ Suits(algorithm, cryptoKeys[k].purpose)
  /\ cryptoKeys' = [cryptoKeys EXCEPT ![k].algorithm = algorithm]
  /\ UNCHANGED <<rings, allocations, kmsCalls>> /\ VersionsKept

CreateCryptoKeyVersion(c, k) ==
  /\ IsIdle(c) /\ IsCryptoKey(k) /\ AddVersion(c, k)
  /\ KeysKept /\ VersionsKept

-----------------------------------------------------------------------------
(* allocateVersion(): reads, inserts and, for the first version of a key     *)
(* that encrypts, makes it primary.                                          *)

Turn(c, k) == kmsCalls[c].step = "queued" /\ Head(allocations[k]) = c /\ kmsCalls[c].key = k

HighestVersionNumber(k) ==
  IF keyVersions[k] = <<>> THEN 0
  ELSE CHOOSE n \in DOMAIN keyVersions[k] : \A m \in DOMAIN keyVersions[k] : m <= n

AllocationReads(c, k) ==
  /\ allocations[k] # <<>> /\ Turn(c, k)
  /\ Becomes(c, [step |-> "allocating", key |-> k, number |-> HighestVersionNumber(k) + 1,
                 read |-> cryptoKeys[k]])
  /\ UNCHANGED allocations /\ KeysKept /\ VersionsKept

LeavesQueue(k) == allocations' = [allocations EXCEPT ![k] = Tail(@)]

(* createVersion() throws when the name exists.                              *)
AllocationInserts(c) ==
  LET call == kmsCalls[c]  k == call.key
      version == [state |-> "ENABLED", algorithm |-> call.read.algorithm, secret |-> secrets + 1]
      sets == call.read.primary = NoRow /\ UsesPrimary(k)
  IN /\ call.step = "allocating" /\ secrets < KmsVersions
     /\ IF IsVersion(k, call.number)
        THEN /\ Becomes(c, [step |-> "failed"]) /\ LeavesQueue(k)
             /\ UNCHANGED <<secrets, keyVersions>>
        ELSE /\ secrets' = secrets + 1
             /\ keyVersions' = [keyVersions EXCEPT ![k] =
                                  [n \in DOMAIN @ \cup {call.number} |->
                                     IF n = call.number THEN version ELSE @[n]]]
             /\ IF sets
                THEN /\ Becomes(c, [step |-> "primary", key |-> k, number |-> call.number])
                     /\ UNCHANGED allocations
                ELSE Becomes(c, NoKmsCall) /\ LeavesQueue(k)
     /\ KeysKept /\ UNCHANGED minted

AllocationSetsPrimary(c) ==
  LET call == kmsCalls[c]
  IN /\ call.step = "primary"
     /\ cryptoKeys' = [cryptoKeys EXCEPT ![call.key].primary = call.number]
     /\ Becomes(c, NoKmsCall) /\ LeavesQueue(call.key)
     /\ UNCHANGED rings /\ VersionsKept

-----------------------------------------------------------------------------
(* Requests about one version: the read with its checks, then the write.     *)

AskPrimary(c, k, n) ==
  /\ IsIdle(c) /\ IsCryptoKey(k) /\ UsesPrimary(k) /\ IsEnabled(k, n)
  /\ Becomes(c, [step |-> "choosePrimary", key |-> k, number |-> n])
  /\ UNCHANGED allocations /\ KeysKept /\ VersionsKept

UpdatePrimaryVersion(c) ==
  LET call == kmsCalls[c]
  IN /\ call.step = "choosePrimary"
     /\ cryptoKeys' = [cryptoKeys EXCEPT ![call.key].primary = call.number]
     /\ Becomes(c, NoKmsCall)
     /\ UNCHANGED <<rings, allocations>> /\ VersionsKept

AskUpdate(c, k, n, target) ==
  /\ IsIdle(c) /\ IsVersion(k, n) /\ target \in {"ENABLED", "DISABLED"}
  /\ keyVersions[k][n].state \in {"ENABLED", "DISABLED"}
  /\ Becomes(c, [step |-> "setState", key |-> k, number |-> n, target |-> target])
  /\ UNCHANGED allocations /\ KeysKept /\ VersionsKept

AskDestroy(c, k, n) ==
  /\ IsIdle(c) /\ IsVersion(k, n) /\ keyVersions[k][n].state # "DESTROY_SCHEDULED"
  /\ Becomes(c, [step |-> "setState", key |-> k, number |-> n, target |-> "DESTROY_SCHEDULED"])
  /\ UNCHANGED allocations /\ KeysKept /\ VersionsKept

RestoredInUse == "ENABLED"  \* mutant: a restored version is in use at once

RestoredState == "DISABLED"

AskRestore(c, k, n) ==
  /\ IsIdle(c) /\ IsVersion(k, n) /\ keyVersions[k][n].state = "DESTROY_SCHEDULED"
  /\ Becomes(c, [step |-> "restore", key |-> k, number |-> n])
  /\ UNCHANGED allocations /\ KeysKept /\ VersionsKept

WriteState(c) ==
  LET call == kmsCalls[c]
      target == IF call.step = "restore" THEN RestoredState ELSE call.target
  IN /\ call.step \in {"setState", "restore"}
     /\ keyVersions' = [keyVersions EXCEPT ![call.key][call.number].state = target]
     /\ Becomes(c, NoKmsCall)
     /\ UNCHANGED <<allocations, secrets, minted>> /\ KeysKept

-----------------------------------------------------------------------------
(* Operations with a secret                                                  *)

AskEncrypt(c, k) ==
  /\ IsIdle(c) /\ IsCryptoKey(k) /\ UsesPrimary(k) /\ cryptoKeys[k].primary # NoRow
  /\ Becomes(c, [step |-> "encrypt", key |-> k, number |-> cryptoKeys[k].primary])
  /\ UNCHANGED allocations /\ KeysKept /\ VersionsKept

(* symmetricEncrypt() writes the version's number into the envelope.         *)
Envelope(k, n, secret) == [key |-> k, number |-> n, secret |-> secret]

Encrypt(c) ==
  LET call == kmsCalls[c]  k == call.key
  IN /\ call.step = "encrypt"
     /\ minted' = IF IsEnabled(k, call.number)
                  THEN minted \cup {Envelope(k, call.number, keyVersions[k][call.number].secret)}
                  ELSE minted
     /\ Becomes(c, NoKmsCall)
     /\ UNCHANGED <<allocations, keyVersions, secrets>> /\ KeysKept

(* asymmetricSign() and macSign() name the version themselves.               *)
SignWith(k, n) ==
  /\ IsEnabled(k, n) /\ PurposeOf[keyVersions[k][n].algorithm] \in {"MAC", "ASYMMETRIC_SIGN"}
  /\ minted' = minted \cup {Envelope(k, n, keyVersions[k][n].secret)}
  /\ UNCHANGED <<allocations, kmsCalls, keyVersions, secrets>> /\ KeysKept

(* What decrypt(), or macVerify() and a verification with getPublicKey(),    *)
(* answer for an output: it is refused while its version is not ENABLED.     *)
Answer(output) ==
  IF ~IsVersion(output.key, output.number) THEN "no such version"
  ELSE IF ~IsEnabled(output.key, output.number) THEN "refused"
  ELSE IF keyVersions[output.key][output.number].secret = output.secret THEN "good" ELSE "corrupt"

-----------------------------------------------------------------------------
Allocates(c) ==
  \/ \E k \in CryptoKeys : AllocationReads(c, k)
  \/ AllocationInserts(c)
  \/ AllocationSetsPrimary(c)

AsksAbout(c, k, n) ==
  \/ AskPrimary(c, k, n) \/ AskDestroy(c, k, n) \/ AskRestore(c, k, n)
  \/ \E target \in VersionStates : AskUpdate(c, k, n, target)

KmsNext ==
  \/ \E r \in KeyRings : CreateKeyRing(r)
  \/ \E k \in CryptoKeys :
       \/ \E algorithm \in KeyAlgorithms : UpdateCryptoKey(k, algorithm)
       \/ \E n \in DOMAIN keyVersions[k] : SignWith(k, n)
  \/ \E c \in KmsCallers, k \in CryptoKeys :
       \/ \E request \in KeyRequests : CreateCryptoKey(c, k, request)
       \/ CreateCryptoKeyVersion(c, k)
       \/ AskEncrypt(c, k)
       \/ \E n \in DOMAIN keyVersions[k] : AsksAbout(c, k, n)
  \/ \E c \in KmsCallers :
       Allocates(c) \/ UpdatePrimaryVersion(c) \/ WriteState(c) \/ Encrypt(c)

KmsSpec == KmsInit /\ [][KmsNext]_kmsVars

-----------------------------------------------------------------------------
(* The tables, the queues and the requests stay well formed.                 *)
KmsTypeOK ==
  /\ rings \subseteq KeyRings /\ secrets \in 0..KmsVersions /\ minted \subseteq Outputs
  /\ \A k \in CryptoKeys :
       /\ cryptoKeys[k] \in CryptoKeyRecords \cup {NoRow}
       /\ \A n \in DOMAIN keyVersions[k] : n \in Nat /\ keyVersions[k][n] \in VersionRecords
       /\ \A i \in DOMAIN allocations[k] :
            kmsCalls[allocations[k][i]].step \in {"queued", "allocating", "primary"}

(* A rotation never fails, however many run at once: addVersion() hands out  *)
(* the numbers of a key one after the other, without a gap.                  *)
RotationsSucceed ==
  /\ \A c \in KmsCallers : kmsCalls[c].step # "failed"
  /\ \A k \in CryptoKeys : DOMAIN keyVersions[k] = 1..HighestVersionNumber(k)

(* The primary version of a key exists, and a key that encrypts has one as   *)
(* soon as its first allocation is over; no other key has one.               *)
PrimaryExists ==
  \A k \in CryptoKeys : IsCryptoKey(k) =>
    IF cryptoKeys[k].primary # NoRow
    THEN UsesPrimary(k) /\ IsVersion(k, cryptoKeys[k].primary)
    ELSE UsesPrimary(k) /\ allocations[k] = <<>> => keyVersions[k] = <<>>

(* Rotation, a changed template or a changed primary never makes an output   *)
(* undecipherable: it is good whenever its version is ENABLED.               *)
OutputsStayGood == \A output \in minted : Answer(output) \in {"good", "refused"}

(* A version scheduled for destruction comes back disabled; only an update   *)
(* that read it before destroy() did can put it straight back into use       *)
(* (updateCryptoKeyVersion() checks the state it read before the write).     *)
DestroyedComesBackDisabled ==
  [][\A k \in CryptoKeys : \A n \in DOMAIN keyVersions[k] :
       keyVersions[k][n].state = "DESTROY_SCHEDULED" /\ keyVersions'[k][n].state = "ENABLED"
       => \E c \in KmsCallers :
            kmsCalls[c] = [step |-> "setState", key |-> k, number |-> n, target |-> "ENABLED"]]_kmsVars

(* Every rotation that was queued is over at some time: an allocation that   *)
(* has ended lets the next one of its key begin.                             *)
RotationsEnd ==
  \A c \in KmsCallers : (kmsCalls[c].step = "queued")
                          ~> (kmsCalls[c].step # "queued" \/ secrets = KmsVersions)

(* Keys, their versions and what was encrypted with them agree.              *)
KmsInvariant == KmsTypeOK /\ RotationsSucceed /\ PrimaryExists /\ OutputsStayGood
KeysHold == []KmsInvariant /\ DestroyedComesBackDisabled
=============================================================================
