---------------------------- MODULE SealedContent ----------------------------
(***************************************************************************)
(* What the two SDKs (packages/python, packages/typescript) and the        *)
(* canister have to agree on.  A publisher seals a content key to an       *)
(* identity derived from the gate, and writes the gate into a metadata     *)
(* record.  A reader parses the record, derives the identity again, asks   *)
(* the canister for the key of the gate, checks the key against the        *)
(* verification key that comes with it, and opens the content.             *)
(*                                                                         *)
(* There is one content and one reader.  A gate is a record with the       *)
(* fields of its protocol version.  SHA-256 does not collide: a digest is  *)
(* the tuple of what is hashed.  The sealed key is in the record as a text *)
(* the publisher made; of texts only the kinds that the builders and the   *)
(* parsers tell apart are kept.  Chains, CIDs of v3 and v4 and the layout  *)
(* of JSON are left out, and so is the oracle of a v4 gate, which is not   *)
(* derived from.  Whoever seals takes the key of the gate's own protocol   *)
(* version, so only the name of its master key is kept.                    *)
(***************************************************************************)
EXTENDS Integers

CONSTANTS
  Gates,        \* the gates a publisher may ask a builder for
  Requests,     \* the gates a caller may name to the canister
  LowerHex(_),  \* lowercases a spelling of the token address
  SafeMax,      \* Number.MAX_SAFE_INTEGER
  Balances, Caps, Times,  \* what the canister may find when it checks a gate
  KeyNames,     \* values of VETKD_KEY_NAME
  NoRecord, NoReading, NoKey

Natural(g) ==
  /\ g.threshold \in Nat
  /\ g.version # 1 => g.epoch \in Nat
  /\ g.version = 4 => g.marketCapTarget \in Nat

(* The fields of the records, as far as they are derived from. *)
GateMetadata == {"version", "token", "threshold", "cid"}
GateMetadataV3Json == {"version", "token", "threshold", "epoch"}
GateMetadataV4Json == {"version", "token", "threshold", "epoch", "marketCapTarget"}

IsGate(g) ==
  \/ g.version = 1 /\ DOMAIN g = GateMetadata
  \/ g.version = 3 /\ DOMAIN g = GateMetadataV3Json
  \/ g.version = 4 /\ DOMAIN g = GateMetadataV4Json

ASSUME SealedConstants ==
  /\ SafeMax \in Nat
  /\ \A g \in Gates \cup Requests : IsGate(g)
  /\ \A g \in Requests : Natural(g)
  /\ Balances \subseteq Nat /\ Caps \subseteq Nat /\ Times \subseteq Nat

(* The texts for encryptedAesKey: the sealed key in standard Base64; in    *)
(* another form with the same alphabet, hex for one; in a form that goes   *)
(* beyond it, with line breaks or the URL-safe digits; no text at all.     *)
KeyTexts == {"base64", "lookalike", "foreign", "empty"}

(* _BASE64_RE of Python, which TypeScript does not have. *)
StandardBase64 == {"base64", "lookalike"}

(* base64Decode gives the sealed key back.  Of a foreign text it may: the  *)
(* Buffer of Node skips line breaks and knows the URL-safe digits, atob    *)
(* knows no such digit.                                                    *)
Decodes(text) == text \in {"base64", "foreign"}

VARIABLES
  keyName,  \* the master key of the running canister
  memo,     \* the verification key it remembers, as the name of its master key
  record,   \* the published metadata, with what its key is sealed to
  reading   \* the latest request for the key of the content

vars == <<keyName, memo, record, reading>>

Outcomes == {"waiting", "refused", "unverified", "sealed", "opened"}

(* Whether the bytes that were fetched are those of the content. *)
Files == {"content", "other"}

Shown == [balance : Balances, cap : Caps, time : Times]

(* Every variable has its type; what a caller sends is natural, as the     *)
(* Nat of the Candid interface demands of each field.                      *)
TypeOK ==
  /\ keyName \in KeyNames
  /\ memo \in KeyNames \cup {NoKey}
  /\ record # NoRecord =>
       /\ record.gate \in Gates
       /\ record.keyText \in KeyTexts
       /\ record.under \in KeyNames
  /\ reading # NoReading =>
       /\ Natural(reading.named)
       /\ reading.outcome \in Outcomes
       /\ reading.shown \in Shown
       /\ reading.file \in Files

-----------------------------------------------------------------------------
(* The preimages, in each of the three programs.                           *)

PyInputV1(g) == <<"accessol", g.token, g.threshold, g.cid>>
PyInputV3(g) == <<"accessol_v3", g.token, g.threshold, g.epoch>>
PyInputV4(g) ==
  <<"accessol_v4", g.token, g.threshold, g.epoch, g.marketCapTarget>>

TSInputV1(g) == <<"accessol", g.token, g.threshold, g.cid>>
TSInputV3(g) == <<"accessol_v3", g.token, g.threshold, g.epoch>>
TSInputV4(g) ==
  <<"accessol_v4", g.token, g.threshold, g.epoch, g.marketCapTarget>>

(* The collapse: without a threshold the canister ignores the epoch.       *)
EffectiveEpoch(g) == IF g.threshold = 0 THEN 0 ELSE g.epoch

(* Broken on purpose: hashes the token as the balance check compares it. *)
LowerInputV3(g) ==
  <<"accessol_v3", LowerHex(g.token), g.threshold, EffectiveEpoch(g)>>

CanisterInputV1(g) == <<"accessol", g.token, g.threshold, g.cid>>
CanisterInputV3(g) == <<"accessol_v3", g.token, g.threshold, EffectiveEpoch(g)>>
CanisterInputV4(g) ==
  <<"accessol_v4", g.token, g.threshold, EffectiveEpoch(g), g.marketCapTarget>>

PyInput(g) ==
  CASE g.version = 1 -> PyInputV1(g)
    [] g.version = 3 -> PyInputV3(g)
    [] g.version = 4 -> PyInputV4(g)

TSInput(g) ==
  CASE g.version = 1 -> TSInputV1(g)
    [] g.version = 3 -> TSInputV3(g)
    [] g.version = 4 -> TSInputV4(g)

CanisterInput(g) ==
  CASE g.version = 1 -> CanisterInputV1(g)
    [] g.version = 3 -> CanisterInputV3(g)
    [] g.version = 4 -> CanisterInputV4(g)

-----------------------------------------------------------------------------
(* The builders of metadata: the gates and the texts they do not raise on. *)
(* The Python derivation has refused what is not natural before its        *)
(* builder does.                                                           *)

ZeroRule(g) == g.threshold = 0 => g.epoch = 0

(* Broken on purpose: lets the canister collapse the epoch silently. *)
WithoutZeroRule(g, text) ==
  g.threshold \in Nat /\ g.epoch \in Nat /\ text \in StandardBase64

(* The builder of v1 takes bytes, none included, and encodes them itself.  *)
PyBuildsV1(g, text) == g.threshold \in Nat /\ text \in {"base64", "empty"}
PyBuildsV3(g, text) ==
  /\ g.threshold \in Nat /\ g.epoch \in Nat /\ ZeroRule(g)
  /\ text \in StandardBase64
PyBuildsV4(g, text) ==
  /\ g.threshold \in Nat /\ g.epoch \in Nat /\ g.marketCapTarget \in Nat
  /\ ZeroRule(g)
  /\ text \in StandardBase64

PyBuilds(g, text) ==
  \/ g.version = 1 /\ PyBuildsV1(g, text)
  \/ g.version = 3 /\ PyBuildsV3(g, text)
  \/ g.version = 4 /\ PyBuildsV4(g, text)

IsSafeInteger(n) == -SafeMax <= n /\ n <= SafeMax

(* Negative bigints pass normalizeThreshold and normalizeEpoch of v3, not  *)
(* normalizeNat of v4.  There is no builder of v1.                         *)
normalizeThreshold(n) == n \in Int
normalizeEpoch(n) == n \in Int
normalizeNat(n) == n \in Nat

TSBuildsV3(g, text) ==
  /\ text # "empty"
  /\ normalizeThreshold(g.threshold) /\ normalizeEpoch(g.epoch)
  /\ ZeroRule(g) /\ IsSafeInteger(g.epoch)
TSBuildsV4(g, text) ==
  /\ text # "empty"
  /\ normalizeNat(g.threshold) /\ normalizeNat(g.epoch)
  /\ normalizeNat(g.marketCapTarget)
  /\ ZeroRule(g)
  /\ IsSafeInteger(g.epoch) /\ IsSafeInteger(g.marketCapTarget)

TSBuilds(g, text) ==
  \/ g.version = 3 /\ TSBuildsV3(g, text)
  \/ g.version = 4 /\ TSBuildsV4(g, text)

-----------------------------------------------------------------------------
(* The parsers.  A threshold is a string of digits in JSON, an epoch and a *)
(* target are numbers, which TypeScript reads as doubles: from SafeMax to  *)
(* its double only the even ones are there, and ties go to a multiple of 4.*)

Double(n) ==
  IF n <= SafeMax \/ n % 2 = 0 THEN n
  ELSE IF (n - 1) % 4 = 0 THEN n - 1 ELSE n + 1

PyAcceptsV3(g, text) ==
  /\ g.threshold \in Nat /\ g.epoch \in Nat /\ ZeroRule(g)
  /\ text \in StandardBase64
PyAcceptsV4(g, text) ==
  /\ g.threshold \in Nat /\ g.epoch \in Nat /\ g.marketCapTarget \in Nat
  /\ ZeroRule(g)
  /\ text \in StandardBase64

(* parse_gate_metadata; the fields of a v1 record are not looked at.       *)
PyAccepts(g, text) ==
  \/ g.version = 1
  \/ g.version = 3 /\ PyAcceptsV3(g, text)
  \/ g.version = 4 /\ PyAcceptsV4(g, text)

(* Broken on purpose: a threshold may have a sign. *)
SignedThreshold(g, text) == ZeroRule(g) /\ g.epoch \in Nat /\ text # "empty"

TSAcceptsV1(g, text) == g.threshold \in Nat /\ text # "empty"
TSAcceptsV3(g, text) ==
  /\ g.threshold \in Nat /\ g.epoch \in Nat /\ ZeroRule(g)
  /\ text # "empty"
TSAcceptsV4(g, text) ==
  /\ g.threshold \in Nat /\ g.epoch \in Nat /\ g.marketCapTarget \in Nat
  /\ ZeroRule(g)
  /\ text # "empty"

TSAccepts(g, text) ==
  \/ g.version = 1 /\ TSAcceptsV1(g, text)
  \/ g.version = 3 /\ TSAcceptsV3(g, text)
  \/ g.version = 4 /\ TSAcceptsV4(g, text)

(* What JSON.parse makes of a record. *)
DecodedV3(g) == [g EXCEPT !.epoch = Double(@)]
DecodedV4(g) == [g EXCEPT !.epoch = Double(@), !.marketCapTarget = Double(@)]

Decoded(g) ==
  CASE g.version = 1 -> g
    [] g.version = 3 -> DecodedV3(g)
    [] g.version = 4 -> DecodedV4(g)

-----------------------------------------------------------------------------
(* The canister's gates, as the modules of the gates have them in detail.  *)

GrantsV1(g, s) == g.threshold # 0 /\ g.threshold <= s.balance

(* Broken on purpose: a request may be an epoch early. *)
EarlyV3(g, s) == g.epoch <= s.time + 1 /\ g.threshold <= s.balance

GrantsV3(g, s) == g.epoch <= s.time /\ g.threshold <= s.balance
GrantsV4(g, s) ==
  /\ g.epoch <= s.time /\ g.threshold <= s.balance
  /\ g.marketCapTarget <= s.cap

Grants(g, s) ==
  \/ g.version = 1 /\ GrantsV1(g, s)
  \/ g.version = 3 /\ GrantsV3(g, s)
  \/ g.version = 4 /\ GrantsV4(g, s)

-----------------------------------------------------------------------------
Init ==
  /\ keyName \in KeyNames
  /\ memo = NoKey
  /\ record = NoRecord
  /\ reading = NoReading

(* Seals to the identity under key k, and builds the record with what the  *)
(* publisher made of the sealed key.  k was fetched from the canister      *)
(* earlier, or derived offline from a key name the publisher has           *)
(* configured, so it may be any of the keys.                               *)
Publish(g, text, identity) ==
  /\ record = NoRecord
  /\ \E k \in KeyNames :
       record' = [gate |-> g, keyText |-> text, identity |-> identity, under |-> k]
  /\ UNCHANGED <<keyName, memo, reading>>

PublishWithPython ==
  \E g \in Gates, text \in KeyTexts :
    PyBuilds(g, text) /\ Publish(g, text, PyInput(g))

PublishWithTypeScript ==
  \E g \in Gates, text \in KeyTexts :
    TSBuilds(g, text) /\ Publish(g, text, TSInput(g))

Ask(g, identity) ==
  /\ record # NoRecord
  /\ reading # NoReading => reading.outcome # "waiting"
  /\ \E s \in Shown :
       reading' = [named |-> g, identity |-> identity, shown |-> s,
                   file |-> "content", outcome |-> "waiting"]
  /\ UNCHANGED <<keyName, memo, record>>

(* The calls decryptGatedFile makes, and the same for a record of v3 or    *)
(* v4, with a request the canister finds signed (see SignedRequests).      *)
ReadRecord ==
  LET g == Decoded(record.gate)
  IN  record # NoRecord /\ TSAccepts(g, record.keyText) /\ Ask(g, TSInput(g))

(* The canister sees no record: a caller may name any gate, and try the    *)
(* key on the content at hand.                                             *)
NameGate == \E g \in Requests : record # NoRecord /\ Ask(g, record.identity)

Answered(outcome) == reading' = [reading EXCEPT !.outcome = outcome]

Refused ==
  /\ reading # NoReading /\ reading.outcome = "waiting"
  /\ ~ Grants(reading.named, reading.shown)
  /\ Answered("refused")
  /\ UNCHANGED <<keyName, memo, record>>

(* recoverVetKey checks the key against the verification key and the       *)
(* identity, ibeDecryptAesKey decodes the text of the sealed key and needs *)
(* the key of the sealed identity.                                         *)
Recovered(verificationKey) ==
  /\ verificationKey = keyName
  /\ CanisterInput(reading.named) = reading.identity

Unsealed ==
  record.under = keyName /\ record.identity = reading.identity

(* decryptFile: the tag of AES-GCM is right for the content's own bytes.   *)
Decrypt ==
  \E f \in Files :
    reading' = [reading EXCEPT !.file = f,
                  !.outcome = IF f = "content" THEN "opened" ELSE "sealed"]

(* The key of the running version, with the memo or, if there is none yet, *)
(* the verification key of the running version.                            *)
KeyReturns ==
  /\ reading # NoReading /\ reading.outcome = "waiting"
  /\ Grants(reading.named, reading.shown)
  /\ memo' = IF memo = NoKey THEN keyName ELSE memo
  /\ \/ ~ Recovered(memo') /\ Answered("unverified")
     \/ /\ Recovered(memo')
        /\ ~ Unsealed \/ record.keyText # "base64"
        /\ Answered("sealed")
     \/ /\ Recovered(memo')
        /\ Unsealed /\ Decodes(record.keyText)
        /\ Decrypt
  /\ UNCHANGED <<keyName, record>>

Upgrade ==
  /\ keyName' \in KeyNames
  /\ UNCHANGED <<memo, record, reading>>

Warmup ==
  /\ memo' = keyName
  /\ UNCHANGED <<keyName, record, reading>>

Next ==
  \/ PublishWithPython \/ PublishWithTypeScript
  \/ ReadRecord \/ NameGate
  \/ Refused \/ KeyReturns
  \/ Upgrade \/ Warmup

Spec == Init /\ [][Next]_vars

-----------------------------------------------------------------------------
(* What a builder of either SDK has emitted, the parsers of both accept,   *)
(* as the gate its publisher named, if its numbers are natural and fit a   *)
(* double.  With two exceptions: TypeScript refuses an empty key, and      *)
(* Python a key of v3 or v4 that is not in standard Base64                 *)
(* (metadata.ts 38, v3.py 314-318, v4.py 324-328).                         *)
RecordsReadable ==
  record # NoRecord /\ Natural(record.gate) /\ Decoded(record.gate) = record.gate
    => /\ record.keyText # "empty" => TSAccepts(record.gate, record.keyText)
       /\ record.gate.version = 1 \/ record.keyText \in StandardBase64 =>
            PyAccepts(record.gate, record.keyText)

(* An answer with the key, for the record as it was published with its key *)
(* in Base64, under a master key that was not rotated, and for the         *)
(* content's own bytes.                                                    *)
OpensIfGranted ==
  LET Ends == reading # NoReading /\ reading.outcome = "waiting"
                /\ reading'.outcome \notin {"waiting", "refused"}
      AsPublished == /\ record.keyText = "base64"
                     /\ reading.named = record.gate
                     /\ reading.identity = TSInput(record.gate)
                     /\ reading'.file = "content"
      NotRotated == record.under = keyName /\ memo \in {keyName, NoKey}
  IN  Ends /\ AsPublished /\ NotRotated => reading'.outcome = "opened"

(* A reader who reads the record as it was published, its key in standard  *)
(* Base64, is granted the key and has the bytes it belongs to, opens the   *)
(* content, with whichever SDK it was sealed: the two derivations agree    *)
(* with the canister's in spite of the collapse of the epoch.  Unless the  *)
(* master key was rotated: the one the content is sealed under, the        *)
(* running one and the memo's have to be the same.                         *)
GrantedOpens == [][OpensIfGranted]_vars

(* Whatever gate was named to the canister, content opens only for those   *)
(* who have shown what its publisher asked for: a balance of the           *)
(* threshold, a cap of the target, and an epoch that has begun.            *)
OpensOnlyEarned ==
  reading # NoReading /\ reading.outcome = "opened" =>
    LET g == record.gate
    IN  /\ g.threshold <= reading.shown.balance
        /\ g.version # 1 => g.epoch <= reading.shown.time
        /\ g.version = 4 => g.marketCapTarget <= reading.shown.cap

=============================================================================
