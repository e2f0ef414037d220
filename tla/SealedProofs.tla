----------------------------- MODULE SealedProofs -----------------------------
(***************************************************************************)
(* Proofs about sealed content, for any gates, any numbers in them, any    *)
(* spelling of tokens and any key names.                                   *)
(***************************************************************************)
EXTENDS SealedContent, TLAPS

-----------------------------------------------------------------------------
(* The preimages. *)

Versions == {1, 3, 4}

LEMMA GateFields ==
  ASSUME NEW g, IsGate(g)
  PROVE  /\ g.version \in Versions
         /\ g.version = 1 => DOMAIN g = GateMetadata
         /\ g.version = 3 => DOMAIN g = GateMetadataV3Json
         /\ g.version = 4 => DOMAIN g = GateMetadataV4Json
BY DEF IsGate, Versions

LEMMA VersionsDiffer == 1 # 3 /\ 1 # 4 /\ 3 # 4 /\ 3 # 1 /\ 4 # 1 /\ 4 # 3
OBVIOUS

LEMMA PyCases ==
  ASSUME NEW g
  PROVE  /\ g.version = 1 => PyInput(g) = PyInputV1(g)
         /\ g.version = 3 => PyInput(g) = PyInputV3(g)
         /\ g.version = 4 => PyInput(g) = PyInputV4(g)
BY Zenon, VersionsDiffer DEF PyInput

LEMMA TSCases ==
  ASSUME NEW g
  PROVE  /\ g.version = 1 => TSInput(g) = TSInputV1(g)
         /\ g.version = 3 => TSInput(g) = TSInputV3(g)
         /\ g.version = 4 => TSInput(g) = TSInputV4(g)
BY Zenon, VersionsDiffer DEF TSInput

LEMMA CanisterCases ==
  ASSUME NEW g
  PROVE  /\ g.version = 1 => CanisterInput(g) = CanisterInputV1(g)
         /\ g.version = 3 => CanisterInput(g) = CanisterInputV3(g)
         /\ g.version = 4 => CanisterInput(g) = CanisterInputV4(g)
BY Zenon, VersionsDiffer DEF CanisterInput

LEMMA DecodedCases ==
  ASSUME NEW g
  PROVE  /\ g.version = 1 => Decoded(g) = g
         /\ g.version = 3 => Decoded(g) = DecodedV3(g)
         /\ g.version = 4 => Decoded(g) = DecodedV4(g)
BY Zenon, VersionsDiffer DEF Decoded

(* The two SDKs derive alike.                                              *)
LEMMA SDKsAgree ==
  ASSUME NEW g, IsGate(g)
  PROVE  PyInput(g) = TSInput(g)
BY GateFields, PyCases, TSCases
   DEF Versions, PyInputV1, PyInputV3, PyInputV4, TSInputV1, TSInputV3, TSInputV4

(* For a gate that a builder lets through the canister derives as they do. *)
LEMMA CanisterAgrees ==
  ASSUME NEW g, IsGate(g), g.version # 1 => ZeroRule(g)
  PROVE  CanisterInput(g) = TSInput(g)
<1>1. g.version # 1 => EffectiveEpoch(g) = g.epoch
  BY DEF ZeroRule, EffectiveEpoch
<1> QED
  BY <1>1, GateFields, TSCases, CanisterCases
     DEF Versions, TSInputV1, TSInputV3, TSInputV4,
         CanisterInputV1, CanisterInputV3, CanisterInputV4

(* The canister's identity of h is the SDKs' of g only if the gates ask    *)
(* for the same, but for the epoch of a free gate.                         *)
LEMMA IdentityBinds ==
  ASSUME NEW g, IsGate(g), NEW h, IsGate(h), CanisterInput(h) = TSInput(g)
  PROVE  /\ g.version = h.version /\ g.threshold = h.threshold
         /\ g.version # 1 => g.epoch = EffectiveEpoch(h)
         /\ g.version = 4 => g.marketCapTarget = h.marketCapTarget
<1>1. g.version \in Versions /\ h.version \in Versions
  BY GateFields
<1>2. g.version = h.version
  BY <1>1, TSCases, CanisterCases
     DEF Versions, TSInputV1, TSInputV3, TSInputV4,
         CanisterInputV1, CanisterInputV3, CanisterInputV4
<1> QED
  BY <1>1, <1>2, TSCases, CanisterCases
     DEF Versions, TSInputV1, TSInputV3, TSInputV4,
         CanisterInputV1, CanisterInputV3, CanisterInputV4

(* What TypeScript reads is a gate, and one whose numbers are natural if   *)
(* the parser takes it.                                                    *)
LEMMA DecodedIsGate ==
  ASSUME NEW g, IsGate(g)
  PROVE  IsGate(Decoded(g))
<1>1. CASE g.version = 1
  BY DecodedCases, <1>1
<1>2. CASE g.version = 3
  <2>1. DOMAIN DecodedV3(g) = GateMetadataV3Json /\ DecodedV3(g).version = 3
    BY <1>2, GateFields DEF DecodedV3, GateMetadataV3Json
  <2> QED
    BY DecodedCases, <1>2, <2>1 DEF IsGate
<1>3. CASE g.version = 4
  <2>1. DOMAIN DecodedV4(g) = GateMetadataV4Json /\ DecodedV4(g).version = 4
    BY <1>3, GateFields DEF DecodedV4, GateMetadataV4Json
  <2> QED
    BY DecodedCases, <1>3, <2>1 DEF IsGate
<1> QED
  BY <1>1, <1>2, <1>3, GateFields DEF Versions

LEMMA AcceptedIsNatural ==
  ASSUME NEW g, NEW text, TSAccepts(g, text)
  PROVE  Natural(g)
BY DEF TSAccepts, TSAcceptsV1, TSAcceptsV3, TSAcceptsV4, Natural

-----------------------------------------------------------------------------
(* The inductive invariant. *)

(* A record is of a gate that one of the builders let through, and its key *)
(* is sealed to the identity both SDKs derive from the gate.               *)
Sealed ==
  record # NoRecord =>
    /\ record.gate \in Gates /\ record.keyText \in KeyTexts
    /\ record.under \in KeyNames
    /\ record.gate.version # 1 => ZeroRule(record.gate)
    /\ record.identity = TSInput(record.gate)

Earned(g, s) ==
  /\ g.threshold <= s.balance
  /\ g.version # 1 => g.epoch <= s.time
  /\ g.version = 4 => g.marketCapTarget <= s.cap

(* A request names a gate of natural numbers, and where it has opened the  *)
(* content it has shown what the record asks for.                          *)
Reading ==
  reading # NoReading =>
    /\ record # NoRecord
    /\ reading = [named |-> reading.named, identity |-> reading.identity,
                  shown |-> reading.shown, file |-> reading.file,
                  outcome |-> reading.outcome]
    /\ IsGate(reading.named) /\ Natural(reading.named)
    /\ reading.shown \in Shown /\ reading.file \in Files
    /\ reading.outcome \in Outcomes
    /\ reading.outcome = "opened" => Earned(record.gate, reading.shown)

SealedInv ==
  /\ keyName \in KeyNames
  /\ memo \in KeyNames \cup {NoKey}
  /\ Sealed
  /\ Reading

LEMMA PublishKeeps ==
  ASSUME SealedInv, PublishWithPython \/ PublishWithTypeScript
  PROVE  SealedInv'
<1>1. PICK g \in Gates, text \in KeyTexts :
        /\ Publish(g, text, TSInput(g))
        /\ g.version # 1 => ZeroRule(g)
  <2>1. ASSUME NEW g \in Gates, NEW text \in KeyTexts, PyBuilds(g, text),
               Publish(g, text, PyInput(g))
        PROVE  Publish(g, text, TSInput(g)) /\ (g.version # 1 => ZeroRule(g))
    BY <2>1, SDKsAgree, SealedConstants DEF PyBuilds, PyBuildsV3, PyBuildsV4
  <2>2. ASSUME NEW g \in Gates, NEW text \in KeyTexts, TSBuilds(g, text)
        PROVE  g.version # 1 => ZeroRule(g)
    BY <2>2 DEF TSBuilds, TSBuildsV3, TSBuildsV4
  <2> QED
    BY <2>1, <2>2 DEF PublishWithPython, PublishWithTypeScript
<1>2. PICK k \in KeyNames :
        record' = [gate |-> g, keyText |-> text, identity |-> TSInput(g), under |-> k]
  BY <1>1 DEF Publish
<1>3. /\ record'.gate = g /\ record'.keyText = text
      /\ record'.identity = TSInput(g) /\ record'.under = k
      /\ record = NoRecord /\ UNCHANGED <<keyName, memo, reading>>
  BY <1>1, <1>2 DEF Publish
<1>4. Sealed'
  BY <1>1, <1>3 DEF Sealed
<1>5. reading = NoReading
  BY <1>3 DEF SealedInv, Reading
<1> QED
  BY <1>3, <1>4, <1>5 DEF SealedInv, Reading

LEMMA AskKeeps ==
  ASSUME SealedInv, NEW g, IsGate(g), Natural(g), NEW identity, Ask(g, identity)
  PROVE  SealedInv'
<1>1. PICK s \in Shown :
        reading' = [named |-> g, identity |-> identity, shown |-> s,
                    file |-> "content", outcome |-> "waiting"]
  BY DEF Ask
<1>2. record # NoRecord /\ UNCHANGED <<keyName, memo, record>>
  BY DEF Ask
<1>3. /\ reading'.named = g /\ reading'.identity = identity /\ reading'.shown = s
      /\ reading'.file = "content" /\ reading'.outcome = "waiting"
  BY <1>1
<1>4. Reading'
  BY <1>1, <1>2, <1>3 DEF Reading, Files, Outcomes
<1> QED
  BY <1>2, <1>4 DEF SealedInv, Sealed

(* An answer: a refusal, or a key that does not open the content, or one   *)
(* that was earned.                                                        *)
LEMMA AnswerKeeps ==
  ASSUME SealedInv, reading # NoReading, UNCHANGED <<keyName, record>>,
         memo' \in KeyNames \cup {NoKey},
         NEW f \in Files, NEW outcome \in Outcomes,
         reading' = [reading EXCEPT !.file = f, !.outcome = outcome],
         outcome = "opened" => Earned(record.gate, reading.shown)
  PROVE  SealedInv'
<1>1. /\ reading = [named |-> reading.named, identity |-> reading.identity,
                    shown |-> reading.shown, file |-> reading.file,
                    outcome |-> reading.outcome]
      /\ record # NoRecord /\ IsGate(reading.named) /\ Natural(reading.named)
      /\ reading.shown \in Shown
  BY DEF SealedInv, Reading
<1>2. /\ reading'.named = reading.named /\ reading'.identity = reading.identity
      /\ reading'.shown = reading.shown /\ reading'.file = f
      /\ reading'.outcome = outcome
      /\ reading' = [named |-> reading.named, identity |-> reading.identity,
                     shown |-> reading.shown, file |-> f, outcome |-> outcome]
  BY <1>1
<1>3. Reading'
  BY <1>1, <1>2 DEF Reading
<1> QED
  BY <1>3 DEF SealedInv, Sealed

(* What was granted for the named gate, and opens the content, was earned  *)
(* for the gate of the record.                                             *)
LEMMA GrantEarns ==
  ASSUME SealedInv, reading # NoReading, Grants(reading.named, reading.shown),
         CanisterInput(reading.named) = reading.identity, Unsealed
  PROVE  Earned(record.gate, reading.shown)
<1> DEFINE g == record.gate
           h == reading.named
           s == reading.shown
<1>1. /\ IsGate(g) /\ IsGate(h) /\ Natural(h) /\ s \in Shown
      /\ CanisterInput(h) = TSInput(g)
  BY SealedConstants DEF SealedInv, Sealed, Reading, Unsealed
<1>2. s.balance \in Nat /\ s.cap \in Nat /\ s.time \in Nat
  BY <1>1, SealedConstants DEF Shown
<1> HIDE DEF g, h, s
<1>3. /\ g.version = h.version /\ g.threshold = h.threshold
      /\ g.version # 1 => g.epoch = EffectiveEpoch(h)
      /\ g.version = 4 => g.marketCapTarget = h.marketCapTarget
  BY <1>1, IdentityBinds
<1>4. Grants(h, s)
  BY DEF h, s
<1>5. Earned(g, s)
  BY <1>1, <1>2, <1>3, <1>4, GateFields
     DEF Grants, GrantsV1, GrantsV3, GrantsV4, Earned, EffectiveEpoch, Natural, Versions
<1> QED
  BY <1>5 DEF g, s

LEMMA KeyReturnsKeeps ==
  ASSUME SealedInv, KeyReturns
  PROVE  SealedInv'
<1>1. /\ reading # NoReading /\ Grants(reading.named, reading.shown)
      /\ UNCHANGED <<keyName, record>> /\ memo' \in KeyNames \cup {NoKey}
      /\ reading.file \in Files
      /\ reading = [named |-> reading.named, identity |-> reading.identity,
                    shown |-> reading.shown, file |-> reading.file,
                    outcome |-> reading.outcome]
  BY DEF KeyReturns, SealedInv, Reading
<1>2. ASSUME NEW outcome \in {"unverified", "sealed"}, Answered(outcome)
      PROVE  SealedInv'
  <2>1. reading' = [reading EXCEPT !.file = reading.file, !.outcome = outcome]
    BY <1>1, <1>2 DEF Answered
  <2> QED
    BY <1>1, <1>2, <2>1, AnswerKeeps DEF Outcomes
<1>3. ASSUME Recovered(memo'), Unsealed, Decrypt
      PROVE  SealedInv'
  <2>1. Earned(record.gate, reading.shown)
    BY <1>1, <1>3, GrantEarns DEF Recovered
  <2>2. PICK f \in Files :
          reading' = [reading EXCEPT !.file = f,
                        !.outcome = IF f = "content" THEN "opened" ELSE "sealed"]
    BY <1>3 DEF Decrypt
  <2> QED
    BY <1>1, <2>1, <2>2, AnswerKeeps DEF Outcomes
<1> QED
  BY <1>2, <1>3 DEF KeyReturns

LEMMA SealedStep ==
  ASSUME SealedInv, [Next]_vars
  PROVE  SealedInv'
<1>1. ASSUME ReadRecord PROVE SealedInv'
  <2> DEFINE g == Decoded(record.gate)
  <2>1. record # NoRecord /\ TSAccepts(g, record.keyText) /\ Ask(g, TSInput(g))
    BY <1>1 DEF ReadRecord
  <2>2. IsGate(g) /\ Natural(g)
    BY <2>1, DecodedIsGate, AcceptedIsNatural, SealedConstants DEF SealedInv, Sealed
  <2> QED
    BY <2>1, <2>2, AskKeeps
<1>2. ASSUME NameGate PROVE SealedInv'
  BY <1>2, AskKeeps, SealedConstants DEF NameGate
<1>3. ASSUME Refused PROVE SealedInv'
  <2>1. /\ reading # NoReading /\ UNCHANGED <<keyName, memo, record>>
        /\ reading' = [reading EXCEPT !.outcome = "refused"]
    BY <1>3 DEF Refused, Answered
  <2>2. /\ reading = [named |-> reading.named, identity |-> reading.identity,
                      shown |-> reading.shown, file |-> reading.file,
                      outcome |-> reading.outcome]
        /\ reading.file \in Files /\ memo' \in KeyNames \cup {NoKey}
    BY <2>1 DEF SealedInv, Reading
  <2>3. reading' = [reading EXCEPT !.file = reading.file, !.outcome = "refused"]
    BY <2>1, <2>2
  <2> QED
    BY <2>1, <2>2, <2>3, AnswerKeeps DEF Outcomes
<1>4. ASSUME Upgrade \/ Warmup \/ UNCHANGED vars PROVE SealedInv'
  BY <1>4 DEF Upgrade, Warmup, vars, SealedInv, Sealed, Reading
<1> QED
  BY <1>1, <1>2, <1>3, <1>4, PublishKeeps, KeyReturnsKeeps DEF Next

(* What every reachable state satisfies: records are sealed to what both   *)
(* SDKs derive, requests name gates, content that opened was earned.       *)
THEOREM SealedAlways == Spec => []SealedInv
<1>1. Init => SealedInv
  BY DEF Init, SealedInv, Sealed, Reading
<1> QED
  BY <1>1, SealedStep, PTL DEF Spec

(* Every variable has its type, and a caller's numbers are natural.        *)
THEOREM SealedTypes == Spec => []TypeOK
<1>1. SealedInv => TypeOK
  BY DEF SealedInv, Sealed, Reading, TypeOK
<1> QED
  BY <1>1, SealedAlways, PTL

(* What one builder lets through both parsers accept, but for an empty key *)
(* in TypeScript and a key beyond standard Base64 in Python: the eight     *)
(* places that tie a threshold of 0 to the epoch 0 agree.                  *)
THEOREM ReadableSafety == Spec => []RecordsReadable
<1>1. ASSUME SealedInv PROVE RecordsReadable
  <2> SUFFICES ASSUME record # NoRecord, Natural(record.gate)
               PROVE  /\ record.keyText # "empty" =>
                           TSAccepts(record.gate, record.keyText)
                      /\ record.gate.version = 1 \/ record.keyText \in StandardBase64 =>
                           PyAccepts(record.gate, record.keyText)
    BY DEF RecordsReadable
  <2>1. IsGate(record.gate) /\ (record.gate.version # 1 => ZeroRule(record.gate))
    BY <1>1, SealedConstants DEF SealedInv, Sealed
  <2> QED
    BY <2>1, GateFields DEF Versions, Natural, PyAccepts, PyAcceptsV3, PyAcceptsV4,
       TSAccepts, TSAcceptsV1, TSAcceptsV3, TSAcceptsV4
<1> QED
  BY <1>1, SealedAlways, PTL

(* Content opens only for who has shown what its publisher asked for,      *)
(* whatever gate was named to the canister.                                *)
THEOREM EarnedSafety == Spec => []OpensOnlyEarned
<1>1. SealedInv => OpensOnlyEarned
  BY DEF SealedInv, Reading, Earned, OpensOnlyEarned
<1> QED
  BY <1>1, SealedAlways, PTL

(* A key that is granted for the published record opens the content: each  *)
(* step that ends such a request ends it with the content opened.          *)
THEOREM GrantedSafety == Spec => GrantedOpens
<1>1. ASSUME SealedInv, [Next]_vars PROVE [OpensIfGranted]_vars
  <2> SUFFICES ASSUME reading # NoReading, reading.outcome = "waiting",
                      reading'.outcome \notin {"waiting", "refused"},
                      record.keyText = "base64",
                      reading.named = record.gate,
                      reading.identity = TSInput(record.gate),
                      reading'.file = "content", record.under = keyName,
                      memo \in {keyName, NoKey}
               PROVE  reading'.outcome = "opened"
    BY DEF OpensIfGranted
  <2>1. reading = [named |-> reading.named, identity |-> reading.identity,
                   shown |-> reading.shown, file |-> reading.file,
                   outcome |-> reading.outcome]
    BY <1>1 DEF SealedInv, Reading
  <2>2. KeyReturns
    BY <1>1, <2>1 DEF Next, vars, PublishWithPython, PublishWithTypeScript, Publish,
       ReadRecord, NameGate, Ask, Refused, Answered, Upgrade, Warmup
  <2>3. record # NoRecord /\ IsGate(record.gate)
        /\ (record.gate.version # 1 => ZeroRule(record.gate))
        /\ record.identity = reading.identity
    BY <1>1, SealedConstants DEF SealedInv, Sealed, Reading
  <2>4. Recovered(memo')
    BY <2>2, <2>3, CanisterAgrees DEF Recovered, KeyReturns
  <2>5. Unsealed
    BY <2>3 DEF Unsealed
  <2>6. Decrypt
    BY <2>2, <2>4, <2>5 DEF KeyReturns
  <2> QED
    BY <2>1, <2>6 DEF Decrypt
<1> QED
  BY <1>1, SealedAlways, PTL DEF Spec, GrantedOpens

=============================================================================
