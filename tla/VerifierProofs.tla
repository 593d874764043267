----------------------------- MODULE VerifierProofs -----------------------------
(***************************************************************************)
(* The two places that judge evidence.  The verifier passes and fails for  *)
(* the right reasons, for every input; and no three altered fields make a  *)
(* card show another outcome than the record's, because an outcome is      *)
(* shown in four fields that the card compares with each other (CardInv    *)
(* counts how many of the four are not the record's).                      *)
(***************************************************************************)
EXTENDS MCVerifier, TLAPS

(***************************************************************************)
(* The verifier                                                            *)
(***************************************************************************)
Input ==
  [receipt: Receipt, evidence: Evidence, final: BOOLEAN, expected: Digests,
   charge: Charge, deadline: Int, time: Int]

\* What verify_cancellation answers.
Judgement(in) ==
  Verify(in.receipt, in.evidence, in.final, in.expected, in.charge, in.deadline, in.time)

LEMMA JudgementIsReason ==
  ASSUME NEW in
  PROVE  Judgement(in) \in Reasons /\ Judgement(in) # None
BY DEF Judgement, Verify, Reasons, None

\* PASS has one reason, whatever is to be judged (verify_cancellation).
THEOREM PassExplained ==
  ASSUME NEW in \in Input
  PROVE  VerdictOf(Judgement(in)) = "PASS" <=>
           /\ in.charge = NoCharge
           /\ TrustedReadBack(in)
           /\ in.evidence.autoRenew = "off" /\ in.evidence.endDate
<1>1. VerdictOf(Judgement(in)) = "PASS" <=> Judgement(in) = "cancelled"
  BY JudgementIsReason DEF VerdictOf
<1>2. Judgement(in) = "cancelled" <=>
        /\ in.charge = NoCharge
        /\ in.evidence.valid /\ in.evidence.readable /\ in.evidence.freshness = "within30"
        /\ in.receipt.valid /\ in.receipt.success
        /\ Correlated(in.receipt, in.evidence, in.expected)
        /\ in.evidence.autoRenew = "off" /\ in.evidence.endDate
  BY DEF Judgement, Verify
<1>3. Correlated(in.receipt, in.evidence, in.expected) <=>
        (in.expected # None =>
           in.evidence.bound /\ {in.receipt.digest, in.evidence.digest} = {in.expected})
  BY DEF Correlated
<1> QED BY <1>1, <1>2, <1>3 DEF TrustedReadBack

\* FAIL has two: a charge that proves it, or a trusted read-back on the final
\* look (verify_cancellation).
THEOREM FailExplained ==
  ASSUME NEW in \in Input
  PROVE  VerdictOf(Judgement(in)) = "FAIL" <=>
           \/ /\ in.charge # NoCharge /\ in.charge.genuine
              /\ in.expected # None /\ in.charge.digest = in.expected
              /\ in.deadline # Never
              /\ in.charge.at \in in.deadline..in.time
              /\ in.charge.at + ChargeMaxAge >= in.time
           \/ /\ in.charge = NoCharge
              /\ in.final
              /\ TrustedReadBack(in)
              /\ in.evidence.autoRenew = "on"
<1>1. VerdictOf(Judgement(in)) = "FAIL" <=>
        Judgement(in) = "charge_observed" \/ Judgement(in) = "window_ended"
  BY JudgementIsReason DEF VerdictOf
<1>2. Judgement(in) = "charge_observed" <=>
        /\ in.charge # NoCharge
        /\ ValidViolation(in.charge, in.expected, in.deadline, in.time)
  BY DEF Judgement, Verify
<1>3. Judgement(in) = "window_ended" <=>
        /\ in.charge = NoCharge
        /\ in.evidence.valid /\ in.evidence.readable /\ in.evidence.freshness = "within30"
        /\ in.receipt.valid /\ in.receipt.success
        /\ Correlated(in.receipt, in.evidence, in.expected)
        /\ in.evidence.autoRenew = "on" /\ in.final
  BY DEF Judgement, Verify
<1>4. Correlated(in.receipt, in.evidence, in.expected) <=>
        (in.expected # None =>
           in.evidence.bound /\ {in.receipt.digest, in.evidence.digest} = {in.expected})
  BY DEF Correlated
<1>5. in.charge.at \in Int /\ in.deadline \in Int /\ in.time \in Int /\ ChargeMaxAge \in Int
  BY ChargeMaxAgeAssumption DEF Input, Charge
<1>6. ValidViolation(in.charge, in.expected, in.deadline, in.time) <=>
        /\ in.charge.genuine
        /\ in.expected # None /\ in.charge.digest = in.expected
        /\ in.deadline # Never
        /\ in.charge.at \in in.deadline..in.time
        /\ in.charge.at + ChargeMaxAge >= in.time
  BY <1>5 DEF ValidViolation
<1> QED BY <1>1, <1>2, <1>3, <1>4, <1>6 DEF TrustedReadBack

(***************************************************************************)
(* The judgements of the specification                                     *)
(***************************************************************************)
\* What was judged is judged by the verifier, once and for all.
JudgedInv ==
  /\ input \in Input
  /\ reason = None \/ reason = Judgement(input)

LEMMA InputsAreInputs ==
  MCInputs \subseteq Input
<1>1. NoCharge \in Charge /\ MCCharges \subseteq Charge
  <2>1. NoCharge \in Charge
    BY DEF NoCharge, Charge, Never, Digests
  <2>2. [id: ChargeIds, evidence: EvidenceIds, at: {1, 2, 3}, genuine: {TRUE},
         digest: {Target}] \subseteq Charge
    <3>1. {1, 2, 3} \subseteq Int /\ {Target} \subseteq Digests
      BY DEF Digests
    <3>2. {TRUE} \subseteq BOOLEAN
      BY Zenon
    <3>3. ASSUME NEW times \in SUBSET Int, NEW yes \in SUBSET BOOLEAN, NEW digests \in SUBSET Digests
          PROVE  [id: ChargeIds, evidence: EvidenceIds, at: times, genuine: yes,
                  digest: digests] \subseteq Charge
      BY DEF Charge
    <3> QED BY <3>1, <3>2, <3>3
  <2>3. [id: ChargeIds, evidence: EvidenceIds, at: {2}, genuine: BOOLEAN,
         digest: {Target, "other"}] \subseteq Charge
    BY DEF Charge, Digests
  <2> QED BY <2>1, <2>2, <2>3 DEF MCCharges
<1>2. Shown \subseteq Evidence
  BY DEF Shown, Evidence, Digests
<1>3. Never \in Int /\ ChargeMaxAge \in Int
  BY ChargeMaxAgeAssumption DEF Never
<1>4. {Never} \subseteq Int /\ {Never, 2} \subseteq Int /\ {2} \subseteq Int
      /\ {2, 3, 2 + ChargeMaxAge, 3 + ChargeMaxAge} \subseteq Int
  BY <1>3
<1> HIDE DEF NoCharge, Never, MCCharges
<1> QED BY <1>1, <1>2, <1>4 DEF MCInputs, Input

LEMMA JudgedInvariant == Spec => []JudgedInv
<1>1. Init => JudgedInv
  BY InputsAreInputs DEF Init, JudgedInv
<1>2. JudgedInv /\ [Next]_vars => JudgedInv'
  BY DEF JudgedInv, Next, vars, Evaluate, Send, Alter, Judgement
<1> QED BY <1>1, <1>2, PTL DEF Spec

\* PASS comes from a trusted read-back of a disabled renewal with an end date
\* and from nothing else (verify_cancellation).
THEOREM PassEarned == Spec => []PassIsEarned
<1>1. JudgedInv => PassIsEarned
  BY PassExplained DEF JudgedInv, PassIsEarned
<1> QED BY <1>1, JudgedInvariant, PTL

\* FAIL comes from a charge that proves it, or from a trusted read-back on the
\* final look (verify_cancellation).
THEOREM FailEarned == Spec => []FailIsEarned
<1>1. JudgedInv => FailIsEarned
  BY FailExplained DEF JudgedInv, FailIsEarned
<1> QED BY <1>1, JudgedInvariant, PTL

(***************************************************************************)
(* The card                                                                *)
(***************************************************************************)
\* The payload has the fields that a payload has.
Formed(d) ==
  DOMAIN d = DOMAIN Common(Unborn) /\ DOMAIN d.verification = DOMAIN NoVerification

\* How many of the four fields that name an outcome, `label' among them, are
\* not the ones of the judgement.
Marked(differs) == IF differs THEN 1 ELSE 0
Wrong(d, label) ==
  Marked(d.lifecycle # StateFor(reason)) + Marked(d.checked # VerdictOf(reason))
    + Marked(d.consumer # ConsumerState(VerdictOf(reason))) + Marked(label # VerdictOf(reason))

\* A payload of the status, or of the evidence, with some fields altered; no
\* field becomes one of the other kind.
StatusPayload(d) ==
  /\ d.keys \subseteq StatusKeys
  /\ d.verification.verdict = None /\ d.verification.consumer = None
  /\ Wrong(d, d.verdict) <= altered

EvidencePayload(d) ==
  /\ d.keys \subseteq EvidenceKeys
  /\ EvidenceShape(d) => d.verdict = None
  /\ Wrong(d, d.verification.verdict) <= altered

CardInv ==
  /\ altered \in Nat /\ altered <= MaxAltered
  /\ data # Nothing =>
       /\ reason # None
       /\ Formed(data)
       /\ StatusPayload(data) \/ EvidencePayload(data)
       /\ altered = 0 =>
            data \in {StatusView(RecordOf(input, reason)), EvidenceView(RecordOf(input, reason))}

\* The fields of a payload, by name.
LEMMA FieldNames ==
  /\ DOMAIN Common(Unborn) =
       {"keys", "lifecycle", "execution", "checked", "consumer", "verdict", "isTerminal",
        "confirmation", "claim", "readBack", "verification", "history", "ordered", "attempts"}
  /\ DOMAIN NoVerification = {"given", "formed", "verdict", "consumer"}
BY DEF Common, NoVerification

\* Altering one of the fields both shapes have.
LEMMA AlterOneField ==
  ASSUME NEW d, Formed(d), NEW e \in AlteredFields(d)
  PROVE  /\ Formed(e)
         /\ e.keys \subseteq d.keys /\ e.verdict = d.verdict /\ e.verification = d.verification
         /\ \/ e.lifecycle = d.lifecycle /\ e.checked = d.checked
            \/ e.lifecycle = d.lifecycle /\ e.consumer = d.consumer
            \/ e.checked = d.checked /\ e.consumer = d.consumer
<1>1. CASE \E s : e = [d EXCEPT !.lifecycle = s]
  BY <1>1, FieldNames DEF Formed
<1>2. CASE \E s : e = [d EXCEPT !.execution = s]
  BY <1>2, FieldNames DEF Formed
<1>3. CASE \E s : e = [d EXCEPT !.checked = s]
  BY <1>3, FieldNames DEF Formed
<1>4. CASE \E s : e = [d EXCEPT !.consumer = s]
  BY <1>4, FieldNames DEF Formed
<1>5. CASE \E k \in d.keys : e = [d EXCEPT !.keys = @ \ {k}]
  BY <1>5, FieldNames DEF Formed
<1> QED BY <1>1, <1>2, <1>3, <1>4, <1>5 DEF AlteredFields

\* Altering a field of the status.
LEMMA AlterOneStatus ==
  ASSUME NEW d, Formed(d), NEW e \in AlteredStatus(d)
  PROVE  /\ Formed(e)
         /\ e.keys = d.keys /\ e.verification = d.verification
         /\ e.lifecycle = d.lifecycle /\ e.checked = d.checked /\ e.consumer = d.consumer
<1>1. CASE \E v : e = [d EXCEPT !.verdict = v]
  BY <1>1, FieldNames DEF Formed
<1>2. CASE \E b : e = [d EXCEPT !.isTerminal = b]
  BY <1>2, FieldNames DEF Formed
<1>3. CASE \E b : e = [d EXCEPT !.confirmation = b]
  BY <1>3, FieldNames DEF Formed
<1> QED BY <1>1, <1>2, <1>3 DEF AlteredStatus

\* Altering a field of the evidence.
LEMMA AlterOneEvidence ==
  ASSUME NEW d, Formed(d), NEW e \in AlteredEvidence(d)
  PROVE  /\ Formed(e)
         /\ e.keys = d.keys /\ e.verdict = d.verdict
         /\ e.lifecycle = d.lifecycle /\ e.checked = d.checked /\ e.consumer = d.consumer
<1>1. CASE \E v : e = [d EXCEPT !.verification.verdict = v]
  BY <1>1, FieldNames DEF Formed
<1>2. CASE \E s : e = [d EXCEPT !.verification.consumer = s]
  BY <1>2, FieldNames DEF Formed
<1>3. CASE e = [d EXCEPT !.verification = NoVerification]
  BY <1>3, FieldNames DEF Formed
<1>4. CASE \E c : e = [d EXCEPT !.claim = c]
  BY <1>4, FieldNames DEF Formed
<1>5. CASE \E x : e = [d EXCEPT !.readBack = x]
  BY <1>5, FieldNames DEF Formed
<1>6. CASE \E h : e = [d EXCEPT !.history = h]
  BY <1>6, FieldNames DEF Formed
<1> QED BY <1>1, <1>2, <1>3, <1>4, <1>5, <1>6 DEF AlteredEvidence

LEMMA MarkedBounds ==
  ASSUME NEW p \in BOOLEAN
  PROVE  Marked(p) \in 0..1 /\ (p => Marked(p) = 1)
BY DEF Marked

\* One altered field is at most one field more that is wrong.
LEMMA WrongGrows ==
  ASSUME NEW d, NEW e, NEW a, NEW b,
         \/ e.lifecycle = d.lifecycle /\ e.checked = d.checked /\ b = a
         \/ e.lifecycle = d.lifecycle /\ e.consumer = d.consumer /\ b = a
         \/ e.checked = d.checked /\ e.consumer = d.consumer /\ b = a
         \/ e.lifecycle = d.lifecycle /\ e.checked = d.checked /\ e.consumer = d.consumer
  PROVE  Wrong(d, a) \in Int /\ Wrong(e, b) \in Int /\ Wrong(e, b) <= Wrong(d, a) + 1
<1> DEFINE ld == Marked(d.lifecycle # StateFor(reason))
           le == Marked(e.lifecycle # StateFor(reason))
           cd == Marked(d.checked # VerdictOf(reason))
           ce == Marked(e.checked # VerdictOf(reason))
           sd == Marked(d.consumer # ConsumerState(VerdictOf(reason)))
           se == Marked(e.consumer # ConsumerState(VerdictOf(reason)))
           vd == Marked(a # VerdictOf(reason))
           ve == Marked(b # VerdictOf(reason))
<1>1. /\ ld \in 0..1 /\ le \in 0..1 /\ cd \in 0..1 /\ ce \in 0..1
      /\ sd \in 0..1 /\ se \in 0..1 /\ vd \in 0..1 /\ ve \in 0..1
  BY MarkedBounds
<1>2. \/ le = ld /\ ce = cd /\ ve = vd
      \/ le = ld /\ se = sd /\ ve = vd
      \/ ce = cd /\ se = sd /\ ve = vd
      \/ le = ld /\ ce = cd /\ se = sd
  OBVIOUS
<1>3. Wrong(d, a) = ld + cd + sd + vd /\ Wrong(e, b) = le + ce + se + ve
  BY DEF Wrong
<1> HIDE DEF ld, le, cd, ce, sd, se, vd, ve
<1> QED BY <1>1, <1>2, <1>3

\* The record of a judgement says what was judged.
LEMMA RecordedAsJudged ==
  ASSUME NEW in, NEW why
  PROVE  LET rec == RecordOf(in, why) IN
         /\ rec.state = StateFor(why) /\ rec.judged /\ rec.claim = in.receipt
         /\ VerdictIn(rec) = VerdictOf(why) /\ EvidenceIn(rec) = in.evidence
<1> DEFINE rec == RecordOf(in, why)
           earlier == [at |-> in.time, count |-> 1, eligible |-> in.final, charge |-> None,
                       evidence |-> [in.evidence EXCEPT !.freshness = "older"],
                       reason |-> "stale"]
           look(n) == [at |-> in.time, count |-> n, eligible |-> in.final, charge |-> None,
                       evidence |-> in.evidence, reason |-> why]
<1>1. /\ rec.state = StateFor(why) /\ rec.judged = TRUE /\ rec.claim = in.receipt
      /\ rec.attempts = IF in.final THEN <<earlier, look(MaxChecks)>> ELSE <<look(1)>>
  BY DEF RecordOf, Unborn
<1> HIDE DEF rec, earlier
<1>2. LastAttempt(rec).reason = why /\ LastAttempt(rec).evidence = in.evidence
  BY <1>1 DEF LastAttempt
<1> QED BY <1>1, <1>2 DEF VerdictIn, EvidenceIn, rec

\* What is sent names the outcome of the judgement in all four fields.
LEMMA SentIsRight ==
  ASSUME NEW rec, rec.judged = TRUE, rec.state = StateFor(reason),
         VerdictIn(rec) = VerdictOf(reason)
  PROVE  LET status == StatusView(rec)  evidence == EvidenceView(rec) IN
         /\ Formed(status) /\ status.keys = StatusKeys
         /\ status.verification.verdict = None /\ status.verification.consumer = None
         /\ Wrong(status, status.verdict) = 0
         /\ Formed(evidence) /\ evidence.keys = EvidenceKeys /\ evidence.verdict = None
         /\ Wrong(evidence, evidence.verification.verdict) = 0
<1> DEFINE common == Common(rec)
           status == StatusView(rec)
           evidence == EvidenceView(rec)
           verdict == VerdictOf(reason)
<1>1. /\ DOMAIN common = DOMAIN Common(Unborn)
      /\ common.lifecycle = StateFor(reason) /\ common.checked = verdict
      /\ common.consumer = ConsumerState(verdict)
      /\ common.verdict = None /\ common.verification = NoVerification
  <2>1. VerificationStatus(rec) = verdict /\ ConsumerStateIn(rec) = ConsumerState(verdict)
    <3>1. rec.state # "VERIFYING"
      BY DEF StateFor
    <3>2. VerificationStatus(rec) = VerdictIn(rec)
      BY <3>1 DEF VerificationStatus
    <3>3. ConsumerStateIn(rec) = ConsumerState(VerdictIn(rec))
      BY DEF ConsumerStateIn
    <3> QED BY <3>2, <3>3
  <2>2. DOMAIN common = DOMAIN Common(Unborn)
    BY FieldNames DEF Common
  <2>3. /\ common.lifecycle = rec.state /\ common.checked = VerificationStatus(rec)
        /\ common.consumer = ConsumerStateIn(rec)
        /\ common.verdict = None /\ common.verification = NoVerification
    BY DEF Common
  <2> QED BY <2>1, <2>2, <2>3
<1> HIDE DEF common
<1>2. /\ DOMAIN status = DOMAIN common /\ status.keys = StatusKeys
      /\ status.lifecycle = common.lifecycle /\ status.checked = common.checked
      /\ status.consumer = common.consumer /\ status.verdict = verdict
      /\ status.verification = NoVerification
  BY <1>1, FieldNames DEF StatusView, common
<1>3. /\ DOMAIN evidence = DOMAIN common /\ evidence.keys = EvidenceKeys
      /\ evidence.lifecycle = common.lifecycle /\ evidence.checked = common.checked
      /\ evidence.consumer = common.consumer /\ evidence.verdict = None
      /\ evidence.verification = [given |-> TRUE, formed |-> TRUE, verdict |-> verdict,
                                  consumer |-> ConsumerStateIn(rec)]
  BY <1>1, FieldNames DEF EvidenceView, common
<1> HIDE DEF status, evidence
<1>4. Formed(status) /\ Formed(evidence)
  BY <1>1, <1>2, <1>3, FieldNames DEF Formed
<1>5. Wrong(status, status.verdict) = 0
  BY <1>1, <1>2 DEF Wrong, Marked
<1>6. Wrong(evidence, evidence.verification.verdict) = 0
  BY <1>1, <1>3 DEF Wrong, Marked
<1> QED BY <1>2, <1>3, <1>4, <1>5, <1>6 DEF NoVerification, status, evidence

LEMMA SendKeepsCard ==
  ASSUME CardInv, Send
  PROVE  CardInv'
<1> DEFINE rec == RecordOf(input, reason)
<1>1. /\ reason # None /\ data = Nothing /\ UNCHANGED <<input, reason, altered>>
      /\ data' \in {StatusView(rec), EvidenceView(rec)}
  BY DEF Send
<1>2. rec.judged = TRUE /\ rec.state = StateFor(reason) /\ VerdictIn(rec) = VerdictOf(reason)
  BY RecordedAsJudged, Zenon
<1> HIDE DEF rec
<1>3. altered \in Nat /\ altered <= MaxAltered
  BY DEF CardInv
<1>4. Formed(data') /\ (StatusPayload(data) \/ EvidencePayload(data))'
  <2>1. CASE data' = StatusView(rec)
    <3>1. /\ Formed(data') /\ data'.keys = StatusKeys
          /\ data'.verification.verdict = None /\ data'.verification.consumer = None
          /\ Wrong(data', data'.verdict) = 0
      BY <1>2, <2>1, SentIsRight
    <3> QED BY <1>1, <1>3, <3>1 DEF StatusPayload, Wrong
  <2>2. CASE data' = EvidenceView(rec)
    <3>1. /\ Formed(data') /\ data'.keys = EvidenceKeys /\ data'.verdict = None
          /\ Wrong(data', data'.verification.verdict) = 0
      BY <1>2, <2>2, SentIsRight
    <3> QED BY <1>1, <1>3, <3>1 DEF EvidencePayload, Wrong
  <2> QED BY <1>1, <2>1, <2>2
<1> QED BY <1>1, <1>3, <1>4 DEF CardInv, rec, Formed

LEMMA AlterKeepsCard ==
  ASSUME CardInv, Alter
  PROVE  CardInv'
<1>1. /\ data # Nothing /\ altered' = altered + 1 /\ altered < MaxAltered
      /\ UNCHANGED <<input, reason>>
      /\ altered \in Nat /\ MaxAltered \in Nat /\ reason # None /\ Formed(data)
  BY AlteredAssumption DEF Alter, CardInv
<1>2. data' \in AlteredFields(data)
        \cup IF EvidenceShape(data) THEN AlteredEvidence(data) ELSE AlteredStatus(data)
  BY DEF Alter
<1>3. Formed(data') /\ data'.keys \subseteq data.keys
  BY <1>1, <1>2, AlterOneField, AlterOneStatus, AlterOneEvidence
<1>4. EvidenceShape(data') => EvidenceShape(data) /\ data'.verdict = data.verdict
  BY <1>1, <1>2, <1>3, AlterOneField, AlterOneStatus, AlterOneEvidence DEF EvidenceShape
<1>5. Wrong(data', data'.verdict) <= Wrong(data, data.verdict) + 1
      /\ Wrong(data, data.verdict) \in Int /\ Wrong(data', data'.verdict) \in Int
  BY <1>1, <1>2, AlterOneField, AlterOneStatus, AlterOneEvidence, WrongGrows
<1>6. /\ Wrong(data', data'.verification.verdict) <= Wrong(data, data.verification.verdict) + 1
      /\ Wrong(data, data.verification.verdict) \in Int
      /\ Wrong(data', data'.verification.verdict) \in Int
  BY <1>1, <1>2, AlterOneField, AlterOneStatus, AlterOneEvidence, WrongGrows
<1>7. CASE StatusPayload(data)
  <2>1. ~EvidenceShape(data)
    BY <1>7 DEF StatusPayload, EvidenceShape, StatusKeys, EvidenceKeys
  <2>2. data'.verification = data.verification
    BY <1>1, <1>2, <2>1, AlterOneField, AlterOneStatus
  <2>3. StatusPayload(data)'
    BY <1>1, <1>3, <1>5, <1>7, <2>2 DEF StatusPayload, Wrong
  <2> QED BY <1>1, <1>3, <2>3 DEF CardInv, Formed
<1>8. CASE EvidencePayload(data)
  <2>1. EvidencePayload(data)'
    BY <1>1, <1>3, <1>4, <1>6, <1>8 DEF EvidencePayload, Wrong, EvidenceShape
  <2> QED BY <1>1, <1>3, <2>1 DEF CardInv, Formed
<1> QED BY <1>1, <1>7, <1>8 DEF CardInv

LEMMA CardInvariant == Spec => []CardInv
<1>1. Init => CardInv
  BY AlteredAssumption DEF Init, CardInv
<1>2. CardInv /\ [Next]_vars => CardInv'
  <2> SUFFICES ASSUME CardInv, [Next]_vars
               PROVE  CardInv'
    OBVIOUS
  <2>1. CASE Evaluate
    <3>1. UNCHANGED <<data, altered, input>> /\ data = Nothing
      BY <2>1 DEF Evaluate, CardInv
    <3> QED BY <3>1 DEF CardInv
  <2>2. CASE Send
    BY <2>2, SendKeepsCard
  <2>3. CASE Alter
    BY <2>3, AlterKeepsCard
  <2>4. CASE UNCHANGED vars
    BY <2>4 DEF CardInv, vars, Formed, StatusPayload, EvidencePayload, Wrong, EvidenceShape
  <2> QED BY <2>1, <2>2, <2>3, <2>4 DEF Next
<1> QED BY <1>1, <1>2, PTL DEF Spec

\* The titles under which a card shows an outcome.
OutcomeTitles == {"Verified", "Not completed"}

\* The words for one verdict are not the words for another.
LEMMA WordsTellVerdicts ==
  ASSUME NEW shown \in {"PASS", "FAIL"}, NEW why \in Reasons, shown # VerdictOf(why)
  PROVE  /\ Rule(shown).lifecycle # StateFor(why)
         /\ Rule(shown).consumer # ConsumerState(VerdictOf(why))
         /\ ConsumerState(VerdictOf(why)) # None
<1>1. VerdictOf(why) \in Verdicts
  BY DEF VerdictOf, Verdicts
<1> QED BY <1>1 DEF Rule, StateFor, ConsumerState, Verdicts, None

\* An outcome is shown only when everything the card asks for holds.
LEMMA OutcomeShown ==
  ASSUME NEW d, CardTitle(d) \in OutcomeTitles
  PROVE  /\ Coherent(d) /\ OutcomeHolds(d) /\ ShownVerdict(d) \in {"PASS", "FAIL"}
         /\ CardTitle(d) = ConsumerState(ShownVerdict(d))
<1>1. Coherent(d) /\ ClaimsOutcome(d) /\ OutcomeHolds(d) /\ CardTitle(d) = Rule(ShownVerdict(d)).consumer
  BY DEF CardTitle, Unavailable, OutcomeTitles
<1>2. ShownVerdict(d) \in Verdicts
  BY <1>1 DEF OutcomeHolds
<1>3. Rule("INCONCLUSIVE").consumer \notin OutcomeTitles
  BY DEF Rule, OutcomeTitles
<1>4. /\ Rule("PASS").consumer = ConsumerState("PASS")
      /\ Rule("FAIL").consumer = ConsumerState("FAIL")
  BY DEF Rule, ConsumerState
<1> QED BY <1>1, <1>2, <1>3, <1>4 DEF Verdicts

\* The outcome a card shows is the one that was judged: another would need four
\* altered fields.
LEMMA ShownIsJudged ==
  ASSUME CardInv, data # Nothing, reason \in Reasons,
         CardTitle(data) \in OutcomeTitles
  PROVE  CardTitle(data) = ConsumerState(VerdictOf(reason))
<1> DEFINE shown == ShownVerdict(data)
           verdict == VerdictOf(reason)
<1>1. /\ Coherent(data) /\ OutcomeHolds(data) /\ shown \in {"PASS", "FAIL"}
      /\ CardTitle(data) = ConsumerState(shown)
  BY OutcomeShown
<1>2. /\ data.lifecycle = Rule(shown).lifecycle /\ ShownConsumer(data) = Rule(shown).consumer
      /\ data.checked = shown
  BY <1>1 DEF OutcomeHolds
<1>3. /\ EvidenceShape(data) # StatusShape(data)
      /\ Consistent(data.consumer, data.verification.consumer)
  BY <1>1 DEF Coherent, OneShape
<1>4. ASSUME shown # verdict, NEW label, label = shown, Wrong(data, label) <= altered,
             data.consumer # ConsumerState(verdict)
      PROVE  FALSE
  <2>1. data.lifecycle # StateFor(reason) /\ data.checked # verdict /\ label # verdict
    BY <1>1, <1>2, <1>4, WordsTellVerdicts
  <2>2. Wrong(data, label) = 1 + 1 + 1 + 1
    BY <1>4, <2>1, Zenon DEF Wrong, Marked
  <2>3. altered \in Nat /\ altered <= MaxAltered
    BY DEF CardInv
  <2> QED BY <1>4, <2>2, <2>3, AlteredAssumption
<1>5. ASSUME shown # verdict
      PROVE  /\ Rule(shown).consumer # ConsumerState(verdict) /\ ConsumerState(verdict) # None
             /\ shown # None
  BY <1>1, <1>5, WordsTellVerdicts DEF None
<1> HIDE DEF verdict
<1>6. CASE StatusPayload(data)
  <2>1. shown = data.verdict /\ ShownConsumer(data) = data.consumer
    BY <1>6 DEF StatusPayload, ShownVerdict, ShownConsumer, Either
  <2> QED BY <1>1, <1>2, <1>4, <1>5, <1>6, <2>1 DEF StatusPayload, verdict
<1>7. CASE EvidencePayload(data)
  <2>1. EvidenceShape(data)
    <3>1. ~StatusShape(data)
      BY <1>7 DEF EvidencePayload, StatusShape, StatusKeys, EvidenceKeys
    <3> QED BY <1>3, <3>1 DEF EvidenceShape, StatusShape
  <2>2. shown = data.verification.verdict
    BY <1>7, <2>1 DEF EvidencePayload, ShownVerdict, Either
  <2>3. data.consumer # None => ShownConsumer(data) = data.consumer
    BY DEF ShownConsumer, Either
  <2>4. shown # verdict => data.consumer # ConsumerState(verdict)
    BY <1>2, <1>5, <2>3
  <2> QED BY <1>1, <1>4, <1>7, <2>2, <2>4 DEF EvidencePayload, verdict
<1> QED BY <1>6, <1>7 DEF CardInv

\* What is sent of a cancellation proven at the first look is coherent, and the
\* card judges it to be an outcome.
LEMMA ProvenIsShown ==
  ASSUME NEW in, in.final = FALSE, NEW why, VerdictOf(why) = "PASS",
         DerivedVerdict(in.receipt, in.evidence) = "PASS"
  PROVE  /\ CardTitle(StatusView(RecordOf(in, why))) = ConsumerState("PASS")
         /\ CardTitle(EvidenceView(RecordOf(in, why))) = ConsumerState("PASS")
<1> DEFINE rec == RecordOf(in, why)
           status == StatusView(rec)
           evidence == EvidenceView(rec)
<1>1. /\ rec.state = "VERIFIED" /\ rec.judged = TRUE /\ rec.claim = in.receipt
      /\ VerdictIn(rec) = "PASS" /\ EvidenceIn(rec) = in.evidence
  BY RecordedAsJudged DEF StateFor
<1>2. rec.moves = 5 /\ Len(rec.attempts) = 1
  BY DEF RecordOf, Unborn
<1> HIDE DEF rec
<1>3. History(rec) = Append(Opening, "VERIFIED")
  BY <1>1, <1>2 DEF History, Opening
<1>4. /\ ExecutionStatus(rec) = "completed" /\ VerificationStatus(rec) = "PASS"
      /\ ConsumerStateIn(rec) = ConsumerState("PASS")
  BY <1>1 DEF ExecutionStatus, VerificationStatus, ConsumerStateIn
<1>5. /\ status.keys = StatusKeys /\ status.verdict = "PASS"
      /\ status.verification = NoVerification
      /\ status.lifecycle = "VERIFIED" /\ status.consumer = ConsumerState("PASS")
      /\ status.checked = "PASS" /\ status.execution = "completed"
      /\ status.isTerminal = TRUE /\ status.confirmation = FALSE
  BY <1>1, <1>4 DEF StatusView, Common, Terminal
<1>6. /\ evidence.keys = EvidenceKeys /\ evidence.verdict = None
      /\ evidence.verification.formed = TRUE /\ evidence.verification.verdict = "PASS"
      /\ evidence.verification.consumer = ConsumerState("PASS")
      /\ evidence.lifecycle = "VERIFIED" /\ evidence.consumer = ConsumerState("PASS")
      /\ evidence.checked = "PASS" /\ evidence.execution = "completed"
      /\ evidence.claim = in.receipt /\ evidence.readBack = in.evidence
      /\ evidence.history = Append(Opening, "VERIFIED") /\ evidence.ordered = TRUE
  BY <1>1, <1>3, <1>4 DEF EvidenceView, Common
<1> HIDE DEF status, evidence
<1>7. /\ ConsumerState("PASS") # None /\ Rule("PASS").consumer = ConsumerState("PASS")
      /\ Rule("PASS").lifecycle = "VERIFIED"
  BY DEF ConsumerState, Rule, None
<1>8. CardTitle(status) = ConsumerState("PASS")
  <2>1. ~EvidenceShape(status) /\ StatusShape(status)
    BY <1>5 DEF EvidenceShape, StatusShape, EvidenceKeys, StatusKeys
  <2>2. ShownVerdict(status) = "PASS" /\ ShownConsumer(status) = ConsumerState("PASS")
    BY <1>5, <1>7 DEF ShownVerdict, ShownConsumer, Either, None
  <2>3. Coherent(status)
    <3>1. EvidenceShape(status) # StatusShape(status)
      BY <2>1, Zenon
    <3>2. OneShape(status)
      BY <1>5, <2>1, <3>1 DEF OneShape
    <3>3. /\ Consistent(status.verdict, status.verification.verdict)
          /\ Consistent(status.consumer, status.verification.consumer)
      BY <1>5 DEF Consistent, NoVerification
    <3> QED BY <3>2, <3>3 DEF Coherent
  <2>4. OutcomeHolds(status)
    BY <1>5, <1>7, <2>1, <2>2 DEF OutcomeHolds, Verdicts
  <2> QED BY <1>7, <2>2, <2>3, <2>4 DEF CardTitle, ClaimsOutcome
<1>9. CardTitle(evidence) = ConsumerState("PASS")
  <2>1. EvidenceShape(evidence) /\ ~StatusShape(evidence)
    BY <1>6 DEF EvidenceShape, StatusShape, EvidenceKeys, StatusKeys
  <2>2. ShownVerdict(evidence) = "PASS" /\ ShownConsumer(evidence) = ConsumerState("PASS")
    BY <1>6, <1>7 DEF ShownVerdict, ShownConsumer, Either
  <2>3. Coherent(evidence)
    BY <1>6, <2>1 DEF Coherent, OneShape, Consistent
  <2>4. TerminalEvidence(evidence, "PASS")
    BY <1>6 DEF TerminalEvidence, TerminalHistory
  <2>5. OutcomeHolds(evidence)
    BY <1>6, <1>7, <2>1, <2>2, <2>4 DEF OutcomeHolds, Verdicts
  <2> QED BY <1>7, <2>2, <2>3, <2>5 DEF CardTitle, ClaimsOutcome
<1> QED BY <1>8, <1>9 DEF status, evidence, rec

\* What the verifier passes, the card passes too.
LEMMA CardAgreesOnPass ==
  ASSUME NEW in \in Input, VerdictOf(Judgement(in)) = "PASS"
  PROVE  DerivedVerdict(in.receipt, in.evidence) = "PASS"
BY PassExplained DEF TrustedReadBack, DerivedVerdict

\* A card never shows an outcome that was not judged, also when up to three of
\* the fields it was sent are not what was sent, and unaltered evidence of a
\* cancellation proven at the first look is shown as that (deriveView).
THEOREM CardNotFooled == Spec => []CardIsNotFooled
<1>1. ASSUME CardInv, JudgedInv
      PROVE  CardIsNotFooled
  <2> SUFFICES ASSUME data # Nothing
               PROVE  /\ CardTitle(data) \in OutcomeTitles
                           => CardTitle(data) = ConsumerState(VerdictOf(reason))
                      /\ (altered = 0 /\ ~input.final /\ VerdictOf(reason) = "PASS")
                           => CardTitle(data) = "Verified"
    BY DEF CardIsNotFooled, OutcomeTitles
  <2>1. reason = Judgement(input) /\ reason \in Reasons /\ input \in Input
    BY <1>1, JudgementIsReason DEF CardInv, JudgedInv
  <2>2. CardTitle(data) \in OutcomeTitles => CardTitle(data) = ConsumerState(VerdictOf(reason))
    BY <1>1, <2>1, ShownIsJudged
  <2>3. ASSUME altered = 0, ~input.final, VerdictOf(reason) = "PASS"
        PROVE  CardTitle(data) = ConsumerState("PASS")
    <3>1. data \in {StatusView(RecordOf(input, reason)), EvidenceView(RecordOf(input, reason))}
      BY <1>1, <2>3 DEF CardInv
    <3>2. DerivedVerdict(input.receipt, input.evidence) = "PASS"
      BY <2>1, <2>3, CardAgreesOnPass
    <3>3. input.final = FALSE
      BY <2>1, <2>3 DEF Input
    <3> QED BY <2>3, <3>1, <3>2, <3>3, ProvenIsShown
  <2>4. ConsumerState("PASS") = "Verified"
    BY DEF ConsumerState
  <2> QED BY <2>2, <2>3, <2>4
<1> QED BY <1>1, CardInvariant, JudgedInvariant, PTL
=============================================================================
