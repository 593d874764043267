----------------------------- MODULE MCVerifier -----------------------------
(***************************************************************************)
(* An evaluation harness for the two places that judge evidence: the       *)
(* verifier and the card that judges again what it is sent.  Every initial *)
(* state is one input of Verify and a step evaluates it; a few of the      *)
(* judgements are then recorded and sent to a card, and some fields of     *)
(* what is sent are lost or replaced on the way.  The properties compare   *)
(* both cascades with order-free statements of what they promise.          *)
(***************************************************************************)
EXTENDS ProofCard, FiniteSets

CONSTANT MaxAltered      \* bound of the model: fields altered on the way

\* Four altered fields can spell another outcome: the card compares no more.
ASSUME AlteredAssumption == MaxAltered \in 0..3

VARIABLES
  input,                 \* what is to be judged
  reason,                \* what Verify says of it
  data,                  \* the payload a card holds
  altered                \* how many fields of it were altered

vars == <<input, reason, data, altered>>

Nothing == <<>>

\* A charge before, at and after the deadline (time 2), one too old to count
\* when it is weighed late, one that is not genuine and one about another
\* target.
MCCharges ==
  {NoCharge}
    \cup [id: ChargeIds, evidence: EvidenceIds, at: {1, 2, 3}, genuine: {TRUE},
          digest: {Target}]
    \cup [id: ChargeIds, evidence: EvidenceIds, at: {2}, genuine: BOOLEAN,
          digest: {Target, "other"}]

\* With a charge the evidence plays no part, so one piece of evidence of each
\* autoRenew is enough there; without one the whole space is taken.
Shown == [valid: {TRUE}, readable: {TRUE}, autoRenew: {"on", "off"}, endDate: {TRUE},
          freshness: {"within30"}, digest: {Target}, bound: {TRUE}]

MCInputs ==
  [receipt: Receipt, evidence: Evidence, final: BOOLEAN, expected: Digests,
   charge: {NoCharge}, deadline: {Never}, time: {2}]
  \cup
  [receipt: Receipt, evidence: Shown, final: BOOLEAN, expected: Digests,
   charge: MCCharges, deadline: {Never, 2}, time: {2, 3, 2 + ChargeMaxAge, 3 + ChargeMaxAge}]

(***************************************************************************)
(* What is recorded and sent                                               *)
(***************************************************************************)
\* Read-backs that each lead a judgement down another path, for a claim of
\* success and of failure.
Sent == [valid |-> TRUE, readable |-> TRUE, autoRenew |-> "off", endDate |-> TRUE,
         freshness |-> "within30", digest |-> Target, bound |-> TRUE]
On == [Sent EXCEPT !.autoRenew = "on", !.endDate = FALSE]
Recorded ==
  [receipt: [valid: {TRUE}, success: BOOLEAN, digest: {Target}],
   evidence: {Sent, On, [On EXCEPT !.freshness = "within300"],
              [Sent EXCEPT !.digest = "other"], [Sent EXCEPT !.readable = FALSE]},
   final: BOOLEAN, expected: {Target}, charge: {NoCharge}, deadline: {Never}, time: {2}]

\* The record of a judgement: made at the first look, or on the final look
\* after one that was stale.
RecordOf(in, why) ==
  LET look(n, evidence, result) ==
        [at |-> in.time, count |-> n, eligible |-> in.final, charge |-> None,
         evidence |-> evidence, reason |-> result]
      earlier == look(1, [in.evidence EXCEPT !.freshness = "older"], "stale")
  IN [Unborn EXCEPT
        !.state = StateFor(why), !.attested = TRUE, !.claim = in.receipt, !.judged = TRUE,
        !.moves = IF in.final THEN 7 ELSE 5, !.checks = IF in.final THEN MaxChecks ELSE 1,
        !.attempts = IF in.final THEN <<earlier, look(MaxChecks, in.evidence, why)>>
                     ELSE <<look(1, in.evidence, why)>>]

Init == input \in MCInputs /\ reason = None /\ data = Nothing /\ altered = 0

Evaluate ==
  /\ reason = None
  /\ reason' = Verify(input.receipt, input.evidence, input.final, input.expected,
                     input.charge, input.deadline, input.time)
  /\ UNCHANGED <<input, data, altered>>

Send ==
  /\ reason # None /\ data = Nothing
  /\ input \in Recorded
  /\ data' \in {StatusView(RecordOf(input, reason)), EvidenceView(RecordOf(input, reason))}
  /\ UNCHANGED <<input, reason, altered>>

\* One field of the payload is lost, or has the value of another payload.
AlteredFields(d) ==
  {[d EXCEPT !.lifecycle = s] : s \in {"VERIFIED", "NOT_COMPLETED", "AWAITING_PROOF", "VERIFYING"}}
  \cup {[d EXCEPT !.execution = s] : s \in {"in_progress", "completed"}}
  \cup {[d EXCEPT !.checked = s] : s \in Verdicts \cup {"in_progress"}}
  \cup {[d EXCEPT !.consumer = s] : s \in ConsumerStates \cup {None}}
  \cup {[d EXCEPT !.keys = @ \ {k}] : k \in d.keys}

AlteredStatus(d) ==
  {[d EXCEPT !.verdict = v] : v \in Verdicts \cup {None}}
  \cup {[d EXCEPT !.isTerminal = b] : b \in BOOLEAN}
  \cup {[d EXCEPT !.confirmation = b] : b \in BOOLEAN}

AlteredEvidence(d) ==
  {[d EXCEPT !.verification.verdict = v] : v \in Verdicts \cup {None}}
  \cup {[d EXCEPT !.verification.consumer = s] : s \in ConsumerStates \cup {None}}
  \cup {[d EXCEPT !.verification = NoVerification]}
  \cup {[d EXCEPT !.claim = c] : c \in {NoReceipt, [d.claim EXCEPT !.success = TRUE]}}
  \cup {[d EXCEPT !.readBack = e] : e \in {NoEvidence, Sent, On}}
  \cup {[d EXCEPT !.history = Append(Opening, s)] : s \in Terminal}

Alter ==
  /\ data # Nothing /\ altered < MaxAltered
  /\ data' \in (AlteredFields(data) \cup
                IF EvidenceShape(data) THEN AlteredEvidence(data) ELSE AlteredStatus(data)) \ {data}
  /\ altered' = altered + 1
  /\ UNCHANGED <<input, reason>>

Next == Evaluate \/ Send \/ Alter
Spec == Init /\ [][Next]_vars

\* Readable, fresh evidence about the expected target, read for this attempt,
\* with an accepted claim about the same target: what both kinds of judgement
\* from a read-back need.
TrustedReadBack(in) ==
  /\ in.receipt.valid /\ in.receipt.success
  /\ in.evidence.valid /\ in.evidence.readable /\ in.evidence.freshness = "within30"
  /\ in.expected # None =>
       in.evidence.bound /\ {in.receipt.digest, in.evidence.digest} = {in.expected}

\* PASS comes from a trusted read-back of a disabled renewal with an end date
\* and from nothing else: neither a claim nor the budget running out can
\* produce it, and no such read-back is turned down unless a charge is known
\* (verify_cancellation, "provider-reported success is never sufficient").
PassIsEarned ==
  reason # None =>
    (VerdictOf(reason) = "PASS" <=>
       /\ input.charge = NoCharge
       /\ TrustedReadBack(input)
       /\ input.evidence.autoRenew = "off" /\ input.evidence.endDate)

\* FAIL comes from a charge that is at or after the deadline, not later than
\* the moment it is weighed, recent enough and about the expected target, or
\* from a trusted read-back of an enabled renewal on the final look
\* (verify_cancellation; docs/trust-model.md, "attempt-count exhaustion alone
\* never establishes failure").
FailIsEarned ==
  reason # None =>
    (VerdictOf(reason) = "FAIL" <=>
       \/ /\ input.charge # NoCharge /\ input.charge.genuine
          /\ input.expected # None /\ input.charge.digest = input.expected
          /\ input.deadline # Never
          /\ input.charge.at \in input.deadline..input.time
          /\ input.charge.at + ChargeMaxAge >= input.time
       \/ /\ input.charge = NoCharge
          /\ input.final
          /\ TrustedReadBack(input)
          /\ input.evidence.autoRenew = "on")

\* A card never shows an outcome that is not the record's, also when up to
\* MaxAltered fields of what it was sent are not; and unaltered evidence of a
\* cancellation proven at the first look is shown as that.  The card judges
\* the evidence by rules of its own (mcp_app.py, deriveView; apps/mcp-app/
\* README.md, "fails closed to `Proof unavailable` for contradictory or
\* malformed terminal data").
CardIsNotFooled ==
  data # Nothing =>
    LET title == CardTitle(data) IN
    /\ title \in {"Verified", "Not completed"} => title = ConsumerState(VerdictOf(reason))
    /\ (altered = 0 /\ ~input.final /\ VerdictOf(reason) = "PASS") => title = "Verified"
=============================================================================
