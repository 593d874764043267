--------------------------- MODULE RecordContract ---------------------------
(***************************************************************************)
(* The persisted resolution record and the checks every repository applies *)
(* to it (src/src/closeloop/repository_contract.py and the record types of *)
(* lifecycle.py and outcomes.py).  ValidRecord is asked before a record is *)
(* written, Decodes whenever one is read.                                  *)
(*                                                                         *)
(* Times are counted in ticks.  Four fields the code writes together and   *)
(* clears together (the evidence, when it was observed, the verdict, when  *)
(* it was reached) are `judged' and the last attempt; the state history is *)
(* its length, `moves', and the time of its last entry, `movedAt'.         *)
(***************************************************************************)
EXTENDS Verifier, Sequences

CONSTANTS
  MaxChecks,        \* MAX_VERIFICATION_CHECKS, the looks a resolution may have
  Interval          \* ticks of waiting per look already taken (5 minutes)

ASSUME MaxChecksAssumption == MaxChecks \in Nat \ {0}
ASSUME IntervalAssumption == Interval \in Nat \ {0}

(***************************************************************************)
(* Lifecycle states                                                        *)
(***************************************************************************)
States ==
  {"REQUESTED", "AWAITING_CONFIRMATION", "EXECUTING", "VERIFYING",
   "VERIFIED", "NOT_COMPLETED", "AWAITING_PROOF"}

Terminal == {"VERIFIED", "NOT_COMPLETED"}

AllowedNext(state) ==
  CASE state = "REQUESTED"             -> {"AWAITING_CONFIRMATION"}
    [] state = "AWAITING_CONFIRMATION" -> {"EXECUTING"}
    [] state = "EXECUTING"             -> {"VERIFYING"}
    [] state = "VERIFYING"             -> Terminal \cup {"AWAITING_PROOF", "VERIFYING"}
    [] state = "AWAITING_PROOF"        -> {"VERIFYING"}
    [] OTHER                           -> {}

AllowedPrevious(next) == {state \in States : next \in AllowedNext(state)}

StateFor(reason) ==
  CASE VerdictOf(reason) = "PASS" -> "VERIFIED"
    [] VerdictOf(reason) = "FAIL" -> "NOT_COMPLETED"
    [] OTHER                      -> "AWAITING_PROOF"

(***************************************************************************)
(* The record                                                              *)
(***************************************************************************)
\* One VerificationAttempt: when it was taken, on which count of the budget,
\* whether it could close the window, the charge it weighed, what it saw.
Attempt ==
  [at: Int, count: Nat, eligible: BOOLEAN, charge: ChargeIds \cup {None},
   evidence: Evidence, reason: Reasons]

\* Follow-ups are told apart by the reason they were proposed for, which is
\* unique per record.  A refund request is proposed for an observed charge, a
\* support follow-up for the other two.
FollowUps == {"deadline_passed", "deadline_approaching", "outcome_violation"}
FollowUpStates ==
  {"none", "AWAITING_CONFIRMATION", "EXECUTING", "VERIFYING",
   "COMPLETED", "FAILED", "DECLINED", "EXPIRED"}
FollowUp == [state: FollowUpStates, expires: Int]
Notices == FollowUps \cup {"verified", "not_completed"}

\* A stored claim is always a valid receipt, so an invalid one is its absence.
NoReceipt == [valid |-> FALSE, success |-> FALSE, digest |-> None]

Record ==
  [state: States, version: Nat, moves: Nat, movedAt: Int, updatedAt: Int,
   attested: BOOLEAN, claim: Receipt, judged: BOOLEAN, checks: Nat,
   nextCheck: Int, resolvedAt: Int, attempts: Seq(Attempt),
   attention: SUBSET Notices, recovery: [FollowUps -> FollowUp],
   charges: Seq(Charge), deadline: Int, tracksCharges: BOOLEAN]

\* The record start_resolution builds, before it is stored.
Unborn ==
  [state |-> "REQUESTED", version |-> 0, moves |-> 1, movedAt |-> 0, updatedAt |-> 0,
   attested |-> FALSE, claim |-> NoReceipt, judged |-> FALSE, checks |-> 0,
   nextCheck |-> Never, resolvedAt |-> Never, attempts |-> <<>>,
   attention |-> {}, recovery |-> [f \in FollowUps |-> [state |-> "none", expires |-> Never]],
   charges |-> <<>>, deadline |-> Never, tracksCharges |-> FALSE]

LastAttempt(rec) == rec.attempts[Len(rec.attempts)]

\* Slip: any charge on record is taken for the one referred to.
SomeCharge(rec, id) == IF rec.charges = <<>> THEN NoCharge ELSE rec.charges[1]

\* Slip: the last report of a charge is taken for the first.
LastOfCharge(rec, id) ==
  LET named == {i \in DOMAIN rec.charges : rec.charges[i].id = id}
      last  == {i \in named : \A j \in named : j <= i}
  IN IF last = {} THEN NoCharge ELSE rec.charges[CHOOSE i \in last : TRUE]

\* The charge an attempt refers to: the first of its name in the record's own
\* list, in which the same charge may have been reported more than once.
ChargeById(rec, id) ==
  LET named == {i \in DOMAIN rec.charges : rec.charges[i].id = id}
      first == {i \in named : \A j \in named : i <= j}
  IN IF first = {} THEN NoCharge ELSE rec.charges[CHOOSE i \in first : TRUE]

\* A charge may be reported under an empty name.  Whether an attempt names a
\* charge is asked in two ways: an empty name counts when a record is read
\* (`is not None'), and not when it is written.
Empty == ""
ChargeWeighed(rec, id) == IF id = Empty THEN NoCharge ELSE ChargeById(rec, id)

(***************************************************************************)
(* validate_target_record                                                  *)
(***************************************************************************)
BudgetValid(rec) ==
  /\ rec.checks <= MaxChecks
  /\ Len(rec.attempts) <= rec.checks

\* Slip: a next look is required of a spent budget too.
ScheduleAlwaysOpen(rec) ==
  /\ rec.state = "AWAITING_PROOF" => rec.judged /\ rec.nextCheck # Never
  /\ rec.state \in Terminal => rec.nextCheck = Never /\ rec.resolvedAt # Never

ScheduleValid(rec) ==
  /\ rec.state = "AWAITING_PROOF" =>
       /\ rec.judged /\ VerdictOf(LastAttempt(rec).reason) = "INCONCLUSIVE"
       /\ rec.resolvedAt = Never
       /\ (rec.checks < MaxChecks) <=> (rec.nextCheck # Never)
  /\ rec.state \in Terminal => rec.nextCheck = Never /\ rec.resolvedAt # Never

AttemptsOrdered(rec) ==
  \A i \in DOMAIN rec.attempts :
    /\ rec.attempts[i].count <= rec.checks
    /\ IF i = 1 THEN rec.attempts[i].count > 0
       ELSE /\ rec.attempts[i - 1].count < rec.attempts[i].count
            /\ rec.attempts[i - 1].at <= rec.attempts[i].at

TimesValid(rec) ==
  /\ rec.movedAt <= rec.updatedAt
  /\ rec.judged => LastAttempt(rec).at <= rec.movedAt

\* Slip: verification is taken to need a successful claim, not just a claim.
EvidenceNeedsSuccess(rec) ==
  CASE rec.state = "AWAITING_CONFIRMATION" -> ~rec.attested /\ ~rec.claim.valid /\ ~rec.judged
    [] rec.state = "EXECUTING"             -> rec.attested /\ ~rec.claim.valid /\ ~rec.judged
    [] OTHER                               -> rec.attested /\ rec.claim.success

\* The evidence each state must have, and may not have yet.  The order of the
\* times of confirmation, claim and read-back is left out: all are taken from
\* the one clock as the record moves, and cannot be out of order.
EvidenceValid(rec) ==
  CASE rec.state = "AWAITING_CONFIRMATION" -> ~rec.attested /\ ~rec.claim.valid /\ ~rec.judged
    [] rec.state = "EXECUTING"             -> rec.attested /\ ~rec.claim.valid /\ ~rec.judged
    [] rec.state = "VERIFYING"             -> rec.attested /\ rec.claim.valid /\ ~rec.judged
    [] rec.state \in Terminal \cup {"AWAITING_PROOF"}
                                           -> rec.attested /\ rec.claim.valid /\ rec.judged
    [] OTHER                               -> FALSE

\* The verdict is evaluated again from the stored evidence, against the target.
VerdictReproduces(rec) ==
  rec.judged =>
    LET last == LastAttempt(rec) IN
    /\ rec.state = StateFor(last.reason)
    /\ last.reason = Verify(rec.claim, last.evidence,
                            last.eligible /\ rec.checks >= MaxChecks, Target,
                            ChargeWeighed(rec, last.charge), rec.deadline, last.at)

ValidRecord(rec) ==
  /\ BudgetValid(rec)
  /\ ScheduleValid(rec)
  /\ AttemptsOrdered(rec)
  /\ TimesValid(rec)
  /\ EvidenceValid(rec)
  /\ VerdictReproduces(rec)

(***************************************************************************)
(* record_from_mapping                                                     *)
(***************************************************************************)
\* An attempt has a count of its own, and one that could close the window came
\* no earlier than its due time.
AttemptTimely(rec, i) ==
  LET a == rec.attempts[i] IN
  /\ i <= a.count /\ a.count <= MaxChecks
  /\ a.eligible =>
       /\ a.count >= MaxChecks
       /\ i > 1
       /\ rec.attempts[i - 1].at + Interval * rec.attempts[i - 1].count <= a.at

\* Reading re-evaluates every attempt, against the digest in its own receipt.
\* The receipt of every attempt is the record's claim, which is written once.
AttemptReproduces(rec, i) ==
  LET a == rec.attempts[i] IN
  /\ a.charge # None => ChargeById(rec, a.charge) # NoCharge
  /\ a.reason = Verify(rec.claim, a.evidence, a.eligible /\ a.count >= MaxChecks,
                       rec.claim.digest, ChargeById(rec, a.charge), rec.deadline, a.at)

AttemptDecodes(rec, i) == AttemptTimely(rec, i) /\ AttemptReproduces(rec, i)

Decodes(rec) ==
  /\ \A i \in DOMAIN rec.attempts : AttemptDecodes(rec, i)
  /\ ValidRecord(rec)
=============================================================================
