-------------------------- MODULE ResolutionService --------------------------
(***************************************************************************)
(* One resolution and the calls that work on it at the same time           *)
(* (src/src/closeloop/lifecycle.py over repository.py and                  *)
(* dynamodb_repository.py).  A session is one call being served: it loads  *)
(* the stored record into a copy of its own, changes the copy, and asks    *)
(* the repository to save it; some calls go on to the provider and save    *)
(* again.  Sessions run in different threads or processes, so anything may *)
(* happen between two of their steps, including the end of their process.  *)
(***************************************************************************)
EXTENDS RecordContract, FiniteSets

CONSTANTS
  Sessions,           \* calls that may be in progress at the same time
  MaxTime,            \* bound of the model: ticks of the clock
  StaleAfter,         \* ticks after which VERIFYING may be taken over (5 minutes)
  ProposalTTL,        \* ticks a follow-up proposal stays open (5 minutes)
  ApproachWindow,     \* ticks before the deadline that call for notice (6 hours)
  Lag,                \* ticks between reading the clock and loading the record
  Contracts,          \* what intents may ask for: a deadline, charges watched
  ProviderReceipts,   \* answers the provider may give to the cancellation
  ProviderEvidence,   \* answers it may give to a read-back
  HasRecoveryProvider,\* whether a recovery provider is configured
  CallsMayBeLost      \* whether a process may stop in the middle of a call

ASSUME TimeAssumption ==
  /\ MaxTime \in Nat /\ Lag \in Nat
  /\ StaleAfter \in Nat /\ ProposalTTL \in Nat /\ ApproachWindow \in Nat
  /\ Contracts \subseteq [deadline: Nat \cup {Never}, tracksCharges: BOOLEAN]
ASSUME ProviderAssumption ==
  /\ ProviderReceipts \subseteq Receipt
  /\ ProviderEvidence \subseteq Evidence
ASSUME SessionsAssumption == IsFiniteSet(Sessions)
ASSUME SwitchAssumption == HasRecoveryProvider \in BOOLEAN /\ CallsMayBeLost \in BOOLEAN

VARIABLES
  row,                \* the record as stored
  job,                \* what each session is in the middle of
  now,                \* the clock every process reads
  cancels,            \* cancellations the provider was asked for
  reads,              \* read-backs the provider was asked for
  followUpCalls       \* calls of the recovery provider, for each follow-up

vars == <<row, job, now, cancels, reads, followUpCalls>>

(***************************************************************************)
(* A session's place in its call.  SavePoints wait for the repository, the *)
(* others for a provider or a second load.                                 *)
(***************************************************************************)
SavePoints ==
  {"claim_execution", "record_claim", "conclude", "claim_check",
   "claim_recovery", "finish"}
Places == SavePoints \cup {"idle", "execute", "read_back", "call_recovery", "reload"}

\* `at' is the time the call goes by (Never: it reads the clock later),
\* `item' the follow-up it is about, `succeeded' what the recovery said.
Job ==
  [pc: Places, rec: Record, at: Int, eligible: BOOLEAN,
   item: FollowUps \cup {None}, succeeded: BOOLEAN]

NoJob ==
  [pc |-> "idle", rec |-> Unborn, at |-> Never, eligible |-> FALSE,
   item |-> None, succeeded |-> FALSE]

Begin(w, pc, rec, at) ==
  job' = [job EXCEPT ![w] = [NoJob EXCEPT !.pc = pc, !.rec = rec, !.at = at]]

\* What get_owned needs: a stored record that still passes the contract.
Loadable == row.state # "REQUESTED" /\ Decodes(row)

(***************************************************************************)
(* Changes of a record in memory                                           *)
(***************************************************************************)
Transition(rec, next, at) ==
  [rec EXCEPT !.state = next, !.moves = @ + 1, !.movedAt = at, !.updatedAt = at]

\* is_valid_action_receipt fails, or the provider raises: nothing was proven.
Accepted(receipt) ==
  IF receipt.valid THEN receipt ELSE [valid |-> TRUE, success |-> FALSE, digest |-> None]

\* The same for a read-back: an unreadable account, about this target.
Unreadable ==
  [valid |-> TRUE, readable |-> FALSE, autoRenew |-> "null", endDate |-> FALSE,
   freshness |-> "null", digest |-> Target, bound |-> TRUE]
Collected(evidence) == IF evidence.valid THEN evidence ELSE Unreadable

\* A fresh enough view of a renewal that is still on.
StillRenews(evidence) ==
  /\ evidence.readable /\ evidence.autoRenew = "on"
  /\ evidence.freshness \in {"within30", "within300"}

\* attention_candidate: the notice this moment calls for, None for silence.
Notice(rec, seen, at) ==
  IF rec.charges # <<>> THEN "outcome_violation"
  ELSE IF rec.state = "VERIFIED" THEN "verified"
  ELSE IF rec.state = "NOT_COMPLETED" THEN "not_completed"
  ELSE IF rec.deadline # Never /\ at >= rec.deadline THEN "deadline_passed"
  ELSE IF rec.deadline # Never /\ rec.deadline - at <= ApproachWindow /\ StillRenews(seen)
       THEN "deadline_approaching"
  ELSE None

\* _create_recovery_proposal, when its conditions hold.
MayPropose(rec, reason, seen) ==
  /\ HasRecoveryProvider
  /\ reason \in FollowUps
  /\ reason # "outcome_violation" => rec.state \notin Terminal /\ StillRenews(seen)
  /\ rec.recovery[reason].state = "none"

Propose(rec, reason, at) ==
  [rec EXCEPT !.recovery[reason] =
     [state |-> "AWAITING_CONFIRMATION", expires |-> at + ProposalTTL]]

\* Slip: silence is recorded like a notice.
NotifyOfSilence(rec, reason, seen, at, proposing) ==
  IF reason \in rec.attention THEN rec
  ELSE [rec EXCEPT !.attention = @ \cup {reason}]

\* A notice is given once; giving it may also propose a follow-up.
Notify(rec, reason, seen, at, proposing) ==
  LET noted == [rec EXCEPT !.attention = @ \cup {reason}] IN
  IF reason = None \/ reason \in rec.attention THEN rec
  ELSE IF proposing /\ MayPropose(rec, reason, seen) THEN Propose(noted, reason, at)
  ELSE noted

\* The last charge of the list among those `known', if there is one.
LatestCharge(charges, known) ==
  LET latest == {i \in known : \A j \in known : j <= i}
  IN IF latest = {} THEN NoCharge ELSE charges[CHOOSE i \in latest : TRUE]

\* Slip: a charge observed at the moment of the check is not weighed.
EarlierChargeToWeigh(rec, at) ==
  LatestCharge(rec.charges, {i \in DOMAIN rec.charges : rec.charges[i].at < at})

\* The latest charge observed by the time of the check.
ChargeToWeigh(rec, at) ==
  LatestCharge(rec.charges, {i \in DOMAIN rec.charges : rec.charges[i].at <= at})

\* Slip: only success settles a follow-up.
SettleOnSuccess(followUp, verdict) ==
  IF followUp.state # "VERIFYING" \/ verdict # "PASS" THEN followUp
  ELSE [followUp EXCEPT !.state = "COMPLETED"]

\* A follow-up that awaited this verdict is settled by it.
Settle(followUp, verdict) ==
  IF followUp.state # "VERIFYING" \/ verdict = "INCONCLUSIVE" THEN followUp
  ELSE [followUp EXCEPT !.state = IF verdict = "PASS" THEN "COMPLETED" ELSE "FAILED"]

\* What a look leaves in the record: the attempt, and when to look again.
Judge(rec, attempt) ==
  LET open == VerdictOf(attempt.reason) = "INCONCLUSIVE" IN
  [rec EXCEPT
     !.judged     = TRUE,
     !.attempts   = Append(@, attempt),
     !.nextCheck  = IF open /\ rec.checks < MaxChecks
                    THEN attempt.at + Interval * rec.checks ELSE Never,
     !.resolvedAt = IF open THEN Never ELSE attempt.at]

\* Slip: the history holds the last attempt only.
KeepLastAttempt(rec, evidence, eligible, at) ==
  LET attempt == [at |-> at, count |-> rec.checks, eligible |-> eligible, charge |-> None,
                  evidence |-> evidence,
                  reason |-> Verify(rec.claim, evidence, FALSE, Target, NoCharge, rec.deadline, at)]
  IN Transition(Judge([rec EXCEPT !.attempts = <<>>], attempt), StateFor(attempt.reason), at)

\* _record_verification, after the evidence was read.
RecordVerification(rec, evidence, eligible, at) ==
  LET charge  == ChargeToWeigh(rec, at)
      reason  == Verify(rec.claim, evidence, eligible /\ rec.checks >= MaxChecks, Target,
                        charge, rec.deadline, at)
      attempt == [at |-> at, count |-> rec.checks, eligible |-> eligible,
                  charge |-> charge.id, evidence |-> evidence, reason |-> reason]
      moved   == Transition(Judge(rec, attempt), StateFor(reason), at)
      settled == [moved EXCEPT !.recovery =
                    [f \in FollowUps |-> Settle(rec.recovery[f], VerdictOf(reason))]]
  IN Notify(settled, Notice(settled, evidence, at), evidence, at, settled.state \notin Terminal)

(***************************************************************************)
(* save_owned: one conditional write                                       *)
(***************************************************************************)
\* Slip: a final record is open to changes that do not move it.
Reopened == TRUE
Open == row.state \notin Terminal

\* Slip: the version the copy came from is not compared.
AnyVersion(rec) == TRUE
SameVersion(rec) == row.version = rec.version

\* The copy's history is the stored one, or has one lawful entry more.
ContinuesHistory(rec) ==
  \/ /\ rec.moves = row.moves + 1
     /\ row.state \in AllowedPrevious(rec.state)
     /\ row.movedAt <= rec.movedAt
  \/ rec.moves = row.moves /\ row.state = rec.state

CanSave(rec) == Open /\ SameVersion(rec) /\ ContinuesHistory(rec) /\ ValidRecord(rec)

Saved(rec) == [rec EXCEPT !.version = @ + 1]

\* The save a session waits for succeeds, and its copy takes the new version.
Save(w, from, to) ==
  /\ job[w].pc = from
  /\ CanSave(job[w].rec)
  /\ row' = Saved(job[w].rec)
  /\ job' = [job EXCEPT ![w] = IF to = "idle" THEN NoJob
                               ELSE [@ EXCEPT !.pc = to, !.rec = Saved(job[w].rec)]]
  /\ UNCHANGED <<now, cancels, reads, followUpCalls>>

\* Slip: a session goes on without the save that should come first.
WithoutSave(w, from, to) ==
  /\ job[w].pc = from
  /\ job' = [job EXCEPT ![w].pc = to]
  /\ UNCHANGED <<row, now, cancels, reads, followUpCalls>>

\* The save is refused: the call ends with an error and its copy is dropped.
SaveRefused(w) ==
  /\ job[w].pc \in SavePoints
  /\ ~CanSave(job[w].rec)
  /\ job' = [job EXCEPT ![w] = NoJob]
  /\ UNCHANGED <<row, now, cancels, reads, followUpCalls>>

(***************************************************************************)
(* start_resolution                                                        *)
(***************************************************************************)
Start ==
  /\ row.state = "REQUESTED"
  /\ \E contract \in Contracts :
       /\ contract.deadline # Never => contract.deadline > now
       /\ row' = Transition([Unborn EXCEPT !.deadline = contract.deadline,
                                           !.tracksCharges = contract.tracksCharges],
                            "AWAITING_CONFIRMATION", now)
  /\ UNCHANGED <<job, now, cancels, reads, followUpCalls>>

(***************************************************************************)
(* confirm_resolution_action, with an attestation that verifies            *)
(***************************************************************************)
LoadConfirm(w) ==
  /\ job[w].pc = "idle" /\ Loadable
  /\ row.state = "AWAITING_CONFIRMATION"
  /\ Begin(w, "claim_execution",
           Transition([row EXCEPT !.attested = TRUE], "EXECUTING", now), Never)
  /\ UNCHANGED <<row, now, cancels, reads, followUpCalls>>

UnclaimedExecution(w) == WithoutSave(w, "claim_execution", "execute")
ClaimExecution(w) == Save(w, "claim_execution", "execute")

\* The provider is asked to cancel.  A provider that cannot even be built is
\* counted like one that was asked and gave no usable receipt.
Execute(w) ==
  /\ job[w].pc = "execute"
  /\ \E receipt \in ProviderReceipts :
       job' = [job EXCEPT
                 ![w].pc  = "record_claim",
                 ![w].rec = Transition([job[w].rec EXCEPT !.claim = Accepted(receipt),
                                                          !.checks = @ + 1],
                                       "VERIFYING", now)]
  /\ cancels' = cancels + 1
  /\ UNCHANGED <<row, now, reads, followUpCalls>>

RecordClaim(w) == Save(w, "record_claim", "read_back")

\* Shared with recheck_resolution: the independent look and its evaluation.
ReadBack(w) ==
  /\ job[w].pc = "read_back"
  /\ \E evidence \in ProviderEvidence :
       job' = [job EXCEPT
                 ![w].pc  = "conclude",
                 ![w].rec = RecordVerification(
                              job[w].rec, Collected(evidence), job[w].eligible,
                              IF job[w].at = Never THEN now ELSE job[w].at)]
  /\ reads' = reads + 1
  /\ UNCHANGED <<row, now, cancels, followUpCalls>>

Conclude(w) == Save(w, "conclude", "idle")

(***************************************************************************)
(* recheck_resolution                                                      *)
(***************************************************************************)
Due == row.nextCheck = Never \/ now >= row.nextCheck

\* Slip: a look may begin while a follow-up is being executed.
MayRecheckAnyway(scheduled, force) ==
  /\ row.checks < MaxChecks
  /\ row.state = "AWAITING_PROOF" /\ Due

\* A scheduled call names the check it was scheduled for; a customer's call
\* may be forced ahead of time.
MayRecheck(scheduled, force) ==
  /\ \A f \in FollowUps : row.recovery[f].state # "EXECUTING"
  /\ row.checks < MaxChecks
  /\ \/ row.state = "VERIFYING" /\ now >= row.updatedAt + StaleAfter
     \/ /\ row.state = "AWAITING_PROOF"
        /\ IF scheduled # Never THEN row.nextCheck = scheduled /\ now >= scheduled
           ELSE force \/ Due

\* Slip: a look ahead of its time may close the window.
MayCloseWindowEarly ==
  /\ row.state = "AWAITING_PROOF"
  /\ row.nextCheck # Never
  /\ row.checks + 1 >= MaxChecks

\* Only a look at its due time, on the last count of the budget, may fail.
MayCloseWindow ==
  /\ row.state = "AWAITING_PROOF"
  /\ row.nextCheck # Never
  /\ row.checks + 1 >= MaxChecks
  /\ now >= row.nextCheck

\* A call that was scheduled for another check than the next one is refused.
LoadRecheck(w) ==
  /\ job[w].pc = "idle" /\ Loadable
  /\ \E scheduled \in {row.nextCheck, Never}, force \in BOOLEAN : MayRecheck(scheduled, force)
  /\ LET claimed == [row EXCEPT !.checks = @ + 1]
         cleared == IF row.state = "AWAITING_PROOF"
                    THEN [claimed EXCEPT !.nextCheck = Never, !.judged = FALSE]
                    ELSE claimed
     IN job' = [job EXCEPT ![w] =
                  [NoJob EXCEPT !.pc = "claim_check", !.at = now, !.eligible = MayCloseWindow,
                                !.rec = Transition(cleared, "VERIFYING", now)]]
  /\ UNCHANGED <<row, now, cancels, reads, followUpCalls>>

UnclaimedCheck(w) == WithoutSave(w, "claim_check", "read_back")
ClaimCheck(w) == Save(w, "claim_check", "read_back")

(***************************************************************************)
(* confirm_recovery_action                                                 *)
(***************************************************************************)
\* Times a call may go by that reads the clock before it loads the record.
RecentTimes == {t \in now - Lag..now : t >= 0}

SetFollowUp(rec, f, state, at) ==
  [rec EXCEPT !.recovery[f].state = state, !.updatedAt = at]

IsRefund(rec, f) == f = "outcome_violation" /\ rec.charges # <<>>

\* A support follow-up needs an open resolution awaiting proof; the
\* preparation of a refund request does not.
MayFollowUp(rec, f) == IsRefund(rec, f) \/ rec.state = "AWAITING_PROOF"

LoadRecovery(w, f, at) ==
  /\ job[w].pc = "idle" /\ Loadable
  /\ HasRecoveryProvider
  /\ at \in RecentTimes
  /\ row.recovery[f].state = "AWAITING_CONFIRMATION"
  /\ UNCHANGED <<row, now, cancels, reads, followUpCalls>>

ExpireRecovery(w) ==
  \E f \in FollowUps, at \in RecentTimes :
    /\ LoadRecovery(w, f, at)
    /\ at >= row.recovery[f].expires
    /\ Begin(w, "finish", SetFollowUp(row, f, "EXPIRED", at), Never)

DeclineRecovery(w) ==
  \E f \in FollowUps, at \in RecentTimes :
    /\ LoadRecovery(w, f, at)
    /\ at < row.recovery[f].expires /\ MayFollowUp(row, f)
    /\ Begin(w, "finish", SetFollowUp(row, f, "DECLINED", at), Never)

AcceptRecovery(w) ==
  \E f \in FollowUps, at \in RecentTimes :
    /\ LoadRecovery(w, f, at)
    /\ at < row.recovery[f].expires /\ MayFollowUp(row, f)
    /\ job' = [job EXCEPT ![w] =
                 [NoJob EXCEPT !.pc = "claim_recovery", !.at = at, !.item = f,
                               !.rec = SetFollowUp(row, f, "EXECUTING", at)]]

UnclaimedRecovery(w) == WithoutSave(w, "claim_recovery", "call_recovery")
ClaimRecovery(w) == Save(w, "claim_recovery", "call_recovery")

\* The recovery provider answers with a matching receipt of success, or fails
\* in one of several ways that are recorded as a failure.  (An answer that is no
\* mapping at all, against the provider's type, ends the call with an error
\* instead: what is left behind is what CallLost leaves after this action.)
CallRecovery(w) ==
  /\ job[w].pc = "call_recovery"
  /\ \E succeeded \in BOOLEAN :
       job' = [job EXCEPT ![w].pc = "reload", ![w].succeeded = succeeded]
  /\ followUpCalls' = [followUpCalls EXCEPT ![job[w].item] = @ + 1]
  /\ UNCHANGED <<row, now, cancels, reads>>

\* The record is loaded again for the result, which goes by the time the call
\* began.  A prepared refund request is complete; a support follow-up waits
\* for the next look.
ReloadRecovery(w) ==
  LET f == job[w].item
      result == IF ~job[w].succeeded THEN "FAILED"
                ELSE IF IsRefund(job[w].rec, f) THEN "COMPLETED" ELSE "VERIFYING" IN
  /\ job[w].pc = "reload"
  /\ IF Loadable
     THEN job' = [job EXCEPT ![w].pc  = "finish",
                             ![w].rec = SetFollowUp(row, f, result, job[w].at)]
     ELSE job' = [job EXCEPT ![w] = NoJob]
  /\ UNCHANGED <<row, now, cancels, reads, followUpCalls>>

Finish(w) == Save(w, "finish", "idle")

(***************************************************************************)
(* record_outcome_violation                                                *)
(***************************************************************************)
\* The billing observer's evidence is about this target, at or after the
\* deadline, not from the future and recent.
Admissible(charge, at) ==
  /\ row.tracksCharges
  /\ charge.genuine /\ charge.digest = Target
  /\ row.deadline # Never /\ charge.at >= row.deadline
  /\ charge.at <= at /\ at - charge.at <= ChargeMaxAge

\* What may be reported (what lies before the deadline would be refused).
Charges ==
  [id: ChargeIds, evidence: EvidenceIds, at: row.deadline..now, genuine: BOOLEAN,
   digest: {Target, "other"}]

\* The same report is not taken twice; the same charge may be, under another
\* report.
LoadCharge(w) ==
  /\ job[w].pc = "idle" /\ Loadable
  /\ \E charge \in Charges, at \in RecentTimes :
       /\ Admissible(charge, at)
       /\ \A i \in DOMAIN row.charges : row.charges[i].evidence # charge.evidence
       /\ LET noted == [row EXCEPT !.charges = Append(@, charge), !.updatedAt = at]
          IN Begin(w, "finish",
                   Notify(noted, Notice(noted, Unreadable, at), Unreadable, at, TRUE), Never)
  /\ UNCHANGED <<row, now, cancels, reads, followUpCalls>>

(***************************************************************************)
(* The environment                                                         *)
(***************************************************************************)
\* A process stops, or an answer from the store never arrives.
CallLost(w) ==
  /\ CallsMayBeLost
  /\ job[w].pc # "idle"
  /\ job' = [job EXCEPT ![w] = NoJob]
  /\ UNCHANGED <<row, now, cancels, reads, followUpCalls>>

Tick ==
  /\ now < MaxTime
  /\ now' = now + 1
  /\ UNCHANGED <<row, job, cancels, reads, followUpCalls>>

(***************************************************************************)
(* The specification                                                       *)
(***************************************************************************)
Init ==
  /\ row = Unborn
  /\ job = [w \in Sessions |-> NoJob]
  /\ now = 0
  /\ cancels = 0 /\ reads = 0
  /\ followUpCalls = [f \in FollowUps |-> 0]

\* A call begins because somebody asks; once begun it runs by itself.
Ask(w) ==
  \/ LoadConfirm(w) \/ LoadRecheck(w) \/ LoadCharge(w)
  \/ ExpireRecovery(w) \/ DeclineRecovery(w) \/ AcceptRecovery(w)

Proceed(w) ==
  \/ ClaimExecution(w) \/ Execute(w) \/ RecordClaim(w)
  \/ ReadBack(w) \/ Conclude(w) \/ ClaimCheck(w)
  \/ ClaimRecovery(w) \/ CallRecovery(w) \/ ReloadRecovery(w)
  \/ Finish(w) \/ SaveRefused(w)

Next ==
  \/ Start \/ Tick
  \/ \E w \in Sessions : Ask(w) \/ Proceed(w) \/ CallLost(w)

Spec == Init /\ [][Next]_vars

\* A call that was begun is carried on by the thread that serves it, up to the
\* end or to the end of its process.
FairSpec == Spec /\ \A w \in Sessions : WF_vars(Proceed(w))
=============================================================================
