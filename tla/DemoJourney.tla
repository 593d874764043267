----------------------------- MODULE DemoJourney -----------------------------
(***************************************************************************)
(* The journey of a demonstration (src/src/closeloop/public_demo_api.py,   *)
(* PublicDemoRunner): where its record, its copy, its clock and its script *)
(* stand at every moment from the admission of its request to its end.     *)
(* This is the inductive invariant behind ShowsWhatItSays; the proofs are  *)
(* in PublicDemoProofs.                                                    *)
(*                                                                         *)
(* The record is described by the stage it is at: as it was started,       *)
(* agreed to, asked for, looked at, waiting, final. The story of a         *)
(* scenario says which part of its script is left at which stage, what the *)
(* customer was told and offered until then, and what time it is.          *)
(***************************************************************************)
EXTENDS PublicDemo

(***************************************************************************)
(* Where a demonstration stands                                            *)
(***************************************************************************)
Deadline == Contract(asked).deadline
Copy     == job[Thread].rec
Answers  == {On, OnAndPaid, Off, Outage}

\* The charge that is reported of a resolution with this deadline.
Renewed(end) == [id |-> Charged, evidence |-> Charged, at |-> end + Minute,
                 genuine |-> TRUE, digest |-> V!Target]

\* Every look until now was inconclusive, and could not close the window.
AttemptsFit(rec, end) ==
  \A i \in 1..Len(rec.attempts) :
    LET a == rec.attempts[i] IN
    /\ a.count = i /\ ~a.eligible /\ a.charge = S!None
    /\ a.evidence \in Answers
    /\ a.reason = S!Verify(Claim, a.evidence, FALSE, S!Target, S!NoCharge, end, a.at)
    /\ i > 1 => rec.attempts[i - 1].at <= a.at

\* A record whose claim is stored, at a time.
Claimed(rec, end, time) ==
  /\ rec \in S!Record
  /\ rec.attested /\ rec.claim = Claim
  /\ rec.deadline = end /\ rec.tracksCharges
  /\ rec.charges \in {<<>>, <<Renewed(end)>>}
  /\ AttemptsFit(rec, end)
  /\ rec.movedAt \in Nat /\ rec.movedAt <= rec.updatedAt /\ rec.updatedAt <= time

\* It waits for the next look.
Resting(rec, end, time) ==
  /\ Claimed(rec, end, time)
  /\ rec.state = "AWAITING_PROOF" /\ rec.judged
  /\ rec.checks \in 1..3 /\ Len(rec.attempts) = rec.checks
  /\ S!VerdictOf(S!LastAttempt(rec).reason) = "INCONCLUSIVE"
  /\ S!LastAttempt(rec).at = rec.movedAt
  /\ rec.resolvedAt = S!Never
  /\ rec.nextCheck = rec.movedAt + 5 * Minute * rec.checks

\* It is looked at.
Looking(rec, end, time) ==
  /\ Claimed(rec, end, time)
  /\ rec.state = "VERIFYING" /\ ~rec.judged
  /\ rec.checks \in 1..4 /\ Len(rec.attempts) = rec.checks - 1
  /\ rec.movedAt = time
  /\ rec.checks > 1 => S!LastAttempt(rec).at <= time

\* Its outcome is found.
Final(rec) ==
  /\ rec \in S!Record
  /\ rec.judged /\ rec.claim = Claim
  /\ rec.state \in S!Terminal
  /\ rec.attempts # <<>>
  /\ rec.state = S!StateFor(S!LastAttempt(rec).reason)
  /\ S!LastAttempt(rec).evidence \in Answers
  /\ S!ValidRecord(rec)

(***************************************************************************)
(* What it was told, and what is proposed                                  *)
(***************************************************************************)
Uncharged(rec) == rec.charges = <<>>
NothingProposed(rec) == \A f \in S!FollowUps : rec.recovery[f].state = "none"
Quiet(rec) == Uncharged(rec) /\ rec.attention = {} /\ NothingProposed(rec)
NoneExecuting(rec) == \A f \in S!FollowUps : rec.recovery[f].state # "EXECUTING"

\* One follow-up is open, and was never another.
Offered(rec, f, expires) ==
  /\ rec.attention = {f}
  /\ rec.recovery[f] = [state |-> "AWAITING_CONFIRMATION", expires |-> expires]
  /\ \A g \in S!FollowUps \ {f} : rec.recovery[g].state = "none"

(***************************************************************************)
(* The journeys                                                            *)
(***************************************************************************)
\* What the thread does after the confirmation.
Rest(s) ==
  CASE s = "persistent_resolution" -> <<"due", "look">>
    [] s = "recovery_loop" ->
         <<"before_deadline", "forced_look", "soon", "follow_up", "due", "look">>
    [] s = "outcome_violation" ->
         <<"after_deadline", "report_charge", "later", "follow_up", "due", "look">>
    [] OTHER -> <<>>

\* What is proposed in the two journeys that come to a follow-up.
Proposed == IF scenario = "recovery_loop" THEN "deadline_approaching" ELSE "outcome_violation"

NotCalled == \A f \in S!FollowUps : followUpCalls[f] = 0
Untouched == now = 0 /\ reads = 0 /\ NotCalled

StoryOfPersistence(rec) ==
  /\ rec.checks = 1 /\ reads # 0 /\ NoneExecuting(rec) /\ Uncharged(rec)
  /\ \/ script = <<"due", "look">>
     \/ script = <<"look">> /\ now >= rec.nextCheck

StoryOfFailure(rec) ==
  /\ NoneExecuting(rec) /\ Uncharged(rec)
  /\ \/ script \in {<<>>, <<"due", "look">>}
     \/ script = <<"look">> /\ now >= rec.nextCheck

StoryOfRecovery(rec) ==
  /\ Uncharged(rec)
  /\ \/ /\ rec.checks = 1 /\ Quiet(rec) /\ NotCalled
        /\ \/ script = Rest("recovery_loop") /\ now = 0
           \/ script = <<"forced_look", "soon", "follow_up", "due", "look">>
              /\ now = Deadline - 5 * Hour
     \/ /\ rec.checks = 2
        /\ Offered(rec, "deadline_approaching", Deadline - 5 * Hour + 5 * Minute)
        /\ \/ script = <<"soon", "follow_up", "due", "look">> /\ now = Deadline - 5 * Hour
           \/ script = <<"follow_up", "due", "look">> /\ now = Deadline - 5 * Hour + 1
     \/ /\ rec.checks = 2 /\ NoneExecuting(rec) /\ Recovered
        /\ \/ script = <<"due", "look">>
           \/ script = <<"look">> /\ now >= rec.nextCheck

StoryOfCharge(rec) ==
  /\ rec.checks = 1
  /\ \/ /\ Quiet(rec)
        /\ \/ script = Rest("outcome_violation") /\ now = 0
           \/ script = <<"report_charge", "later", "follow_up", "due", "look">>
              /\ now = Deadline + 2 * Minute
     \/ /\ rec.charges = <<Renewed(Deadline)>>
        /\ Offered(rec, "outcome_violation", Deadline + 7 * Minute)
        /\ \/ script = <<"later", "follow_up", "due", "look">> /\ now = Deadline + 2 * Minute
           \/ script = <<"follow_up", "due", "look">> /\ now = Deadline + 3 * Minute
     \/ /\ rec.charges = <<Renewed(Deadline)>> /\ NoneExecuting(rec)
        /\ \/ script = <<"due", "look">> /\ now = Deadline + 3 * Minute
           \/ /\ script = <<"look">> /\ now >= rec.nextCheck
              /\ now \in Deadline + 3 * Minute .. Deadline + 8 * Minute

\* A record that waits, between two calls.
Story(rec) ==
  CASE scenario \in {"false_success", "evidence_outage"} -> script = <<>>
    [] scenario = "persistent_resolution" -> StoryOfPersistence(rec)
    [] scenario = "terminal_failure"      -> StoryOfFailure(rec)
    [] scenario = "recovery_loop"         -> StoryOfRecovery(rec)
    [] scenario = "outcome_violation"     -> StoryOfCharge(rec)
    [] OTHER -> FALSE

\* A record that is looked at: for the first time, or again.
FirstLook(rec) == rec.checks = 1 /\ Untouched /\ Quiet(rec) /\ script = Rest(scenario)

NextLook(rec) ==
  \/ /\ scenario = "persistent_resolution" /\ rec.checks = 2 /\ reads # 0
     /\ Uncharged(rec) /\ script = <<>>
  \/ /\ scenario = "terminal_failure" /\ Uncharged(rec) /\ NoneExecuting(rec) /\ script = <<>>
  \/ /\ scenario = "recovery_loop" /\ rec.checks = 2 /\ Quiet(rec)
     /\ now = Deadline - 5 * Hour /\ NotCalled
     /\ script = <<"soon", "follow_up", "due", "look">>
  \/ /\ scenario = "recovery_loop" /\ rec.checks = 3 /\ Uncharged(rec) /\ Recovered /\ script = <<>>
  \/ /\ scenario = "outcome_violation" /\ rec.checks = 2 /\ rec.charges = <<Renewed(Deadline)>>
     /\ now \in Deadline + 3 * Minute .. Deadline + 8 * Minute /\ script = <<>>

LookStory(rec) == FirstLook(rec) \/ NextLook(rec)

\* A follow-up under way.
FollowUpStory(rec) ==
  /\ scenario \in {"recovery_loop", "outcome_violation"}
  /\ rec.recovery[Proposed].state = "EXECUTING"
  /\ \A g \in S!FollowUps \ {Proposed} : rec.recovery[g].state = "none"
  /\ script = <<"due", "look">>
  /\ IF scenario = "recovery_loop"
     THEN rec.checks = 2 /\ Uncharged(rec)
     ELSE rec.checks = 1 /\ rec.charges = <<Renewed(Deadline)>> /\ now = Deadline + 3 * Minute

Ended(rec) == Final(rec) /\ script = <<>> /\ rec.state = Announced(scenario)

(***************************************************************************)
(* The invariant                                                           *)
(***************************************************************************)
\* The records of a confirmation: as it was started, agreed to, and asked for.
Born(end) ==
  S!Transition([S!Unborn EXCEPT !.deadline = end, !.tracksCharges = TRUE],
               "AWAITING_CONFIRMATION", 0)
Agreed(end) == S!Transition([Born(end) EXCEPT !.attested = TRUE], "EXECUTING", 0)
Asked(end) ==
  S!Transition([S!Saved(Agreed(end)) EXCEPT !.claim = S!Accepted(Claim), !.checks = @ + 1],
               "VERIFYING", 0)

Confirming(pc) ==
  /\ Untouched /\ script = Rest(scenario)
  /\ job[Thread].at = S!Never /\ ~job[Thread].eligible
  /\ CASE pc = "claim_execution" -> row = Born(Deadline) /\ Copy = Agreed(Deadline)
       [] pc = "execute"         -> row = S!Saved(Agreed(Deadline)) /\ Copy = row
       [] pc = "record_claim"    -> row = S!Saved(Agreed(Deadline)) /\ Copy = Asked(Deadline)

SameVersion == Copy.version = row.version
OneStepOn   == SameVersion /\ Copy.moves = row.moves + 1
StepAside   == SameVersion /\ Copy.moves = row.moves

LookingAt(pc) ==
  /\ job[Thread].at \in {S!Never, now}
  /\ pc # "conclude" =>
       /\ Looking(Copy, Deadline, now) /\ LookStory(Copy)
       /\ job[Thread].eligible <=> Copy.checks = 4
  /\ CASE pc = "claim_check" -> Resting(row, Deadline, now) /\ OneStepOn
       [] pc = "read_back"   -> Copy = row
       [] pc = "conclude"    ->
            /\ Looking(row, Deadline, now) /\ OneStepOn /\ row.movedAt <= Copy.movedAt
            /\ (Resting(Copy, Deadline, now) /\ Story(Copy)) \/ Ended(Copy)

BothResting ==
  Resting(row, Deadline, now) /\ Resting(Copy, Deadline, now) /\ StepAside

FollowingUp(pc) ==
  /\ job[Thread].at = now /\ job[Thread].item = Proposed
  /\ BothResting /\ FollowUpStory(Copy)
  /\ pc # "claim_recovery" => Copy = row
  /\ pc = "reload" => job[Thread].succeeded /\ (scenario = "recovery_loop" => Recovered)

BetweenCalls ==
  /\ job[Thread] = S!NoJob
  /\ \/ script = Script[scenario] /\ Untouched /\ row = S!Unborn
     \/ script = <<"confirm">> \o Rest(scenario) /\ Untouched /\ row = Born(Deadline)
     \/ Resting(row, Deadline, now) /\ Story(row)
     \/ Ended(row)

Underway ==
  LET pc == job[Thread].pc IN
  CASE pc = "idle" -> BetweenCalls
    [] pc \in {"claim_execution", "execute", "record_claim"} -> Confirming(pc)
    [] pc \in {"claim_check", "read_back", "conclude"} -> LookingAt(pc)
    [] pc \in {"claim_recovery", "call_recovery", "reload"} -> FollowingUp(pc)
    [] pc = "finish" -> BothResting /\ Story(Copy)

DemonstrationTypeOK ==
  /\ scenario \in Scenarios /\ asked \in Moments
  /\ row \in S!Record /\ job \in [{Thread} -> S!Job]
  /\ now \in Nat /\ reads \in Nat /\ followUpCalls \in [S!FollowUps -> Nat]

DemonstrationInv ==
  IF task[Shown] = "running" THEN DemonstrationTypeOK /\ Underway ELSE Idle
==============================================================================
