--------------------------- MODULE Demonstration ---------------------------
(***************************************************************************)
(* One demonstration (src/src/closeloop/public_demo_api.py,                *)
(* PublicDemoRunner): a thread that takes the resolution service through   *)
(* a scripted journey, with a store and a simulated provider of its own,   *)
(* so that it is the only session.  The service is the one of              *)
(* ResolutionService with the values its constants have in the code, in    *)
(* half minutes; its clock stands at the times the script passes to it.    *)
(*                                                                         *)
(* The seconds of real time a demonstration takes count as none.  Only two *)
(* scenarios configure a recovery provider; the others never come near the *)
(* deadline, so that theirs would not be asked either.                     *)
(***************************************************************************)
EXTENDS Intent, Sequences

CONSTANT Moments     \* moments of the week at which a demonstration may begin

ASSUME MomentsAssumption == Moments \subseteq Nat

VARIABLES
  scenario,          \* what is demonstrated
  asked,             \* the moment of the request
  script,            \* what the thread has yet to do
  row, job, now, cancels, reads, followUpCalls    \* of ResolutionService

Minute == 2
Hour   == 60 * Minute

Thread  == "thread"
Charged == "charge"

V == INSTANCE Views WITH
       ChargeIds <- {Charged}, EvidenceIds <- {Charged}, ChargeMaxAge <- 7 * Day,
       MaxChecks <- 4, Interval <- 5 * Minute

(***************************************************************************)
(* The simulated providers                                                 *)
(***************************************************************************)
Claim == [valid |-> TRUE, success |-> TRUE, digest |-> V!Target]

On == [valid |-> TRUE, readable |-> TRUE, autoRenew |-> "on", endDate |-> FALSE,
       freshness |-> "within30", digest |-> V!Target, bound |-> TRUE]
OnAndPaid == [On EXCEPT !.endDate = TRUE]
Off       == [OnAndPaid EXCEPT !.autoRenew = "off"]
Outage    == [On EXCEPT !.readable = FALSE, !.autoRenew = "null", !.freshness = "null"]

\* PUBLIC_DEMO_INTENT, "before next Friday", and no charge again.
Contract(moment) ==
  [deadline |-> DeadlineRead("next_friday", moment), tracksCharges |-> TRUE]

S == INSTANCE ResolutionService WITH
       ChargeIds <- {Charged}, EvidenceIds <- {Charged}, ChargeMaxAge <- 7 * Day,
       MaxChecks <- 4, Interval <- 5 * Minute,
       Sessions <- {Thread}, MaxTime <- 15 * Day, StaleAfter <- 5 * Minute,
       ProposalTTL <- 5 * Minute, ApproachWindow <- 6 * Hour, Lag <- 0,
       Contracts <- {Contract(moment) : moment \in Moments},
       ProviderReceipts <- {Claim}, ProviderEvidence <- {On, OnAndPaid, Off, Outage},
       HasRecoveryProvider <- TRUE, CallsMayBeLost <- FALSE

Scenarios ==
  {"healthy", "false_success", "evidence_outage", "terminal_failure",
   "persistent_resolution", "recovery_loop", "outcome_violation"}

\* execute_recovery: the simulated provider updates the account when it is
\* asked for a support follow-up.
Recovered ==
  \E f \in {"deadline_approaching", "deadline_passed"} : followUpCalls[f] > 0

\* What a read-back shows.
View ==
  CASE scenario = "healthy" -> Off
    [] scenario = "evidence_outage" -> Outage
    [] scenario = "persistent_resolution" -> IF reads = 0 THEN On ELSE Off
    [] scenario \in {"recovery_loop", "outcome_violation"} -> IF Recovered THEN Off ELSE On
    [] OTHER -> OnAndPaid

(***************************************************************************)
(* The scripts                                                             *)
(***************************************************************************)
\* The calls a thread makes of the service, and the times it passes to them.
Script ==
  [s \in Scenarios |->
     <<"start", "confirm">> \o
     CASE s = "persistent_resolution" -> <<"due", "look">>
       [] s = "recovery_loop" ->
            <<"before_deadline", "forced_look", "soon", "follow_up", "due", "look">>
       [] s = "outcome_violation" ->
            <<"after_deadline", "report_charge", "later", "follow_up", "due", "look">>
       [] OTHER -> <<>>]

\* Slip: the first of two times is taken, whichever it is.
FirstOf(s, t) == s
Later(s, t) == IF s < t THEN t ELSE s

Times == {"due", "before_deadline", "after_deadline", "soon", "later"}
TimeOf(step) ==
  CASE step = "due"             -> Later(now, row.nextCheck)
    [] step = "before_deadline" -> Later(now + 10 * Minute, row.deadline - 5 * Hour)
    [] step = "after_deadline"  -> row.deadline + 2 * Minute
    [] step = "soon"            -> now + Minute \div 2
    [] step = "later"           -> now + Minute

\* The charge the billing observer reports.
Renewal == [id |-> Charged, evidence |-> Charged, at |-> row.deadline + Minute,
            genuine |-> TRUE, digest |-> V!Target]

\* The notice a follow-up has to come with.
Justified ==
  /\ V!Proposal(row) # V!None
  /\ V!Attention(row) \in
       {"deadline_passed", "outcome_violation"} \cup
       IF scenario = "recovery_loop" THEN {"deadline_approaching", "not_completed"} ELSE {}

\* Whether the next step is one the thread can take; else it raises.
Possible(step) ==
  CASE step = "start"         -> Contract(asked).deadline > now
    [] step = "confirm"       -> S!Loadable /\ row.state = "AWAITING_CONFIRMATION"
    [] step = "due"           -> row.nextCheck # V!Never
    [] step = "look"          -> S!Loadable /\ S!MayRecheck(row.nextCheck, FALSE)
    [] step = "forced_look"   -> S!Loadable /\ S!MayRecheck(V!Never, TRUE)
    [] step = "report_charge" -> S!Loadable /\ S!Admissible(Renewal, now)
    [] step = "follow_up"     ->
         /\ Justified /\ S!Loadable
         /\ now < row.recovery[V!Proposal(row)].expires
         /\ S!MayFollowUp(row, V!Proposal(row))
    [] OTHER                  -> TRUE

(***************************************************************************)
(* The thread                                                              *)
(***************************************************************************)
service == <<row, job, now, cancels, reads, followUpCalls>>

Idle ==
  /\ scenario = V!None /\ asked = 0 /\ script = <<>>
  /\ S!Init

\* A request is admitted and a thread begins.
Enter ==
  /\ scenario' \in Scenarios /\ asked' \in Moments
  /\ script' = Script[scenario']
  /\ UNCHANGED service

Between == job[Thread].pc = "idle"
AtStep(step) == Between /\ script # <<>> /\ Head(script) = step /\ Possible(step)

\* The thread begins a call of the service.
Call(step) ==
  /\ AtStep(step)
  /\ script' = Tail(script)
  /\ UNCHANGED <<scenario, asked>>

Start ==
  /\ Call("start")
  /\ S!Start
  /\ row'.deadline = Contract(asked).deadline

Confirm == Call("confirm") /\ S!LoadConfirm(Thread)
Look == (Call("look") \/ Call("forced_look")) /\ S!LoadRecheck(Thread)
FollowUp == Call("follow_up") /\ S!AcceptRecovery(Thread)

ReportCharge ==
  /\ Call("report_charge")
  /\ S!LoadCharge(Thread)
  /\ job'[Thread].rec.charges = <<Renewal>>

\* The time for the next call is reckoned.
PassTime ==
  /\ \E step \in Times : AtStep(step) /\ now' = TimeOf(step)
  /\ script' = Tail(script)
  /\ UNCHANGED <<scenario, asked, row, job, cancels, reads, followUpCalls>>

\* terminal_failure looks again for as long as the proof is awaited.
Unsettled ==
  /\ Between /\ script = <<>>
  /\ scenario = "terminal_failure" /\ row.state = "AWAITING_PROOF"

LookAgain ==
  /\ Unsettled
  /\ script' = <<"due", "look">>
  /\ UNCHANGED <<scenario, asked, service>>

\* The store refuses to save: the call raises.
Refused == job[Thread].pc \in S!SavePoints /\ ~S!CanSave(job[Thread].rec)

\* The service carries on a call, with what the provider answers.
Serve ==
  /\ ~Refused
  /\ S!Proceed(Thread)
  /\ job[Thread].pc = "read_back" => V!LastAttempt(job'[Thread].rec).evidence = View
  /\ job[Thread].pc = "call_recovery" => job'[Thread].succeeded
  /\ UNCHANGED <<scenario, asked, script>>

Step ==
  \/ Start \/ Confirm \/ Look \/ FollowUp \/ ReportCharge
  \/ PassTime \/ LookAgain \/ Serve

(***************************************************************************)
(* The end of a demonstration                                              *)
(***************************************************************************)
Raises == Refused \/ (Between /\ script # <<>> /\ ~Possible(Head(script)))
Finished == Between /\ script = <<>> /\ ~Unsettled

\* PublicDemoResult accepts what was shown: all three parts are there, what
\* was read is recent, and the verdict, the customer's word for it and the
\* state agree.
Presentable ==
  LET shown == V!EvidenceView(row) IN
  /\ shown.claim.valid /\ shown.verification.given
  /\ shown.readBack.freshness \in {"within30", "null"}
  /\ <<shown.verification.verdict, shown.verification.consumer, shown.lifecycle>> \in
       {<<"PASS", "Verified", "VERIFIED">>, <<"FAIL", "Not completed", "NOT_COMPLETED">>,
        <<"INCONCLUSIVE", "Awaiting proof", "AWAITING_PROOF">>}

Over == Raises \/ Finished
Ending == IF Finished /\ Presentable THEN "valid" ELSE "error"

\* The thread ends and its store is deleted.
Leave ==
  /\ scenario' = V!None /\ asked' = 0 /\ script' = <<>>
  /\ row' = V!Unborn /\ job' = [w \in {Thread} |-> S!NoJob] /\ now' = 0
  /\ cancels' = 0 /\ reads' = 0
  /\ followUpCalls' = [f \in V!FollowUps |-> 0]
=============================================================================
