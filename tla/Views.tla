-------------------------------- MODULE Views --------------------------------
(***************************************************************************)
(* What a caller is shown of a record (the views of                        *)
(* src/src/closeloop/lifecycle.py, sent as they are by mcp_server.py).     *)
(* Every sentence is the name of what it says.                             *)
(*                                                                         *)
(* A payload is what a tool sends to the proof card: the status of a       *)
(* record, or its evidence.  `keys' names the fields that tell the two     *)
(* apart and are there; a field that is null or missing has the value that *)
(* stands for None in the record.                                          *)
(***************************************************************************)
EXTENDS RecordContract

ConsumerStates == {"Verified", "Not completed", "Awaiting proof"}

ConsumerState(verdict) ==
  CASE verdict = "PASS" -> "Verified"
    [] verdict = "FAIL" -> "Not completed"
    [] OTHER            -> "Awaiting proof"

NoEvidence ==
  [valid |-> FALSE, readable |-> FALSE, autoRenew |-> "null", endDate |-> FALSE,
   freshness |-> "null", digest |-> None, bound |-> FALSE]

\* What the record knows now: verification and independent_evidence.
VerdictIn(rec) == IF rec.judged THEN VerdictOf(LastAttempt(rec).reason) ELSE None

\* Slip: the evidence of the last look stays while the next one is under way.
EvidenceOfLastLook(rec) == IF rec.attempts # <<>> THEN LastAttempt(rec).evidence ELSE NoEvidence

EvidenceIn(rec) == IF rec.judged THEN LastAttempt(rec).evidence ELSE NoEvidence

(***************************************************************************)
(* _conversation_view                                                      *)
(***************************************************************************)
ExecutionStatus(rec) ==
  CASE rec.state \in {"REQUESTED", "AWAITING_CONFIRMATION"} -> "not_started"
    [] rec.state = "EXECUTING" -> "in_progress"
    [] OTHER -> "completed"

VerificationStatus(rec) ==
  CASE rec.judged              -> VerdictIn(rec)
    [] rec.state = "VERIFYING" -> "in_progress"
    [] OTHER                   -> "not_started"

ConsumerStateIn(rec) == IF rec.judged THEN ConsumerState(VerdictIn(rec)) ELSE None

\* recommended_next_step
NextStep(rec) ==
  CASE VerdictIn(rec) = "PASS"         -> "nothing_to_do"
    [] VerdictIn(rec) = "FAIL"         -> "report_not_done"
    [] VerdictIn(rec) = "INCONCLUSIVE" -> "offer_to_check_later"
    [] rec.state = "VERIFYING"         -> "look_for_result"
    [] rec.state = "EXECUTING"         -> "look_before_reporting"
    [] OTHER                           -> "obtain_confirmation"

(***************************************************************************)
(* The sentences of _status_view                                           *)
(***************************************************************************)
\* Slip: the claim is taken at its word.
SummaryOfClaim(rec) ==
  IF rec.claim.success THEN "canceled"
  ELSE IF rec.state = "AWAITING_CONFIRMATION" THEN "asking" ELSE "checking"

\* _consumer_summary
ConsumerSummary(rec) ==
  IF rec.state = "VERIFIED" THEN "canceled"
  ELSE IF rec.charges # <<>> THEN
    IF rec.recovery["outcome_violation"].state = "COMPLETED"
    THEN "charged_and_draft_ready" ELSE "charged"
  ELSE IF rec.state = "NOT_COMPLETED" THEN "not_completed"
  ELSE IF EvidenceIn(rec).readable /\ EvidenceIn(rec).autoRenew = "on" THEN "still_renewing"
  ELSE IF rec.state = "AWAITING_CONFIRMATION" THEN "asking"
  ELSE "checking"

NoReceiptView == [outcome |-> None, summary |-> None, autoRenew |-> None]

\* _receipt_view, which exists for an outcome.
ReceiptView(rec) ==
  IF rec.state \notin Terminal \/ ~rec.judged THEN NoReceiptView
  ELSE [outcome   |-> IF rec.state = "VERIFIED" THEN "Canceled" ELSE "Not completed",
        summary   |-> ConsumerSummary(rec),
        autoRenew |-> EvidenceIn(rec).autoRenew]

\* The order in which notices are given and follow-ups proposed: a charge is
\* only accepted at or after the deadline and silences every other notice, and
\* an outcome is the last thing a record is told.
NoticeOrder ==
  <<"deadline_approaching", "deadline_passed", "outcome_violation", "verified", "not_completed">>

LatestOf(notices) ==
  IF notices = {} THEN None
  ELSE NoticeOrder[CHOOSE i \in DOMAIN NoticeOrder :
         /\ NoticeOrder[i] \in notices
         /\ \A j \in DOMAIN NoticeOrder : NoticeOrder[j] \in notices => j <= i]

\* attention, and recovery_proposal
Attention(rec) == LatestOf(rec.attention)
Proposal(rec) ==
  LatestOf({f \in FollowUps : rec.recovery[f].state = "AWAITING_CONFIRMATION"})

(***************************************************************************)
(* Payloads                                                                *)
(***************************************************************************)
EvidenceKeys == {"state_history", "execution_claim", "independent_read_back", "verification"}
StatusKeys == {"is_terminal", "confirmation_required"}

\* `verification' is null, or a verdict with the customer's word for it and
\* the verifier's name, reason and time (`formed').
NoVerification == [given |-> FALSE, formed |-> FALSE, verdict |-> None, consumer |-> None]

\* state_history.  Where takeovers fell is not in the record here; they come
\* first.  `ordered' says that the times do not decrease.
History(rec) ==
  LET closed    == IF rec.judged THEN Len(rec.attempts) - 1 ELSE Len(rec.attempts)
      opening   == SubSeq(<<"REQUESTED", "AWAITING_CONFIRMATION", "EXECUTING">>, 1,
                          IF rec.moves < 3 THEN rec.moves ELSE 3)
      looks     == rec.moves - 3 - closed - (IF rec.judged THEN 1 ELSE 0)
      takeovers == looks - closed - 1
      body      == [i \in 1..(looks + closed) |->
                      IF i > takeovers + 1 /\ (i - takeovers) % 2 = 0
                      THEN "AWAITING_PROOF" ELSE "VERIFYING"]
  IN IF rec.moves <= 3 THEN opening
     ELSE opening \o body \o (IF rec.judged THEN <<rec.state>> ELSE <<>>)

\* The fields both shapes have: the state and _conversation_view.
Common(rec) ==
  [keys |-> {}, lifecycle |-> rec.state, execution |-> ExecutionStatus(rec),
   checked |-> VerificationStatus(rec), consumer |-> ConsumerStateIn(rec),
   verdict |-> None, isTerminal |-> FALSE, confirmation |-> FALSE,
   claim |-> NoReceipt, readBack |-> NoEvidence, verification |-> NoVerification,
   history |-> <<>>, ordered |-> TRUE, attempts |-> <<>>]

\* _status_view
StatusView(rec) ==
  [Common(rec) EXCEPT
     !.keys         = StatusKeys,
     !.verdict      = VerdictIn(rec),
     !.isTerminal   = rec.state \in Terminal,
     !.confirmation = rec.state = "AWAITING_CONFIRMATION"]

\* _evidence_view
EvidenceView(rec) ==
  [Common(rec) EXCEPT
     !.keys         = EvidenceKeys,
     !.claim        = rec.claim,
     !.readBack     = EvidenceIn(rec),
     !.verification = IF rec.judged
                      THEN [given |-> TRUE, formed |-> TRUE, verdict |-> VerdictIn(rec),
                            consumer |-> ConsumerStateIn(rec)]
                      ELSE NoVerification,
     !.history      = History(rec),
     !.attempts     = [i \in DOMAIN rec.attempts |-> VerdictOf(rec.attempts[i].reason)]]
=============================================================================
