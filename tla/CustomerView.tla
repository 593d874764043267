---------------------------- MODULE CustomerView ----------------------------
(***************************************************************************)
(* What the customer of a resolution can be told at any moment, on a card  *)
(* or in words, set against what the service really knows and did.         *)
(***************************************************************************)
EXTENDS ResolutionProperties, ProofCard

\* The title that is true of a state.
TrueTitle(state) ==
  CASE state = "VERIFIED"              -> "Verified"
    [] state = "NOT_COMPLETED"         -> "Not completed"
    [] state = "AWAITING_PROOF"        -> "Awaiting proof"
    [] state = "AWAITING_CONFIRMATION" -> "Confirmation required"
    [] state = "EXECUTING"             -> "Action in progress"
    [] OTHER                           -> "Checking the result"

Started == row.state # "REQUESTED"

\* Of a status the card always shows the title that is true of the record.  Of
\* evidence it shows that title or admits that it cannot, and it only may fail
\* to while proof is awaited, or for an outcome that took more than one look or
\* rests on a charge.  The views are made in Python and judged again in
\* JavaScript by rules of their own (ResolutionService._status_view and
\* _evidence_view; mcp_app.py, deriveView).
CardTellsTheOutcome ==
  Started =>
    LET title == CardTitle(EvidenceView(row)) IN
    /\ CardTitle(StatusView(row)) = TrueTitle(row.state)
    /\ title \in {TrueTitle(row.state), Unavailable}
    /\ title = Unavailable =>
         \/ row.state = "AWAITING_PROOF"
         \/ row.state \in Terminal /\ (row.moves > 5 \/ row.charges # <<>>)

\* Whatever the card shows as done was done: no step is complete before the
\* customer consented, the provider was called and an outcome was proven
\* (mcp_app.py, renderProgress).
ProgressIsTrue ==
  Started =>
    \A view \in {StatusView(row), EvidenceView(row)} :
      LET done == StepsComplete(CardTitle(view)) IN
      /\ done >= 2 => row.attested
      /\ done >= 3 => cancels = 1 /\ row.claim.valid
      /\ done = 4  => row.state \in Terminal

\* What the record can be said to be by its summary, its next step and its
\* latest notice: whichever the assistant reads out, the customer hears the
\* same, and hears of success only on a trusted read-back of a disabled
\* renewal with no charge known (_consumer_summary, _conversation_view,
\* attention_candidate; README.md, "A provider receipt is a claim, not proof.").
AnswersAgree ==
  Started =>
    /\ (ConsumerSummary(row) = "canceled") <=> (NextStep(row) = "nothing_to_do")
    /\ (ConsumerSummary(row) = "canceled") <=> (Attention(row) = "verified")
    /\ ConsumerSummary(row) = "canceled" =>
         row.charges = <<>> /\ row.claim.success /\ EvidenceIn(row).autoRenew = "off"
    /\ NextStep(row) = "report_not_done" =>
         /\ ConsumerSummary(row) \in {"not_completed", "charged", "charged_and_draft_ready"}
         /\ Attention(row) \in {"not_completed", "outcome_violation"}
    /\ (row.charges # <<>>) <=> (Attention(row) = "outcome_violation")
    /\ NextStep(row) = "offer_to_check_later" => ReceiptView(row) = NoReceiptView

\* A receipt says what the outcome rests on: canceled with a renewal seen off,
\* or not completed with a renewal seen on or a charge to show for it
\* (_receipt_view).
ReceiptIsBacked ==
  LET receipt == ReceiptView(row) IN
  receipt # NoReceiptView =>
    IF receipt.outcome = "Canceled"
    THEN receipt.summary = "canceled" /\ receipt.autoRenew = "off"
    ELSE \/ receipt.summary = "not_completed" /\ receipt.autoRenew = "on"
         \/ receipt.summary \in {"charged", "charged_and_draft_ready"}

(***************************************************************************)
(* Why they hold: an induction over what is told of a record               *)
(***************************************************************************)
\* The notices of an outcome are those of this one, and a charge gives the only
\* notice of itself (attention_candidate).
NoticesFit(rec) ==
  /\ "outcome_violation" \in rec.attention <=> rec.charges # <<>>
  /\ "verified" \in rec.attention <=> rec.state = "VERIFIED"
  /\ "not_completed" \in rec.attention <=> (rec.state = "NOT_COMPLETED" /\ rec.charges = <<>>)

\* How long a history must be for the looks that were taken: it opens with four
\* steps, and every look is one step there and one back (_transition).
HistoryFits(rec) ==
  /\ rec.state \in {"REQUESTED", "AWAITING_CONFIRMATION", "EXECUTING"} => rec.attempts = <<>>
  /\ rec.state = "EXECUTING" => rec.moves = 3
  /\ rec.state = "AWAITING_CONFIRMATION" => rec.moves = 2
  /\ rec.state = "VERIFYING" => rec.moves >= 4 + 2 * Len(rec.attempts)
  /\ rec.state \in Terminal \cup {"AWAITING_PROOF"} => rec.moves >= 3 + 2 * Len(rec.attempts)

\* A claim that is not there says nothing.
ClaimFits(rec) == rec.claim.valid \/ rec.claim = NoReceipt

\* A copy of a final record is not told anything: only a look ends in a notice
\* of its outcome.
CopyFits(j) ==
  /\ HistoryFits(j.rec) /\ ClaimFits(j.rec)
  /\ j.pc = "read_back" => j.rec.state = "VERIFYING"
  /\ j.pc = "conclude" \/ j.rec.state \notin Terminal => NoticesFit(j.rec)

ToldInv ==
  /\ NoticesFit(row) /\ HistoryFits(row) /\ ClaimFits(row)
  /\ \A w \in Sessions : CopyFits(job[w])
=============================================================================
