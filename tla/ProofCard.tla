------------------------------ MODULE ProofCard ------------------------------
(***************************************************************************)
(* The read-only card a host shows for a tool's answer                     *)
(* (src/src/closeloop/mcp_app.py).  It believes no label it is sent: it    *)
(* derives what to show from the whole payload, and shows "Proof           *)
(* unavailable" when the parts do not fit together.  JavaScript's          *)
(* undefined and null are the absent values of Views; a claim or read-back *)
(* that is there but is not what it should be has `valid' FALSE.           *)
(***************************************************************************)
EXTENDS Views

Unavailable == "Proof unavailable"

\* PROOF_CARD_OUTCOME_RULES: the state and the customer's word of a verdict.
Rule(verdict) ==
  CASE verdict = "PASS" -> [lifecycle |-> "VERIFIED", consumer |-> "Verified"]
    [] verdict = "FAIL" -> [lifecycle |-> "NOT_COMPLETED", consumer |-> "Not completed"]
    [] verdict = "INCONCLUSIVE"
                        -> [lifecycle |-> "AWAITING_PROOF", consumer |-> "Awaiting proof"]
    [] OTHER            -> [lifecycle |-> None, consumer |-> None]

(***************************************************************************)
(* The evidence, judged again                                              *)
(***************************************************************************)
\* derivedEvidenceVerdict: None unless both pieces are well formed.
DerivedVerdict(claim, readBack) ==
  IF ~claim.valid \/ ~readBack.valid THEN None
  ELSE IF ~readBack.readable THEN "INCONCLUSIVE"
  ELSE IF readBack.freshness # "within30" THEN "INCONCLUSIVE"
  ELSE IF readBack.autoRenew = "on" THEN "FAIL"
  ELSE IF ~claim.success THEN "INCONCLUSIVE"
  ELSE IF readBack.autoRenew = "off" /\ readBack.endDate THEN "PASS"
  ELSE "INCONCLUSIVE"

Opening == <<"REQUESTED", "AWAITING_CONFIRMATION", "EXECUTING", "VERIFYING">>

\* validTerminalHistory: the five steps of a resolution judged at its first look.
TerminalHistory(data) == data.ordered /\ data.history = Append(Opening, data.lifecycle)

\* validOpenHistory: one round of checking for every attempt, none conclusive.
OpenHistory(data) ==
  /\ data.attempts # <<>>
  /\ data.ordered
  /\ data.history = Opening \o [i \in 1..(2 * Len(data.attempts) - 1) |->
                                  IF i % 2 = 1 THEN "AWAITING_PROOF" ELSE "VERIFYING"]
  /\ \A i \in DOMAIN data.attempts : data.attempts[i] = "INCONCLUSIVE"

\* validTerminalEvidence
TerminalEvidence(data, verdict) ==
  /\ data.verification.formed
  /\ DerivedVerdict(data.claim, data.readBack) = verdict
  /\ TerminalHistory(data)

(***************************************************************************)
(* deriveView                                                              *)
(***************************************************************************)
\* consistentValue: two fields that say the same thing, or one of them.
Consistent(first, second) == first = None \/ second = None \/ first = second
Either(first, second) == IF first # None THEN first ELSE second

EvidenceShape(data) == data.keys \cap EvidenceKeys # {}
StatusShape(data) == data.keys \cap StatusKeys # {}

\* Exactly one of the two shapes, and all of it.
OneShape(data) ==
  /\ EvidenceShape(data) # StatusShape(data)
  /\ StatusShape(data) => StatusKeys \subseteq data.keys
  /\ EvidenceShape(data) => EvidenceKeys \subseteq data.keys

ShownVerdict(data) == Either(data.verdict, data.verification.verdict)
ShownConsumer(data) == Either(data.consumer, data.verification.consumer)

\* Nothing of one field contradicts another.
Coherent(data) ==
  /\ OneShape(data)
  /\ Consistent(data.verdict, data.verification.verdict)
  /\ Consistent(data.consumer, data.verification.consumer)

ClaimsOutcome(data) == ShownVerdict(data) \in {"PASS", "FAIL"} \/ data.lifecycle \in Terminal

\* Slip: three labels that agree need nothing else.
LabelsAgree(data) ==
  LET verdict == ShownVerdict(data) IN
  /\ verdict \in Verdicts
  /\ data.lifecycle = Rule(verdict).lifecycle
  /\ ShownConsumer(data) = Rule(verdict).consumer

OutcomeHolds(data) ==
  LET verdict == ShownVerdict(data) IN
  /\ verdict \in Verdicts
  /\ data.lifecycle = Rule(verdict).lifecycle
  /\ ShownConsumer(data) = Rule(verdict).consumer
  /\ data.checked = verdict
  /\ data.execution = "completed"
  /\ StatusShape(data) => data.isTerminal /\ ~data.confirmation
  /\ EvidenceShape(data) => TerminalEvidence(data, verdict)

AwaitingProofHolds(data) ==
  /\ ShownVerdict(data) = "INCONCLUSIVE" /\ ShownConsumer(data) = "Awaiting proof"
  /\ data.checked = "INCONCLUSIVE" /\ data.execution = "completed"
  /\ StatusShape(data) => ~data.isTerminal /\ ~data.confirmation
  /\ EvidenceShape(data) =>
       /\ data.verification.formed
       /\ data.verification.verdict = "INCONCLUSIVE"
       /\ data.verification.consumer = "Awaiting proof"
       /\ DerivedVerdict(data.claim, data.readBack) = "INCONCLUSIVE"
       /\ OpenHistory(data)

\* The fields of the other shape are undefined, and pass a test for their value.
ConfirmationHolds(data) ==
  /\ data.execution = "not_started" /\ data.checked = "not_started"
  /\ StatusShape(data) => data.confirmation
  /\ data.claim = NoReceipt /\ data.readBack = NoEvidence

ExecutingHolds(data) ==
  /\ data.execution = "in_progress" /\ data.checked = "not_started"
  /\ ~data.confirmation
  /\ data.claim = NoReceipt /\ data.readBack = NoEvidence

VerifyingHolds(data) ==
  /\ data.execution = "completed" /\ data.checked = "in_progress"
  /\ ~data.confirmation
  /\ data.readBack = NoEvidence

\* The title of the card.
CardTitle(data) ==
  IF ~Coherent(data) THEN Unavailable
  ELSE IF ClaimsOutcome(data)
       THEN IF OutcomeHolds(data) THEN Rule(ShownVerdict(data)).consumer ELSE Unavailable
  ELSE IF data.verification.given \/ data.isTerminal THEN Unavailable
  ELSE CASE data.lifecycle = "AWAITING_PROOF" /\ AwaitingProofHolds(data)
              -> "Awaiting proof"
         [] data.lifecycle = "AWAITING_CONFIRMATION" /\ ConfirmationHolds(data)
              -> "Confirmation required"
         [] data.lifecycle = "EXECUTING" /\ ExecutingHolds(data) -> "Action in progress"
         [] data.lifecycle = "VERIFYING" /\ VerifyingHolds(data) -> "Checking the result"
         [] OTHER -> Unavailable

(***************************************************************************)
(* renderProgress                                                          *)
(***************************************************************************)
\* Slip: the step that is under way counts as complete.
StepsBegun(title) ==
  CASE title \in {"Verified", "Not completed", "Awaiting proof", "Checking the result"} -> 4
    [] title = "Action in progress" -> 3
    [] OTHER                        -> 2

\* How many of the steps - request, confirmation, execution, verification - the
\* card shows as complete under a title.
StepsComplete(title) ==
  CASE title \in {"Verified", "Not completed"}             -> 4
    [] title \in {"Awaiting proof", "Checking the result"} -> 3
    [] title = "Action in progress"                        -> 2
    [] OTHER                                               -> 1
=============================================================================
