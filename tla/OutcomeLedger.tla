--------------------------- MODULE OutcomeLedger ---------------------------
(***************************************************************************)
(* What a resolution promises the customer, without sessions, copies,      *)
(* versions, clocks or evidence: the action is done once and only after    *)
(* consent, the outcome is looked at a bounded number of times, each look  *)
(* is judged at most once, and a judgement is final.                       *)
(***************************************************************************)
EXTENDS Integers

CONSTANT MaxLooks

VARIABLES
  consent,    \* "none", "asked" or "given"
  actions,    \* how often the action was done
  claimed,    \* whether what the provider said of it is on record
  looks,      \* looks spent
  looking,    \* whether the latest of them is still to be judged
  outcome     \* "open", "verified" or "not_completed"

ledger == <<consent, actions, claimed, looks, looking, outcome>>

LedgerInit ==
  /\ consent = "none" /\ actions = 0 /\ ~claimed
  /\ looks = 0 /\ ~looking /\ outcome = "open"

AskForConsent ==
  /\ consent = "none" /\ consent' = "asked"
  /\ UNCHANGED <<actions, claimed, looks, looking, outcome>>

GiveConsent ==
  /\ consent = "asked" /\ consent' = "given"
  /\ UNCHANGED <<actions, claimed, looks, looking, outcome>>

Act ==
  /\ consent = "given" /\ actions = 0 /\ actions' = 1
  /\ UNCHANGED <<consent, claimed, looks, looking, outcome>>

\* The claim comes with the first look, which is owed to it at once.
RecordTheClaim ==
  /\ actions = 1 /\ ~claimed
  /\ claimed' /\ looks' = 1 /\ looking'
  /\ UNCHANGED <<consent, actions, outcome>>

\* A later look, also in place of one that was never judged.
Look ==
  /\ claimed /\ outcome = "open" /\ looks < MaxLooks
  /\ looks' = looks + 1 /\ looking'
  /\ UNCHANGED <<consent, actions, claimed, outcome>>

Judge ==
  /\ looking /\ ~looking'
  /\ outcome = "open" /\ outcome' \in {"open", "verified", "not_completed"}
  /\ UNCHANGED <<consent, actions, claimed, looks>>

LedgerNext == AskForConsent \/ GiveConsent \/ Act \/ RecordTheClaim \/ Look \/ Judge

LedgerSpec == LedgerInit /\ [][LedgerNext]_ledger
=============================================================================
