------------------------------ MODULE Verifier ------------------------------
(***************************************************************************)
(* The deterministic verifier (src/src/closeloop/verifier.py).  It is a    *)
(* pure function of what the provider claimed, what the independent        *)
(* read-back showed and, when there is one, an observed renewal charge.    *)
(* Everything that can become a final outcome passes through Verify.       *)
(*                                                                         *)
(* Text is abstracted to what the decision tells apart.  A target digest   *)
(* is the one of this resolution's target, of another one, or absent; a    *)
(* freshness in seconds is one of four ranges (30 and 300 are the only     *)
(* thresholds the code compares it with); an attempt identifier either is  *)
(* the one the read-back was asked for (`bound') or is not; a reason names *)
(* the sentence the code stores.                                           *)
(*                                                                         *)
(* Here and in the modules above it, a definition under "Slip" is the      *)
(* mistake the definition after it guards against.  The specification uses *)
(* none of them; each shows that a property would notice the mistake.      *)
(***************************************************************************)
EXTENDS Integers

CONSTANTS
  ChargeIds,        \* the names observers may give the charges they report
  EvidenceIds,      \* the names they may give the reports themselves
  ChargeMaxAge      \* how old a renewal charge may be when it is weighed (7 days)

ASSUME ChargeMaxAgeAssumption == ChargeMaxAge \in Nat

(***************************************************************************)
(* Values                                                                  *)
(***************************************************************************)
Never  == -1                       \* an absent point in time (None)
None   == "none"                   \* an absent identifier or digest (None)
Target == "target"                 \* the digest of this resolution's target
Digests == {Target, "other", None}

ASSUME ChargeIdsAssumption == None \notin ChargeIds /\ None \notin EvidenceIds

\* ActionReceipt; `valid' is is_valid_action_receipt.
Receipt == [valid: BOOLEAN, success: BOOLEAN, digest: Digests]

\* CancellationEvidence; `valid' is is_valid_cancellation_evidence.
Evidence ==
  [valid: BOOLEAN, readable: BOOLEAN, autoRenew: {"on", "off", "null"},
   endDate: BOOLEAN, freshness: {"within30", "within300", "older", "null"},
   digest: Digests, bound: BOOLEAN]

\* OutcomeViolation: `id' is its violation_id and `evidence' its evidence_id.
\* `genuine' stands for its event type, amount, currency, source, owner and
\* resolution all being the required ones, and its evidence_id a usable one.
Charge ==
  [id: ChargeIds \cup {None}, evidence: EvidenceIds \cup {None}, at: Int,
   genuine: BOOLEAN, digest: Digests]
NoCharge ==
  [id |-> None, evidence |-> None, at |-> Never, genuine |-> FALSE, digest |-> None]

Verdicts == {"PASS", "FAIL", "INCONCLUSIVE"}

Reasons ==
  {"charge_observed", "charge_uncorrelated", "malformed", "unavailable",
   "stale", "unreliable_claim", "uncorrelated", "window_ended",
   "still_enabled", "cancelled", "insufficient"}

VerdictOf(reason) ==
  CASE reason = "cancelled" -> "PASS"
    [] reason \in {"charge_observed", "window_ended"} -> "FAIL"
    [] OTHER -> "INCONCLUSIVE"

(***************************************************************************)
(* The decision                                                            *)
(***************************************************************************)
\* Slip: a charge from before the deadline counts.
ViolationAtAnyTime(charge, expected, deadline, time) ==
  /\ charge.genuine
  /\ expected # None /\ charge.digest = expected
  /\ deadline # Never
  /\ charge.at <= time
  /\ time - charge.at <= ChargeMaxAge

ValidViolation(charge, expected, deadline, time) ==
  /\ charge.genuine
  /\ expected # None /\ charge.digest = expected
  /\ deadline # Never /\ charge.at >= deadline
  /\ charge.at <= time
  /\ time - charge.at <= ChargeMaxAge

\* Slip: evidence read for another attempt counts.
CorrelatedByTarget(receipt, evidence, expected) ==
  \/ expected = None
  \/ receipt.digest = expected /\ evidence.digest = expected

Correlated(receipt, evidence, expected) ==
  \/ expected = None
  \/ receipt.digest = expected /\ evidence.digest = expected /\ evidence.bound

\* verify_cancellation.  The first question that is answered badly names the
\* reason; `final' is terminal_failure, `expected' is expected_target_digest.
Verify(receipt, evidence, final, expected, charge, deadline, time) ==
  IF charge # NoCharge THEN
    IF ValidViolation(charge, expected, deadline, time)
    THEN "charge_observed" ELSE "charge_uncorrelated"
  ELSE IF ~evidence.valid THEN "malformed"
  ELSE IF ~evidence.readable THEN "unavailable"
  ELSE IF evidence.freshness # "within30" THEN "stale"
  ELSE IF ~(receipt.valid /\ receipt.success) THEN "unreliable_claim"
  ELSE IF ~Correlated(receipt, evidence, expected) THEN "uncorrelated"
  ELSE IF evidence.autoRenew = "on" THEN
    IF final THEN "window_ended" ELSE "still_enabled"
  ELSE IF evidence.autoRenew = "off" /\ evidence.endDate THEN "cancelled"
  ELSE "insufficient"
=============================================================================
