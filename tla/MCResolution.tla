---------------------------- MODULE MCResolution ----------------------------
(***************************************************************************)
(* Small instances of the resolution service for TLC.  What the provider   *)
(* may answer is chosen from a few answers that each lead Verify, the      *)
(* notices or the record contract down a different path.                   *)
(***************************************************************************)
EXTENDS CustomerView, TLC

Calls == Permutations(Sessions)

\* A trusted view of a disabled and of an enabled renewal.
Off == [valid |-> TRUE, readable |-> TRUE, autoRenew |-> "off", endDate |-> TRUE,
        freshness |-> "within30", digest |-> Target, bound |-> TRUE]
On == [Off EXCEPT !.autoRenew = "on", !.endDate = FALSE]
Malformed == [Off EXCEPT !.valid = FALSE]
OnButOlder == [On EXCEPT !.freshness = "within300"]
OffElsewhere == [Off EXCEPT !.digest = "other"]

Claim == [valid |-> TRUE, success |-> TRUE, digest |-> Target]
Rejection == [Claim EXCEPT !.success = FALSE]
AnonymousClaim == [Claim EXCEPT !.digest = None]

PlainEvidence == {Off, On, Malformed}
OneReceipt == {Claim}
TwoViews == {Off, On}
PlainReceipts == {Claim, NoReceipt}
AllEvidence == {Off, On, Malformed, OnButOlder, OffElsewhere}
AllReceipts == {Claim, Rejection, NoReceipt, AnonymousClaim}

\* Intents: nothing but the cancellation; or by time 1, with renewal charges
\* watched.
Cancel         == [deadline |-> Never, tracksCharges |-> FALSE]
CancelAndWatch == [deadline |-> 1, tracksCharges |-> TRUE]
\* Charges may be reported under a name or under an empty one.
TwoNames == {"c1", Empty}

NoDeadline == {Cancel}
Watched    == {CancelAndWatch}

=============================================================================
