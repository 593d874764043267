---------------------------- MODULE MCAttestation ----------------------------
(***************************************************************************)
(* A cancellation and two follow-ups of the same resolution, of the same   *)
(* kind, that differ only in their identifiers.  The authority may also    *)
(* show the cancellation on other terms, or that of another resolution.    *)
(***************************************************************************)
EXTENDS Attestation

Cancellation(resolution, terms) ==
  [owner |-> "o", resolution |-> resolution, action |-> Cancel,
   item |-> "none", terms |-> terms]

FollowUp(item) ==
  [owner |-> "o", resolution |-> "r1", action |-> "contact_support",
   item |-> item, terms |-> "x"]

MCActions == {Cancellation("r1", "x"), FollowUp("i1"), FollowUp("i2")}
MCShown == MCActions \cup {Cancellation("r1", "y"), Cancellation("r2", "x")}
=============================================================================
