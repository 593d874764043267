------------------------------ MODULE MCSchema ------------------------------
(***************************************************************************)
(* Two processes, one of them with two calls that share its lock.          *)
(***************************************************************************)
EXTENDS SchemaCreation, TLC

CONSTANTS p, q, p1, p2, q1

MCHome == p1 :> p @@ p2 :> p @@ q1 :> q
=============================================================================
