---------------------------- MODULE MC_RoleClient ----------------------------
(***************************************************************************)
(* A small instance of RoleClient: a success, a client error, a redirect   *)
(* just below 400 and a server error; two role bodies; one predicate that  *)
(* accepts one of them; a deadline that leaves room for two task calls.    *)
(***************************************************************************)
EXTENDS RoleClient

MCCodes == {200, 399, 400, 503}
MCBodies == {"ready", "pending"}
MCPredicates == {"isReady"}
MCAccepts == [p \in MCPredicates |-> {"ready"}]
MCIntervals == {0, 1}
=============================================================================
