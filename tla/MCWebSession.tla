----------------------------- MODULE MCWebSession -----------------------------
(* Calls and tabs for the configurations of WebSession: two calls, each in a   *)
(* tab of its own.                                                             *)
EXTENDS WebSession, TLC

CONSTANTS c1, c2, t1, t2

MCTabOf == (c1 :> t1) @@ (c2 :> t2)
=============================================================================
