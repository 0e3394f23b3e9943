---------------------------- MODULE MCStateChain ----------------------------
(* Model-checking instances of StateChain.                                 *)
EXTENDS StateChain
=============================================================================
