--------------------------- MODULE MCDataFactory ---------------------------
(* Two series with a question each, and a question of the catalogue whose  *)
(* outcome is known.                                                       *)
EXTENDS DataFactory, TLC
CONSTANTS s1, s2, q1, q2, q3, ann
MCQuestionOf == s1 :> q1 @@ s2 :> q2
MCOutcomes == q3 :> [status |-> "DORMANT", trial |-> TRUE, by |-> ann]
Swap == {(s1 :> s2 @@ s2 :> s1 @@ q1 :> q2 @@ q2 :> q1)}
=============================================================================
