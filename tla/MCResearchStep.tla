--------------------------- MODULE MCResearchStep ---------------------------
(* Model-checking instances of ResearchStep: each question has a family of  *)
(* its own.                                                                *)
EXTENDS ResearchStep
MCFamilyOf == [q \in Questions |-> IF q = 1 THEN "a" ELSE "b"]
=============================================================================
