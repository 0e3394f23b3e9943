--------------------------- MODULE MCSnapshotStore ---------------------------
(* Two products; an entry on q names p as its alternative.                 *)
EXTENDS SnapshotStore, TLC

CONSTANTS p, q

MCIsins == {p, q}
MCPool == {q}
MCBatches == {{p, q}}
MCAlternatives == (p :> {}) @@ (q :> {p})

=============================================================================
