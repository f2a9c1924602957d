---------------------------- MODULE MCLookupReset -----------------------------
(* Instances of LookupReset for TLC.                                       *)
EXTENDS LookupReset

CONSTANTS p1, p2, c1

TwoSlots == {p1, p2}
OneWorkerSlot == {p1}
OneReader == {c1}

\* Rounding leaves 12 where it is, so that sync and queued lookups share a cell.
Middle == {12}

Surroundings(x) == Landmarks
=============================================================================
