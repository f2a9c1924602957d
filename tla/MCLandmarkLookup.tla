--------------------------- MODULE MCLandmarkLookup ---------------------------
(* Instances of LandmarkLookup for TLC.                                    *)
EXTENDS LandmarkLookup, TLC

CONSTANTS p1, p2, c1

TwoSlots == {p1, p2}
OneSlot == {p1}
OneReader == {c1}
SlotSymmetry == Permutations({p1, p2})

\* With a grain of 4 and cells of 6, the point 11 lies in cell 1 and is
\* rounded to 12, in cell 2.
Edge == {11}

Surroundings(x) == Landmarks
=============================================================================
