---------------------------- MODULE MCLandmarkData ----------------------------
(* Instances of LandmarkData for TLC.                                      *)
EXTENDS LandmarkData

\* Whatever OverpassResponseSchema accepts, which is more than the query asks
\* for: no tags, tags of every field, and as many tags of other keys.
TagSets ==
  {{}, {"tourism"},
   {"name", "tourism", "wikipedia", "wikidata", "addr:street", "addr:housenumber"},
   {"amenity", "historic", "wikidata", "website", "addr:housenumber", "wheelchair"},
   {"opening_hours", "addr:city"}}

\* A way or relation off and on the equator, an incomplete relation, and nodes
\* off the zero lines and on one of them.
Positions ==
  {[center |-> [lat |-> 1, lon |-> 1], lat |-> Undefined, lon |-> Undefined],
   [center |-> [lat |-> 0, lon |-> 1], lat |-> Undefined, lon |-> Undefined],
   [center |-> Undefined, lat |-> Undefined, lon |-> Undefined],
   [center |-> Undefined, lat |-> 1, lon |-> 1],
   [center |-> Undefined, lat |-> 1, lon |-> 0]}

ElementsOf(ids, tags, positions) ==
  {[id |-> i, tags |-> t, center |-> p.center, lat |-> p.lat, lon |-> p.lon] :
     i \in ids, t \in tags, p \in positions}

\* Every pair of elements, and every triple of elements of one id.
PairsAndTriples ==
  SeqOf(ElementsOf({0, 1, 2}, TagSets, Positions), 2)
    \union TupleOf(ElementsOf({1}, {{}, {"tourism"}, {"name"}}, Positions), 3)

Singles == SeqOf(ElementsOf({0, 1}, TagSets, Positions), 1)

AllSettings == {Undefined, NaN, -1, 0, 1}
NoSetting == {Undefined}
=============================================================================
