------------------------------ MODULE LooseCache ------------------------------
(***************************************************************************)
(* What CacheService promises its callers about one key: a get answers a   *)
(* list that was set and that the cache has not let go of since, or        *)
(* nothing.  It may forget any list at any time, keep several, and ignore  *)
(* a set; it never fails.                                                  *)
(***************************************************************************)
CONSTANTS
  Calls,   \* callers of get
  Lists,   \* what is cached
  Nothing  \* undefined

VARIABLES
  held,    \* the lists it may still answer
  answer   \* what the last get of each caller returned

Init == held = {} /\ answer = [c \in Calls |-> Nothing]

Set(v) ==
  /\ \E kept \in SUBSET held : held' = kept \union {v}
  /\ UNCHANGED answer

Forget == held' \in SUBSET held /\ UNCHANGED answer

Get(c) ==
  /\ \E v \in held \union {Nothing} : answer' = [answer EXCEPT ![c] = v]
  /\ held' \in SUBSET held

Next == Forget \/ (\E v \in Lists : Set(v)) \/ (\E c \in Calls : Get(c))

Spec == Init /\ [][Next]_<<held, answer>>
=============================================================================
