------------------------- MODULE LandmarkLookupProofs -------------------------
(***************************************************************************)
(* Proofs about LandmarkLookup for any number of lookups and readers, any  *)
(* coordinates, radii and landmarks.                                       *)
(***************************************************************************)
EXTENDS LandmarkLookup, TLAPS

-----------------------------------------------------------------------------
(* Lists and cells.                                                        *)

\* Saving adds and takes nothing away.
LEMMA SumIsAbove ==
  ASSUME NEW a \in Lists, NEW b \in Lists
  PROVE  a ++ b \in Lists /\ a \sqsubseteq a ++ b /\ b \sqsubseteq a ++ b
  BY DEF Lists, ++, \sqsubseteq

LEMMA BelowIsTransitive ==
  ASSUME NEW a \in Lists, NEW b \in Lists, NEW c \in Lists,
         a \sqsubseteq b, b \sqsubseteq c
  PROVE  a \sqsubseteq c
  BY DEF Lists, \sqsubseteq

LEMMA AboveNonempty ==
  ASSUME NEW a \in Lists, NEW b \in Lists, a \sqsubseteq b, a # Empty
  PROVE  b # Empty
<1>1. PICK l \in Landmarks : a[l] # 0
  BY DEF Lists, Empty
<1>2. a[l] <= b[l] /\ a[l] \in Nat /\ b[l] \in Nat
  BY DEF Lists, \sqsubseteq
<1>3. b[l] # 0
  BY <1>1, <1>2
<1>. QED
  BY <1>3 DEF Empty

LEMMA ListFacts ==
  /\ Empty \in Lists
  /\ \A a \in Lists : a \sqsubseteq a /\ Empty \sqsubseteq a
  /\ \A x, radius : Within(x, radius) \in Lists
  BY DEF Lists, Empty, Within, \sqsubseteq

LEMMA CellFacts ==
  /\ \A q \in Queries : LookupCell(q.via, q.x) \in Cells
  /\ \A x \in Points : ReadCell(x) \in Cells /\ ReadCell(x) = LookupCell("queue", x)
  BY DEF Queries, Cells, LookupCell, ReadCell, Via

-----------------------------------------------------------------------------
(* The grid.                                                               *)

LEMMA DivBounds ==
  ASSUME NEW a \in Nat, NEW b \in Nat \ {0}
  PROVE  /\ a \div b \in Nat /\ (a \div b) * b \in Nat
         /\ (a \div b) * b <= a /\ a < (a \div b) * b + b
  OBVIOUS

LEMMA DivIs ==
  ASSUME NEW a \in Nat, NEW b \in Nat \ {0}, NEW q \in Nat, q * b <= a, a < q * b + b
  PROVE  a \div b = q
<1> DEFINE d == a \div b
<1>1. d \in Nat /\ d * b <= a /\ a < d * b + b
  BY DivBounds
<1> HIDE DEF d
<1>2. CASE d < q
  <2>1. (d + 1) * b <= q * b
    BY <1>1, <1>2
  <2>. QED BY <1>1, <2>1
<1>3. CASE q < d
  <2>1. (q + 1) * b <= d * b
    BY <1>1, <1>3
  <2>. QED BY <1>1, <2>1
<1>. QED BY <1>1, <1>2, <1>3 DEF d

\* Rounding moves a coordinate by half a Grain at most, and less upwards.
LEMMA RoundingIsClose ==
  ASSUME NEW x \in Nat
  PROVE  /\ roundCoordinate(x) \in Nat
         /\ 2 * roundCoordinate(x) <= 2 * x + Grain
         /\ 2 * x < 2 * roundCoordinate(x) + Grain
<1> DEFINE q == (2 * x + Grain) \div (2 * Grain)
<1>1. 2 * x + Grain \in Nat /\ 2 * Grain \in Nat \ {0}
  BY GridAssumption
<1>2. /\ q \in Nat /\ q * (2 * Grain) <= 2 * x + Grain
      /\ 2 * x + Grain < q * (2 * Grain) + 2 * Grain
  BY <1>1, DivBounds
<1>3. roundCoordinate(x) = q * Grain
  BY DEF roundCoordinate
<1> HIDE DEF q
<1>4. q * (2 * Grain) = 2 * (q * Grain) /\ q * Grain \in Nat
  BY <1>2, GridAssumption
<1>. QED BY <1>2, <1>3, <1>4, GridAssumption

\* Away from the edges of a cell it stays in it.
LEMMA RoundingKeepsCell ==
  ASSUME NEW x \in Nat, AwayFromEdges(x)
  PROVE  encodeGeohash(roundCoordinate(x)) = encodeGeohash(x)
<1> DEFINE g == x \div CellSize
           y == roundCoordinate(x)
           offset == x % CellSize
<1>1. g \in Nat /\ g * CellSize \in Nat
  BY DivBounds, GridAssumption
<1>2. offset \in Nat /\ x = g * CellSize + offset
  BY GridAssumption
<1>3. y \in Nat /\ 2 * y <= 2 * x + Grain /\ 2 * x < 2 * y + Grain
  BY RoundingIsClose
<1>4. Grain <= 2 * offset /\ 2 * offset + Grain < 2 * CellSize
  BY DEF AwayFromEdges
<1> HIDE DEF g, y, offset
<1>5. g * CellSize <= y /\ y < g * CellSize + CellSize
  BY <1>1, <1>2, <1>3, <1>4, GridAssumption
<1>6. y \div CellSize = g
  BY <1>1, <1>3, <1>5, DivIs, GridAssumption
<1>. QED BY <1>6 DEF y, g, encodeGeohash

-----------------------------------------------------------------------------
(* Types.                                                                  *)

LEMMA InitTypeOK == Init => TypeOK
<1> SUFFICES ASSUME Init PROVE TypeOK
  OBVIOUS
<1>1. \E q : q \in Queries
  <2>1. PICK x \in Points, n \in Radii : TRUE
    BY GridAssumption, LandmarksAssumption
  <2>2. [via |-> "queue", x |-> x, radius |-> n] \in Queries
    BY <2>1 DEF Queries, Via
  <2>. QED BY <2>2
<1>2. (CHOOSE q \in Queries : TRUE) \in Queries /\ (CHOOSE x \in Points : TRUE) \in Points
  BY <1>1, GridAssumption
<1>. QED
  BY <1>2, ListFacts DEF Init, TypeOK

LEMMA StepTypeOK == TypeOK /\ [Next]_vars => TypeOK'
<1> SUFFICES ASSUME TypeOK, [Next]_vars PROVE TypeOK'
  OBVIOUS
<1> USE ListFacts, CellFacts
<1> USE DEF TypeOK, CellOf, Moves, Finds, Returns, CacheSet, ReaderMoves, lookupVars, readerVars
<1>1. ASSUME NEW p \in Slots, Begin(p) PROVE TypeOK'
  BY <1>1 DEF Begin
<1>2. ASSUME NEW p \in Slots, LookupStep(p) PROVE TypeOK'
  <2>0. CellOf(p) \in Cells /\ <<query[p].via, query[p].x>> \in Via \X Points
    BY DEF Queries
  <2>1. CASE getCachedLandmarks(p)
    <3>1. /\ pc' = [pc EXCEPT ![p] = "ok"] \/ pc' = [pc EXCEPT ![p] = "db"]
          /\ UNCHANGED <<rows, cache, query, savers, readerVars>>
      BY <2>1 DEF getCachedLandmarks
    <3>2. found' \in [Slots -> Lists]
      BY <2>0, <2>1 DEF getCachedLandmarks
    <3>3. completed' \subseteq Via \X Points
      BY <2>0, <2>1 DEF getCachedLandmarks
    <3>. QED BY <3>1, <3>2, <3>3
  <2>2. CASE getDbLandmarks(p)
    BY <2>0, <2>2 DEF getDbLandmarks
  <2>3. CASE KeepRows(p)
    BY <2>0, <2>3 DEF KeepRows
  <2>4. CASE RecheckCache(p)
    BY <2>0, <2>4 DEF RecheckCache
  <2>5. CASE FetchFromApi(p)
    <3>1. PICK v \in Lists :
            /\ IF v = Empty
               THEN Returns(p, "fetch", v)
               ELSE Moves(p, "fetch", "save") /\ Finds(p, v) /\ UNCHANGED completed
            /\ UNCHANGED <<rows, cache, query, savers, readerVars>>
      BY <2>5 DEF FetchFromApi
    <3>2. completed' \subseteq Via \X Points
      BY <2>0, <3>1
    <3>3. pc' = [pc EXCEPT ![p] = "ok"] \/ pc' = [pc EXCEPT ![p] = "save"]
      BY <3>1
    <3>4. found' = [found EXCEPT ![p] = v]
      BY <3>1
    <3>. QED BY <3>1, <3>2, <3>3, <3>4
  <2>10. CASE FetchFails(p)
    BY <2>10 DEF FetchFails
  <2>6. CASE getFromCacheAsFallback(p)
    BY <2>0, <2>6 DEF getFromCacheAsFallback
  <2>7. CASE saveLandmarksWithGeohash(p)
    BY <2>0, <2>7, SumIsAbove DEF saveLandmarksWithGeohash
  <2>8. CASE StoreInCache(p)
    BY <2>0, <2>8 DEF StoreInCache
  <2>9. CASE LookupStops(p)
    BY <2>9 DEF LookupStops
  <2>. QED
    BY <1>2, <2>1, <2>2, <2>3, <2>4, <2>5, <2>6, <2>7, <2>8, <2>9, <2>10 DEF LookupStep
<1>3. ASSUME NEW c \in Readers, Read(c) PROVE TypeOK'
  BY <1>3 DEF Read
<1>4. ASSUME NEW c \in Readers, ReadStep(c) PROVE TypeOK'
  BY <1>4 DEF ReadStep, ReadCache, ReadDb, ReadDbFails, KeepRead
<1>5. ASSUME NEW g \in Cells, Expire(g) PROVE TypeOK'
  BY <1>5 DEF Expire
<1>6. CASE UNCHANGED vars
  BY <1>6 DEF vars
<1>. QED
  BY <1>1, <1>2, <1>3, <1>4, <1>5, <1>6 DEF Next

THEOREM TypeCorrect == Spec => []TypeOK
  BY InitTypeOK, StepTypeOK, PTL DEF Spec

-----------------------------------------------------------------------------
(* The inductive invariant.                                                *)

\* The cells C are those that nothing has been taken from: all of them here,
\* and in LookupReset all but those of which a reset has left a list.
\* What a lookup or a reader has returned need not be stored any more when a
\* reset comes later, so that it is included only where returned is TRUE.

\* What is cached or about to be has been saved, and so has what is returned.
StoredInv(C, returned) ==
  /\ \A g \in C : \A v \in cache[g] : v \sqsubseteq rows[g]
  /\ \A p \in Slots :
       CellOf(p) \in C /\ (pc[p] \in {"keep", "store"} \/ (returned /\ pc[p] = "ok"))
         => found[p] \sqsubseteq rows[CellOf(p)]
  /\ \A c \in Readers :
       ReadCell(point[c]) \in C /\ (rpc[c] = "keep" \/ (returned /\ rpc[c] = "200"))
         => answer[c] \sqsubseteq rows[ReadCell(point[c])]

\* Nothing empty is saved or cached.
NonemptyInv ==
  /\ \A g \in Cells : Empty \notin cache[g]
  /\ \A p \in Slots : pc[p] \in {"keep", "save", "store"} => found[p] # Empty
  /\ \A c \in Readers : rpc[c] = "keep" => answer[c] # Empty

\* A cell somebody has saved is not empty, so who finds it empty has not.
SaversInv ==
  /\ \A g \in Cells : savers[g] # {} => rows[g] # Empty
  /\ \A p \in Slots :
       pc[p] \in {"recheck", "fetch", "fallback", "save"} => p \notin savers[CellOf(p)]

\* A completed lookup left landmarks in its cell, and a reader is owed only
\* what was completed.
OwedInv(C) ==
  /\ \A via \in Via, x \in Points :
       <<via, x>> \in completed /\ LookupCell(via, x) \in C => rows[LookupCell(via, x)] # Empty
  /\ \A c \in Readers :
       /\ rpc[c] # "idle" => \A via \in owed[c] : <<via, point[c]>> \in completed
       /\ rpc[c] = "404" /\ ReadCell(point[c]) \in C =>
            \A via \in owed[c] : LookupCell(via, point[c]) # ReadCell(point[c])

CellsInv(C, returned) ==
  TypeOK /\ StoredInv(C, returned) /\ NonemptyInv /\ SaversInv /\ OwedInv(C)

IInv == CellsInv(Cells, TRUE)

\* Rows are only added.
LEMMA RowsGrow ==
  ASSUME TypeOK, TypeOK', [Next]_vars
  PROVE  \A g \in Cells :
           /\ rows[g] # Empty => rows'[g] # Empty
           /\ \A v \in Lists : v \sqsubseteq rows[g] => v \sqsubseteq rows'[g]
<1>1. \A g \in Cells : rows[g] \in Lists /\ rows'[g] \in Lists
  BY DEF TypeOK
<1>2. ASSUME NEW g \in Cells PROVE rows[g] \sqsubseteq rows'[g]
  <2>1. ASSUME NEW p \in Slots, saveLandmarksWithGeohash(p) PROVE rows[g] \sqsubseteq rows'[g]
    <3>1. rows'[g] = rows[g] \/ rows'[g] = rows[g] ++ found[p]
      BY <2>1 DEF saveLandmarksWithGeohash, TypeOK
    <3>2. found[p] \in Lists
      BY DEF TypeOK
    <3>. QED BY <1>1, <3>1, <3>2, SumIsAbove, ListFacts
  <2>2. CASE UNCHANGED rows
    BY <1>1, <2>2, ListFacts
  <2>. QED
    BY <2>1, <2>2 DEF Next, vars, Begin, LookupStep, getCachedLandmarks, getDbLandmarks,
       KeepRows, RecheckCache, FetchFromApi, FetchFails, getFromCacheAsFallback, StoreInCache,
       LookupStops, Read, ReadStep, ReadCache, ReadDb, ReadDbFails, KeepRead, Expire
<1>. QED
  BY <1>1, <1>2, BelowIsTransitive, AboveNonempty

LEMMA StepCellsInv ==
  ASSUME NEW C \in SUBSET Cells, NEW returned \in BOOLEAN, CellsInv(C, returned), [Next]_vars
  PROVE  CellsInv(C, returned)'
<1> DEFINE Goal == (StoredInv(C, returned) /\ NonemptyInv /\ SaversInv /\ OwedInv(C))'
<1>a. TypeOK'
  BY StepTypeOK DEF CellsInv
<1>b. \A g \in Cells :
         /\ rows[g] # Empty => rows'[g] # Empty
         /\ \A v \in Lists : v \sqsubseteq rows[g] => v \sqsubseteq rows'[g]
  BY <1>a, RowsGrow DEF CellsInv
<1>c. \A p \in Slots : CellOf(p) \in Cells /\ query[p].via \in Via /\ query[p].x \in Points
  BY CellFacts DEF CellsInv, TypeOK, CellOf, Queries
<1> USE ListFacts, CellFacts, <1>a, <1>b, <1>c
<1> USE DEF CellsInv, TypeOK, StoredInv, NonemptyInv, SaversInv, OwedInv,
            CellOf, Moves, Finds, Returns, CacheSet, ReaderMoves, lookupVars, readerVars
<1>1. ASSUME NEW p \in Slots, Begin(p) PROVE Goal
  BY <1>1 DEF Begin
<1>2. ASSUME NEW p \in Slots, getCachedLandmarks(p) PROVE Goal
  <2>2. StoredInv(C, returned)' /\ NonemptyInv'
    BY <1>2 DEF getCachedLandmarks
  <2>3. SaversInv'
    BY <1>2 DEF getCachedLandmarks
  <2>1. CellOf(p) \in C /\ cache[CellOf(p)] # {} => rows[CellOf(p)] # Empty
    BY AboveNonempty
  <2>4. OwedInv(C)'
    BY <1>2, <2>1 DEF getCachedLandmarks
  <2>. QED BY <2>2, <2>3, <2>4
<1>3. ASSUME NEW p \in Slots, getDbLandmarks(p) PROVE Goal
  BY <1>3 DEF getDbLandmarks
<1>4. ASSUME NEW p \in Slots, KeepRows(p) PROVE Goal
  <2>2. /\ \A g \in Cells : \A v \in cache'[g] : v \in cache[g] \/ (v = found[p] /\ g = CellOf(p))
        /\ CellOf(p) \in C => found[p] \sqsubseteq rows[CellOf(p)]
        /\ pc' = [pc EXCEPT ![p] = "ok"] /\ found' = [found EXCEPT ![p] = found[p]]
        /\ found[p] # Empty
        /\ UNCHANGED <<rows, query, readerVars>>
    BY <1>4 DEF KeepRows
  <2>5. StoredInv(C, returned)'
    BY <2>2
  <2>6. NonemptyInv'
    BY <2>2
  <2>3. SaversInv'
    BY <1>4 DEF KeepRows
  <2>1. CellOf(p) \in C => rows[CellOf(p)] # Empty
    BY <2>2, AboveNonempty
  <2>4. OwedInv(C)'
    BY <1>4, <2>1 DEF KeepRows
  <2>. QED BY <2>3, <2>4, <2>5, <2>6
<1>5. ASSUME NEW p \in Slots, RecheckCache(p) PROVE Goal
  BY <1>5 DEF RecheckCache
<1>6. ASSUME NEW p \in Slots, FetchFromApi(p) PROVE Goal
  <2>1. PICK v \in Lists :
          /\ IF v = Empty
             THEN Returns(p, "fetch", v)
             ELSE Moves(p, "fetch", "save") /\ Finds(p, v) /\ UNCHANGED completed
          /\ UNCHANGED <<rows, cache, query, savers, readerVars>>
    BY <1>6 DEF FetchFromApi
  <2>2. UNCHANGED completed
    BY <2>1
  <2>3. StoredInv(C, returned)' /\ NonemptyInv'
    BY <2>1
  <2>4. SaversInv'
    BY <2>1
  <2>5. OwedInv(C)'
    BY <2>1, <2>2
  <2>. QED BY <2>3, <2>4, <2>5
<1>7. ASSUME NEW p \in Slots, FetchFails(p) PROVE Goal
  BY <1>7 DEF FetchFails
<1>8. ASSUME NEW p \in Slots, getFromCacheAsFallback(p) PROVE Goal
  <2>1. NonemptyInv'
    BY <1>8 DEF getFromCacheAsFallback
  <2>2. StoredInv(C, returned)'
    BY <1>8 DEF getFromCacheAsFallback
  <2>3. SaversInv' /\ OwedInv(C)'
    BY <1>8 DEF getFromCacheAsFallback
  <2>. QED BY <2>1, <2>2, <2>3
<1>9. ASSUME NEW p \in Slots, saveLandmarksWithGeohash(p) PROVE Goal
  <2>1. rows'[CellOf(p)] = rows[CellOf(p)] ++ found[p]
    BY <1>9 DEF saveLandmarksWithGeohash
  <2>2. found[p] \sqsubseteq rows'[CellOf(p)] /\ rows'[CellOf(p)] # Empty
    BY <1>9, <2>1, SumIsAbove, AboveNonempty DEF saveLandmarksWithGeohash
  <2>3. StoredInv(C, returned)' /\ NonemptyInv'
    BY <1>9, <2>2 DEF saveLandmarksWithGeohash
  <2>4. SaversInv'
    BY <1>9, <2>2 DEF saveLandmarksWithGeohash
  <2>5. OwedInv(C)'
    BY <1>9 DEF saveLandmarksWithGeohash
  <2>. QED BY <2>3, <2>4, <2>5
<1>10. ASSUME NEW p \in Slots, StoreInCache(p) PROVE Goal
  <2>2. /\ \A g \in Cells : \A v \in cache'[g] : v \in cache[g] \/ (v = found[p] /\ g = CellOf(p))
        /\ CellOf(p) \in C => found[p] \sqsubseteq rows[CellOf(p)]
        /\ pc' = [pc EXCEPT ![p] = "ok"] /\ found' = [found EXCEPT ![p] = found[p]]
        /\ found[p] # Empty
        /\ UNCHANGED <<rows, query, readerVars>>
    BY <1>10 DEF StoreInCache
  <2>5. StoredInv(C, returned)'
    BY <2>2
  <2>6. NonemptyInv'
    BY <2>2
  <2>3. SaversInv'
    BY <1>10 DEF StoreInCache
  <2>1. CellOf(p) \in C => rows[CellOf(p)] # Empty
    BY <2>2, AboveNonempty
  <2>4. OwedInv(C)'
    BY <1>10, <2>1 DEF StoreInCache
  <2>. QED BY <2>3, <2>4, <2>5, <2>6
<1>11. ASSUME NEW p \in Slots, LookupStops(p) PROVE Goal
  BY <1>11 DEF LookupStops
<1>12. ASSUME NEW c \in Readers, Read(c) PROVE Goal
  BY <1>12 DEF Read
<1>13. ASSUME NEW c \in Readers, ReadCache(c) PROVE Goal
  BY <1>13 DEF ReadCache
<1>14. ASSUME NEW c \in Readers, ReadDb(c) PROVE Goal
  <2>2. StoredInv(C, returned)' /\ NonemptyInv'
    BY <1>14 DEF ReadDb
  <2>3. SaversInv'
    BY <1>14 DEF ReadDb
  <2>1. \A via \in owed[c] :
          ReadCell(point[c]) \in C /\ LookupCell(via, point[c]) = ReadCell(point[c])
            => rows[ReadCell(point[c])] # Empty
    <3>1. rpc[c] = "db" /\ point[c] \in Points /\ owed[c] \subseteq Via
      BY <1>14 DEF ReadDb
    <3>2. \A via \in owed[c] : <<via, point[c]>> \in completed
      BY <3>1
    <3>3. ASSUME NEW via \in owed[c], ReadCell(point[c]) \in C,
                 LookupCell(via, point[c]) = ReadCell(point[c])
          PROVE  rows[ReadCell(point[c])] # Empty
      <4>1. via \in Via /\ point[c] \in Points /\ <<via, point[c]>> \in completed
        BY <3>1, <3>2
      <4>2. rows[LookupCell(via, point[c])] # Empty
        BY <4>1, <3>3
      <4>. QED BY <4>2, <3>3
    <3>. QED BY <3>3
  <2>4. OwedInv(C)'
    BY <1>14, <2>1 DEF ReadDb
  <2>. QED BY <2>2, <2>3, <2>4
<1>15. ASSUME NEW c \in Readers, ReadDbFails(c) PROVE Goal
  BY <1>15 DEF ReadDbFails
<1>16. ASSUME NEW c \in Readers, KeepRead(c) PROVE Goal
  <2>1. /\ \A g \in Cells : \A v \in cache'[g] :
             v \in cache[g] \/ (v = answer[c] /\ g = ReadCell(point[c]))
        /\ ReadCell(point[c]) \in C => answer[c] \sqsubseteq rows[ReadCell(point[c])]
        /\ rpc[c] = "keep" /\ rpc' = [rpc EXCEPT ![c] = "200"]
        /\ answer[c] # Empty
        /\ UNCHANGED <<rows, lookupVars, savers, completed, point, answer, owed>>
    BY <1>16 DEF KeepRead
  <2>2. \A g \in C : \A v \in cache'[g] : v \sqsubseteq rows[g]
    BY <2>1
  <2>3. \A d \in Readers :
          ReadCell(point[d]) \in C /\ (rpc'[d] = "keep" \/ (returned /\ rpc'[d] = "200"))
            => answer[d] \sqsubseteq rows[ReadCell(point[d])]
    BY <2>1
  <2>4. StoredInv(C, returned)'
    BY <2>1, <2>2, <2>3
  <2>5. NonemptyInv'
    BY <2>1
  <2>6. SaversInv' /\ OwedInv(C)'
    BY <2>1
  <2>. QED BY <2>4, <2>5, <2>6
<1>17. ASSUME NEW g \in Cells, Expire(g) PROVE Goal
  BY <1>17 DEF Expire
<1>18. ASSUME UNCHANGED vars PROVE Goal
  BY <1>18 DEF vars
<1>19. Goal
  BY <1>1, <1>2, <1>3, <1>4, <1>5, <1>6, <1>7, <1>8, <1>9, <1>10, <1>11, <1>12, <1>13,
     <1>14, <1>15, <1>16, <1>17, <1>18 DEF Next, LookupStep, ReadStep
<1>. QED
  BY <1>a, <1>19

THEOREM InvariantIInv == Spec => []IInv
<1>1. ASSUME Init PROVE IInv
  <2>1. TypeOK
    BY <1>1, InitTypeOK
  <2>2. StoredInv(Cells, TRUE) /\ NonemptyInv /\ SaversInv /\ OwedInv(Cells)
    BY <1>1, CellFacts DEF Init, StoredInv, NonemptyInv, SaversInv, OwedInv
  <2>. QED BY <2>1, <2>2 DEF IInv, CellsInv
<1>2. IInv /\ [Next]_vars => IInv'
  BY StepCellsInv DEF IInv
<1>. QED
  BY <1>1, <1>2, PTL DEF Spec

-----------------------------------------------------------------------------
(* The properties.                                                         *)

\* The cache never runs ahead of the table.
THEOREM CacheFollowsTable == Spec => []CachedIsStored
<1>1. IInv => CachedIsStored
  BY DEF IInv, CellsInv, StoredInv, CachedIsStored
<1>. QED
  BY InvariantIInv, <1>1, PTL

\* Nothing is returned that a crash could still lose.
THEOREM ReturnsAreStored == Spec => []ReturnedIsStored
<1>1. IInv => ReturnedIsStored
  BY CellFacts DEF IInv, CellsInv, TypeOK, StoredInv, CellOf, ReturnedIsStored
<1>. QED
  BY InvariantIInv, <1>1, PTL

\* Retries store nothing twice; only overlapping lookups do.
THEOREM RetriesDoNotSaveAgain == Spec => []NoSecondSave
<1>1. IInv => NoSecondSave
  BY DEF IInv, CellsInv, SaversInv, NoSecondSave
<1>. QED
  BY InvariantIInv, <1>1, PTL

\* What was completed for a sync request is found too, but perhaps near the
\* edges of its cell.
THEOREM CompletedIsFoundAwayFromEdges == Spec => []FoundAwayFromEdges
<1>1. IInv => FoundAwayFromEdges
  <2> SUFFICES ASSUME IInv, NEW c \in Readers, rpc[c] = "404", AwayFromEdges(point[c]),
                      NEW via \in owed[c]
               PROVE  FALSE
    BY DEF FoundAwayFromEdges
  <2>1. point[c] \in Points /\ point[c] \in Nat /\ via \in Via
    BY GridAssumption DEF IInv, CellsInv, TypeOK
  <2>2. LookupCell(via, point[c]) = ReadCell(point[c])
    BY <2>1, RoundingKeepsCell DEF LookupCell, ReadCell
  <2>. QED
    BY <2>1, <2>2, CellFacts DEF IInv, CellsInv, OwedInv
<1>. QED
  BY InvariantIInv, <1>1, PTL

\* What was completed for a queued request is found by GET /landmarks.
THEOREM CompletedIsFound == Spec => []FoundAfterQueue
<1>1. IInv => FoundAfterQueue
  BY CellFacts DEF IInv, CellsInv, TypeOK, OwedInv, FoundAfterQueue
<1>. QED
  BY InvariantIInv, <1>1, PTL

-----------------------------------------------------------------------------
(* Duplicates.                                                             *)

\* What is about to be saved comes from Overpass, one of each landmark, or
\* from a cache that holds only what has been saved.
SaveInv ==
  \A p \in Slots : pc[p] = "save" =>
    \A l \in Landmarks : found[p][l] <= 1 \/ found[p][l] <= rows[CellOf(p)][l]

LEMMA StepSaveInv ==
  ASSUME IInv, IInv', SaveInv, [Next]_vars
  PROVE  SaveInv'
<1> USE DEF TypeOK, CellOf, Moves, Finds, Returns, lookupVars
<1>0. TypeOK /\ TypeOK'
  BY DEF IInv, CellsInv
<1>1. \A p \in Slots : CellOf(p) \in Cells
  BY <1>0, CellFacts DEF Queries
<1>2. \A g \in Cells : \A l \in Landmarks :
         rows[g][l] \in Nat /\ rows'[g][l] \in Nat /\ rows[g][l] <= rows'[g][l]
  BY <1>0, RowsGrow, ListFacts DEF Lists, \sqsubseteq
<1>3. \A g \in Cells : \A v \in cache[g] : \A l \in Landmarks : v[l] <= rows[g][l]
  BY DEF IInv, CellsInv, StoredInv, \sqsubseteq
<1>4. SUFFICES ASSUME NEW p \in Slots, pc'[p] = "save", NEW l \in Landmarks
               PROVE  found'[p][l] <= 1 \/ found'[p][l] <= rows'[CellOf(p)'][l]
  BY DEF SaveInv
<1>5. CASE pc[p] = "save" /\ UNCHANGED <<found[p], query[p]>>
  <2>1. found[p][l] \in Nat
    BY <1>0 DEF Lists
  <2>. QED BY <1>1, <1>2, <1>5, <2>1 DEF SaveInv
<1>6. CASE RecheckCache(p) \/ getFromCacheAsFallback(p)
  <2>1. PICK v \in cache[CellOf(p)] : found'[p] = v /\ UNCHANGED <<rows, query>>
    BY <1>0, <1>4, <1>6 DEF RecheckCache, getFromCacheAsFallback
  <2>. QED BY <1>1, <1>3, <2>1
<1>7. CASE FetchFromApi(p)
  <2>1. found'[p] = Within(query[p].x, query[p].radius)
    BY <1>0, <1>7 DEF FetchFromApi
  <2>. QED BY <2>1 DEF Within
<1>8. ASSUME NEW q \in Slots, q # p, Begin(q) \/ LookupStep(q)
      PROVE  pc[p] = "save" /\ UNCHANGED <<found[p], query[p]>>
  BY <1>0, <1>4, <1>8 DEF Begin, LookupStep, getCachedLandmarks, getDbLandmarks, KeepRows,
     RecheckCache, FetchFromApi, FetchFails, getFromCacheAsFallback,
     saveLandmarksWithGeohash, StoreInCache, LookupStops
<1>9. ASSUME ~RecheckCache(p), ~getFromCacheAsFallback(p), ~FetchFromApi(p)
      PROVE  ~Begin(p) /\ ~LookupStep(p)
  BY <1>0, <1>4, <1>9 DEF Begin, LookupStep, getCachedLandmarks, getDbLandmarks, KeepRows,
     FetchFails, saveLandmarksWithGeohash, StoreInCache, LookupStops
<1>10. CASE UNCHANGED lookupVars
  BY <1>4, <1>5, <1>10
<1>. QED
  BY <1>5, <1>6, <1>7, <1>8, <1>9, <1>10
     DEF Next, vars, Read, ReadStep, ReadCache, ReadDb, ReadDbFails, KeepRead, Expire

\* Duplicates at most double with a save.
THEOREM DuplicatesAtMostDouble == Spec => SaveAtMostDoubles
<1>1. Init => SaveInv
  BY DEF Init, SaveInv
<1>2. IInv /\ IInv' /\ SaveInv /\ [Next]_vars => SaveInv'
  BY StepSaveInv
<1>3. IInv /\ SaveInv /\ [Next]_vars =>
        [\A g \in Cells : \A l \in Landmarks :
           \/ rows'[g][l] <= rows[g][l] + 1
           \/ rows'[g][l] <= 2 * rows[g][l]]_vars
  <2> SUFFICES ASSUME IInv, SaveInv, Next, NEW g \in Cells, NEW l \in Landmarks
               PROVE  rows'[g][l] <= rows[g][l] + 1 \/ rows'[g][l] <= 2 * rows[g][l]
    OBVIOUS
  <2>1. rows[g][l] \in Nat
    BY DEF IInv, CellsInv, TypeOK, Lists
  <2>2. ASSUME NEW p \in Slots, saveLandmarksWithGeohash(p), g = CellOf(p)
        PROVE  rows'[g][l] <= rows[g][l] + 1 \/ rows'[g][l] <= 2 * rows[g][l]
    <3>1. rows'[g][l] = rows[g][l] + found[p][l]
      BY <2>2 DEF saveLandmarksWithGeohash, IInv, CellsInv, TypeOK, ++
    <3>2. found[p][l] \in Nat
      BY DEF IInv, CellsInv, TypeOK, Lists
    <3>3. found[p][l] <= 1 \/ found[p][l] <= rows[g][l]
      BY <2>2 DEF saveLandmarksWithGeohash, Moves, SaveInv
    <3>. QED BY <2>1, <3>1, <3>2, <3>3
  <2>3. CASE rows'[g] = rows[g]
    BY <2>1, <2>3
  <2>4. ASSUME NEW p \in Slots, saveLandmarksWithGeohash(p), g # CellOf(p)
        PROVE  rows'[g] = rows[g]
    BY <2>4 DEF saveLandmarksWithGeohash, IInv, CellsInv, TypeOK
  <2>. QED
    BY <2>2, <2>3, <2>4 DEF Next, Begin, LookupStep, getCachedLandmarks, getDbLandmarks,
       KeepRows, RecheckCache, FetchFromApi, FetchFails, getFromCacheAsFallback, StoreInCache,
       LookupStops, Read, ReadStep, ReadCache, ReadDb, ReadDbFails, KeepRead, Expire
<1>. QED
  BY <1>1, <1>2, <1>3, InvariantIInv, PTL DEF Spec, SaveAtMostDoubles
=============================================================================
