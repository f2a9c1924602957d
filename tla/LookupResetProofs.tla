--------------------------- MODULE LookupResetProofs ---------------------------
(***************************************************************************)
(* Proofs about LookupReset for any lookups, workers, readers, grid and    *)
(* number of ends, on top of those about LandmarkLookup: the cells that    *)
(* are not carried obey its invariant.                                     *)
(***************************************************************************)
EXTENDS LookupReset, LandmarkLookupProofs

Fresh == Cells \ carried

\* The memory of a worker holds nothing else than its cache did.
KeptInv ==
  /\ \A g \in Cells : Empty \notin kept[g]
  /\ \A g \in Fresh : \A v \in kept[g] : v \sqsubseteq rows[g]

ResetInv == ResetTypeOK /\ CellsInv(Fresh, FALSE) /\ KeptInv

-----------------------------------------------------------------------------

\* A step of LandmarkLookup keeps its invariant for the cells that are fresh,
\* and that the rows grow keeps what is in a memory stored.
LEMMA GoesInv == ResetInv /\ Goes => ResetInv'
<1> SUFFICES ASSUME ResetInv, Goes PROVE ResetInv'
  OBVIOUS
<1>1. PICK C \in SUBSET Cells : C = Fresh
  BY DEF Fresh
<1>2. Next /\ UNCHANGED resetVars
  BY DEF Goes, Next, resetVars
<1>3. C = Fresh'
  BY <1>1, <1>2 DEF Fresh, resetVars
<1>4. CellsInv(C, FALSE)
  BY <1>1 DEF ResetInv
<1>5. CellsInv(C, FALSE)'
  BY <1>2, <1>4, StepCellsInv
<1>6. CellsInv(Fresh, FALSE)'
  BY <1>3, <1>5
<1>7. TypeOK /\ TypeOK'
  BY <1>4, <1>5 DEF CellsInv
<1>8. KeptInv'
  BY <1>1, <1>2, <1>3, <1>7, RowsGrow DEF KeptInv, ResetInv, ResetTypeOK, resetVars, Fresh
<1>9. ResetTypeOK'
  <2> USE DEF ResetInv, ResetTypeOK, resetVars
  <2>1. ASSUME NEW p \in Slots, Begin(p), query'[p].via = ViaOf(p),
               boot \in IF p \in WorkerSlots THEN {"up", "down"} ELSE {"up"}
        PROVE  ResetTypeOK'
    BY <1>2, <1>7, <2>1 DEF Begin, TypeOK, readerVars, ViaOf
  <2>2. ASSUME NEW p \in Slots, LookupStep(p) PROVE ResetTypeOK'
    <3>1. pc[p] # "idle" /\ pc' = [pc EXCEPT ![p] = pc'[p]] /\ UNCHANGED <<query, readerVars>>
      BY <2>2, <1>7
         DEF TypeOK, LookupStep, getCachedLandmarks, getDbLandmarks, KeepRows, RecheckCache,
             FetchFromApi, FetchFails, getFromCacheAsFallback, saveLandmarksWithGeohash,
             StoreInCache, LookupStops, Moves, Returns, readerVars
    <3>. QED
      BY <1>2, <1>7, <3>1 DEF TypeOK, readerVars, ViaOf
  <2>3. ASSUME NEW c \in Readers, (boot = "up" /\ Read(c)) \/ ReadStep(c) PROVE ResetTypeOK'
    BY <1>2, <1>7, <2>3
       DEF Read, ReadStep, ReadCache, ReadDb, ReadDbFails, KeepRead, ReaderMoves, TypeOK,
           lookupVars, ViaOf
  <2>4. ASSUME NEW g \in Cells, Expire(g) PROVE ResetTypeOK'
    BY <1>2, <1>7, <2>4 DEF Expire, lookupVars, readerVars, ViaOf
  <2>. QED
    BY <2>1, <2>2, <2>3, <2>4 DEF Goes
<1>. QED
  BY <1>6, <1>8, <1>9 DEF ResetInv

\* What a worker recalls is not empty, and in a fresh cell it is stored.
LEMMA RecallsInv == ASSUME ResetInv, NEW p \in Slots, Recalls(p) PROVE ResetInv'
<1> USE DEF ResetInv, ResetTypeOK, KeptInv, CellsInv, TypeOK, CellOf, Moves, Finds, Returns,
            readerVars, resetVars
<1>1. PICK v \in kept[CellOf(p)] :
        /\ \/ Returns(p, "cached", v)
           \/ Moves(p, "recheck", "save") /\ Finds(p, v) /\ UNCHANGED completed
           \/ Moves(p, "fallback", "save") /\ Finds(p, v) /\ UNCHANGED completed
        /\ UNCHANGED <<rows, cache, query, savers, readerVars, resetVars>>
  BY DEF Recalls
<1>2. /\ CellOf(p) \in Cells /\ v \in Lists /\ v # Empty
      /\ <<query[p].via, query[p].x>> \in Via \X Points
      /\ CellOf(p) \in Fresh => rows[CellOf(p)] # Empty
  BY <1>1, CellFacts, AboveNonempty DEF Queries, Fresh
<1>3. /\ found' = [found EXCEPT ![p] = v]
      /\ \/ pc[p] = "cached" /\ pc' = [pc EXCEPT ![p] = "ok"]
         \/ pc[p] \in {"recheck", "fallback"} /\ pc' = [pc EXCEPT ![p] = "save"]
      /\ completed' \in {completed, completed \union {<<query[p].via, query[p].x>>}}
  BY <1>1
<1>4. ResetTypeOK'
  BY <1>1, <1>2, <1>3 DEF ViaOf
<1>5. StoredInv(Fresh, FALSE)' /\ NonemptyInv' /\ SaversInv'
  BY <1>1, <1>2, <1>3 DEF StoredInv, NonemptyInv, SaversInv, Fresh
<1>6. OwedInv(Fresh)'
  BY <1>1, <1>2, <1>3 DEF OwedInv, Fresh
<1>7. KeptInv'
  BY <1>1 DEF Fresh
<1>. QED
  BY <1>4, <1>5, <1>6, <1>7

\* The container: after a reset the cells that are not carried start afresh.
LEMMA BootStepInv ==
  ASSUME ResetInv,
         ApiEnds \/ FlushAll \/ MigrateReset \/ Bootstrap \/ (\E g \in Cells : Forgets(g))
           \/ UNCHANGED lookupResetVars
  PROVE  ResetInv'
<1> USE ListFacts, EndsAssumption
<1> USE DEF ResetInv, ResetTypeOK, KeptInv, CellsInv, TypeOK, StoredInv, NonemptyInv, SaversInv,
            OwedInv, Fresh, CellOf, ViaOf, lookupVars, readerVars
<1>1. CASE ApiEnds
  BY <1>1 DEF ApiEnds
<1>2. CASE FlushAll
  BY <1>2 DEF FlushAll
<1>3. CASE MigrateReset
  <2>1. /\ \A c \in Readers : rpc[c] = "idle"
        /\ rows' = [g \in Cells |-> Empty] /\ savers' = [g \in Cells |-> {}] /\ completed' = {}
        /\ boot' \in {"reset", "flushed"}
        /\ UNCHANGED <<cache, pc, query, found, rpc, point, answer, owed, kept, ends>>
    BY <1>3 DEF MigrateReset
  <2>2. /\ carried' \subseteq Cells
        /\ \A g \in Fresh' :
             /\ cache[g] = {} /\ kept[g] = {}
             /\ \A p \in Slots : CellOf(p) = g => pc[p] \notin {"keep", "store"}
    BY <1>3 DEF MigrateReset, Carried
  <2>3. ResetTypeOK'
    BY <1>3, <2>1, <2>2 DEF MigrateReset
  <2>4. StoredInv(Fresh, FALSE)' /\ KeptInv'
    BY <2>1, <2>2
  <2>5. NonemptyInv' /\ SaversInv' /\ OwedInv(Fresh)'
    BY <2>1, CellFacts
  <2>. QED
    BY <2>3, <2>4, <2>5
<1>4. CASE Bootstrap
  BY <1>4 DEF Bootstrap, vars
<1>5. ASSUME NEW g \in Cells, Forgets(g) PROVE ResetInv'
  BY <1>5 DEF Forgets, vars
<1>6. CASE UNCHANGED lookupResetVars
  BY <1>6 DEF lookupResetVars, vars, resetVars
<1>. QED
  BY <1>1, <1>2, <1>3, <1>4, <1>5, <1>6

\* The invariant the properties follow from.
THEOREM AlwaysResetInv == ResetSpec => []ResetInv
<1>1. ASSUME ResetInit PROVE ResetInv
  <2>1. TypeOK
    BY <1>1, InitTypeOK DEF ResetInit
  <2>2. ResetTypeOK
    BY <1>1, <2>1, EndsAssumption DEF ResetInit, Init, ResetTypeOK
  <2>3. CellsInv(Fresh, FALSE)
    BY <1>1, <2>1, CellFacts
       DEF ResetInit, Init, CellsInv, StoredInv, NonemptyInv, SaversInv, OwedInv, Fresh
  <2>. QED
    BY <1>1, <2>2, <2>3 DEF ResetInit, ResetInv, KeptInv, Fresh
<1>2. ResetInv /\ [ResetNext]_lookupResetVars => ResetInv'
  BY GoesInv, RecallsInv, BootStepInv DEF ResetNext
<1>. QED
  BY <1>1, <1>2, PTL DEF ResetSpec

-----------------------------------------------------------------------------
(* Safety.                                                                 *)

\* The types of the lookups, the container and what is left of the caches; no
\* lookup or reader of the API goes on while it is down.
THEOREM ResetTypeCorrect == ResetSpec => []ResetTypeOK
<1>1. ResetInv => ResetTypeOK
  BY DEF ResetInv
<1>. QED
  BY AlwaysResetInv, <1>1, PTL

\* A list outlives its rows only in the cells a reset has carried one over of.
THEOREM OnlyCarriedIsUnstored == ResetSpec => []StoredUnlessCarried
<1>1. ResetInv => StoredUnlessCarried
  BY DEF ResetInv, KeptInv, CellsInv, StoredInv, StoredUnlessCarried, Fresh
<1>. QED
  BY AlwaysResetInv, <1>1, PTL

\* And only there is a completed queued request not found.
THEOREM OnlyCarriedIsMissed == ResetSpec => []FoundUnlessCarried
<1>1. ResetInv => FoundUnlessCarried
  BY CellFacts DEF ResetInv, CellsInv, TypeOK, OwedInv, FoundUnlessCarried, Fresh
<1>. QED
  BY AlwaysResetInv, <1>1, PTL

\* No slot saves a cell again that it has saved since the reset, whatever the
\* memory of a worker recalls.
THEOREM NoSecondSaveAcrossResets == ResetSpec => []NoSecondSave
<1>1. ResetInv => NoSecondSave
  BY DEF ResetInv, CellsInv, SaversInv, NoSecondSave
<1>. QED
  BY AlwaysResetInv, <1>1, PTL
=============================================================================
