---------------------------- MODULE LandmarkLookup ----------------------------
(***************************************************************************)
(* Landmark lookups (processLandmarksByCoordinates, run by a worker for a  *)
(* queued request and by the API for a sync one) and GET /landmarks, over  *)
(* the landmarks table, the cache and the Overpass API.                    *)
(*                                                                         *)
(* A lookup slot runs one lookup at a time and is used again: by a retry,  *)
(* by the next job of a worker, by the next request.  A point is a         *)
(* coordinate in units finer than the rounding.  A landmark is named by    *)
(* its distance, so a search of radius n finds the landmarks 1 .. n that   *)
(* are around.  A list of landmarks is a bag: landmark -> how often.       *)
(***************************************************************************)
EXTENDS Integers, FiniteSets

CONSTANTS
  Slots,      \* lookup slots
  Readers,    \* clients of GET /landmarks
  Points,     \* coordinates asked for
  Radii,      \* search radii asked for
  Landmarks,  \* distances at which there may be a landmark
  Around(_),  \* the landmarks around a point, for Overpass
  Grain,      \* what roundCoordinate rounds to a multiple of
  CellSize    \* the width of a geohash cell, not a multiple of Grain

ASSUME GridAssumption ==
  /\ Points \subseteq Nat /\ Points # {} /\ Grain \in Nat \ {0} /\ CellSize \in Nat \ {0}
ASSUME LandmarksAssumption ==
  /\ Radii \subseteq Nat /\ Radii # {} /\ Landmarks \subseteq Nat
  /\ \A x \in Points : Around(x) \subseteq Landmarks

\* Math.round rounds halves up.
roundCoordinate(x) == ((2 * x + Grain) \div (2 * Grain)) * Grain
encodeGeohash(x) == x \div CellSize

\* Mutant: processCoordinates queues the coordinates as they came.
LookupCellUnrounded(via, x) == encodeGeohash(x)

\* processCoordinates rounds before it queues; POST /webhook/sync does not.
Via == {"queue", "sync"}
LookupCell(via, x) == encodeGeohash(IF via = "queue" THEN roundCoordinate(x) ELSE x)
\* LandmarksService rounds too.
ReadCell(x) == encodeGeohash(roundCoordinate(x))
Cells == {LookupCell(via, x) : via \in Via, x \in Points} \union {ReadCell(x) : x \in Points}

Lists == [Landmarks -> Nat]
Empty == [l \in Landmarks |-> 0]
a ++ b == [l \in Landmarks |-> a[l] + b[l]]
a \sqsubseteq b == \A l \in Landmarks : a[l] <= b[l]
Within(x, radius) ==
  [l \in Landmarks |-> IF l \in Around(x) /\ l <= radius THEN 1 ELSE 0]

VARIABLES
  rows,       \* the landmarks table: cell -> list
  cache,      \* cell -> lists that some tier of some process's cache still holds
  pc,         \* where each lookup is
  query,      \* what it was asked
  found,      \* the list it has in hand
  savers,     \* history: slots that have saved landmarks of the cell
  completed,  \* history: <<via, point>> whose lookup has returned landmarks
  rpc,        \* where each reader is
  point,      \* what it asks for
  answer,     \* the list it has in hand
  owed        \* history: the vias that had completed its point when it began

lookupVars == <<pc, query, found>>
readerVars == <<rpc, point, answer, owed>>
vars == <<rows, cache, lookupVars, savers, completed, readerVars>>

Queries == [via : Via, x : Points, radius : Radii]
CellOf(p) == LookupCell(query[p].via, query[p].x)

TypeOK ==
  /\ rows \in [Cells -> Lists]
  /\ cache \in [Cells -> SUBSET Lists]
  /\ pc \in [Slots -> {"idle", "cached", "db", "keep", "recheck", "fetch",
                       "fallback", "save", "store", "ok", "failed"}]
  /\ query \in [Slots -> Queries]
  /\ found \in [Slots -> Lists]
  /\ savers \in [Cells -> SUBSET Slots]
  /\ completed \subseteq Via \X Points
  /\ rpc \in [Readers -> {"idle", "cached", "db", "keep", "200", "404", "500"}]
  /\ point \in [Readers -> Points]
  /\ answer \in [Readers -> Lists]
  /\ owed \in [Readers -> SUBSET Via]

Init ==
  /\ rows = [g \in Cells |-> Empty]
  /\ cache = [g \in Cells |-> {}]
  /\ pc = [p \in Slots |-> "idle"]
  /\ query \in [Slots -> {CHOOSE q \in Queries : TRUE}]
  /\ found = [p \in Slots |-> Empty]
  /\ savers = [g \in Cells |-> {}]
  /\ completed = {}
  /\ rpc = [c \in Readers |-> "idle"]
  /\ point \in [Readers -> {CHOOSE x \in Points : TRUE}]
  /\ answer = [c \in Readers |-> Empty]
  /\ owed = [c \in Readers |-> {}]

-----------------------------------------------------------------------------
(* CacheService, as its callers see it: every error is swallowed, so a set *)
(* may not happen and a get may miss; tiers disagree, so a get may return  *)
(* any list still held; entries expire.                                    *)

CacheSet(g, v) ==
  \/ cache' = [cache EXCEPT ![g] = @ \union {v}]
  \/ UNCHANGED cache

Expire(g) ==
  /\ \E v \in cache[g] : cache' = [cache EXCEPT ![g] = @ \ {v}]
  /\ UNCHANGED <<rows, lookupVars, savers, completed, readerVars>>

-----------------------------------------------------------------------------
(* LandmarksProcessorService.                                              *)

Moves(p, from, to) == pc[p] = from /\ pc' = [pc EXCEPT ![p] = to]

Finds(p, v) == found' = [found EXCEPT ![p] = v]

\* processLandmarksByCoordinates is called for a query the schemas have
\* validated, so that SRL002 is never thrown.
Begin(p) ==
  /\ pc[p] \in {"idle", "ok", "failed"}
  /\ pc' = [pc EXCEPT ![p] = "cached"]
  /\ \E q \in Queries : query' = [query EXCEPT ![p] = q]
  /\ Finds(p, Empty)
  /\ UNCHANGED <<rows, cache, savers, completed, readerVars>>

\* The lookup returns the list v.
Returns(p, from, v) ==
  /\ Moves(p, from, "ok")
  /\ Finds(p, v)
  /\ completed' = IF v = Empty THEN completed
                  ELSE completed \union {<<query[p].via, query[p].x>>}

getCachedLandmarks(p) ==
  /\ \/ \E v \in cache[CellOf(p)] : Returns(p, "cached", v)
     \/ Moves(p, "cached", "db") /\ UNCHANGED <<found, completed>>
  /\ UNCHANGED <<rows, cache, query, savers, readerVars>>

\* Mutant: the database is not asked.
DbSkipped(p) ==
  /\ Moves(p, "db", "recheck")
  /\ UNCHANGED <<rows, cache, query, found, savers, completed, readerVars>>

getDbLandmarks(p) ==
  /\ IF rows[CellOf(p)] # Empty
     THEN Moves(p, "db", "keep") /\ Finds(p, rows[CellOf(p)])
     ELSE Moves(p, "db", "recheck") /\ UNCHANGED found
  /\ UNCHANGED <<rows, cache, query, savers, completed, readerVars>>

\* cacheService.set with the rows just read, and the lookup returns them.
KeepRows(p) ==
  /\ Returns(p, "keep", found[p])
  /\ CacheSet(CellOf(p), found[p])
  /\ UNCHANGED <<rows, query, savers, readerVars>>

\* findNearbyLandmarks looks in the cache once more, before the pipeline.
RecheckCache(p) ==
  /\ \/ \E v \in cache[CellOf(p)] : Moves(p, "recheck", "save") /\ Finds(p, v)
     \/ Moves(p, "recheck", "fetch") /\ UNCHANGED found
  /\ UNCHANGED <<rows, cache, query, savers, completed, readerVars>>

\* Mutant: what is fetched is cached before it is saved.
FetchAndCache(p) ==
  LET v == Within(query[p].x, query[p].radius) IN
  /\ Moves(p, "fetch", "save") /\ Finds(p, v)
  /\ CacheSet(CellOf(p), v)
  /\ UNCHANGED <<rows, query, savers, completed, readerVars>>

\* The pipeline returns what Overpass knows within the radius.  Nothing
\* found is neither stored nor cached.
FetchFromApi(p) ==
  LET v == Within(query[p].x, query[p].radius) IN
  /\ IF v = Empty
     THEN Returns(p, "fetch", v)
     ELSE Moves(p, "fetch", "save") /\ Finds(p, v) /\ UNCHANGED completed
  /\ UNCHANGED <<rows, cache, query, savers, readerVars>>

\* The pipeline has thrown, after all its retries.
FetchFails(p) ==
  /\ Moves(p, "fetch", "fallback")
  /\ UNCHANGED <<rows, cache, query, found, savers, completed, readerVars>>

\* Mutant: an empty-handed fallback is not noticed, and undefined goes on.
FallbackUnchecked(p) ==
  /\ Moves(p, "fallback", "save")
  /\ Finds(p, << >>)
  /\ UNCHANGED <<rows, cache, query, savers, completed, readerVars>>

getFromCacheAsFallback(p) ==
  /\ \/ \E v \in cache[CellOf(p)] : Moves(p, "fallback", "save") /\ Finds(p, v)
     \/ Moves(p, "fallback", "failed") /\ UNCHANGED found
  /\ UNCHANGED <<rows, cache, query, savers, completed, readerVars>>

\* Mutant: createMany is not awaited.
SaveUnawaited(p) ==
  /\ Moves(p, "save", "store")
  /\ UNCHANGED <<rows, cache, query, found, savers, completed, readerVars>>

\* Mutant: createMany is sent again when its reply is late.
SaveRepeated(p) ==
  /\ Moves(p, "save", "store")
  /\ rows' = [rows EXCEPT ![CellOf(p)] = @ ++ (found[p] ++ found[p])]
  /\ savers' = [savers EXCEPT ![CellOf(p)] = @ \union {p}]
  /\ UNCHANGED <<cache, query, found, completed, readerVars>>

saveLandmarksWithGeohash(p) ==
  /\ Moves(p, "save", "store")
  /\ rows' = [rows EXCEPT ![CellOf(p)] = @ ++ found[p]]
  /\ savers' = [savers EXCEPT ![CellOf(p)] = @ \union {p}]
  /\ UNCHANGED <<cache, query, found, completed, readerVars>>

StoreInCache(p) ==
  /\ Returns(p, "store", found[p])
  /\ CacheSet(CellOf(p), found[p])
  /\ UNCHANGED <<rows, query, savers, readerVars>>

\* The database rejects, or the process running the lookup dies.
LookupStops(p) ==
  /\ pc[p] \notin {"idle", "ok", "failed"}
  /\ pc' = [pc EXCEPT ![p] = "failed"]
  /\ UNCHANGED <<rows, cache, query, found, savers, completed, readerVars>>

-----------------------------------------------------------------------------
(* GET /landmarks: LandmarksService and LandmarksSearchService.            *)

ReaderMoves(c, from, to) == rpc[c] = from /\ rpc' = [rpc EXCEPT ![c] = to]

Read(c) ==
  /\ rpc[c] \in {"idle", "200", "404", "500"}
  /\ rpc' = [rpc EXCEPT ![c] = "cached"]
  /\ \E x \in Points :
       /\ point' = [point EXCEPT ![c] = x]
       /\ owed' = [owed EXCEPT ![c] = {via \in Via : <<via, x>> \in completed}]
  /\ answer' = [answer EXCEPT ![c] = Empty]
  /\ UNCHANGED <<rows, cache, lookupVars, savers, completed>>

ReadCache(c) ==
  /\ \/ \E v \in cache[ReadCell(point[c])] :
          ReaderMoves(c, "cached", "200") /\ answer' = [answer EXCEPT ![c] = v]
     \/ ReaderMoves(c, "cached", "db") /\ UNCHANGED answer
  /\ UNCHANGED <<rows, cache, lookupVars, savers, completed, point, owed>>

ReadDb(c) ==
  LET v == rows[ReadCell(point[c])] IN
  /\ \/ v = Empty /\ ReaderMoves(c, "db", "404") /\ UNCHANGED answer
     \/ v # Empty /\ ReaderMoves(c, "db", "keep") /\ answer' = [answer EXCEPT ![c] = v]
  /\ UNCHANGED <<rows, cache, lookupVars, savers, completed, point, owed>>

ReadDbFails(c) ==
  /\ ReaderMoves(c, "db", "500")
  /\ UNCHANGED <<rows, cache, lookupVars, savers, completed, point, answer, owed>>

KeepRead(c) ==
  /\ ReaderMoves(c, "keep", "200")
  /\ CacheSet(ReadCell(point[c]), answer[c])
  /\ UNCHANGED <<rows, lookupVars, savers, completed, point, answer, owed>>

-----------------------------------------------------------------------------

LookupStep(p) ==
  \/ getCachedLandmarks(p) \/ getDbLandmarks(p) \/ KeepRows(p)
  \/ RecheckCache(p) \/ FetchFromApi(p) \/ FetchFails(p)
  \/ getFromCacheAsFallback(p) \/ saveLandmarksWithGeohash(p) \/ StoreInCache(p)
  \/ LookupStops(p)

ReadStep(c) == ReadCache(c) \/ ReadDb(c) \/ ReadDbFails(c) \/ KeepRead(c)

Next ==
  \/ \E p \in Slots : Begin(p) \/ LookupStep(p)
  \/ \E c \in Readers : Read(c) \/ ReadStep(c)
  \/ \E g \in Cells : Expire(g)

Spec == Init /\ [][Next]_vars

-----------------------------------------------------------------------------
(* Safety.                                                                 *)

\* Whatever the cache holds has been saved, each landmark at least as often:
\* a list never outlives a crash in the cache alone, and expiry loses nothing.
CachedIsStored ==
  \A g \in Cells : \A v \in cache[g] : v \sqsubseteq rows[g]

\* The same of what a lookup or GET /landmarks returns, whichever of the
\* cache, the table, Overpass and the fallback it came from.
ReturnedIsStored ==
  /\ \A p \in Slots : pc[p] = "ok" => found[p] \sqsubseteq rows[CellOf(p)]
  /\ \A c \in Readers : rpc[c] = "200" => answer[c] \sqsubseteq rows[ReadCell(point[c])]

\* A slot never saves the landmarks of a cell twice, however often its lookup
\* fails, dies between the save and the cache, is retried, or the cache
\* forgets.  The lookups that overlap the first save are the only ones that
\* can store a landmark again.
NoSecondSave ==
  \A p \in Slots : pc[p] = "save" => p \notin savers[CellOf(p)]

\* A save adds of each landmark one, or at most as many as the cell holds
\* already: with nothing unique in the table a lookup that overlaps others may
\* save again what it found in the cache, duplicates included, so that they
\* double with each such save, but do no worse.
SaveAtMostDoubles ==
  [][\A g \in Cells : \A l \in Landmarks :
       \/ rows'[g][l] <= rows[g][l] + 1
       \/ rows'[g][l] <= 2 * rows[g][l]]_vars

\* Once the lookup of a queued request has returned landmarks, GET /landmarks
\* for the same coordinate does not answer 404, whatever the cache lost.
FoundAfterQueue ==
  \A c \in Readers : rpc[c] = "404" => "queue" \notin owed[c]

\* Rounding does not move the point across an edge of its cell.
AwayFromEdges(x) ==
  LET offset == x % CellSize IN Grain <= 2 * offset /\ 2 * offset + Grain < 2 * CellSize

\* POST /webhook/sync does not round; but only where rounding may cross the
\* edge of a cell does GET /landmarks miss what its lookup has returned.
FoundAwayFromEdges ==
  \A c \in Readers : rpc[c] = "404" /\ AwayFromEdges(point[c]) => owed[c] = {}

-----------------------------------------------------------------------------
(* What the documents say and the code does not do.                        *)

\* "Round coordinates for consistency": as FoundAfterQueue, for POST
\* /webhook/sync.
FoundAfterSync ==
  \A c \in Readers : rpc[c] = "404" => "sync" \notin owed[c]
=============================================================================
