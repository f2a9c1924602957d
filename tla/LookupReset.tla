------------------------------ MODULE LookupReset ------------------------------
(***************************************************************************)
(* LandmarkLookup across the starts of the API container, which flush      *)
(* Redis first and reset the database only then, while the workers go on.  *)
(* Deployment is the same of the webhook requests.                         *)
(*                                                                         *)
(* The API runs the sync lookups and answers GET /landmarks; the workers   *)
(* run the queued ones and keep what they cached in memory as well.        *)
(***************************************************************************)
EXTENDS LandmarkLookup

CONSTANTS
  WorkerSlots,  \* the lookup slots of workers; the others are the API's
  MaxEnds       \* bound: how often the program of the API ends

ASSUME WorkersAssumption == WorkerSlots \subseteq Slots
ASSUME EndsAssumption == MaxEnds \in Nat

VARIABLES
  boot,     \* how far the entrypoint of the API container has got
  kept,     \* cell -> flushed lists that the memory of some worker may hold
  carried,  \* history: cells of which the last reset left a list somewhere
  ends      \* history: how often the program has ended

resetVars == <<boot, kept, carried, ends>>
lookupResetVars == <<vars, resetVars>>

ViaOf(p) == IF p \in WorkerSlots THEN "queue" ELSE "sync"

ResetTypeOK ==
  /\ TypeOK
  /\ boot \in {"up", "down", "flushed", "reset"}
  /\ kept \in [Cells -> SUBSET Lists]
  /\ carried \subseteq Cells
  /\ ends \in 0 .. MaxEnds
  /\ boot # "up" => /\ \A c \in Readers : rpc[c] = "idle"
                    /\ \A p \in Slots \ WorkerSlots : pc[p] = "idle"
  /\ \A p \in Slots : pc[p] # "idle" => query[p].via = ViaOf(p)

ResetInit ==
  /\ Init
  /\ boot = "up" /\ kept = [g \in Cells |-> {}] /\ carried = {} /\ ends = 0

-----------------------------------------------------------------------------
(* The API container.                                                      *)

\* The program ends, for whatever reason, and with it what it was doing.
ApiEnds ==
  /\ boot = "up" /\ boot' = "down"
  /\ ends < MaxEnds /\ ends' = ends + 1
  /\ pc' = [p \in Slots |-> IF p \in WorkerSlots THEN pc[p] ELSE "idle"]
  /\ found' = [p \in Slots |-> IF p \in WorkerSlots THEN found[p] ELSE Empty]
  /\ rpc' = [c \in Readers |-> "idle"]
  /\ answer' = [c \in Readers |-> Empty]
  /\ owed' = [c \in Readers |-> {}]
  /\ UNCHANGED <<rows, cache, query, savers, completed, point, kept, carried>>

\* Mutant: another container starts while the program runs.
FlushWhileUp ==
  /\ boot' = "flushed"
  /\ kept' = [g \in Cells |-> kept[g] \union cache[g]]
  /\ cache' = [g \in Cells |-> {}]
  /\ UNCHANGED <<rows, lookupVars, savers, completed, readerVars, carried, ends>>

\* redis-cli FLUSHALL, also after a later step has failed and the container has
\* been started again.  It does not reach the memory of the workers.
FlushAll ==
  /\ boot # "up" /\ boot' = "flushed"
  /\ kept' = [g \in Cells |-> kept[g] \union cache[g]]
  /\ cache' = [g \in Cells |-> {}]
  /\ UNCHANGED <<rows, lookupVars, savers, completed, readerVars, carried, ends>>

\* Lists of the cell that rows no longer hold once the rows are dropped: in a
\* cache, or in the hand of a lookup that is about to cache what it has read
\* or saved.
Carried(g) ==
  \/ cache[g] \union kept[g] # {}
  \/ \E p \in Slots : CellOf(p) = g /\ pc[p] \in {"keep", "store"}

\* prisma migrate reset drops the rows; it may fail after that.
MigrateReset ==
  /\ boot = "flushed" /\ boot' \in {"reset", "flushed"}
  /\ rows' = [g \in Cells |-> Empty]
  /\ savers' = [g \in Cells |-> {}]
  /\ carried' = {g \in Cells : Carried(g)}
  /\ completed' = {}
  /\ UNCHANGED <<cache, lookupVars, readerVars, kept, ends>>

\* node dist/main.js: the program listens.
Bootstrap ==
  /\ boot = "reset" /\ boot' = "up"
  /\ UNCHANGED <<vars, kept, carried, ends>>

-----------------------------------------------------------------------------
(* Lookups in between.                                                     *)

\* The memory of a worker answers a get, wherever the lookup asks the cache.
Recalls(p) ==
  /\ p \in WorkerSlots
  /\ \E v \in kept[CellOf(p)] :
       \/ Returns(p, "cached", v)
       \/ Moves(p, "recheck", "save") /\ Finds(p, v) /\ UNCHANGED completed
       \/ Moves(p, "fallback", "save") /\ Finds(p, v) /\ UNCHANGED completed
  /\ UNCHANGED <<rows, cache, query, savers, readerVars, resetVars>>

\* A worker's entry expires, or the worker ends.
Forgets(g) ==
  /\ \E v \in kept[g] : kept' = [kept EXCEPT ![g] = @ \ {v}]
  /\ UNCHANGED <<vars, boot, carried, ends>>

\* The steps of LandmarkLookup.  The API begins nothing while it is down, and
\* from the flush on the queue is empty until the API is up.
Goes ==
  /\ \/ \E p \in Slots :
          /\ Begin(p)
          /\ query'[p].via = ViaOf(p)
          /\ boot \in IF p \in WorkerSlots THEN {"up", "down"} ELSE {"up"}
     \/ \E p \in Slots : LookupStep(p)
     \/ \E c \in Readers : boot = "up" /\ Read(c)
     \/ \E c \in Readers : ReadStep(c)
     \/ \E g \in Cells : Expire(g)
  /\ UNCHANGED resetVars

ResetNext ==
  \/ Goes
  \/ \E p \in Slots : Recalls(p)
  \/ \E g \in Cells : Forgets(g)
  \/ ApiEnds \/ FlushAll \/ MigrateReset \/ Bootstrap

ResetSpec == ResetInit /\ [][ResetNext]_lookupResetVars

-----------------------------------------------------------------------------
(* Safety.                                                                 *)

\* A reset that finds no list of a cell in a cache or about to be cached is a
\* fresh start for the cell: whatever is cached from then on is in the table.
\* The lists that the others keep out of it come from workers that were under
\* way across the flush and the reset, or from the memory of one.
StoredUnlessCarried ==
  \A g \in Cells \ carried : \A v \in cache[g] \union kept[g] : v \sqsubseteq rows[g]

\* And only of the other cells can GET /landmarks answer 404 to a coordinate
\* whose queued lookup has returned landmarks since the reset.
FoundUnlessCarried ==
  \A c \in Readers :
    rpc[c] = "404" /\ "queue" \in owed[c] => ReadCell(point[c]) \in carried
=============================================================================
