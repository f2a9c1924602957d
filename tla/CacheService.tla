----------------------------- MODULE CacheService -----------------------------
(***************************************************************************)
(* CacheService for one key: a cache manager in the memory of each         *)
(* process in front of one Redis entry.  Neither tier is told what the     *)
(* other does, a get that falls through to Redis puts what it finds back   *)
(* into the cache manager, and every error is swallowed.  (delete has no   *)
(* caller, and no operation touches two keys.)                             *)
(*                                                                         *)
(* A tick is a unit of the lifetimes, an hour in the code; an operation    *)
(* takes milliseconds, so that no tick passes under one.                   *)
(***************************************************************************)
EXTENDS Naturals

CONSTANTS
  Processes,  \* API and worker processes
  Calls,      \* calls in flight, each again and again
  Home(_),    \* the process of a call
  Lists,      \* what is cached
  Nothing,    \* undefined
  Ttl,        \* EX of the Redis entry
  MemoryTtl,  \* how long the cache manager keeps what is set with a ttl
  RefillTtl   \* how long it keeps what is set without one

ASSUME CallsAssumption == \A c \in Calls : Home(c) \in Processes
ASSUME ListsAssumption == Nothing \notin Lists
ASSUME TtlAssumption ==
  Ttl \in Nat \ {0} /\ MemoryTtl \in Nat \ {0} /\ RefillTtl \in Nat \ {0}

VARIABLES
  memory,  \* the entry of each process's cache manager
  redis,   \* the entry cache:<key>
  pc,      \* where each call is
  hand,    \* the list it has in hand
  age,     \* ticks since that list was set
  answer   \* what its last get returned

tiers == <<memory, redis>>
calls == <<pc, hand, age, answer>>
vars == <<tiers, calls>>

\* No list outlives this: read from Redis in its last tick and put back.
MaxAge == (Ttl - 1) + (RefillTtl - 1)
MaxMemoryAge == IF MaxAge < MemoryTtl THEN MemoryTtl - 1 ELSE MaxAge

Absent == [list |-> Nothing, age |-> 0, left |-> 0]
Entries == [list : Lists \union {Nothing}, age : Nat, left : Nat]
Entry(v, a, ttl) == [list |-> v, age |-> a, left |-> ttl]

TypeOK ==
  /\ memory \in [Processes -> Entries]
  /\ redis \in Entries
  /\ pc \in [Calls -> {"idle", "redis", "refill", "backup"}]
  /\ hand \in [Calls -> Lists \union {Nothing}]
  /\ age \in [Calls -> Nat]
  /\ answer \in [Calls -> Lists \union {Nothing}]

Init ==
  /\ memory = [p \in Processes |-> Absent]
  /\ redis = Absent
  /\ pc = [c \in Calls |-> "idle"]
  /\ hand = [c \in Calls |-> Nothing]
  /\ age = [c \in Calls |-> 0]
  /\ answer = [c \in Calls |-> Nothing]

-----------------------------------------------------------------------------

Moves(c, from, to) == pc[c] = from /\ pc' = [pc EXCEPT ![c] = to]

\* The call has the list v, set a ticks ago, in hand.
Holds(c, v, a) == hand' = [hand EXCEPT ![c] = v] /\ age' = [age EXCEPT ![c] = a]

Answers(c, v) == answer' = [answer EXCEPT ![c] = v]

\* get asks the cache manager first.
GetMemory(c) ==
  LET e == memory[Home(c)] IN
  /\ IF e.list # Nothing
     THEN Moves(c, "idle", "idle") /\ Holds(c, e.list, e.age) /\ Answers(c, e.list)
     ELSE Moves(c, "idle", "redis") /\ UNCHANGED <<hand, age, answer>>
  /\ UNCHANGED tiers

\* A miss there goes to Redis.
GetRedis(c) ==
  /\ IF redis.list # Nothing
     THEN Moves(c, "redis", "refill") /\ Holds(c, redis.list, redis.age) /\ UNCHANGED answer
     ELSE Moves(c, "redis", "idle") /\ Answers(c, Nothing) /\ UNCHANGED <<hand, age>>
  /\ UNCHANGED tiers

\* Mutant: the entry is also written back to Redis, with a new lifetime.
RefillBoth(c) ==
  /\ Moves(c, "refill", "idle")
  /\ memory' = [memory EXCEPT ![Home(c)] = Entry(hand[c], age[c], RefillTtl)]
  /\ redis' = Entry(hand[c], age[c], Ttl)
  /\ Answers(c, hand[c])
  /\ UNCHANGED <<hand, age>>

\* What Redis had is put back into the cache manager, without a ttl.
Refill(c) ==
  /\ Moves(c, "refill", "idle")
  /\ memory' = [memory EXCEPT ![Home(c)] = Entry(hand[c], age[c], RefillTtl)]
  /\ Answers(c, hand[c])
  /\ UNCHANGED <<redis, hand, age>>

\* Mutant: a get that fails answers the last list it knew of.
GetFailsToLast(c) ==
  /\ \E from \in {"idle", "redis", "refill"} : Moves(c, from, "idle")
  /\ Answers(c, hand[c])
  /\ UNCHANGED <<tiers, hand, age>>

\* Whatever get awaits rejects: it has found nothing, even after Redis had
\* answered.
GetFails(c) ==
  /\ \E from \in {"idle", "redis", "refill"} : Moves(c, from, "idle")
  /\ Answers(c, Nothing)
  /\ UNCHANGED <<tiers, hand, age>>

\* set writes the cache manager first; if that rejects, nothing has happened.
SetMemory(c, v) ==
  /\ Moves(c, "idle", "backup")
  /\ memory' = [memory EXCEPT ![Home(c)] = Entry(v, 0, MemoryTtl)]
  /\ Holds(c, v, 0)
  /\ UNCHANGED <<redis, answer>>

SetRedis(c) ==
  /\ Moves(c, "backup", "idle")
  /\ redis' = Entry(hand[c], 0, Ttl)
  /\ UNCHANGED <<memory, hand, age, answer>>

\* Redis rejects: only this process has the list.
SetRedisFails(c) ==
  /\ Moves(c, "backup", "idle")
  /\ UNCHANGED <<tiers, hand, age, answer>>

-----------------------------------------------------------------------------

\* A process ends, with its cache manager and the calls in it, and is
\* started again.
Restart(p) ==
  /\ memory' = [memory EXCEPT ![p] = Absent]
  /\ pc' = [c \in Calls |-> IF Home(c) = p THEN "idle" ELSE pc[c]]
  /\ UNCHANGED <<redis, hand, age, answer>>

\* Redis is restarted, flushed or evicts the entry.
RedisLost == redis' = Absent /\ UNCHANGED <<memory, calls>>

\* Mutant: an entry at the end of its life is kept.
OlderForever(e) == Entry(e.list, e.age + 1, e.left - 1)

\* One tick later.
Older(e) == IF e.left <= 1 THEN Absent ELSE Entry(e.list, e.age + 1, e.left - 1)

Tick ==
  /\ \A c \in Calls : pc[c] = "idle"
  /\ memory' = [p \in Processes |-> Older(memory[p])]
  /\ redis' = Older(redis)
  /\ UNCHANGED calls

get(c) == GetMemory(c) \/ GetRedis(c) \/ Refill(c) \/ GetFails(c)
set(c) == (\E v \in Lists : SetMemory(c, v)) \/ SetRedis(c) \/ SetRedisFails(c)

Next ==
  \/ \E c \in Calls : get(c) \/ set(c)
  \/ \E p \in Processes : Restart(p)
  \/ RedisLost \/ Tick

Spec == Init /\ [][Next]_vars

-----------------------------------------------------------------------------

\* A list that is read over and over does not live for ever: whichever tier
\* answers, and however often one is filled from the other, it was set less
\* than one lifetime in Redis and one more in the cache manager ago.
BoundedStaleness == \A c \in Calls : age[c] <= MaxMemoryAge

\* The lists some tier still has, or some call is between two awaits with.
Held ==
  ({memory[p].list : p \in Processes} \union {redis.list}
     \union {hand[c] : c \in {d \in Calls : pc[d] \in {"refill", "backup"}}}) \ {Nothing}

\* The two tiers together are the cache that LandmarkLookup assumes: no
\* interleaving of reads, refills, sets, failures, expiry and restarts
\* answers a list that the tiers had let go of.
Loose == INSTANCE LooseCache WITH held <- Held
LooseCacheSpec == Loose!Spec
=============================================================================
