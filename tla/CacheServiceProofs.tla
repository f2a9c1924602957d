-------------------------- MODULE CacheServiceProofs --------------------------
(***************************************************************************)
(* Proofs about CacheService for any processes, calls, lists and           *)
(* lifetimes.                                                              *)
(***************************************************************************)
EXTENDS CacheService, TLAPS

-----------------------------------------------------------------------------
(* The inductive invariant: an entry has been used up by as much as its    *)
(* list has aged in it, and a refill carries a list that Redis had.        *)

\* The age of a list in Redis and what is left to it make up one lifetime.
RedisInv == redis.list # Nothing => redis.left > 0 /\ redis.age + redis.left <= Ttl

\* In a cache manager the lifetime starts when it was set, or when Redis
\* still had it.
MemoryInv == \A p \in Processes : memory[p].list # Nothing =>
  /\ memory[p].left > 0
  /\ memory[p].age + memory[p].left <= MaxMemoryAge + 1

CallInv == \A c \in Calls :
  /\ age[c] <= MaxMemoryAge
  /\ pc[c] = "refill" => hand[c] # Nothing /\ age[c] < Ttl
  /\ pc[c] = "backup" => hand[c] # Nothing

IInv == TypeOK /\ RedisInv /\ MemoryInv /\ CallInv

LEMMA MaxAgeBounds ==
  /\ MaxMemoryAge \in Nat
  /\ MemoryTtl <= MaxMemoryAge + 1
  /\ Ttl <= MaxMemoryAge + 1
  /\ \A a \in Nat : a < Ttl => a + RefillTtl <= MaxMemoryAge + 1
BY TtlAssumption DEF MaxMemoryAge, MaxAge

\* An entry one tick later is absent, or has aged by a tick and has one less.
LEMMA OlderEntry ==
  ASSUME NEW e \in Entries
  PROVE  /\ Older(e) \in Entries
         /\ Older(e).list # Nothing =>
              /\ Older(e).list = e.list
              /\ Older(e).left > 0
              /\ Older(e).age + Older(e).left = e.age + e.left
BY ListsAssumption DEF Older, Entries, Entry, Absent

LEMMA StepIInv == IInv /\ [Next]_vars => IInv'
<1> SUFFICES ASSUME IInv, [Next]_vars PROVE IInv'
  OBVIOUS
<1> USE CallsAssumption, ListsAssumption, TtlAssumption, MaxAgeBounds
<1> USE DEF IInv, TypeOK, RedisInv, MemoryInv, CallInv, Entries, tiers, calls, Moves,
            Holds, Answers
<1>1. ASSUME NEW c \in Calls, GetMemory(c) PROVE IInv'
  <2>1. CASE memory[Home(c)].list = Nothing
    BY <1>1, <2>1 DEF GetMemory
  <2>2. CASE memory[Home(c)].list # Nothing
    <3>1. memory[Home(c)].age \in Nat /\ memory[Home(c)].age <= MaxMemoryAge
      BY <2>2
    <3>. QED BY <1>1, <2>2, <3>1 DEF GetMemory
  <2>. QED BY <2>1, <2>2
<1>2. ASSUME NEW c \in Calls, GetRedis(c) PROVE IInv'
  <2>1. CASE redis.list = Nothing
    BY <1>2, <2>1 DEF GetRedis
  <2>2. CASE redis.list # Nothing
    <3>1. redis.age \in Nat /\ redis.age < Ttl /\ redis.age <= MaxMemoryAge
      BY <2>2
    <3>. QED BY <1>2, <2>2, <3>1 DEF GetRedis
  <2>. QED BY <2>1, <2>2
<1>3. ASSUME NEW c \in Calls, Refill(c) PROVE IInv'
  <2>1. /\ hand[c] \in Lists /\ age[c] \in Nat
        /\ age[c] + RefillTtl <= MaxMemoryAge + 1
    BY <1>3 DEF Refill
  <2>2. TypeOK'
    BY <1>3, <2>1 DEF Refill, Entry
  <2>3. MemoryInv'
    BY <1>3, <2>1 DEF Refill, Entry
  <2>. QED BY <1>3, <2>2, <2>3 DEF Refill
<1>4. ASSUME NEW c \in Calls, GetFails(c) PROVE IInv'
  BY <1>4 DEF GetFails
<1>5. ASSUME NEW c \in Calls, NEW v \in Lists, SetMemory(c, v) PROVE IInv'
  BY <1>5 DEF SetMemory, Entry
<1>6. ASSUME NEW c \in Calls, SetRedis(c) PROVE IInv'
  BY <1>6 DEF SetRedis, Entry
<1>7. ASSUME NEW c \in Calls, SetRedisFails(c) PROVE IInv'
  BY <1>7 DEF SetRedisFails
<1>8. ASSUME NEW p \in Processes, Restart(p) PROVE IInv'
  BY <1>8 DEF Restart, Absent
<1>9. CASE RedisLost
  BY <1>9 DEF RedisLost, Absent
<1>10. CASE Tick
  <2>1. redis' \in Entries /\ memory' \in [Processes -> Entries]
    BY <1>10, OlderEntry DEF Tick
  <2>2. RedisInv' /\ MemoryInv'
    BY <1>10, <2>1, OlderEntry DEF Tick
  <2>. QED BY <1>10, <2>1, <2>2 DEF Tick
<1>11. CASE UNCHANGED vars
  BY <1>11 DEF vars
<1>. QED
  BY <1>1, <1>2, <1>3, <1>4, <1>5, <1>6, <1>7, <1>8, <1>9, <1>10, <1>11 DEF Next, get, set

THEOREM InvariantIInv == Spec => []IInv
<1>1. Init => IInv
  <2> SUFFICES ASSUME Init PROVE IInv
    OBVIOUS
  <2>1. TypeOK
    BY DEF Init, TypeOK, Entries, Absent
  <2>2. RedisInv /\ MemoryInv /\ CallInv
    BY MaxAgeBounds DEF Init, RedisInv, MemoryInv, CallInv, Absent
  <2>. QED BY <2>1, <2>2 DEF IInv
<1>. QED
  BY <1>1, StepIInv, PTL DEF Spec

-----------------------------------------------------------------------------
(* The properties.                                                         *)

\* The types of the tiers and of the calls.
THEOREM TypeCorrect == Spec => []TypeOK
<1>1. IInv => TypeOK
  BY DEF IInv
<1>. QED BY InvariantIInv, <1>1, PTL

\* No get answers a list that was set longer ago than the two lifetimes.
THEOREM StalenessIsBounded == Spec => []BoundedStaleness
<1>1. IInv => BoundedStaleness
  BY DEF IInv, CallInv, BoundedStaleness
<1>. QED BY InvariantIInv, <1>1, PTL

\* The two tiers are the cache that their callers assume.
THEOREM ImplementsLooseCache == Spec => LooseCacheSpec
<1>1. Init => Loose!Init
  BY DEF Init, Loose!Init, Held, Absent
<1>2. IInv /\ [Next]_vars => [Loose!Next]_<<Held, answer>>
  <2> SUFFICES ASSUME IInv, [Next]_vars PROVE [Loose!Next]_<<Held, answer>>
    OBVIOUS
  <2> USE CallsAssumption, ListsAssumption
  <2> USE DEF IInv, TypeOK, CallInv, Entries, tiers, calls, Moves, Holds, Answers, Held
  <2> DEFINE Less == Held' \subseteq Held /\ UNCHANGED answer
  <2>0. ASSUME Less PROVE Loose!Next
    BY <2>0 DEF Loose!Next, Loose!Forget
  <2>1. ASSUME NEW c \in Calls, GetMemory(c) PROVE Loose!Next
    <3>1. Held' \subseteq Held
      BY <2>1 DEF GetMemory
    <3>2. CASE memory[Home(c)].list = Nothing
      BY <2>1, <3>1, <3>2, <2>0 DEF GetMemory
    <3>3. CASE memory[Home(c)].list # Nothing
      <4>1. memory[Home(c)].list \in Held
        BY <3>3
      <4>2. Loose!Get(c)
        BY <2>1, <3>1, <3>3, <4>1 DEF GetMemory, Loose!Get
      <4>. QED BY <4>2 DEF Loose!Next
    <3>. QED BY <3>2, <3>3
  <2>2. ASSUME NEW c \in Calls, GetRedis(c) PROVE Loose!Next
    <3>1. Held' \subseteq Held
      BY <2>2 DEF GetRedis
    <3>2. CASE redis.list # Nothing
      BY <2>2, <3>1, <3>2, <2>0 DEF GetRedis
    <3>3. CASE redis.list = Nothing
      BY <2>2, <3>1, <3>3 DEF GetRedis, Loose!Get, Loose!Next
    <3>. QED BY <3>2, <3>3
  <2>3. ASSUME NEW c \in Calls, Refill(c) PROVE Loose!Next
    <3>1. hand[c] \in Held
      BY <2>3 DEF Refill
    <3>2. Held' \subseteq Held
      BY <2>3, <3>1 DEF Refill, Entry
    <3>3. Loose!Get(c)
      BY <2>3, <3>1, <3>2 DEF Refill, Loose!Get
    <3>. QED BY <3>3 DEF Loose!Next
  <2>4. ASSUME NEW c \in Calls, GetFails(c) PROVE Loose!Next
    <3>1. Held' \subseteq Held
      BY <2>4 DEF GetFails
    <3>. QED BY <2>4, <3>1 DEF GetFails, Loose!Get, Loose!Next
  <2>5. ASSUME NEW c \in Calls, NEW v \in Lists, SetMemory(c, v) PROVE Loose!Next
    <3>1. v \in Held' /\ Held' \subseteq Held \union {v}
      BY <2>5 DEF SetMemory, Entry
    <3>2. Held' = (Held' \intersect Held) \union {v}
      BY <3>1
    <3>3. Loose!Set(v)
      BY <2>5, <3>2 DEF SetMemory, Loose!Set
    <3>. QED BY <3>3 DEF Loose!Next
  <2>6. ASSUME NEW c \in Calls, SetRedis(c) PROVE Loose!Next
    BY <2>6, <2>0 DEF SetRedis, Entry
  <2>7. ASSUME NEW c \in Calls, SetRedisFails(c) PROVE Loose!Next
    BY <2>7, <2>0 DEF SetRedisFails
  <2>8. ASSUME NEW p \in Processes, Restart(p) PROVE Loose!Next
    BY <2>8, <2>0 DEF Restart, Absent
  <2>9. CASE RedisLost
    BY <2>9, <2>0 DEF RedisLost, Absent
  <2>10. CASE Tick
    <3>1. \A e \in Entries : Older(e).list \in {e.list, Nothing}
      BY DEF Older, Entry, Absent
    <3>. QED BY <2>10, <3>1, <2>0 DEF Tick
  <2>11. CASE UNCHANGED vars
    BY <2>11 DEF vars
  <2>. QED
    BY <2>1, <2>2, <2>3, <2>4, <2>5, <2>6, <2>7, <2>8, <2>9, <2>10, <2>11
       DEF Next, get, set
<1>. QED
  BY InvariantIInv, <1>1, <1>2, PTL DEF Spec, LooseCacheSpec, Loose!Spec
=============================================================================
