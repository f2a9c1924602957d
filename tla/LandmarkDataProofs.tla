-------------------------- MODULE LandmarkDataProofs --------------------------
(***************************************************************************)
(* Proofs about LandmarkData.                                              *)
(***************************************************************************)
EXTENDS LandmarkData, FiniteSetTheorems, WellFoundedInduction, TLAPS

-----------------------------------------------------------------------------
(* The fold of removeDuplicates.                                           *)

\* A set of naturals that is not empty has a least member.
LEMMA LeastElement ==
  ASSUME NEW T \in SUBSET Nat, T # {}
  PROVE  \E m \in T : \A k \in T : m <= k
<1>1. IsWellFoundedOn(OpToRel(<, Nat), Nat)
  BY NatLessThanWellFounded
<1>2. PICK m \in T : \A k \in T : <<k, m>> \notin OpToRel(<, Nat)
  BY <1>1, WFMin
<1>3. \A k \in T : ~(k < m)
  BY <1>2 DEF OpToRel
<1>4. \A k \in T : m <= k
  BY <1>3
<1>. QED BY <1>4

\* The fold of the elements of s with the indices u, from what f says of smaller sets.
FoldStep(s, f, u) == IF u = {} THEN Nobody ELSE keepBest(f[u \ {Max(u)}], s[Max(u)])

\* f is the fold of s for all sets of indices up to n.
FoldsTo(s, n, f) == f = [u \in SUBSET (1 .. n) |-> FoldStep(s, f, u)]

LEMMA MaxOfPrefix ==
  ASSUME NEW n \in Nat, NEW u \in SUBSET (1 .. n + 1), n + 1 \in u
  PROVE  Max(u) = n + 1
<1>1. \A y \in u : n + 1 >= y
  OBVIOUS
<1>2. \A x \in u : (\A y \in u : x >= y) => x = n + 1
  OBVIOUS
<1>. QED BY <1>1, <1>2 DEF Max

LEMMA FoldExists ==
  ASSUME NEW s, NEW n \in Nat
  PROVE  \E f : FoldsTo(s, n, f)
<1>. DEFINE Bad == {k \in Nat : ~\E f : FoldsTo(s, k, f)}
<1>1. SUFFICES Bad = {}
  OBVIOUS
<1>2. SUFFICES ASSUME Bad # {}
               PROVE  FALSE
  OBVIOUS
<1>3. PICK m \in Bad : \A k \in Bad : m <= k
  BY <1>2, LeastElement
<1>4. m # 0
  <2>. DEFINE f == [u \in SUBSET (1 .. 0) |-> Nobody]
  <2>1. \A u \in SUBSET (1 .. 0) : u = {}
    OBVIOUS
  <2>2. FoldsTo(s, 0, f)
    BY <2>1, Zenon DEF FoldsTo, FoldStep
  <2>. QED BY <2>2, <1>3
<1>5. m - 1 \in Nat /\ m - 1 \notin Bad
  BY <1>3, <1>4
<1>6. PICK g : FoldsTo(s, m - 1, g)
  BY <1>5
<1>. DEFINE h == [u \in SUBSET (1 .. m) |->
                    IF m \in u THEN keepBest(g[u \ {m}], s[m]) ELSE g[u]]
<1>7. ASSUME NEW u \in SUBSET (1 .. m)
      PROVE  h[u] = FoldStep(s, h, u)
  <2>1. CASE m \in u
    <3>1. Max(u) = m
      BY <1>5, <2>1, MaxOfPrefix
    <3>2. u \ {m} \in SUBSET (1 .. m) /\ m \notin u \ {m}
      OBVIOUS
    <3>3. h[u \ {m}] = g[u \ {m}]
      BY <3>2
    <3>. QED BY <2>1, <3>1, <3>3, Zenon DEF FoldStep
  <2>2. CASE m \notin u
    <3>1. u \in SUBSET (1 .. m - 1)
      BY <2>2, <1>5
    <3>2. h[u] = g[u]
      BY <2>2
    <3>3. g[u] = FoldStep(s, g, u)
      BY <1>6, <3>1, Zenon DEF FoldsTo
    <3>4. u \ {Max(u)} \in SUBSET (1 .. m) /\ m \notin u \ {Max(u)}
      BY <2>2
    <3>5. h[u \ {Max(u)}] = g[u \ {Max(u)}]
      BY <3>4
    <3>. QED BY <3>2, <3>3, <3>5, Zenon DEF FoldStep
  <2>. QED BY <2>1, <2>2
<1>8. FoldsTo(s, m, h)
  BY <1>7, Zenon DEF FoldsTo
<1>. QED BY <1>8, <1>3

\* removeDuplicates takes the elements one by one, in the order of the response:
\* acc[n] is what it has after n of them.
Reduces(s, acc) ==
  /\ acc[0] = Nobody
  /\ \A n \in 1 .. Len(s) : acc[n] = keepBest(acc[n - 1], s[n])
  /\ acc[Len(s)] = removeDuplicates(s)

LEMMA RemoveDuplicatesReduces ==
  ASSUME NEW s, s \in Seq(Range(s))
  PROVE  \E acc : Reduces(s, acc)
<1>. DEFINE fold == CHOOSE f : FoldsTo(s, Len(s), f)
            acc == [n \in 0 .. Len(s) |-> fold[1 .. n]]
<1>1. Len(s) \in Nat /\ DOMAIN s = 1 .. Len(s)
  OBVIOUS
<1>2. FoldsTo(s, Len(s), fold)
  BY <1>1, FoldExists, Zenon
<1>3. removeDuplicates(s) = fold[DOMAIN s]
  BY <1>1, Zenon DEF removeDuplicates, FoldLeft, MapThenFoldSet, FoldsTo, FoldStep
<1>4. \A u \in SUBSET (1 .. Len(s)) : fold[u] = FoldStep(s, fold, u)
  BY <1>2, Zenon DEF FoldsTo
<1>5. acc[0] = Nobody
  <2>1. 1 .. 0 = {} /\ 1 .. 0 \in SUBSET (1 .. Len(s))
    BY <1>1
  <2>2. fold[1 .. 0] = Nobody
    BY <1>4, <2>1, Zenon DEF FoldStep
  <2>. QED BY <1>1, <2>2
<1>6. ASSUME NEW n \in 1 .. Len(s)
      PROVE  acc[n] = keepBest(acc[n - 1], s[n])
  <2>1. Max(1 .. n) = n
    <3>1. n - 1 \in Nat /\ (n - 1) + 1 = n /\ n \in 1 .. n /\ 1 .. n \in SUBSET (1 .. n)
      BY <1>1
    <3>2. Max(1 .. n) = (n - 1) + 1
      BY <3>1, MaxOfPrefix
    <3>. QED BY <3>1, <3>2
  <2>2. (1 .. n) \ {n} = 1 .. n - 1
    BY <1>1
  <2>3. n \in 1 .. n /\ 1 .. n \subseteq 1 .. Len(s)
    BY <1>1
  <2>4. fold[1 .. n] = keepBest(fold[1 .. n - 1], s[n])
    BY <1>4, <2>1, <2>2, <2>3, Zenon DEF FoldStep
  <2>. QED BY <1>1, <2>4
<1>7. acc[Len(s)] = removeDuplicates(s)
  BY <1>1, <1>3
<1>. QED BY <1>5, <1>6, <1>7, Zenon DEF Reduces

-----------------------------------------------------------------------------
(* What the fold comes to.                                                 *)

\* Of the first n elements the i-th is the first of its id with the most tags.
BestOf(s, n, i) ==
  \A j \in 1 .. n :
    s[j].id = s[i].id =>
      \/ Cardinality(s[j].tags) < Cardinality(s[i].tags)
      \/ (Cardinality(s[j].tags) = Cardinality(s[i].tags) /\ i <= j)

\* best has the best of the first n elements of each id.
KeepsBest(s, n, best) ==
  /\ DOMAIN best = {s[i].id : i \in 1 .. n} \ {0}
  /\ \A d \in DOMAIN best :
       \E i \in 1 .. n : s[i].id = d /\ best[d] = s[i] /\ BestOf(s, n, i)

\* One step of the fold.
LEMMA KeepBestStep ==
  ASSUME NEW s, s \in Seq(Range(s)),
         \A i \in DOMAIN s : IsFiniteSet(s[i].tags),
         NEW n \in 1 .. Len(s), NEW best, KeepsBest(s, n - 1, best)
  PROVE  KeepsBest(s, n, keepBest(best, s[n]))
<1>. DEFINE e == s[n]
            next == keepBest(best, e)
            Weight(i) == Cardinality(s[i].tags)
<1>1. /\ Len(s) \in Nat /\ DOMAIN s = 1 .. Len(s)
      /\ 1 .. n = (1 .. n - 1) \union {n} /\ n \notin 1 .. n - 1
      /\ \A i \in 1 .. n : i <= n
  OBVIOUS
<1>2. \A i \in 1 .. n : Weight(i) \in Nat
  BY <1>1, FS_CardinalityType
<1>3. \A d \in DOMAIN best :
        \E i \in 1 .. n - 1 : s[i].id = d /\ best[d] = s[i] /\ BestOf(s, n - 1, i)
  BY DEF KeepsBest
<1>4. DOMAIN best = {s[i].id : i \in 1 .. n - 1} \ {0}
  BY DEF KeepsBest
\* What is better than n stays the best.
<1>5. ASSUME NEW d \in DOMAIN best,
             d = e.id => Weight(n) <= Cardinality(best[d].tags)
      PROVE  \E i \in 1 .. n : s[i].id = d /\ best[d] = s[i] /\ BestOf(s, n, i)
  <2>1. PICK i \in 1 .. n - 1 : s[i].id = d /\ best[d] = s[i] /\ BestOf(s, n - 1, i)
    BY <1>3
  <2>2. i \in 1 .. n /\ i <= n
    BY <1>1
  <2>3. s[n].id = s[i].id => Weight(n) < Weight(i) \/ (Weight(n) = Weight(i) /\ i <= n)
    BY <1>1, <1>2, <1>5, <2>1, <2>2
  <2>4. BestOf(s, n, i)
    BY <1>1, <2>1, <2>3 DEF BestOf
  <2>. QED BY <2>1, <2>2, <2>4
<1>6. CASE e.id = 0 \/ (e.id \in DOMAIN best /\ Weight(n) <= Cardinality(best[e.id].tags))
  <2>1. next = best
    BY <1>6 DEF keepBest
  <2>2. DOMAIN best = {s[i].id : i \in 1 .. n} \ {0}
    BY <1>1, <1>4, <1>6
  <2>3. \A d \in DOMAIN best : d = e.id => Weight(n) <= Cardinality(best[d].tags)
    BY <1>4, <1>6
  <2>. QED BY <1>5, <2>1, <2>2, <2>3 DEF KeepsBest
<1>7. CASE e.id # 0 /\ (e.id \in DOMAIN best => ~(Weight(n) <= Cardinality(best[e.id].tags)))
  <2>1. next = [d \in DOMAIN best \union {e.id} |-> IF d = e.id THEN e ELSE best[d]]
    BY <1>7 DEF keepBest
  <2>2. DOMAIN next = {s[i].id : i \in 1 .. n} \ {0}
    BY <1>1, <1>4, <1>7, <2>1
  <2>3. ASSUME NEW j \in 1 .. n - 1, s[j].id = e.id
        PROVE  Weight(j) < Weight(n)
    <3>1. e.id \in DOMAIN best
      BY <1>4, <1>7, <2>3
    <3>2. PICK i \in 1 .. n - 1 : s[i].id = e.id /\ best[e.id] = s[i] /\ BestOf(s, n - 1, i)
      BY <1>3, <3>1
    <3>3. Weight(j) <= Weight(i)
      BY <1>1, <1>2, <2>3, <3>2 DEF BestOf
    <3>4. Weight(i) < Weight(n)
      BY <1>1, <1>2, <1>7, <3>1, <3>2
    <3>. QED BY <1>1, <1>2, <3>3, <3>4
  <2>4. BestOf(s, n, n)
    BY <1>1, <1>2, <2>3 DEF BestOf
  <2>5. ASSUME NEW d \in DOMAIN next
        PROVE  \E i \in 1 .. n : s[i].id = d /\ next[d] = s[i] /\ BestOf(s, n, i)
    <3>1. CASE d = e.id
      BY <1>1, <2>1, <2>4, <3>1
    <3>2. CASE d # e.id
      BY <1>5, <2>1, <3>2
    <3>. QED BY <3>1, <3>2
  <2>. QED BY <2>2, <2>5 DEF KeepsBest
<1>. QED BY <1>6, <1>7

\* What ResponsesAssumption says of an answer, which is so before there is one too.
IsResponse(s) == s \in Seq(Range(s)) /\ \A i \in DOMAIN s : ElementSchema(s[i])

LEMMA ResponsesAreResponses == \A s \in Responses \union {<< >>} : IsResponse(s)
<1>1. ASSUME NEW s \in Responses
      PROVE  IsResponse(s)
  BY ResponsesAssumption DEF IsResponse
<1>2. IsResponse(<< >>)
  BY DEF IsResponse, Range
<1>. QED BY <1>1, <1>2

\* After the last element: by least counterexample over the prefixes.
LEMMA RemoveDuplicatesKeepsBest ==
  ASSUME NEW s, IsResponse(s)
  PROVE  KeepsBest(s, Len(s), removeDuplicates(s))
<1>1. s \in Seq(Range(s)) /\ \A i \in DOMAIN s : IsFiniteSet(s[i].tags)
  BY DEF IsResponse, ElementSchema
<1>2. PICK acc : Reduces(s, acc)
  BY <1>1, RemoveDuplicatesReduces
<1>3. Len(s) \in Nat
  BY <1>1
<1>. DEFINE Bad == {n \in 0 .. Len(s) : ~KeepsBest(s, n, acc[n])}
<1>4. SUFFICES ASSUME Bad # {}
               PROVE  FALSE
  BY <1>2, <1>3 DEF Reduces
<1>5. PICK n \in Bad : \A k \in Bad : n <= k
  <2>1. Bad \in SUBSET Nat
    BY <1>3
  <2>. HIDE DEF Bad
  <2>. QED BY <1>4, <2>1, LeastElement
<1>6. KeepsBest(s, 0, acc[0])
  BY <1>2 DEF Reduces, KeepsBest, Nobody
<1>7. n \in 1 .. Len(s) /\ n - 1 \in 0 .. Len(s) /\ n - 1 \notin Bad
  BY <1>3, <1>5, <1>6
<1>8. KeepsBest(s, n - 1, acc[n - 1])
  BY <1>7
<1>9. KeepsBest(s, n, keepBest(acc[n - 1], s[n]))
  BY <1>1, <1>7, <1>8, KeepBestStep
<1>. QED BY <1>2, <1>5, <1>7, <1>9 DEF Reduces

\* The members of best: of an id there is at most one.
BestLocated(s) == {i \in DOMAIN s : s[i].id # 0 /\ BestOf(s, Len(s), i) /\ Located(s[i])}

LEMMA ProcessResponseIsBest ==
  ASSUME NEW s, IsResponse(s)
  PROVE  /\ \A d \in DOMAIN processResponse(s) :
              \E i \in BestLocated(s) :
                d = s[i].id /\ processResponse(s)[d] = processElement(s[i])
         /\ \A i \in BestLocated(s) :
              /\ s[i].id \in DOMAIN processResponse(s)
              /\ processResponse(s)[s[i].id] = processElement(s[i])
<1>. DEFINE best == removeDuplicates(s)
            made == processResponse(s)
<1>1. DOMAIN s = 1 .. Len(s) /\ Len(s) \in Nat
  BY DEF IsResponse
<1>2. KeepsBest(s, Len(s), best)
  BY RemoveDuplicatesKeepsBest
<1>3. made = [d \in {j \in DOMAIN best : Located(best[j])} |-> processElement(best[d])]
  BY DEF processResponse
<1>4. ASSUME NEW i \in DOMAIN s, NEW j \in DOMAIN s,
             s[i].id = s[j].id, BestOf(s, Len(s), i), BestOf(s, Len(s), j)
      PROVE  i = j
  <2>1. Cardinality(s[i].tags) \in Nat /\ Cardinality(s[j].tags) \in Nat
    BY FS_CardinalityType DEF IsResponse, ElementSchema
  <2>. QED BY <1>1, <1>4, <2>1 DEF BestOf
<1>5. ASSUME NEW i \in DOMAIN s, s[i].id # 0, BestOf(s, Len(s), i)
      PROVE  s[i].id \in DOMAIN best /\ best[s[i].id] = s[i]
  <2>1. s[i].id \in DOMAIN best
    BY <1>1, <1>2, <1>5 DEF KeepsBest
  <2>2. PICK j \in DOMAIN s : s[j].id = s[i].id /\ best[s[i].id] = s[j] /\ BestOf(s, Len(s), j)
    BY <1>1, <1>2, <2>1 DEF KeepsBest
  <2>. QED BY <1>4, <1>5, <2>1, <2>2
<1>6. ASSUME NEW d \in DOMAIN made
      PROVE  \E i \in BestLocated(s) : d = s[i].id /\ made[d] = processElement(s[i])
  <2>1. d \in DOMAIN best /\ Located(best[d])
    BY <1>3
  <2>2. PICK i \in DOMAIN s : s[i].id = d /\ best[d] = s[i] /\ BestOf(s, Len(s), i)
    BY <1>1, <1>2, <2>1 DEF KeepsBest
  <2>3. d # 0
    BY <1>2, <2>1 DEF KeepsBest
  <2>4. i \in BestLocated(s)
    BY <2>1, <2>2, <2>3 DEF BestLocated
  <2>. QED BY <1>3, <2>2, <2>4
<1>7. ASSUME NEW i \in BestLocated(s)
      PROVE  s[i].id \in DOMAIN made /\ made[s[i].id] = processElement(s[i])
  BY <1>3, <1>5, <1>7 DEF BestLocated
<1>. QED BY <1>6, <1>7

-----------------------------------------------------------------------------
(* The inductive invariant.                                                *)

\* The requests a client may make: one, and as many again as it has retries.
Allowed == 1 + (IF maxRetries < 0 THEN 0 ELSE maxRetries)

\* Before the answer there are tries left; a lookup that has failed without one has
\* none, and one that has an answer has counted from zero.
FetchInv ==
  /\ pc = "fetch" => response = << >> /\ tries < Allowed
  /\ pc \in {"process", "save", "read", "done"} => tries = 0
  /\ pc = "failed" => tries = IF response = << >> THEN Allowed ELSE 0

\* The landmarks are those of the response; an empty response has none to save.
LandmarkInv ==
  /\ landmarks = IF \/ pc \in {"fetch", "process"}
                    \/ (pc = "failed" /\ response = << >>)
                 THEN Nobody ELSE processResponse(response)
  /\ pc \in {"save", "read"} => response # << >>

\* The rows and the answer are those of the landmarks, or there are none yet.
RowInv ==
  /\ pc \notin {"read", "done"} => rows = Nobody
  /\ pc = "read" \/ rows # Nobody \/ answer # Nobody =>
       rows = [i \in DOMAIN landmarks |-> rowOf(landmarks[i])]
  /\ pc # "done" => answer = Nobody
  /\ answer # Nobody => answer = [i \in DOMAIN rows |-> transformLandmark(rows[i])]

DataInv == TypeOK /\ FetchInv /\ LandmarkInv /\ RowInv

\* The two layers of defaults leave a number, and never none.
LEMMA RetriesAreANumber ==
  ASSUME setting \in Settings
  PROVE  /\ maxRetries \in Int /\ maxRetries \notin Falsy
         /\ Allowed = IF setting \in {0, NaN, Undefined} THEN 4
                      ELSE IF setting < 0 THEN 1 ELSE setting + 1
<1>1. maxRetries = IF setting \in {0, NaN, Undefined} THEN 3 ELSE setting
  BY SettingsAssumption DEF maxRetries, envSchema, OrElse, Falsy
<1>2. setting \in {0, NaN, Undefined} \/ setting \in Int \ {0}
  BY SettingsAssumption
<1>. QED BY <1>1, <1>2, SettingsAssumption DEF Allowed, Falsy

LEMMA ElementFields ==
  ASSUME NEW e
  PROVE  processElement(e).center = Center(e) /\ "moreInfo" \in DOMAIN processElement(e)
  BY DEF processElement

LEMMA ProcessedCenters ==
  ASSUME NEW s, IsResponse(s), NEW d \in DOMAIN processResponse(s)
  PROVE  /\ processResponse(s)[d].center.lat \in Degrees
         /\ processResponse(s)[d].center.lng \in Degrees
<1>1. PICK i \in BestLocated(s) : processResponse(s)[d] = processElement(s[i])
  BY ProcessResponseIsBest
<1>2. processResponse(s)[d].center = Center(s[i])
  BY <1>1, ElementFields
<1>3. ElementSchema(s[i])
  BY DEF IsResponse, BestLocated
<1>4. Center(s[i]).lat \in Degrees /\ Center(s[i]).lng \in Degrees
  BY <1>3 DEF ElementSchema, Center, HasCenter, OrElse, Degrees
<1>. QED BY <1>2, <1>4

LEMMA RowRoundTrip ==
  ASSUME NEW e
  PROVE  transformLandmark(rowOf(processElement(e))) =
           [processElement(e) EXCEPT !.moreInfo = IF @ = {} THEN Undefined ELSE @]
<1>. DEFINE l == processElement(e)
<1>1. \A f \in l.moreInfo : f[1] \in Columns
  BY DEF processElement, createOptionalFields, Columns
<1>2. rowOf(l).columns = l.moreInfo
  BY <1>1 DEF rowOf
<1>3. l = [name |-> l.name, type |-> l.type,
           center |-> [lat |-> l.center.lat, lng |-> l.center.lng],
           address |-> l.address, moreInfo |-> l.moreInfo]
  BY DEF processElement, Center
<1>. HIDE DEF l
<1>4. transformLandmark(rowOf(l)) =
        [name |-> l.name, type |-> l.type,
         center |-> [lat |-> l.center.lat, lng |-> l.center.lng],
         address |-> l.address,
         moreInfo |-> IF l.moreInfo = {} THEN Undefined ELSE l.moreInfo]
  BY <1>2 DEF transformLandmark, rowOf
<1>5. transformLandmark(rowOf(l)) = [l EXCEPT !.moreInfo = IF @ = {} THEN Undefined ELSE @]
  BY <1>3, <1>4
<1>. QED BY <1>5 DEF l

LEMMA DataInit == Init => DataInv
<1>. SUFFICES ASSUME Init PROVE DataInv
  OBVIOUS
<1>1. TypeOK
  BY DEF Init, TypeOK, Nobody
<1>2. FetchInv
  <2>1. maxRetries \in Int
    BY RetriesAreANumber DEF Init
  <2>. QED BY <2>1 DEF Init, FetchInv, Allowed
<1>3. LandmarkInv /\ RowInv
  BY DEF Init, LandmarkInv, RowInv
<1>. QED BY <1>1, <1>2, <1>3 DEF DataInv

LEMMA DataNext == DataInv /\ [Next]_vars => DataInv'
<1>. SUFFICES ASSUME DataInv, [Next]_vars PROVE DataInv'
  OBVIOUS
<1>. USE DEF DataInv
<1>1. /\ setting \in Settings /\ maxRetries \in Int /\ maxRetries \notin Falsy
      /\ Allowed \in Nat \ {0} /\ (tries < Allowed /\ ~(tries < maxRetries) => tries + 1 = Allowed)
      /\ (tries < maxRetries => tries + 1 < Allowed)
  <2>1. setting \in Settings /\ tries \in Nat
    BY DEF TypeOK
  <2>2. maxRetries \in Int /\ maxRetries \notin Falsy
    BY <2>1, RetriesAreANumber
  <2>. QED BY <2>1, <2>2 DEF Allowed
<1>2. ASSUME setting' = setting
      PROVE  Allowed' = Allowed
  BY <1>2 DEF Allowed, maxRetries, envSchema
<1>3. IsResponse(response)
  BY ResponsesAreResponses DEF TypeOK
<1>4. CASE Fetch
  <2>. USE <1>4 DEF Fetch
  <2>1. TypeOK'
    BY DEF TypeOK
  <2>2. FetchInv'
    BY DEF FetchInv
  <2>3. LandmarkInv' /\ RowInv'
    BY DEF LandmarkInv, RowInv
  <2>. QED BY <2>1, <2>2, <2>3
<1>5. CASE FetchFails
  <2>1. /\ pc = "fetch" /\ tries' = tries + 1
        /\ pc' = IF tries < maxRetries THEN "fetch" ELSE "failed"
        /\ UNCHANGED <<setting, response, landmarks, rows, answer>>
    BY <1>1, <1>5 DEF FetchFails
  <2>2. TypeOK'
    BY <2>1 DEF TypeOK
  <2>3. FetchInv'
    BY <1>1, <1>2, <2>1 DEF FetchInv
  <2>4. LandmarkInv' /\ RowInv'
    BY <2>1 DEF LandmarkInv, FetchInv, RowInv
  <2>. QED BY <2>2, <2>3, <2>4
<1>6. CASE Process
  <2>. USE <1>6 DEF Process
  <2>1. landmarks' = processResponse(response) /\ rows = Nobody /\ answer = Nobody
    BY DEF RowInv
  <2>2. TypeOK'
    BY <1>3, <2>1, ProcessedCenters DEF TypeOK, Nobody
  <2>3. FetchInv'
    BY DEF FetchInv
  <2>4. response = << >> => DOMAIN landmarks' = {}
    <3>1. \A d \in DOMAIN landmarks' : \E i \in BestLocated(response) : TRUE
      BY <1>3, <2>1, ProcessResponseIsBest
    <3>2. response = << >> => BestLocated(response) = {}
      BY DEF BestLocated
    <3>. QED BY <3>1, <3>2
  <2>5. LandmarkInv' /\ RowInv'
    BY <2>1, <2>4 DEF LandmarkInv, RowInv
  <2>. QED BY <2>2, <2>3, <2>5
<1>7. CASE Save
  <2>. USE <1>7 DEF Save
  <2>1. TypeOK'
    BY DEF TypeOK
  <2>2. FetchInv'
    BY DEF FetchInv, LandmarkInv
  <2>3. LandmarkInv' /\ RowInv'
    BY DEF LandmarkInv, RowInv
  <2>. QED BY <2>1, <2>2, <2>3
<1>8. CASE Read
  <2>. USE <1>8 DEF Read
  <2>1. TypeOK'
    BY DEF TypeOK
  <2>2. FetchInv'
    BY DEF FetchInv
  <2>3. LandmarkInv' /\ RowInv'
    BY DEF LandmarkInv, RowInv
  <2>. QED BY <2>1, <2>2, <2>3
<1>9. CASE UNCHANGED vars
  <2>. USE <1>9 DEF vars
  <2>1. TypeOK' /\ FetchInv'
    BY <1>2 DEF TypeOK, FetchInv
  <2>2. LandmarkInv' /\ RowInv'
    BY DEF LandmarkInv, RowInv
  <2>. QED BY <2>1, <2>2
<1>. QED BY <1>4, <1>5, <1>6, <1>7, <1>8, <1>9 DEF Next

THEOREM DataInvariant == Spec => []DataInv
  BY DataInit, DataNext, PTL DEF Spec

\* A landmark and a row have the coordinates, and a lookup the response, that their
\* place in the pipeline calls for.
THEOREM DataTypes == Spec => []TypeOK
<1>1. DataInv => TypeOK
  BY DEF DataInv
<1>. QED BY <1>1, DataInvariant, PTL

\* Whatever number or none the environment gives, the client asks once at least and
\* gives up after exactly the retries that this comes to.
THEOREM RetriesAreSpent == Spec => []GivesUpAfterRetries
<1>1. ASSUME DataInv
      PROVE  GivesUpAfterRetries
  <2>1. setting \in Settings /\ tries \in Nat /\ FetchInv
        /\ pc \in {"fetch", "process", "save", "read", "done", "failed"}
    BY <1>1 DEF DataInv, TypeOK
  <2>2. /\ maxRetries \in Int
        /\ Allowed = IF setting \in {0, NaN, Undefined} THEN 4
                     ELSE IF setting < 0 THEN 1 ELSE setting + 1
    BY <2>1, RetriesAreANumber
  <2>3. Allowed \in Nat \ {0}
    BY <2>2 DEF Allowed
  <2>4. tries <= Allowed /\ (pc = "failed" /\ response = << >> => tries = Allowed)
    BY <2>1, <2>3 DEF FetchInv
  <2>. QED BY <2>2, <2>4 DEF GivesUpAfterRetries
<1>. QED BY <1>1, DataInvariant, PTL

\* removeDuplicates and the filter come to the best element of each id, for a response
\* of any length and in any order.
THEOREM BestLandmarks == Spec => []LandmarksAreBest
<1>1. ASSUME DataInv
      PROVE  LandmarksAreBest
  <2>1. IsResponse(response)
    BY <1>1, ResponsesAreResponses DEF DataInv, TypeOK
  <2>2. DOMAIN response = 1 .. Len(response)
    BY <2>1 DEF IsResponse
  <2>3. {i \in DOMAIN response : response[i].id # 0 /\ IsBest(i) /\ Located(response[i])}
          = BestLocated(response)
    BY <2>2 DEF BestLocated, BestOf, IsBest
  <2>4. pc \notin {"fetch", "process"} /\ response # << >> =>
          landmarks = processResponse(response)
    BY <1>1 DEF DataInv, LandmarkInv
  <2>. DEFINE made == processResponse(response)
              best == BestLocated(response)
  <2>5. \A d \in DOMAIN made : \E i \in best : d = response[i].id
    BY <2>1, ProcessResponseIsBest
  <2>6. \A i \in best : response[i].id \in DOMAIN made
                         /\ made[response[i].id] = processElement(response[i])
    BY <2>1, ProcessResponseIsBest
  <2>. HIDE DEF made, best
  <2>7. DOMAIN made = {response[i].id : i \in best}
    BY <2>5, <2>6
  <2>. QED BY <2>3, <2>4, <2>6, <2>7, Zenon DEF LandmarksAreBest, made, best
<1>. QED BY <1>1, DataInvariant, PTL

\* Nothing of a landmark is lost in the table but an empty moreInfo, whatever its tags.
THEOREM RowsKeep == Spec => []RowsKeepLandmarks
<1>1. ASSUME DataInv, NEW i \in DOMAIN answer
      PROVE  /\ [answer[i] EXCEPT !.moreInfo = {}] = [landmarks[i] EXCEPT !.moreInfo = {}]
             /\ answer[i].moreInfo = IF landmarks[i].moreInfo = {} THEN Undefined
                                     ELSE landmarks[i].moreInfo
  <2>1. answer # Nobody
    BY DEF Nobody
  <2>2. i \in DOMAIN landmarks /\ answer[i] = transformLandmark(rowOf(landmarks[i]))
    BY <1>1, <2>1 DEF DataInv, RowInv
  <2>3. IsResponse(response) /\ landmarks = processResponse(response)
    BY <1>1, <2>1, ResponsesAreResponses DEF DataInv, TypeOK, RowInv, LandmarkInv
  <2>4. PICK j \in BestLocated(response) : landmarks[i] = processElement(response[j])
    BY <2>2, <2>3, ProcessResponseIsBest
  <2>. DEFINE l == landmarks[i]
  <2>5. answer[i] = [l EXCEPT !.moreInfo = IF l.moreInfo = {} THEN Undefined ELSE l.moreInfo]
    BY <2>2, <2>4, RowRoundTrip
  <2>6. "moreInfo" \in DOMAIN l
    BY <2>4, ElementFields
  <2>. QED BY <2>5, <2>6
<1>2. DataInv => RowsKeepLandmarks
  BY <1>1 DEF RowsKeepLandmarks
<1>. QED BY <1>2, DataInvariant, PTL
=============================================================================
