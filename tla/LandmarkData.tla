----------------------------- MODULE LandmarkData -----------------------------
(***************************************************************************)
(* The way of a landmark through the program: the client that asks         *)
(* Overpass and retries, the processor of its response, the rows it is     *)
(* saved as, and the DTOs GET /landmarks makes of the rows.                *)
(*                                                                         *)
(* A tag is its key: what is built from tags is named by the keys it is    *)
(* built from.  A list keeps the Overpass id of each member and not the    *)
(* order.                                                                  *)
(***************************************************************************)
EXTENDS Integers, FiniteSets, SequencesExt

CONSTANTS
  Responses,  \* what Overpass may answer: sequences of elements
  Settings,   \* what OVERPASS_MAX_RETRIES may be, as parseInt reads it
  NaN,        \* a setting that is no number
  Undefined   \* a setting or a coordinate that is not there

ASSUME SettingsAssumption ==
  NaN \notin Int /\ Undefined \notin Int /\ Settings \subseteq Int \union {NaN, Undefined}

\* A coordinate: zero, another number or none.  a || b in the code is
\* OrElse(a, b).
Degrees == {0, 1, Undefined}
Falsy == {0, NaN, Undefined}
OrElse(a, b) == IF a \in Falsy THEN b ELSE a

\* What OverpassElementSchema lets pass: a position of which a part may be
\* missing, and a center that may be missing but has both its parts.
ElementSchema(e) ==
  /\ IsFiniteSet(e.tags)
  /\ {e.lat, e.lon} \subseteq Degrees
  /\ e.center = Undefined \/ {e.center.lat, e.center.lon} \subseteq Degrees \ {Undefined}

ASSUME ResponsesAssumption ==
  \A s \in Responses : s \in Seq(Range(s)) /\ \A i \in DOMAIN s : ElementSchema(s[i])

\* The columns of the table that moreInfo is stored in.
Columns == {"wiki", "website", "openingHours", "accessibility", "tourism"}

VARIABLES
  setting,    \* OVERPASS_MAX_RETRIES
  pc,         \* where the lookup is
  tries,      \* requests that Overpass has failed to answer
  response,   \* its answer
  landmarks,  \* what processResponse made of it: id -> LandmarkDto
  rows,       \* the rows saved: id -> row
  answer      \* what is made of the rows: id -> LandmarkDto

vars == <<setting, pc, tries, response, landmarks, rows, answer>>

Nobody == << >>  \* the function with an empty domain

-----------------------------------------------------------------------------
(* The configuration.                                                      *)

\* envSchema has a default for a variable that is not there.
envSchema(s) == IF s = Undefined THEN 3 ELSE s

\* Mutant: what the schema has parsed is taken as it is.
maxRetriesAsParsed == envSchema(setting)

\* configuration has a default for what is 0 or no number; a negative number
\* stays.
maxRetries == OrElse(envSchema(setting), 3)

-----------------------------------------------------------------------------
(* OverpassResponseProcessor.                                              *)

\* Mutant: the later of two equals wins.
lastOfBest(acc, e) ==
  IF \/ e.id = 0
     \/ (e.id \in DOMAIN acc /\ Cardinality(e.tags) < Cardinality(acc[e.id].tags))
  THEN acc
  ELSE [i \in DOMAIN acc \union {e.id} |-> IF i = e.id THEN e ELSE acc[i]]

\* One step of the reduce: elements without an id are dropped, and of two
\* with the same id the one with more tags is kept.
keepBest(acc, e) ==
  IF \/ e.id = 0
     \/ (e.id \in DOMAIN acc /\ Cardinality(e.tags) <= Cardinality(acc[e.id].tags))
  THEN acc
  ELSE [i \in DOMAIN acc \union {e.id} |-> IF i = e.id THEN e ELSE acc[i]]

removeDuplicates(elements) == FoldLeft(keepBest, Nobody, elements)

HasCenter(e) == e.center # Undefined

Located(e) == HasCenter(e) \/ (e.lat \notin Falsy /\ e.lon \notin Falsy)

\* center?.lat || lat
Center(e) ==
  IF HasCenter(e)
  THEN [lat |-> OrElse(e.center.lat, e.lat), lng |-> OrElse(e.center.lon, e.lon)]
  ELSE [lat |-> e.lat, lng |-> e.lon]

TypeHierarchy ==
  <<"tourism", "leisure", "amenity", "historic", "building", "place", "natural", "highway">>

determineType(tags) ==
  LET found == SelectInSeq(TypeHierarchy, LAMBDA key : key \in tags) IN
  IF found = 0 THEN "attraction" ELSE TypeHierarchy[found]

\* The parts of the address; none is undefined.  A house number counts only
\* with a street.
buildAddress(tags) ==
  (tags \intersect {"addr:street", "addr:city", "addr:postcode"})
    \union (IF "addr:street" \in tags THEN tags \intersect {"addr:housenumber"} ELSE {})

\* The optional fields, each with the tag it comes from.
createOptionalFields(tags) ==
  {<<"website", t>> : t \in tags \intersect {"website"}}
    \union {<<"openingHours", t>> : t \in tags \intersect {"opening_hours"}}
    \union {<<"accessibility", t>> : t \in tags \intersect {"wheelchair"}}
    \union {<<"tourism", t>> : t \in tags \intersect {"tourism"}}
    \union {<<"wiki", t>> : t \in IF "wikipedia" \in tags THEN {"wikipedia"}
                                   ELSE tags \intersect {"wikidata"}}

\* moreInfo is an object even if it is empty, and an empty object is true.
processElement(e) ==
  [name |-> IF "name" \in e.tags THEN "name" ELSE "Unnamed Landmark",
   type |-> determineType(e.tags),
   center |-> Center(e),
   address |-> buildAddress(e.tags),
   moreInfo |-> createOptionalFields(e.tags)]

processResponse(elements) ==
  LET best == removeDuplicates(elements) IN
  [i \in {j \in DOMAIN best : Located(best[j])} |-> processElement(best[i])]

-----------------------------------------------------------------------------
(* The rows.                                                               *)

rowOf(l) ==
  [name |-> l.name, type |-> l.type, centerLat |-> l.center.lat, centerLng |-> l.center.lng,
   address |-> l.address,
   columns |-> {f \in l.moreInfo : f[1] \in Columns}]

\* moreInfo is there only if a column is set.
transformLandmark(row) ==
  [name |-> row.name, type |-> row.type,
   center |-> [lat |-> row.centerLat, lng |-> row.centerLng],
   address |-> row.address,
   moreInfo |-> IF row.columns = {} THEN Undefined ELSE row.columns]

\* centerLat and centerLng are required columns.
Storable(l) == l.center.lat # Undefined /\ l.center.lng # Undefined

-----------------------------------------------------------------------------

TypeOK ==
  /\ pc \in {"fetch", "process", "save", "read", "done", "failed"}
  /\ setting \in Settings
  /\ tries \in Nat
  /\ response \in Responses \union {<< >>}
  /\ \A i \in DOMAIN landmarks :
       landmarks[i].center.lat \in Degrees /\ landmarks[i].center.lng \in Degrees
  /\ DOMAIN rows \in {{}, DOMAIN landmarks}
  /\ DOMAIN answer \in {{}, DOMAIN rows}

Init ==
  /\ setting \in Settings
  /\ pc = "fetch" /\ tries = 0 /\ response = << >>
  /\ landmarks = Nobody /\ rows = Nobody /\ answer = Nobody

\* makeRequestWithRetry sends the query and parses the answer.
Fetch ==
  /\ pc = "fetch" /\ pc' = "process"
  /\ maxRetries \notin Falsy
  /\ tries' = 0
  /\ response' \in Responses
  /\ UNCHANGED <<setting, landmarks, rows, answer>>

\* No answer in time, an error status, or an answer that is not JSON or that
\* the schema refuses: at once again, as long as there are retries.  Without a
\* maxRetries nothing is sent.
FetchFails ==
  /\ pc = "fetch"
  /\ IF maxRetries \in Falsy
     THEN pc' = "failed" /\ UNCHANGED tries
     ELSE /\ tries' = tries + 1
          /\ pc' = IF tries < maxRetries THEN "fetch" ELSE "failed"
  /\ UNCHANGED <<setting, response, landmarks, rows, answer>>

\* Nothing found is not saved.
Process ==
  /\ pc = "process"
  /\ landmarks' = processResponse(response)
  /\ pc' = IF DOMAIN landmarks' = {} THEN "done" ELSE "save"
  /\ UNCHANGED <<setting, tries, response, rows, answer>>

\* Mutant: what cannot be stored is left out.
SaveStorable ==
  /\ pc = "save" /\ pc' = "read"
  /\ rows' = [i \in {j \in DOMAIN landmarks : Storable(landmarks[j])} |-> rowOf(landmarks[i])]
  /\ UNCHANGED <<setting, tries, response, landmarks, answer>>

\* createMany is all or nothing: a landmark that cannot be stored fails the
\* lookup.
Save ==
  /\ pc = "save"
  /\ IF \A i \in DOMAIN landmarks : Storable(landmarks[i])
     THEN /\ rows' = [i \in DOMAIN landmarks |-> rowOf(landmarks[i])]
          /\ pc' = "read"
     ELSE pc' = "failed" /\ UNCHANGED rows
  /\ UNCHANGED <<setting, tries, response, landmarks, answer>>

\* GET /landmarks, or a later lookup, reads the rows.
Read ==
  /\ pc = "read" /\ pc' = "done"
  /\ answer' = [i \in DOMAIN rows |-> transformLandmark(rows[i])]
  /\ UNCHANGED <<setting, tries, response, landmarks, rows>>

Next == Fetch \/ FetchFails \/ Process \/ Save \/ Read

Spec == Init /\ [][Next]_vars

-----------------------------------------------------------------------------

\* Whatever the environment says, a lookup asks Overpass once at least, and
\* gives up after all its retries and no sooner: a retry may be turned off by a
\* negative number only.  Each try may take the whole timeout, so this bounds
\* the time a worker holds its job.
GivesUpAfterRetries ==
  LET allowed == IF setting \in {0, NaN, Undefined} THEN 4
                 ELSE IF setting < 0 THEN 1 ELSE setting + 1 IN
  /\ tries <= allowed
  /\ pc = "failed" /\ response = << >> => tries = allowed

\* What the fold of removeDuplicates comes to: the first of the elements of an
\* id with the most tags.  If that one has no position, no other of its id
\* takes its place.
IsBest(i) ==
  \A j \in DOMAIN response :
    response[j].id = response[i].id =>
      \/ Cardinality(response[j].tags) < Cardinality(response[i].tags)
      \/ (Cardinality(response[j].tags) = Cardinality(response[i].tags) /\ i <= j)

\* There is one landmark for each id, made of its best element, whatever the
\* order of the response; none is invented and none is mixed from two.
LandmarksAreBest ==
  pc \notin {"fetch", "process"} /\ response # << >> =>
    LET best == {i \in DOMAIN response :
                   response[i].id # 0 /\ IsBest(i) /\ Located(response[i])} IN
    /\ DOMAIN landmarks = {response[i].id : i \in best}
    /\ \A i \in best : landmarks[response[i].id] = processElement(response[i])

\* A client that reads the rows gets what the sync client was answered from
\* Overpass, except that an empty moreInfo is left out.
RowsKeepLandmarks ==
  \A i \in DOMAIN answer :
    /\ [answer[i] EXCEPT !.moreInfo = {}] = [landmarks[i] EXCEPT !.moreInfo = {}]
    /\ answer[i].moreInfo = IF landmarks[i].moreInfo = {} THEN Undefined
                            ELSE landmarks[i].moreInfo

-----------------------------------------------------------------------------
(* What the documents say and the code does not do.                        *)

\* README: the center of a landmark is required, with its lat and lng.
CentersAreComplete == \A i \in DOMAIN landmarks : Storable(landmarks[i])
=============================================================================
