----------------------------- MODULE HttpApiProofs -----------------------------
(***************************************************************************)
(* Proofs about HttpApi for any lifetime of the tokens and any grain of    *)
(* their clock.                                                            *)
(***************************************************************************)
EXTENDS HttpApi, TLAPS

-----------------------------------------------------------------------------
(* The inductive invariant.                                                *)

Settled(i) == probe[i] \in {"up", "down"}

\* There is a check while its request is at the handler and after that, it is
\* the one the route asks for, and its code says how its probes have ended.
CheckInv ==
  /\ stage \in {"idle", "parser", "guard", "pipe", "handler"} => asked = {}
  /\ stage = "checking" => route \in {"health", "queue"}
  /\ stage \in {"guard", "pipe", "handler", "checking"} => body \notin Unparsed
  /\ stage \in {"checking", "answered"} =>
       /\ route = "health" /\ body = "unread" => asked = Probes
       /\ route = "queue" /\ body = "unread" => asked = {"landmarksQueue"}
       /\ route \notin {"health", "queue"} \/ body # "unread" => asked = {}
  /\ asked = {} => code = "none"
  /\ stage = "answered" /\ asked # {} => code # "none" /\ status = code
  /\ code # "none" => /\ \A i \in asked : Settled(i)
                      /\ code = "200" <=> \A i \in asked : probe[i] = "up"

\* A ready client is connected, so that the counts of a queue that is up have
\* met Redis; a queue is down for a client that was reconnecting or for tries to
\* connect that failed.
ClientInv ==
  /\ client = "ready" => "redis" \in reachable
  /\ UnderWay /\ client = "reconnecting" => lagged
  /\ probe["landmarksQueue"] = "up" => "redis" \in reached
  /\ probe["landmarksQueue"] = "down" => "redis" \in missed \/ lagged

\* What a probe has found was so at some time during the check.
ProbeInv ==
  /\ UnderWay => reachable \subseteq reached /\ Stores \ reachable \subseteq missed
  /\ probe["prisma"] = "up" => "database" \in reached
  /\ probe["prisma"] = "down" => "database" \in missed
  /\ probe["redis"] # "down"
  /\ probe["resources"] = "down" => exhausted

\* What is behind the guard has passed it.
PipeInv == Guarded /\ stage \in {"pipe", "handler"} => auth = "token"

HttpInv ==
  /\ HttpTypeOK
  /\ stage \in {"parser", "guard"} => runs >= 1
  /\ PipeInv /\ CheckInv /\ ClientInv /\ ProbeInv

-----------------------------------------------------------------------------

\* The request on its way to its handler and back.
LEMMA ProcessInv == HttpInv /\ (Tick \/ Send \/ Process \/ ApiRestarts) => HttpInv'
<1> SUFFICES ASSUME HttpInv, Tick \/ Send \/ Process \/ ApiRestarts PROVE HttpInv'
  OBVIOUS
<1> USE ClockAssumption
    DEF HttpInv, HttpTypeOK, TypeOK, CheckInv, ClientInv, ProbeInv, Settled, Stores, Probes,
        Routes, Bodies, Unparsed, GuardRuns, NoToken, healthVars, vars, history, requestVars,
        UnderWay, Moved, Answered, Throws, catch, NoCheck, PipeInv, Guarded
<1>1. CASE Tick
  BY <1>1 DEF Tick
<1>2. CASE Send
  <2>1. TypeOK'
    BY <1>2 DEF Send
  <2>2. HttpTypeOK'
    BY <1>2, <2>1 DEF Send
  <2>3. CheckInv' /\ ClientInv' /\ ProbeInv'
    BY <1>2 DEF Send
  <2>4. runs' >= 1
    BY <1>2 DEF Send
  <2>. QED
    BY <1>2, <2>2, <2>3, <2>4 DEF Send
<1>3. CASE parse
  BY <1>3 DEF parse
<1>4. CASE canActivate
  <2>1. CASE Activates
    BY <1>4, <2>1 DEF canActivate, Activates, PublicRoutes
  <2>2. CASE ~Activates
    BY <1>4, <2>2 DEF canActivate, Activates, PublicRoutes
  <2>. QED
    BY <2>1, <2>2
<1>5. CASE transform
  BY <1>5 DEF transform
<1>6. CASE getToken
  BY <1>6 DEF getToken, generateToken, validateApiKey, Handles
<1>7. CASE Handle
  BY <1>7 DEF Handle, Success, Exceptions, Handles
<1>8. CASE HandleHealth
  <2>1. /\ route \in {"health", "queue"} /\ body = "unread"
        /\ Starts(IF route = "health" THEN Probes ELSE {"landmarksQueue"})
    BY <1>8 DEF HandleHealth, Handles, check, checkQueue
  <2>2. stage' = "checking" /\ UNCHANGED <<token, runs, now, route, auth, body, status>>
    BY <1>8 DEF HandleHealth
  <2>3. \A i \in Probes : probe'[i] \in {"none", "running"}
    BY <2>1 DEF Starts
  <2>4. HttpTypeOK' /\ PipeInv'
    BY <1>8, <2>1, <2>2 DEF Starts, HandleHealth, Handles
  <2>5. CheckInv'
    BY <2>1, <2>2 DEF Starts
  <2>6. ClientInv' /\ ProbeInv'
    BY <2>1, <2>3 DEF Starts
  <2>. QED
    BY <2>2, <2>4, <2>5, <2>6
<1>9. CASE HealthAnswers
  BY <1>9 DEF HealthAnswers
<1>10. CASE ApiRestarts
  BY <1>10 DEF ApiRestarts
<1>. QED
  BY <1>1, <1>2, <1>3, <1>4, <1>5, <1>6, <1>7, <1>8, <1>9, <1>10 DEF Process

\* The client of the queue.
LEMMA ClientStepInv == HttpInv /\ HealthStep(Client) => HttpInv'
<1> SUFFICES ASSUME HttpInv, HealthStep(Client) PROVE HttpInv'
  OBVIOUS
<1>1. UNCHANGED <<reachable, asked, probe, code, reached, missed, exhausted,
                  now, token, route, auth, body, stage, runs, status>>
  BY DEF HealthStep, requestVars, Client, Notices, Connects, Connection
<1>2. \/ client' = "reconnecting" /\ lagged' = (lagged \/ UnderWay)
      \/ client' = "ready" /\ "redis" \in reachable /\ lagged' = lagged
  BY DEF HealthStep, Client, Notices, Connects, Connection
<1>3. TypeOK'
  BY <1>1, <1>2 DEF HttpInv, HttpTypeOK, TypeOK, UnderWay
<1>4. HttpTypeOK'
  BY <1>1, <1>3 DEF HttpInv, HttpTypeOK
<1>5. ClientInv'
  BY <1>1, <1>2 DEF HttpInv, HttpTypeOK, TypeOK, ClientInv, UnderWay
<1>6. CheckInv' /\ ProbeInv' /\ PipeInv'
  BY <1>1 DEF HttpInv, CheckInv, Settled, ProbeInv, UnderWay, PipeInv, Guarded
<1>. QED
  BY <1>1, <1>4, <1>5, <1>6 DEF HttpInv

\* The probes of a check, its answer, the client and the stores.
LEMMA HealthStepInv ==
  ASSUME HttpInv,
         \/ HealthStep(Probing) \/ HealthStep(Answers) \/ HealthStep(Client)
         \/ \E s \in Stores : HealthStep(Flips(s))
  PROVE  HttpInv'
<1> USE ClockAssumption
    DEF HttpInv, HttpTypeOK, TypeOK, CheckInv, ClientInv, ProbeInv, Settled, Stores, Probes,
        Routes, Bodies, Unparsed, GuardRuns, NoToken, HealthStep, requestVars, history,
        UnderWay, Moves, PipeInv, Guarded
<1>1. CASE HealthStep(checkHealth)
  BY <1>1 DEF checkHealth
<1>2. CASE HealthStep(queryRaw)
  BY <1>2 DEF queryRaw
<1>3. CASE HealthStep(isHealthy)
  BY <1>3 DEF isHealthy
<1>4. CASE HealthStep(Counts)
  BY <1>4 DEF Counts
<1>5. CASE HealthStep(Measures)
  <2>1. PICK p \in {"up", "down"} :
          /\ probe["resources"] = "running" /\ probe' = [probe EXCEPT !["resources"] = p]
          /\ exhausted' \in BOOLEAN /\ (p = "down" => exhausted')
    BY <1>5 DEF Measures
  <2>2. UNCHANGED <<reachable, client, asked, code, reached, missed, lagged,
                    now, token, route, auth, body, stage, runs, status>>
    BY <1>5 DEF Measures
  <2>3. probe'["resources"] = p /\ \A j \in Probes \ {"resources"} : probe'[j] = probe[j]
    BY <2>1
  <2>4. "resources" \in asked /\ code = "none"
    BY <2>1
  <2>5. TypeOK'
    BY <2>1, <2>2, <2>3, <2>4
  <2>6. CheckInv'
    BY <2>2, <2>4
  <2>7. ClientInv' /\ ProbeInv'
    BY <2>1, <2>2, <2>3
  <2>. QED
    BY <2>2, <2>5, <2>6, <2>7
<1>6. CASE HealthStep(Answers)
  BY <1>6 DEF Answers
<1>7. CASE HealthStep(Client)
  BY <1>7, ClientStepInv
<1>8. ASSUME NEW s \in Stores, HealthStep(Flips(s)) PROVE HttpInv'
  BY <1>8 DEF Flips
<1>. QED
  BY <1>1, <1>2, <1>3, <1>4, <1>5, <1>6, <1>7, <1>8 DEF Probing

\* The invariant the properties follow from.
THEOREM AlwaysHttpInv == HttpSpec => []HttpInv
<1>1. HttpInit => HttpInv
  <2> SUFFICES ASSUME HttpInit PROVE HttpInv
    OBVIOUS
  <2> USE ClockAssumption DEF HttpInit, Init, Stores, Probes
  <2>1. TypeOK
    BY DEF TypeOK
  <2>2. HttpTypeOK
    BY <2>1 DEF HttpTypeOK, Routes, Bodies, Unparsed, GuardRuns, NoToken
  <2>3. CheckInv
    BY DEF CheckInv, Settled, Unparsed
  <2>4. ClientInv /\ ProbeInv
    BY DEF ClientInv, ProbeInv, UnderWay
  <2>. QED
    BY <2>2, <2>3, <2>4 DEF HttpInv, PipeInv
<1>2. HttpInv /\ [HttpNext]_httpVars => HttpInv'
  <2> SUFFICES ASSUME HttpInv, [HttpNext]_httpVars PROVE HttpInv'
    OBVIOUS
  <2>1. CASE HttpNext
    BY <2>1, ProcessInv, HealthStepInv DEF HttpNext
  <2>2. CASE UNCHANGED httpVars
    BY <2>2 DEF httpVars, healthVars, vars, history, requestVars, HttpInv, HttpTypeOK, TypeOK,
                CheckInv, ClientInv, ProbeInv, UnderWay, Settled, PipeInv, Guarded
  <2>. QED
    BY <2>1, <2>2
<1>. QED
  BY <1>1, <1>2, PTL DEF HttpSpec

-----------------------------------------------------------------------------
(* Safety.                                                                 *)

\* The types of a request, a token, the clock and a check, for any lifetime,
\* grain and bound of the clock.
THEOREM HttpTypeCorrect == HttpSpec => []HttpTypeOK
<1>1. HttpInv => HttpTypeOK
  BY DEF HttpInv
<1>. QED
  BY AlwaysHttpInv, <1>1, PTL

\* The status of a health check is true of the stores and of the queue's client
\* during the check.
THEOREM HealthChecksAreTrue == HttpSpec => []HealthIsTrue
<1>1. HttpInv => HealthIsTrue
  <2> SUFFICES ASSUME HttpInv, stage = "answered", route \in {"health", "queue"}, body = "unread"
               PROVE  \/ status = "200" /\ StoresReached
                      \/ status = "503" /\ SomethingMissed
    BY DEF HealthIsTrue
  <2>1. asked # {} /\ status = code /\ code # "none"
    BY DEF HttpInv, CheckInv, Probes
  <2>2. CASE code = "200"
    BY <2>1, <2>2 DEF HttpInv, CheckInv, ClientInv, ProbeInv, StoresReached, Probes
  <2>3. CASE code = "503"
    <3>1. PICK i \in asked : probe[i] = "down"
      BY <2>1, <2>3 DEF HttpInv, CheckInv, Settled
    <3>. QED
      BY <2>1, <2>3, <3>1 DEF HttpInv, CheckInv, ClientInv, ProbeInv, SomethingMissed, Probes
  <2>. QED
    BY <2>1, <2>2, <2>3 DEF HttpInv, HttpTypeOK, TypeOK
<1>. QED
  BY AlwaysHttpInv, <1>1, PTL

-----------------------------------------------------------------------------
(* The clock of the tokens.                                                *)

\* A token that has not expired is younger than its lifetime, and one that has
\* is older than a second less.
LEMMA SecondsCut ==
  ASSUME NEW t \in Nat, NEW u \in Nat
  PROVE  /\ Second(u) < Second(t) + Lifetime => u < t + Lifetime * Ticks
         /\ Second(u) >= Second(t) + Lifetime => u > t + (Lifetime - 1) * Ticks
<1> DEFINE p == t \div Ticks
           q == u \div Ticks
<1>1. p \in Nat /\ q \in Nat
  BY ClockAssumption
<1>2. p * Ticks <= t /\ t < p * Ticks + Ticks
  BY ClockAssumption
<1>3. q * Ticks <= u /\ u < q * Ticks + Ticks
  BY ClockAssumption
<1> HIDE DEF p, q
<1>4. ASSUME q < p + Lifetime PROVE u < t + Lifetime * Ticks
  <2>1. (q + 1) * Ticks <= (p + Lifetime) * Ticks
    BY <1>1, <1>4, ClockAssumption
  <2>. QED
    BY <2>1, <1>1, <1>2, <1>3, ClockAssumption
<1>5. ASSUME q >= p + Lifetime PROVE u > t + (Lifetime - 1) * Ticks
  <2>1. (p + Lifetime) * Ticks <= q * Ticks
    BY <1>1, <1>5, ClockAssumption
  <2>. QED
    BY <2>1, <1>1, <1>2, <1>3, ClockAssumption
<1>. QED
  BY <1>4, <1>5 DEF p, q, Second

\* No handler behind the guard is run with a token older than its lifetime.
THEOREM NothingServedLate == HttpSpec => ServedOnlyInTime
<1>1. HttpInv /\ [HttpNext]_httpVars =>
        [Guarded /\ stage = "guard" /\ stage' = "pipe" =>
           auth = "token" /\ now < token + Lifetime * Ticks]_httpVars
  <2> SUFFICES ASSUME HttpInv, HttpNext, Guarded, stage = "guard", stage' = "pipe"
               PROVE  auth = "token" /\ now < token + Lifetime * Ticks
    OBVIOUS
  <2>1. canActivate /\ Activates
    BY DEF HttpNext, Process, Tick, Send, canActivate, parse, transform, getToken, Handle, HandleHealth,
           HealthAnswers, ApiRestarts, HealthStep, Handles, requestVars, Answered, Throws, Moved
  <2>2. auth = "token" /\ ~Expired(token) /\ token \in Nat /\ now \in Nat
    BY <2>1 DEF Activates, Guarded, PublicRoutes, HttpInv, HttpTypeOK, NoToken
  <2>. QED
    BY <2>2, SecondsCut, ClockAssumption DEF Expired, Second
<1>. QED
  BY <1>1, AlwaysHttpInv, PTL DEF HttpSpec, ServedOnlyInTime

\* 400 and 401 have a cause in what the client sent, except for the 401 of
\* GET /webhook/:uuid.
THEOREM NobodyRefusedWithoutCause == HttpSpec => RefusedOnlyForCause
<1> DEFINE Cause ==
      /\ status' = "400" =>
           \/ body = "malformed"
           \/ body \in {"none", "invalid"} /\ (route = "webhook" => auth = "token")
      /\ status' = "401" /\ route # "status" =>
           \/ route = "token" /\ body = "wrong"
           \/ route = "webhook" /\ auth = "none"
           \/ route = "webhook" /\ now > token + (Lifetime - 1) * Ticks
<1>1. HttpInv /\ [HttpNext]_httpVars =>
        [stage # "answered" /\ stage' = "answered" => Cause]_httpVars
  <2> SUFFICES ASSUME HttpInv, HttpNext, stage # "answered", stage' = "answered"
               PROVE  Cause
    OBVIOUS
  <2>1. CASE parse
    BY <2>1 DEF parse, Throws, Answered, Moved, catch
  <2>2. CASE canActivate
    <3>1. status' = "401" /\ ~Activates
      BY <2>2 DEF canActivate, Throws, Answered, catch, Moved
    <3>2. Guarded /\ (auth = "none" \/ (auth = "token" /\ Expired(token)))
      BY <3>1 DEF Activates, PublicRoutes, Guarded, HttpInv, HttpTypeOK, Routes
    <3>3. CASE auth = "token"
      <4>1. token \in Nat /\ now \in Nat
        BY <2>2, <3>3, ClockAssumption DEF canActivate, HttpInv, HttpTypeOK, NoToken
      <4>. QED
        BY <3>1, <3>2, <3>3, <4>1, SecondsCut DEF Expired, Guarded
    <3>. QED
      BY <3>1, <3>2, <3>3 DEF Guarded
  <2>3. CASE transform
    BY <2>3 DEF transform, Throws, Answered, Moved, catch, HttpInv, PipeInv, Guarded
  <2>4. CASE getToken
    BY <2>4 DEF getToken, generateToken, validateApiKey, Handles, Throws, Answered, catch
  <2>5. CASE Handle
    BY <2>5 DEF Handle, Handles, Success, Exceptions, Throws, Answered, catch
  <2>6. CASE HealthAnswers
    BY <2>6 DEF HealthAnswers, Throws, Answered, catch, HttpInv, HttpTypeOK, TypeOK
  <2>. QED
    BY <2>1, <2>2, <2>3, <2>4, <2>5, <2>6
       DEF HttpNext, Process, Tick, Send, HandleHealth, Moved, ApiRestarts, HealthStep, requestVars
<1>. QED
  BY <1>1, AlwaysHttpInv, PTL DEF HttpSpec, RefusedOnlyForCause
=============================================================================
