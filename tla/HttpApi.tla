-------------------------------- MODULE HttpApi --------------------------------
(***************************************************************************)
(* What stands before and behind the handlers of the API: the token a      *)
(* client gets for its key, the guard, the validation pipe and the         *)
(* exception filter.  The health handlers are those of Health; what the    *)
(* other handlers do is in WebhookRequests and LandmarkLookup, and here    *)
(* they only return or throw.                                              *)
(*                                                                         *)
(* Requests share nothing but the clock and the token, so that one is      *)
(* under way.  The key and the secret come from the environment and        *)
(* outlive the program: a token is known by the time it was signed at.     *)
(***************************************************************************)
EXTENDS Health, Integers

CONSTANTS
  Lifetime,  \* expiresIn and ONE_HOUR, in seconds
  Ticks,     \* ticks of the clock in a second
  MaxTime    \* bound: the last tick

ASSUME ClockAssumption ==
  Lifetime \in Nat \ {0} /\ Ticks \in Nat \ {0} /\ MaxTime \in Nat

VARIABLES
  now,      \* the clock, in ticks
  token,    \* when the token of the client was signed
  route,    \* what the request under way asks for
  auth,     \* the token it has; "none" also for one that does not verify
  body,     \* its body, query or parameter, for the pipe
  stage,    \* where it is
  runs,     \* how often the guard still runs for it
  status    \* the status it has been answered with

healthVars == vars
requestVars == <<route, auth, body, stage, runs, status>>
httpVars == <<healthVars, now, token, requestVars>>

NoToken == -1

\* "webhook" is POST /webhook and POST /webhook/sync, "status" is
\* GET /webhook/:uuid, "queue" is GET /health/queue.
Routes == {"token", "webhook", "status", "landmarks", "health", "queue"}

\* Mutant: the mark of a class is overlooked.
PublicHandlers == {"token", "health", "queue"}

\* Marked with Public(), the handler or its class.
PublicRoutes == {"token", "landmarks", "health", "queue"}

\* AppModule applies AuthGuard to every route, and UseGuards once more to the
\* POSTs of the webhook.
GuardRuns(r) == IF r = "webhook" THEN 2 ELSE 1

\* What the parsers refuse: JSON or an escaped parameter that is none, and what
\* is too long.
Unparsed == {"malformed", "tooLarge"}

\* What the pipe of the route may be given: nothing or an empty object, what
\* the schema refuses, what it accepts, and a key that is not the secret.  The
\* health checks have no pipe.
Bodies(r) ==
  Unparsed \union
  CASE r = "token" -> {"none", "invalid", "wrong", "valid"}
    [] r = "status" -> {"invalid", "valid"}
    [] r \in {"webhook", "landmarks"} -> {"none", "invalid", "valid"}
    [] r \in {"health", "queue"} -> {"unread"}

HttpTypeOK ==
  /\ TypeOK
  /\ now \in 0 .. MaxTime
  /\ token \in {NoToken} \union 0 .. now
  /\ route \in Routes
  /\ auth \in {"none", "token"}
  /\ auth = "token" /\ stage # "idle" => token # NoToken
  /\ body \in Bodies(route)
  /\ stage \in {"idle", "parser", "guard", "pipe", "handler", "checking", "answered"}
  /\ runs \in 0 .. GuardRuns(route)
  /\ status \in {"none", "200", "202", "400", "401", "404", "500", "503"}
  /\ (stage = "answered") <=> status # "none"
  /\ stage = "checking" => asked # {}

HttpInit ==
  /\ Init
  /\ now = 0 /\ token = NoToken
  /\ route = "health" /\ auth = "none" /\ body = "unread"
  /\ stage = "idle" /\ runs = 0 /\ status = "none"

-----------------------------------------------------------------------------

Tick ==
  /\ now < MaxTime /\ now' = now + 1
  /\ UNCHANGED <<healthVars, token, requestVars>>

Send ==
  /\ stage \in {"idle", "answered"} /\ stage' = "parser"
  /\ NoCheck
  /\ route' \in Routes
  /\ body' \in Bodies(route')
  /\ auth' \in {"none"} \union (IF token = NoToken THEN {} ELSE {"token"})
  /\ runs' = GuardRuns(route')
  /\ status' = "none"
  /\ UNCHANGED <<reachable, client, now, token>>

Moved(to) == stage' = to /\ UNCHANGED <<now, route, auth, body, status>>

Answered(answer) ==
  /\ stage' = "answered" /\ status' = answer
  /\ UNCHANGED <<now, route, auth, body>>

\* GlobalExceptionFilter: an HttpException keeps its status, anything else
\* that is thrown is a 500.
catch(exception) == IF exception = "Error" THEN "500" ELSE exception
Throws(exception) == Answered(catch(exception))

-----------------------------------------------------------------------------
(* The parsers, the guard and the pipe.                                    *)

\* json() and urlencoded() stand before the routes and so before the guard.  The
\* framework makes a BadRequestException of what does not parse, and hands any
\* other error of theirs to the filter as it is.
parse ==
  /\ stage = "parser"
  /\ \/ body \notin Unparsed /\ Moved("guard")
     \/ body = "malformed" /\ Throws("400")
     \/ body = "tooLarge" /\ Throws("Error")
  /\ UNCHANGED <<healthVars, token, runs>>

\* jsonwebtoken counts in whole seconds: iat is the second of the signature,
\* and exp is Lifetime later.
Second(t) == t \div Ticks

\* Mutant: a token is good for the second it expires in.
ExpiredLate(t) == Second(now) > Second(t) + Lifetime

Expired(t) == Second(now) >= Second(t) + Lifetime

Activates ==
  \/ route \in PublicRoutes
  \/ auth = "token" /\ ~Expired(token)

\* Each run of the guard reads the clock again.
canActivate ==
  /\ stage = "guard"
  /\ \/ Activates /\ runs' = runs - 1 /\ Moved(IF runs = 1 THEN "pipe" ELSE "guard")
     \/ ~Activates /\ Throws("401") /\ UNCHANGED runs
  /\ UNCHANGED <<healthVars, token>>

\* EnhancedZodValidationPipe.
transform ==
  /\ stage = "pipe"
  /\ \/ body \in {"unread", "valid", "wrong"} /\ Moved("handler")
     \/ body \in {"none", "invalid"} /\ Throws("400")
  /\ UNCHANGED <<healthVars, token, runs>>

-----------------------------------------------------------------------------
(* The handlers.                                                           *)

Handles(routes) == stage = "handler" /\ route \in routes

\* The key is compared with the secret.
validateApiKey == body # "wrong"

\* The token is signed with the time it is.
generateToken ==
  \/ ~validateApiKey /\ Throws("401") /\ UNCHANGED token
  \/ validateApiKey /\ Answered("200") /\ token' = now

getToken == Handles({"token"}) /\ generateToken /\ UNCHANGED <<healthVars, runs>>

\* The others return, or throw what they have caught or something else.
Success(r) == IF r = "webhook" THEN {"200", "202"} ELSE {"200"}
Exceptions(r) == IF r = "webhook" THEN {"500", "Error"} ELSE {"404", "500", "Error"}

Handle ==
  /\ Handles({"webhook", "status", "landmarks"})
  /\ \/ \E answer \in Success(route) : Answered(answer)
     \/ \E exception \in Exceptions(route) : Throws(exception)
  /\ UNCHANGED <<healthVars, token, runs>>

HandleHealth ==
  /\ Handles({"health", "queue"})
  /\ IF route = "health" THEN check ELSE checkQueue
  /\ Moved("checking")
  /\ UNCHANGED <<token, runs>>

\* A check that is not healthy throws a ServiceUnavailableException, which is
\* an HttpException.
HealthAnswers ==
  /\ stage = "checking" /\ code # "none"
  /\ Throws(code)
  /\ UNCHANGED <<healthVars, token, runs>>

-----------------------------------------------------------------------------

\* The steps of a check and of the stores.
HealthStep(step) == step /\ UNCHANGED <<now, token, requestVars>>

\* The program ends and is started again, with a client that has to connect.
\* Whoever has asked hears nothing.  The container waits for Redis first, which
\* may be lost again before the client has connected.
ApiRestarts ==
  /\ stage' = "idle" /\ status' = "none"
  /\ client' = "starting"
  /\ NoCheck
  /\ UNCHANGED <<reachable, now, token, route, auth, body, runs>>

Process ==
  parse \/ canActivate \/ transform \/ getToken \/ Handle \/ HandleHealth \/ HealthAnswers

Client == Notices \/ Connects

HttpNext ==
  \/ Tick \/ Send \/ Process \/ ApiRestarts
  \/ HealthStep(Probing) \/ HealthStep(Answers) \/ HealthStep(Client)
  \/ \E s \in Stores : HealthStep(Flips(s))

\* The handlers return: SyncIsAnswered is about the one that waits for long.
\* The client does not stop trying.
HttpSpec ==
  /\ HttpInit /\ [][HttpNext]_httpVars
  /\ WF_httpVars(Process) /\ WF_httpVars(HealthStep(Client))
  /\ WF_httpVars(HealthStep(Probing)) /\ WF_httpVars(HealthStep(Answers))

-----------------------------------------------------------------------------
(* Safety.                                                                 *)

\* The status of GET /health and GET /health/queue is true.  200 is not only
\* what a memory tells: each store the check is about could be reached at some
\* time during it.  503 is for a store that could not, or for a client of the
\* queue that has not yet come back from an outage, and a check of the queue is
\* not failed for what the queue does not need.  There is no 500.
HealthIsTrue ==
  stage = "answered" /\ route \in {"health", "queue"} /\ body = "unread" =>
    \/ status = "200" /\ StoresReached
    \/ status = "503" /\ SomethingMissed

\* What the guard stands before.  The documents want a token for the first
\* (README.md:128, 167) and call the second public (webhook.controller.ts:46).
Guarded == route \in {"webhook", "status"}

\* Whatever the grain of the clock of the tokens and however often the guard
\* runs, no handler behind it is run for a request without a token or with one
\* that is older than the client was told.
ServedOnlyInTime ==
  [][Guarded /\ stage = "guard" /\ stage' = "pipe" =>
       auth = "token" /\ now < token + Lifetime * Ticks]_httpVars

\* A client is refused only for what it sent.  400 is for what does not parse,
\* or for what the schema refuses, and then only of a client that is let in.
\* 401 is for a key, or where a token is wanted for no good one or for one in
\* the last second of what the client was told, or later.  Nothing is said of
\* the 401 of GET /webhook/:uuid, which has no cause that is documented.
RefusedOnlyForCause ==
  [][stage # "answered" /\ stage' = "answered" =>
       /\ status' = "400" =>
            \/ body = "malformed"
            \/ body \in {"none", "invalid"} /\ (route = "webhook" => auth = "token")
       /\ status' = "401" /\ route # "status" =>
            \/ route = "token" /\ body = "wrong"
            \/ route = "webhook" /\ auth = "none"
            \/ route = "webhook" /\ now > token + (Lifetime - 1) * Ticks]_httpVars

-----------------------------------------------------------------------------
(* Liveness.                                                               *)

RedisStays == <>[]("redis" \in reachable)
RedisStaysAway == <>[]("redis" \notin reachable)

\* Unless Redis comes and goes for ever, a request is answered, or the program
\* ends first.  A check is answered although all its probes are waited for and
\* Redis may stay away.  The one exception is a check that waits for a client
\* which has not connected since the start and never will.
RequestIsAnswered ==
  RedisStays \/ RedisStaysAway =>
    (stage = "parser" ~> stage \in {"idle", "answered"} \/ [](client = "starting"))

\* Once Redis stays, the false alarms end: sooner or later every check of the
\* queue that is answered is answered 200.
FalseAlarmsEnd ==
  RedisStays =>
    <>[][HealthAnswers /\ route = "queue" => status' = "200"]_httpVars
=============================================================================
