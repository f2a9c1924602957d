-------------------------------- MODULE Health --------------------------------
(***************************************************************************)
(* GET /health and GET /health/queue while Redis and the database come and *)
(* go, and the connection of the queue's client to Redis after them.  The  *)
(* probes of a check run side by side; a check does not disturb another    *)
(* one, so there is one.                                                   *)
(***************************************************************************)
EXTENDS FiniteSets

VARIABLES
  reachable,  \* the stores that can be reached
  client,     \* the connection of the queue's client to Redis
  asked,      \* the probes of the check
  probe,      \* where each probe is
  code,       \* the status the check has been answered with
  reached,    \* history: stores that could be reached at some time during the check
  missed,     \* history: stores that could not, at some time during the check
  lagged,     \* history: the client was reconnecting at some time during the check
  exhausted   \* history: the disk or the heap was found too full

history == <<reached, missed, lagged, exhausted>>
vars == <<reachable, client, asked, probe, code, history>>

Stores == {"redis", "database"}
\* "resources" is two probes, of the disk and of the heap.
Probes == {"redis", "prisma", "landmarksQueue", "resources"}

TypeOK ==
  /\ reachable \subseteq Stores
  /\ client \in {"starting", "ready", "broken", "reconnecting"}
  /\ asked \in {{}, {"landmarksQueue"}, Probes}
  /\ probe \in [Probes -> {"none", "running", "counting", "up", "down"}]
  /\ code \in {"none", "200", "503"}
  /\ reached \subseteq Stores /\ missed \subseteq Stores
  /\ lagged \in BOOLEAN /\ exhausted \in BOOLEAN
  /\ \A i \in Probes : i \notin asked <=> probe[i] = "none"

Init ==
  /\ reachable = Stores /\ client = "starting"
  /\ asked = {} /\ probe = [i \in Probes |-> "none"] /\ code = "none"
  /\ reached = {} /\ missed = {} /\ lagged = FALSE /\ exhausted = FALSE

-----------------------------------------------------------------------------

UnderWay == asked # {} /\ code = "none"

\* A store is lost or is back.  The client does not know at once.
Flips(s) ==
  /\ reachable' = IF s \in reachable THEN reachable \ {s} ELSE reachable \union {s}
  /\ client' = IF s = "redis" /\ client = "ready" THEN "broken" ELSE client
  /\ IF UnderWay
     THEN reached' = reached \union reachable' /\ missed' = missed \union (Stores \ reachable')
     ELSE UNCHANGED <<reached, missed>>
  /\ UNCHANGED <<asked, probe, code, lagged, exhausted>>

Connection(from, to) ==
  /\ client = from /\ client' = to
  /\ UNCHANGED <<reachable, asked, probe, code, reached, missed, exhausted>>

\* The client finds its connection gone, be it long after Redis is back.
Notices ==
  /\ Connection("broken", "reconnecting")
  /\ lagged' = (lagged \/ UnderWay)

\* A try to connect meets Redis, or the connection was only interrupted.  The
\* tries never end and are up to 20 seconds apart.
Connects ==
  /\ "redis" \in reachable
  /\ \E from \in {"starting", "broken", "reconnecting"} : Connection(from, "ready")
  /\ UNCHANGED lagged

\* The check before is over and forgotten.
NoCheck ==
  /\ asked' = {} /\ probe' = [i \in Probes |-> "none"] /\ code' = "none"
  /\ reached' = {} /\ missed' = {} /\ lagged' = FALSE /\ exhausted' = FALSE

Starts(probes) ==
  /\ asked = {}
  /\ asked' = probes
  /\ probe' = [i \in Probes |-> IF i \in probes THEN "running" ELSE "none"]
  /\ code' = "none"
  /\ reached' = reachable /\ missed' = Stores \ reachable
  /\ lagged' = (client = "reconnecting") /\ exhausted' = FALSE
  /\ UNCHANGED <<reachable, client>>

check == Starts(Probes)
checkQueue == Starts({"landmarksQueue"})

Moves(i, from, to) ==
  /\ probe[i] = from
  /\ probe' = [probe EXCEPT ![i] = to]
  /\ UNCHANGED <<reachable, client, asked, code, reached, missed, lagged>>

\* RedisHealthIndicator asks the cache manager, which holds the value in the
\* memory of the process: neither set nor get rejects, and Redis is not asked.
checkHealth ==
  Moves("redis", "running", "up") /\ UNCHANGED exhausted

\* SELECT 1.
queryRaw ==
  /\ Moves("prisma", "running", IF "database" \in reachable THEN "up" ELSE "down")
  /\ UNCHANGED exhausted

\* Mutant: the status of the client is not looked at, nor are the counts.
isHealthyUnready ==
  Moves("landmarksQueue", "running", "up") /\ UNCHANGED exhausted

\* Mutant: the client is asked for a status it only passes through.
isHealthyConnecting ==
  /\ client # "starting" /\ Moves("landmarksQueue", "running", "down")
  /\ UNCHANGED exhausted

\* isHealthy waits for the client, which comes with the first connection since
\* the start, and then looks at its status, which knows of a loss that the
\* client has noticed.  Four counts follow.
isHealthy ==
  /\ client # "starting"
  /\ Moves("landmarksQueue", "running", IF client = "reconnecting" THEN "down" ELSE "counting")
  /\ UNCHANGED exhausted

\* Mutant: a command waits for the connection however long that takes.
CountsForever ==
  /\ client = "ready" /\ Moves("landmarksQueue", "counting", "up")
  /\ UNCHANGED exhausted

\* A command waits while the connection is down, and rejects when enough tries
\* to reconnect have failed.
Counts ==
  /\ \/ client = "ready" /\ Moves("landmarksQueue", "counting", "up")
     \/ /\ client = "reconnecting" /\ "redis" \notin reachable
        /\ Moves("landmarksQueue", "counting", "down")
  /\ UNCHANGED exhausted

\* checkStorage and checkHeap.
Measures ==
  \/ Moves("resources", "running", "up") /\ UNCHANGED exhausted
  \/ Moves("resources", "running", "down") /\ exhausted' = TRUE

\* Mutant: the check is awaited in the try block, whose catch block makes a
\* 500 of the 503.
AnswersAwaited ==
  /\ UnderWay
  /\ \A i \in asked : probe[i] \in {"up", "down"}
  /\ code' = IF \A i \in asked : probe[i] = "up" THEN "200" ELSE "500"
  /\ UNCHANGED <<reachable, client, asked, probe, history>>

\* HealthCheckService waits for all probes: 503 if one is down.  The
\* promise is returned and not awaited, so the catch block does not see it.
Answers ==
  /\ UnderWay
  /\ \A i \in asked : probe[i] \in {"up", "down"}
  /\ code' = IF \A i \in asked : probe[i] = "up" THEN "200" ELSE "503"
  /\ UNCHANGED <<reachable, client, asked, probe, history>>

Probing ==
  checkHealth \/ queryRaw \/ isHealthy \/ Counts \/ Measures

-----------------------------------------------------------------------------
(* What the code of a check promises; HttpApi checks it.                   *)

\* Of Redis only the queue knows.
StoresReached ==
  /\ "redis" \in reached
  /\ "prisma" \in asked => "database" \in reached

SomethingMissed ==
  \/ "redis" \in missed \/ lagged
  \/ asked = Probes /\ (exhausted \/ "database" \in missed)
=============================================================================
