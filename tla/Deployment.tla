------------------------------ MODULE Deployment ------------------------------
(***************************************************************************)
(* WebhookRequests as the containers run it.  Each start of the API        *)
(* container, the first or a restart, flushes Redis and resets the         *)
(* database before it starts the program, while the workers go on.  A      *)
(* signal stops the program only after the requests in flight.  Clients    *)
(* poll GET /webhook/:uuid.                                                *)
(*                                                                         *)
(* The job ids begin again after a flush, so that a worker may report the  *)
(* progress of a flushed job: Progress allows it.  The token of its lock   *)
(* is its own, and Redis refuses the rest.                                 *)
(***************************************************************************)
EXTENDS WebhookRequests

VARIABLES
  boot,     \* how far the entrypoint of the API container has got
  closing,  \* has the program been told to stop?
  killed,   \* history: it has ended without being told to
  erased,   \* history: requests that arrived before the last reset
  seen      \* what GET /webhook/:uuid last told the client of the request

bootVars == <<boot, closing, killed, erased>>
deploymentVars == <<vars, bootVars, seen>>

DeploymentTypeOK ==
  /\ TypeOK
  /\ boot \in {"wait", "init", "flushed", "reset"}
  /\ closing \in BOOLEAN /\ killed \in BOOLEAN
  /\ erased \subseteq Requests
  /\ seen \in [Requests -> {"none", "404", "500", "Pending", "Completed", "Failed"}]

\* The first start is over.
DeploymentInit ==
  /\ Init
  /\ boot = "wait" /\ closing = FALSE /\ killed = FALSE /\ erased = {}
  /\ seen = [r \in Requests |-> "none"]

-----------------------------------------------------------------------------
(* The entrypoint of the API container.                                    *)

BootMoves(from, to) ==
  /\ api = "down" /\ boot = from /\ boot' = to
  /\ UNCHANGED <<closing, killed, seen>>

\* redis-cli ping answers.
WaitForRedis ==
  /\ BootMoves("wait", "init")
  /\ UNCHANGED <<vars, erased>>

\* Mutant: only the database is initialized.
FlushSkipped ==
  /\ BootMoves("init", "flushed")
  /\ UNCHANGED <<vars, erased>>

\* redis-cli FLUSHALL.
FlushAll ==
  /\ BootMoves("init", "flushed")
  /\ job' = [r \in Requests |-> "none"]
  /\ attempts' = [r \in Requests |-> 0]
  /\ stalls' = [r \in Requests |-> 0]
  /\ lock' = [r \in Requests |-> NoWorker]
  /\ UNCHANGED <<apiVars, rowVars, processed, workerVars, erased>>

EraseRows ==
  /\ status' = [r \in Requests |-> "None"]
  /\ errorText' = [r \in Requests |-> FALSE]
  /\ erased' = {r \in Requests : handler[r] # "idle"}
  /\ UNCHANGED <<apiVars, processed, queueVars, workerVars>>

\* Mutant: the tables are created only if they are missing.
ResetSkipped ==
  /\ BootMoves("flushed", "reset")
  /\ UNCHANGED <<vars, erased>>

\* prisma migrate reset drops the rows and creates the tables.
MigrateReset == BootMoves("flushed", "reset") /\ EraseRows

\* node dist/main.js: the program listens.
Bootstrap ==
  /\ BootMoves("reset", "wait")
  /\ ApiRestart
  /\ UNCHANGED erased

\* A step of the entrypoint or of bootstrap() fails, and the container is
\* started again.  A failing reset may have dropped the rows.
BootFails ==
  /\ \E from \in {"init", "flushed", "reset"} : BootMoves(from, "wait")
  /\ \/ UNCHANGED <<vars, erased>>
     \/ boot = "flushed" /\ EraseRows

-----------------------------------------------------------------------------
(* The end of the program.                                                 *)

\* SIGTERM or SIGINT: app.close() stops listening ...
ApiStops ==
  /\ api = "up" /\ ~closing /\ closing' = TRUE
  /\ UNCHANGED <<vars, boot, killed, erased, seen>>

\* Mutant: process.exit does not wait for app.close().
ApiExitsAtOnce ==
  /\ api = "up" /\ closing /\ closing' = FALSE
  /\ Exit
  /\ UNCHANGED <<rowVars, processed, queueVars, workerVars, boot, killed, erased, seen>>

\* A client waits for the answer of the handler.
Answering(r) ==
  handler[r] \in {"creating", "created", "racing", "completing", "failing"}

\* ... and ends once every request has been answered; then process.exit.
ApiExits ==
  /\ api = "up" /\ closing /\ closing' = FALSE
  /\ \A r \in Requests : ~Answering(r)
  /\ Exit
  /\ UNCHANGED <<rowVars, processed, queueVars, workerVars, boot, killed, erased, seen>>

\* The steps of WebhookRequests, in which a program that no longer listens
\* gets no requests, and one that ends has been killed.
Runs ==
  /\ RunStep
  /\ closing => \A r \in Requests : handler[r] = "idle" => handler'[r] = "idle"
  /\ closing' = (closing /\ api' = "up")
  /\ killed' = (killed \/ api' # api)
  /\ UNCHANGED <<boot, erased, seen>>

-----------------------------------------------------------------------------
(* GET /webhook/:uuid.  The client learns the uuid from the answer.        *)

getById(r) == IF status[r] = "None" THEN "404" ELSE status[r]

\* The row as it is when getById runs, or 500 if the database rejects.
getWebhookStatus(r) ==
  /\ api = "up" /\ ~closing /\ response[r] \in {"200", "202"}
  /\ \E answer \in {getById(r), "500"} : seen' = [seen EXCEPT ![r] = answer]
  /\ UNCHANGED <<vars, bootVars>>

DeploymentNext ==
  \/ Runs
  \/ ApiStops \/ ApiExits
  \/ WaitForRedis \/ FlushAll \/ MigrateReset \/ Bootstrap \/ BootFails
  \/ \E r \in Requests : getWebhookStatus(r)

DeploymentSpec == DeploymentInit /\ [][DeploymentNext]_deploymentVars

-----------------------------------------------------------------------------
(* Safety.                                                                 *)

\* Nothing of a request from before the reset comes back, although workers
\* still run its jobs: no retry, stalled check or late markAsCompleted
\* brings a job or a row of it into the fresh stores.  As the flush comes
\* first, no job is ever left without its row.
ErasedIsGone ==
  \A r \in erased : status[r] = "None" /\ job[r] = "none"

\* A client that holds a uuid is told 404 only because of a reset: the row is
\* there before the answer that names it.
KnownUnlessErased ==
  \A r \in Requests : seen[r] = "404" => r \in erased

\* A stop that is not a kill leaves nobody without an answer.  It may lose the
\* publication nobody awaits, of a request that has been answered 202.
StopAnswersAll ==
  ~killed => \A r \in Requests : handler[r] = "lost" => response[r] = "202"

\* What WebhookRequests promises of one request.
Kept(r) ==
  /\ WasProcessed(r) /\ JobSettles(r) /\ IsOwed(r) /\ TellsFailure(r)
  /\ r \in SyncRequests => AnswerAgrees(r)

\* Whenever the API serves, every request that no reset has erased is as
\* WebhookRequests promises, although workers still run jobs from before the
\* reset: they touch no row and no job of the fresh stores.
KeptUnlessErased ==
  api = "up" => \A r \in Requests \ erased : Kept(r)

\* While the API serves, a settled row that is not erased changes only if the
\* API had given up on its job: no worker from before a reset moves it.
ServedStaysSettled ==
  [][\A r \in Requests \ erased :
       api = "up" /\ status[r] \in {"Completed", "Failed"} /\ status'[r] # status[r]
         => InDoubt(r)]_deploymentVars
=============================================================================
