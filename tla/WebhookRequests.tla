--------------------------- MODULE WebhookRequests ---------------------------
(***************************************************************************)
(* The life of a webhook request: the API process that records it and     *)
(* either queues it (POST /webhook) or serves it while the client waits    *)
(* (POST /webhook/sync), the webhook_requests rows, the BullMQ queue        *)
(* "landmarks" and the worker processes that consume it.                   *)
(*                                                                         *)
(* One step is what the event loop runs between two awaits.  What the      *)
(* landmark lookup does is module LandmarkLookup; here it only succeeds    *)
(* or fails.  BullMQ is external: its steps are those its Redis scripts    *)
(* take, as this code configures them.                                     *)
(***************************************************************************)
EXTENDS Naturals, FiniteSets

CONSTANTS
  AsyncRequests,  \* requests sent to POST /webhook
  SyncRequests,   \* requests sent to POST /webhook/sync
  Workers,        \* worker processes (concurrency 1 each)
  NoWorker,       \* "nobody holds the lock"
  NoRequest,      \* "no job in hand"
  Attempts,       \* defaultJobOptions.attempts
  MaxStalled      \* worker.maxStalledCount

Requests == AsyncRequests \union SyncRequests

ASSUME RequestsAssumption ==
  AsyncRequests \intersect SyncRequests = {} /\ NoRequest \notin Requests
ASSUME WorkersAssumption == NoWorker \notin Workers
ASSUME LimitsAssumption == Attempts \in Nat \ {0} /\ MaxStalled \in Nat

VARIABLES
  api,        \* is the API process running?
  handler,    \* where the API's handler of the request is
  response,   \* HTTP status sent to the client
  timer,      \* the sync handler's setTimeout
  lookup,     \* the promise of the sync handler's landmark lookup
  status,     \* status column of the row ("None": no row)
  errorText,  \* is the row's error column set?
  processed,  \* history: a landmark lookup for the request has succeeded
  job,        \* the request's job in BullMQ
  attempts,   \* its attemptsMade
  stalls,     \* its stalled counter
  lock,       \* the worker holding its lock
  wpc,        \* where each worker's process() is
  wjob        \* the job each worker has in hand

apiVars    == <<api, handler, response, timer, lookup>>
rowVars    == <<status, errorText>>
queueVars  == <<job, attempts, stalls, lock>>
workerVars == <<wpc, wjob>>
vars == <<apiVars, rowVars, processed, queueVars, workerVars>>

HandlerStates ==
  {"idle", "creating", "created", "publishing", "unpublished",
   "racing", "completing", "failing", "done", "lost"}
JobStates == {"none", "waiting", "active", "delayed", "completed", "failed"}
WorkerStates ==
  {"idle", "begin", "process", "report", "mark", "final", "return", "throw"}

TypeOK ==
  /\ api \in {"up", "down"}
  /\ handler \in [Requests -> HandlerStates]
  /\ response \in [Requests -> {"none", "202", "200", "500"}]
  /\ timer \in [Requests -> {"off", "armed", "fired"}]
  /\ lookup \in [Requests -> {"none", "running", "ok", "failed", "lost"}]
  /\ status \in [Requests -> {"None", "Pending", "Completed", "Failed"}]
  /\ errorText \in [Requests -> BOOLEAN]
  /\ processed \in [Requests -> BOOLEAN]
  /\ job \in [Requests -> JobStates]
  /\ attempts \in [Requests -> 0 .. Attempts]
  /\ stalls \in [Requests -> 0 .. MaxStalled]
  /\ lock \in [Requests -> Workers \union {NoWorker}]
  /\ wpc \in [Workers -> WorkerStates]
  /\ wjob \in [Workers -> Requests \union {NoRequest}]

Init ==
  /\ api = "up"
  /\ handler = [r \in Requests |-> "idle"]
  /\ response = [r \in Requests |-> "none"]
  /\ timer = [r \in Requests |-> "off"]
  /\ lookup = [r \in Requests |-> "none"]
  /\ status = [r \in Requests |-> "None"]
  /\ errorText = [r \in Requests |-> FALSE]
  /\ processed = [r \in Requests |-> FALSE]
  /\ job = [r \in Requests |-> "none"]
  /\ attempts = [r \in Requests |-> 0]
  /\ stalls = [r \in Requests |-> 0]
  /\ lock = [r \in Requests |-> NoWorker]
  /\ wpc = [w \in Workers |-> "idle"]
  /\ wjob = [w \in Workers |-> NoRequest]

-----------------------------------------------------------------------------
(* The rows.  Each call is one SQLite statement; an update of a missing    *)
(* row is rejected by Prisma.                                              *)

createRequest(r) ==
  status' = [status EXCEPT ![r] = "Pending"] /\ UNCHANGED errorText

markAsCompleted(r) ==
  /\ status[r] # "None"
  /\ status' = [status EXCEPT ![r] = "Completed"]
  /\ UNCHANGED errorText

markAsFailed(r) ==
  /\ status[r] # "None"
  /\ status' = [status EXCEPT ![r] = "Failed"]
  /\ errorText' = [errorText EXCEPT ![r] = TRUE]

-----------------------------------------------------------------------------
(* The API process.                                                        *)

HandlerMoves(r, from, to) ==
  /\ api = "up"
  /\ handler[r] = from
  /\ handler' = [handler EXCEPT ![r] = to]

Reply(r, code) == response' = [response EXCEPT ![r] = code]

\* The request arrives: the sync handler arms its timer, then both handlers
\* call createWebhookRequest.
Arrive(r) ==
  /\ HandlerMoves(r, "idle", "creating")
  /\ timer' = IF r \in SyncRequests THEN [timer EXCEPT ![r] = "armed"] ELSE timer
  /\ UNCHANGED <<api, response, lookup, rowVars, processed, queueVars, workerVars>>

CreateRow(r) ==
  /\ HandlerMoves(r, "creating", "created")
  /\ createRequest(r)
  /\ UNCHANGED <<api, response, timer, lookup, processed, queueVars, workerVars>>

\* createWebhookRequest rejects: POST /webhook answers 500, POST
\* /webhook/sync goes to its catch block.
CreateRowFails(r) ==
  /\ IF r \in SyncRequests
     THEN HandlerMoves(r, "creating", "failing") /\ UNCHANGED response
     ELSE HandlerMoves(r, "creating", "done") /\ Reply(r, "500")
  /\ UNCHANGED <<api, timer, lookup, rowVars, processed, queueVars, workerVars>>

\* Mutant: the row is not awaited before the answer.
AcceptBeforeRow(r) ==
  /\ r \in AsyncRequests
  /\ HandlerMoves(r, "creating", "publishing")
  /\ Reply(r, "202")
  /\ UNCHANGED <<api, timer, lookup, rowVars, processed, queueVars, workerVars>>

\* POST /webhook calls processCoordinates without awaiting it and answers.
Accept(r) ==
  /\ r \in AsyncRequests
  /\ HandlerMoves(r, "created", "publishing")
  /\ Reply(r, "202")
  /\ UNCHANGED <<api, timer, lookup, rowVars, processed, queueVars, workerVars>>

AddJob(r) ==
  job' = [job EXCEPT ![r] = "waiting"] /\ UNCHANGED <<attempts, stalls, lock>>

\* addLandmarkProcessingJob returns the id of the job.
Publish(r) ==
  /\ HandlerMoves(r, "publishing", "done")
  /\ AddJob(r)
  /\ UNCHANGED <<api, response, timer, lookup, rowVars, processed, workerVars>>

\* Mutant: the rejection is logged and dropped.
PublishFailsQuietly(r) ==
  /\ HandlerMoves(r, "publishing", "done")
  /\ UNCHANGED <<api, response, timer, lookup, rowVars, processed, queueVars, workerVars>>

\* addLandmarkProcessingJob throws.  Redis may or may not have run the
\* script when the connection failed.
PublishFails(r) ==
  /\ HandlerMoves(r, "publishing", "unpublished")
  /\ AddJob(r) \/ UNCHANGED queueVars
  /\ UNCHANGED <<api, response, timer, lookup, rowVars, processed, workerVars>>

\* The API process is gone, with every handler, timer and promise in it.
Exit ==
  /\ api' = "down"
  /\ handler' = [r \in Requests |->
       IF handler[r] \in {"idle", "done"} THEN handler[r] ELSE "lost"]
  /\ timer' = [r \in Requests |-> "off"]
  /\ lookup' = [r \in Requests |->
       IF lookup[r] = "running" THEN "lost" ELSE lookup[r]]
  /\ UNCHANGED response

\* The catch block of processCoordinates: markAsFailed, which may itself
\* reject, then a throw that nothing awaits.  Node ends the process on an
\* unhandled rejection.
MarkUnpublished(r) ==
  /\ api = "up" /\ handler[r] = "unpublished"
  /\ markAsFailed(r) \/ UNCHANGED rowVars
  /\ Exit
  /\ UNCHANGED <<processed, queueVars, workerVars>>

\* POST /webhook/sync starts the lookup and races it against the abort
\* signal: only now does it listen for the signal.
StartRace(r) ==
  /\ r \in SyncRequests
  /\ HandlerMoves(r, "created", "racing")
  /\ lookup' = [lookup EXCEPT ![r] = "running"]
  /\ UNCHANGED <<api, response, timer, rowVars, processed, queueVars, workerVars>>

\* setTimeout calls controller.abort().  The race is lost if it is on, and
\* an abort nobody listens to is over.
TimerFires(r) ==
  /\ api = "up" /\ timer[r] = "armed"
  /\ timer' = [timer EXCEPT ![r] = "fired"]
  /\ IF handler[r] = "racing"
     THEN handler' = [handler EXCEPT ![r] = "failing"]
     ELSE UNCHANGED handler
  /\ UNCHANGED <<api, response, lookup, rowVars, processed, queueVars, workerVars>>

\* Mutant: the race does not hear a lookup that rejects.
LookupFailureUnheard(r, ok) ==
  /\ api = "up" /\ lookup[r] = "running"
  /\ lookup' = [lookup EXCEPT ![r] = IF ok THEN "ok" ELSE "failed"]
  /\ processed' = [processed EXCEPT ![r] = @ \/ ok]
  /\ IF handler[r] = "racing" /\ ok
     THEN handler' = [handler EXCEPT ![r] = "completing"]
     ELSE UNCHANGED handler
  /\ UNCHANGED <<api, response, timer, rowVars, queueVars, workerVars>>

\* The lookup ends.  It goes on after a timeout, and then its end is ignored.
LookupEnds(r, ok) ==
  /\ api = "up" /\ lookup[r] = "running"
  /\ lookup' = [lookup EXCEPT ![r] = IF ok THEN "ok" ELSE "failed"]
  /\ processed' = [processed EXCEPT ![r] = @ \/ ok]
  /\ IF handler[r] = "racing"
     THEN handler' = [handler EXCEPT ![r] = IF ok THEN "completing" ELSE "failing"]
     ELSE UNCHANGED handler
  /\ UNCHANGED <<api, response, timer, rowVars, queueVars, workerVars>>

ClearTimer(r) == timer' = [timer EXCEPT ![r] = "off"]

\* Mutant: the answer does not wait for markAsCompleted.
CompleteSyncUnawaited(r) ==
  /\ HandlerMoves(r, "completing", "done")
  /\ markAsCompleted(r) \/ UNCHANGED rowVars
  /\ Reply(r, "200")
  /\ ClearTimer(r)
  /\ UNCHANGED <<api, lookup, processed, queueVars, workerVars>>

\* markAsCompleted, then 200.
CompleteSync(r) ==
  /\ HandlerMoves(r, "completing", "done")
  /\ markAsCompleted(r)
  /\ Reply(r, "200")
  /\ ClearTimer(r)
  /\ UNCHANGED <<api, lookup, processed, queueVars, workerVars>>

CompleteSyncFails(r) ==
  /\ HandlerMoves(r, "completing", "failing")
  /\ UNCHANGED <<api, response, timer, lookup, rowVars, processed, queueVars, workerVars>>

\* The catch and finally blocks: markAsFailed, which may itself reject, and
\* an exception that the client sees as a 500 either way.
FailSync(r) ==
  /\ HandlerMoves(r, "failing", "done")
  /\ markAsFailed(r) \/ UNCHANGED rowVars
  /\ Reply(r, "500")
  /\ ClearTimer(r)
  /\ UNCHANGED <<api, lookup, processed, queueVars, workerVars>>

\* The process dies at any point, and is started again.
ApiCrash ==
  /\ api = "up"
  /\ Exit
  /\ UNCHANGED <<rowVars, processed, queueVars, workerVars>>

ApiRestart ==
  /\ api = "down" /\ api' = "up"
  /\ UNCHANGED <<handler, response, timer, lookup, rowVars, processed,
                 queueVars, workerVars>>

-----------------------------------------------------------------------------
(* The queue and the workers.                                              *)

Owns(w, r) == wjob[w] = r /\ lock[r] = w

\* Mutant: stalls are not counted.
StallUncounted(r) ==
  /\ job[r] = "active"
  /\ job' = [job EXCEPT ![r] = "waiting"]
  /\ lock' = [lock EXCEPT ![r] = NoWorker]
  /\ UNCHANGED <<apiVars, rowVars, processed, attempts, stalls, workerVars>>

\* The job waits again, or has failed if it already stalled too often.
Stall(r) ==
  /\ job[r] = "active"
  /\ IF stalls[r] < MaxStalled
     THEN /\ job' = [job EXCEPT ![r] = "waiting"]
          /\ stalls' = [stalls EXCEPT ![r] = @ + 1]
     ELSE /\ job' = [job EXCEPT ![r] = "failed"]
          /\ UNCHANGED stalls
  /\ lock' = [lock EXCEPT ![r] = NoWorker]
  /\ UNCHANGED <<apiVars, rowVars, processed, attempts, workerVars>>

\* The stalled check finds a job whose worker is dead ...
RecoverStalled(r) == (\A w \in Workers : ~Owns(w, r)) /\ Stall(r)

\* ... or only too slow to renew its lock.
LoseLock(r) == (\E w \in Workers : Owns(w, r)) /\ Stall(r)

\* The backoff of a failed attempt is over.
Promote(r) ==
  /\ job[r] = "delayed"
  /\ job' = [job EXCEPT ![r] = "waiting"]
  /\ UNCHANGED <<apiVars, rowVars, processed, attempts, stalls, lock, workerVars>>

Take(w, r) ==
  /\ wpc[w] = "idle" /\ job[r] = "waiting"
  /\ job' = [job EXCEPT ![r] = "active"]
  /\ lock' = [lock EXCEPT ![r] = w]
  /\ wjob' = [wjob EXCEPT ![w] = r]
  /\ wpc' = [wpc EXCEPT ![w] = "begin"]
  /\ UNCHANGED <<apiVars, rowVars, processed, attempts, stalls>>

WorkerMoves(w, from, to) ==
  wpc[w] = from /\ wpc' = [wpc EXCEPT ![w] = to] /\ UNCHANGED wjob

\* job.updateProgress: an error if the job is gone, as removeOnComplete
\* leaves a completed one.
Progress(w, from, to) ==
  /\ WorkerMoves(w, from, to)
  /\ job[wjob[w]] # "completed"
  /\ UNCHANGED <<apiVars, rowVars, processed, queueVars>>

\* processLandmarksByCoordinates returns.
Process(w) ==
  /\ WorkerMoves(w, "process", "report")
  /\ processed' = [processed EXCEPT ![wjob[w]] = TRUE]
  /\ UNCHANGED <<apiVars, rowVars, queueVars>>

\* Mutant: markAsCompleted is not awaited.
MarkCompletedUnawaited(w) ==
  /\ WorkerMoves(w, "mark", "final")
  /\ markAsCompleted(wjob[w]) \/ UNCHANGED rowVars
  /\ UNCHANGED <<apiVars, processed, queueVars>>

MarkCompleted(w) ==
  /\ WorkerMoves(w, "mark", "final")
  /\ markAsCompleted(wjob[w])
  /\ UNCHANGED <<apiVars, processed, queueVars>>

\* Mutant: a rejected lookup is swallowed.
ProcessThrowsSwallowed(w) ==
  /\ WorkerMoves(w, "process", "report")
  /\ UNCHANGED <<apiVars, rowVars, processed, queueVars>>

\* Anything process() awaits may reject; its catch block only rethrows.  A
\* failing moveToCompleted ends in the same place.
ProcessThrows(w) ==
  /\ \E from \in WorkerStates \ {"idle", "throw"} : WorkerMoves(w, from, "throw")
  /\ UNCHANGED <<apiVars, rowVars, processed, queueVars>>

WorkerIdles(w) ==
  /\ wpc' = [wpc EXCEPT ![w] = "idle"]
  /\ wjob' = [wjob EXCEPT ![w] = NoRequest]

\* moveToCompleted, refused by Redis unless the worker holds the lock.
FinishJob(w) ==
  LET r == wjob[w] IN
  /\ wpc[w] = "return" /\ Owns(w, r)
  /\ job' = [job EXCEPT ![r] = "completed"]
  /\ lock' = [lock EXCEPT ![r] = NoWorker]
  /\ WorkerIdles(w)
  /\ UNCHANGED <<apiVars, rowVars, processed, attempts, stalls>>

\* Mutant: there is always another attempt.
FailJobForever(w) ==
  LET r == wjob[w] IN
  /\ wpc[w] = "throw" /\ Owns(w, r)
  /\ attempts' = [attempts EXCEPT ![r] = @ + 1]
  /\ job' = [job EXCEPT ![r] = "delayed"]
  /\ lock' = [lock EXCEPT ![r] = NoWorker]
  /\ WorkerIdles(w)
  /\ UNCHANGED <<apiVars, rowVars, processed, stalls>>

\* Mutant: process() marks the row failed in its catch block.
FailJobAndRow(w) ==
  LET r == wjob[w] IN
  /\ wpc[w] = "throw" /\ Owns(w, r)
  /\ markAsFailed(r)
  /\ attempts' = [attempts EXCEPT ![r] = @ + 1]
  /\ job' = [job EXCEPT ![r] = IF attempts[r] + 1 < Attempts THEN "delayed" ELSE "failed"]
  /\ lock' = [lock EXCEPT ![r] = NoWorker]
  /\ WorkerIdles(w)
  /\ UNCHANGED <<apiVars, processed, stalls>>

\* moveToFailed: a retry after the backoff while attempts are left.  Without
\* the lock the worker drops the job and leaves it as it is.
FailJob(w) ==
  LET r == wjob[w] IN
  /\ wpc[w] = "throw"
  /\ IF Owns(w, r)
     THEN /\ attempts' = [attempts EXCEPT ![r] = @ + 1]
          /\ job' = [job EXCEPT ![r] =
                       IF attempts[r] + 1 < Attempts THEN "delayed" ELSE "failed"]
          /\ lock' = [lock EXCEPT ![r] = NoWorker]
     ELSE UNCHANGED <<job, attempts, lock>>
  /\ WorkerIdles(w)
  /\ UNCHANGED <<apiVars, rowVars, processed, stalls>>

\* A worker process dies and its container runs bootstrap() of worker.ts again,
\* which looks for nothing: its job stays active under a lock nobody renews.
WorkerCrash(w) ==
  /\ wpc[w] # "idle"
  /\ WorkerIdles(w)
  /\ UNCHANGED <<apiVars, rowVars, processed, queueVars>>

-----------------------------------------------------------------------------

HandlerStep(r) ==
  \/ CreateRow(r) \/ CreateRowFails(r) \/ Accept(r)
  \/ Publish(r) \/ PublishFails(r) \/ MarkUnpublished(r)
  \/ StartRace(r) \/ CompleteSync(r) \/ CompleteSyncFails(r) \/ FailSync(r)

LookupStep(r) == \E ok \in BOOLEAN : LookupEnds(r, ok)

WorkerStep(w) ==
  \/ Progress(w, "begin", "process")
  \/ Process(w)
  \/ Progress(w, "report", "mark")
  \/ MarkCompleted(w)
  \/ Progress(w, "final", "return")
  \/ ProcessThrows(w) \/ FinishJob(w) \/ FailJob(w)

\* Whatever happens but for the start of the API.
RunStep ==
  \/ \E r \in Requests :
       \/ Arrive(r) \/ HandlerStep(r) \/ TimerFires(r) \/ LookupStep(r)
       \/ RecoverStalled(r) \/ LoseLock(r) \/ Promote(r)
       \/ \E w \in Workers : Take(w, r)
  \/ \E w \in Workers : WorkerStep(w) \/ WorkerCrash(w)
  \/ ApiCrash

Next == RunStep \/ ApiRestart

Spec == Init /\ [][Next]_vars

\* What is started ends: an await settles, a timer fires, a backoff and a
\* dead worker's lock run out, and a job that waits again and again is taken.
\* Arrivals, crashes and slow lock renewals are never owed.
Fairness ==
  /\ \A r \in Requests :
       /\ WF_vars(HandlerStep(r)) /\ WF_vars(TimerFires(r)) /\ WF_vars(LookupStep(r))
       /\ WF_vars(RecoverStalled(r)) /\ WF_vars(Promote(r))
       /\ SF_vars(\E w \in Workers : Take(w, r))
  /\ \A w \in Workers : WF_vars(WorkerStep(w))

FairSpec == Spec /\ Fairness

-----------------------------------------------------------------------------
(* Safety.                                                                 *)

\* A row says Completed only if a landmark lookup for that request has
\* returned: a retry, a second delivery of the job or a sync timeout never
\* completes a request whose lookups all failed.
WasProcessed(r) == status[r] = "Completed" => processed[r]
CompletedWasProcessed == \A r \in Requests : WasProcessed(r)

\* What POST /webhook/sync answered and what GET /webhook/:uuid reports for
\* the same request agree, whatever the timer, the lookup that outlives it
\* and a failing database did.
AnswerAgrees(r) ==
  /\ response[r] = "200" => status[r] = "Completed"
  /\ response[r] = "500" => status[r] # "Completed"
SyncAnswerAgreesWithRow == \A r \in SyncRequests : AnswerAgrees(r)

\* A job that BullMQ has completed and removed leaves no Pending row behind,
\* even if it stalled and two workers ran it, each seeing the other's steps.
JobSettles(r) == job[r] = "completed" => status[r] \in {"Completed", "Failed"}
CompletedJobSettlesRow == \A r \in Requests : JobSettles(r)

\* A sync handler never waits for a lookup that is over: whichever of the
\* timer and the lookup ends the race does so where the handler hears it.
RaceIsOpen ==
  \A r \in SyncRequests : handler[r] = "racing" => lookup[r] = "running"

InFlight(r) ==
  api = "up" /\ handler[r] \in HandlerStates \ {"idle", "done", "lost"}

\* A row is Pending only while somebody is still going to change it, except
\* in the three ways the code lets go of one: the API process died under the
\* request, the rejection that told the sync client could not be recorded, or
\* the last attempt of the job failed.
IsOwed(r) ==
  status[r] = "Pending" =>
    \/ InFlight(r) \/ handler[r] = "lost"
    \/ r \in SyncRequests /\ response[r] = "500"
    \/ r \in AsyncRequests /\ job[r] \in {"waiting", "active", "delayed", "failed"}
PendingIsOwed == \A r \in Requests : IsOwed(r)

\* The API was told that queueing the job failed, and it had not.
InDoubt(r) ==
  r \in AsyncRequests /\ job[r] # "none" /\ handler[r] \in {"unpublished", "lost"}

\* A settled row changes again only if the API had given up on a job that was
\* in the queue after all.  In particular a late lookup, a second delivery and
\* a retry after markAsCompleted change nothing the client may have seen.
SettledStaysSettled ==
  [][\A r \in Requests :
       status[r] \in {"Completed", "Failed"} /\ status'[r] # status[r] => InDoubt(r)]_vars

\* The error column and the status column tell the same story, although they
\* are written by different calls of different processes: an error is left on
\* a row that is not Failed only by a job the API had given up on.
TellsFailure(r) ==
  /\ status[r] = "Failed" => errorText[r]
  /\ errorText[r] => status[r] = "Failed" \/ InDoubt(r)
ErrorTellsFailure == \A r \in Requests : TellsFailure(r)

\* How far a queued job is from its end, in deliveries and moves between them.
JobRank(r) ==
  IF job[r] \in {"completed", "failed"} THEN 0
  ELSE 3 * ((Attempts - attempts[r]) + (MaxStalled - stalls[r]))
         + (IF job[r] = "delayed" THEN 3 ELSE IF job[r] = "waiting" THEN 2 ELSE 1)

\* Whoever moves a job, a worker, the stalled check of a job that another
\* worker still runs, a backoff or a lost lock, brings it nearer to its end,
\* and nobody moves one that has ended: no mix of stalls and failed attempts
\* delivers a job more often than the two limits together allow.
JobsAdvance ==
  [][\A r \in Requests :
       job[r] # "none" /\ job'[r] # job[r] => JobRank(r)' < JobRank(r)]_vars

\* Everything a client is promised, as the specification RequestLifecycle.
Lifecycle == INSTANCE RequestLifecycle WITH
  row <- status, answer <- response, worked <- processed,
  doubt <- [r \in Requests |-> InDoubt(r)]

LifecycleSpec == Lifecycle!Spec

-----------------------------------------------------------------------------
(* Liveness, under Fairness.                                               *)

\* A queued job is completed or has failed in the end: stalls, dead workers
\* and failing attempts delay it a bounded number of times.
JobsEnd ==
  \A r \in AsyncRequests :
    job[r] = "waiting" ~> job[r] \in {"completed", "failed"}

\* A sync request that has been received is answered, unless the API process
\* dies under it: no order of the timer and the lookup leaves its handler
\* waiting for ever.
SyncIsAnswered ==
  \A r \in SyncRequests :
    handler[r] = "creating" ~> response[r] # "none" \/ handler[r] = "lost"

\* A request accepted with 202 whose job ends without a failed last attempt
\* gets a settled row.
AcceptedSettlesUnlessJobFails ==
  \A r \in AsyncRequests :
    response[r] = "202" ~>
      \/ status[r] \in {"Completed", "Failed"}
      \/ handler[r] = "lost" \/ job[r] = "failed"

-----------------------------------------------------------------------------
(* What the documents say and the code does not do.                        *)

\* schema.prisma and the README: a request whose processing failed is Failed.
FailedJobFailsRow ==
  \A r \in AsyncRequests : job[r] = "failed" ~> status[r] # "Pending"

\* "configured timeout": once the timer has fired the handler no longer
\* waits for the lookup.
TimeoutEndsTheRace ==
  \A r \in SyncRequests : timer[r] = "fired" => handler[r] # "racing"

=============================================================================
