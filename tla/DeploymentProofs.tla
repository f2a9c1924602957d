--------------------------- MODULE DeploymentProofs ---------------------------
(***************************************************************************)
(* Proofs about Deployment for any requests and workers, any number of     *)
(* attempts and any stall limit.                                           *)
(***************************************************************************)
EXTENDS Deployment, WebhookRequestsProofs

USE DEF HandlerStates, JobStates, WorkerStates

-----------------------------------------------------------------------------
(* The inductive invariant.                                                *)

\* No handler is at work while the API is down, and from the flush to the
\* next start the queue is empty.
BootInv ==
  /\ api = "down" => \A r \in Requests : handler[r] \in {"idle", "done", "lost"}
  /\ boot # "wait" => api = "down"
  /\ boot \in {"flushed", "reset"} =>
       \A r \in Requests : job[r] = "none" /\ lock[r] = NoWorker

\* An erased request has nothing left that could act, but perhaps a worker
\* without its lock.
ErasedInv ==
  \A r \in erased :
    /\ handler[r] \in {"done", "lost"}
    /\ status[r] = "None" /\ job[r] = "none" /\ lock[r] = NoWorker

\* What the client has been told by the time the handler is where it is.
ToldInv ==
  \A r \in Requests :
    /\ handler[r] = "idle" => response[r] = "none"
    /\ handler[r] = "created" => status[r] # "None"
    /\ handler[r] \in {"publishing", "unpublished"} => response[r] = "202"
    /\ response[r] \in {"200", "202"} => status[r] # "None" \/ r \in erased
    /\ seen[r] = "404" => r \in erased

DeploymentInv ==
  /\ TypeInv /\ DeploymentTypeOK
  /\ BootInv /\ ErasedInv /\ ToldInv /\ StopAnswersAll

-----------------------------------------------------------------------------
(* The steps of WebhookRequests.                                           *)

LEMMA RunsTypes == DeploymentInv /\ Runs => TypeInv' /\ DeploymentTypeOK'
<1> SUFFICES ASSUME DeploymentInv, Runs PROVE TypeInv' /\ DeploymentTypeOK'
  OBVIOUS
<1>1. TypeInv'
  BY StepTypeInv DEF DeploymentInv, Runs, Next
<1>2. closing' \in BOOLEAN /\ killed' \in BOOLEAN
  BY DEF DeploymentInv, DeploymentTypeOK, Runs
<1>. QED
  BY <1>1, <1>2 DEF TypeInv, DeploymentInv, DeploymentTypeOK, Runs

LEMMA RunsInv == DeploymentInv /\ Runs => (BootInv /\ ErasedInv /\ ToldInv /\ StopAnswersAll)'
<1> SUFFICES ASSUME DeploymentInv, Runs
             PROVE  (BootInv /\ ErasedInv /\ ToldInv /\ StopAnswersAll)'
  OBVIOUS
<1> DEFINE Goal == (BootInv /\ ErasedInv /\ ToldInv /\ StopAnswersAll)'
<1>a. UNCHANGED <<boot, erased, seen>> /\ killed' = (killed \/ api' # api)
  BY DEF Runs
<1>b. status' \in [Requests -> {"None", "Pending", "Completed", "Failed"}]
  BY RunsTypes DEF TypeInv, TypeOK
<1> USE <1>a, WorkersAssumption DEF DeploymentInv, TypeInv, TypeOK, QueueInv, DeploymentTypeOK,
        BootInv, ErasedInv, ToldInv, StopAnswersAll, apiVars, rowVars, queueVars, workerVars,
        HandlerMoves, Reply, createRequest, markAsCompleted, markAsFailed
<1>1. ASSUME NEW r \in Requests, Arrive(r) PROVE Goal
  BY <1>1 DEF Arrive
<1>2. ASSUME NEW r \in Requests, CreateRow(r) PROVE Goal
  BY <1>2 DEF CreateRow
<1>3. ASSUME NEW r \in Requests, CreateRowFails(r) PROVE Goal
  BY <1>3 DEF CreateRowFails
<1>4. ASSUME NEW r \in Requests, Accept(r) PROVE Goal
  BY <1>4 DEF Accept
<1>5. ASSUME NEW r \in Requests, Publish(r) PROVE Goal
  BY <1>5 DEF Publish, AddJob
<1>6. ASSUME NEW r \in Requests, PublishFails(r) PROVE Goal
  BY <1>6 DEF PublishFails, AddJob
<1>7. ASSUME NEW r \in Requests, MarkUnpublished(r) PROVE Goal
  <2>1. api' = "down" /\ killed' /\ handler' \in [Requests -> HandlerStates]
    BY <1>7 DEF MarkUnpublished, Exit
  <2>2. BootInv' /\ StopAnswersAll'
    BY <1>7, <2>1 DEF MarkUnpublished, Exit
  <2>3. \A q \in Requests : status'[q] = "None" <=> status[q] = "None"
    BY <1>7 DEF MarkUnpublished
  <2>4. ErasedInv'
    BY <1>7, <1>b, <2>3 DEF MarkUnpublished, Exit
  <2>5. ToldInv'
    BY <1>7, <2>3 DEF MarkUnpublished, Exit
  <2>. QED BY <2>2, <2>4, <2>5
<1>8. ASSUME NEW r \in Requests, StartRace(r) PROVE Goal
  BY <1>8 DEF StartRace
<1>9. ASSUME NEW r \in Requests, TimerFires(r) PROVE Goal
  BY <1>9 DEF TimerFires
<1>10. ASSUME NEW r \in Requests, NEW ok \in BOOLEAN, LookupEnds(r, ok) PROVE Goal
  BY <1>10 DEF LookupEnds
<1>11. ASSUME NEW r \in Requests, CompleteSync(r) PROVE Goal
  BY <1>11 DEF CompleteSync
<1>12. ASSUME NEW r \in Requests, CompleteSyncFails(r) PROVE Goal
  BY <1>12 DEF CompleteSyncFails
<1>13. ASSUME NEW r \in Requests, FailSync(r) PROVE Goal
  <2>1. \A q \in Requests : status'[q] = "None" <=> status[q] = "None"
    BY <1>13 DEF FailSync
  <2>2. BootInv' /\ StopAnswersAll'
    BY <1>13 DEF FailSync
  <2>3. ErasedInv'
    BY <1>13, <2>1, <1>b DEF FailSync
  <2>4. ToldInv'
    BY <1>13, <2>1 DEF FailSync
  <2>. QED BY <2>2, <2>3, <2>4
<1>14. ASSUME ApiCrash PROVE Goal
  BY <1>14 DEF ApiCrash, Exit
<1>15. ASSUME NEW r \in Requests, Stall(r) PROVE Goal
  BY <1>15 DEF Stall
<1>16. ASSUME NEW r \in Requests, Promote(r) PROVE Goal
  BY <1>16 DEF Promote
<1>17. ASSUME NEW w \in Workers, NEW r \in Requests, Take(w, r) PROVE Goal
  BY <1>17 DEF Take
<1>18. ASSUME NEW w \in Workers, NEW from \in WorkerStates \ {"idle"},
              NEW to \in WorkerStates, Progress(w, from, to) PROVE Goal
  BY <1>18 DEF Progress
<1>19. ASSUME NEW w \in Workers, Process(w) PROVE Goal
  BY <1>19 DEF Process
<1>20. ASSUME NEW w \in Workers, MarkCompleted(w) PROVE Goal
  BY <1>20 DEF MarkCompleted, WorkerMoves
<1>21. ASSUME NEW w \in Workers, ProcessThrows(w) PROVE Goal
  BY <1>21 DEF ProcessThrows
<1>22. ASSUME NEW w \in Workers, FinishJob(w) PROVE Goal
  BY <1>22 DEF FinishJob, Owns
<1>23. ASSUME NEW w \in Workers, FailJob(w) PROVE Goal
  BY <1>23 DEF FailJob, Owns
<1>24. ASSUME NEW w \in Workers, WorkerCrash(w) PROVE Goal
  BY <1>24 DEF WorkerCrash
<1>25. RunStep
  BY DEF Runs
<1> HIDE DEF Goal, DeploymentInv, TypeInv, TypeOK, QueueInv, DeploymentTypeOK,
        BootInv, ErasedInv, ToldInv, StopAnswersAll, HandlerMoves
<1>26. Goal
  BY <1>1, <1>2, <1>3, <1>4, <1>5, <1>6, <1>7, <1>8, <1>9, <1>10, <1>11, <1>12,
     <1>13, <1>14, <1>15, <1>16, <1>17, <1>18, <1>19, <1>20, <1>21, <1>22, <1>23,
     <1>24, <1>25
     DEF RunStep, HandlerStep, LookupStep, WorkerStep, RecoverStalled, LoseLock
<1>. QED
  BY <1>26 DEF Goal

-----------------------------------------------------------------------------
(* The steps of the container.                                             *)

LEMMA StepDeploymentInv ==
  DeploymentInv /\ [DeploymentNext]_deploymentVars => DeploymentInv'
<1> SUFFICES ASSUME DeploymentInv, [DeploymentNext]_deploymentVars PROVE DeploymentInv'
  OBVIOUS
<1>1. CASE Runs
  BY <1>1, RunsTypes, RunsInv DEF DeploymentInv
<1>a. ASSUME [Next]_vars PROVE TypeInv' /\ TypeOK'
  BY <1>a, StepTypeInv DEF DeploymentInv, TypeInv
<1>2. CASE ApiStops
  <2>1. TypeInv' /\ TypeOK'
    BY <1>2, <1>a DEF ApiStops
  <2>2. DeploymentTypeOK'
    BY <1>2, <2>1 DEF ApiStops, DeploymentInv, DeploymentTypeOK
  <2>3. BootInv' /\ ErasedInv' /\ ToldInv' /\ StopAnswersAll'
    BY <1>2 DEF ApiStops, DeploymentInv, BootInv, ErasedInv, ToldInv, StopAnswersAll,
                vars, apiVars, rowVars, queueVars
  <2>. QED BY <2>1, <2>2, <2>3 DEF DeploymentInv
<1>3. CASE ApiExits
  <2>1. TypeInv' /\ TypeOK'
    <3>1. ApiCrash
      BY <1>3 DEF ApiExits, ApiCrash
    <3>. QED BY <3>1, <1>a DEF Next, RunStep
  <2>2. DeploymentTypeOK'
    BY <1>3, <2>1 DEF ApiExits, DeploymentInv, DeploymentTypeOK
  <2>3. \A r \in Requests :
          handler'[r] = IF handler[r] \in {"idle", "done"} THEN handler[r] ELSE "lost"
    BY <1>3 DEF ApiExits, Exit
  <2>4. BootInv'
    BY <1>3, <2>3 DEF ApiExits, Exit, DeploymentInv, BootInv, queueVars
  <2>5. ErasedInv'
    BY <1>3, <2>3 DEF ApiExits, DeploymentInv, DeploymentTypeOK, ErasedInv, rowVars, queueVars
  <2>6. ToldInv'
    BY <1>3, <2>3 DEF ApiExits, Exit, DeploymentInv, ToldInv, rowVars
  <2>7. StopAnswersAll'
    <3>1. \A r \in Requests :
            handler[r] \in {"idle", "done", "publishing", "unpublished", "lost"}
      BY <1>3 DEF ApiExits, Answering, DeploymentInv, TypeInv, TypeOK
    <3>. QED
      BY <1>3, <2>3, <3>1 DEF ApiExits, Exit, DeploymentInv, ToldInv, StopAnswersAll
  <2>. QED BY <2>1, <2>2, <2>4, <2>5, <2>6, <2>7 DEF DeploymentInv
<1>4. CASE WaitForRedis
  <2>1. TypeInv' /\ TypeOK'
    BY <1>4, <1>a DEF WaitForRedis
  <2>2. DeploymentTypeOK'
    BY <1>4, <2>1 DEF WaitForRedis, BootMoves, DeploymentInv, DeploymentTypeOK
  <2>3. BootInv' /\ ErasedInv' /\ ToldInv' /\ StopAnswersAll'
    BY <1>4 DEF WaitForRedis, BootMoves, DeploymentInv, BootInv, ErasedInv, ToldInv,
                StopAnswersAll, vars, apiVars, rowVars, queueVars
  <2>. QED BY <2>1, <2>2, <2>3 DEF DeploymentInv
<1>8. CASE Bootstrap
  <2>1. TypeInv' /\ TypeOK'
    BY <1>8, <1>a DEF Bootstrap, Next
  <2>2. DeploymentTypeOK'
    BY <1>8, <2>1 DEF Bootstrap, BootMoves, DeploymentInv, DeploymentTypeOK
  <2>3. BootInv' /\ ErasedInv' /\ ToldInv' /\ StopAnswersAll'
    BY <1>8 DEF Bootstrap, ApiRestart, BootMoves, DeploymentInv, BootInv, ErasedInv, ToldInv,
                StopAnswersAll, rowVars, queueVars
  <2>. QED BY <2>1, <2>2, <2>3 DEF DeploymentInv
<1>b. ASSUME boot \in {"init", "flushed", "reset"}, BootMoves(boot, "wait"),
             UNCHANGED <<vars, erased>>
      PROVE  DeploymentInv'
  <2>1. TypeInv' /\ TypeOK'
    BY <1>b, <1>a
  <2>2. DeploymentTypeOK'
    BY <1>b, <2>1 DEF BootMoves, DeploymentInv, DeploymentTypeOK
  <2>3. BootInv' /\ ErasedInv' /\ ToldInv' /\ StopAnswersAll'
    BY <1>b DEF BootMoves, DeploymentInv, BootInv, ErasedInv, ToldInv,
                StopAnswersAll, vars, apiVars, rowVars, queueVars
  <2>. QED BY <2>1, <2>2, <2>3 DEF DeploymentInv
<1>10. ASSUME NEW r \in Requests, getWebhookStatus(r) PROVE DeploymentInv'
  <2>1. TypeInv' /\ TypeOK'
    BY <1>10, <1>a DEF getWebhookStatus, getById
  <2>2. DeploymentTypeOK'
    <3>1. status[r] \in {"None", "Pending", "Completed", "Failed"}
      BY DEF DeploymentInv, TypeInv, TypeOK
    <3>2. seen' \in [Requests -> {"none", "404", "500", "Pending", "Completed", "Failed"}]
      BY <1>10, <3>1 DEF getWebhookStatus, getById, DeploymentInv, DeploymentTypeOK
    <3>. QED
      BY <1>10, <2>1, <3>2 DEF getWebhookStatus, getById, bootVars, DeploymentInv, DeploymentTypeOK
  <2>3. BootInv' /\ ErasedInv' /\ StopAnswersAll'
    BY <1>10 DEF getWebhookStatus, getById, DeploymentInv, BootInv, ErasedInv, StopAnswersAll,
                 bootVars, vars, apiVars, rowVars, queueVars
  <2>4. ToldInv'
    BY <1>10 DEF getWebhookStatus, getById, DeploymentInv, DeploymentTypeOK, ToldInv,
                 TypeInv, TypeOK, bootVars, vars, apiVars, rowVars
  <2>. QED BY <2>1, <2>2, <2>3, <2>4 DEF DeploymentInv
<1>11. CASE UNCHANGED deploymentVars
  <2>1. TypeInv' /\ TypeOK'
    BY <1>11, <1>a DEF deploymentVars
  <2>2. DeploymentTypeOK'
    BY <1>11, <2>1 DEF deploymentVars, bootVars, DeploymentInv, DeploymentTypeOK
  <2>3. BootInv' /\ ErasedInv' /\ ToldInv' /\ StopAnswersAll'
    BY <1>11 DEF deploymentVars, bootVars, DeploymentInv, BootInv, ErasedInv, ToldInv,
                 StopAnswersAll, vars, apiVars, rowVars, queueVars
  <2>. QED BY <2>1, <2>2, <2>3 DEF DeploymentInv
<1> USE DEF DeploymentInv, TypeInv, TypeOK, QueueInv, DeploymentTypeOK,
        BootInv, ErasedInv, ToldInv, StopAnswersAll, BootMoves,
        apiVars, rowVars, queueVars, workerVars
<1>5. CASE FlushAll
  <2>1. TypeOK' /\ QueueInv'
    BY <1>5, LimitsAssumption DEF FlushAll
  <2>2. DeploymentTypeOK'
    BY <1>5, <2>1 DEF FlushAll
  <2>3. BootInv' /\ ErasedInv' /\ ToldInv' /\ StopAnswersAll'
    BY <1>5 DEF FlushAll
  <2>. QED BY <2>1, <2>2, <2>3
<1>6. ASSUME boot = "flushed", boot' \in {"reset", "wait"}, EraseRows,
             UNCHANGED <<closing, killed, seen>>
      PROVE  DeploymentInv'
  <2>1. TypeOK' /\ QueueInv'
    BY <1>6 DEF EraseRows
  <2>2. DeploymentTypeOK'
    BY <1>6, <2>1 DEF EraseRows
  <2>3. BootInv' /\ StopAnswersAll'
    BY <1>6 DEF EraseRows
  <2>4. \A r \in Requests : r \in erased' <=> handler[r] \in {"done", "lost"}
    BY <1>6 DEF EraseRows
  <2>5. ErasedInv'
    BY <1>6, <2>4 DEF EraseRows
  <2>6. ToldInv'
    BY <1>6, <2>4 DEF EraseRows
  <2>. QED BY <2>1, <2>2, <2>3, <2>5, <2>6
<1> HIDE DEF DeploymentInv, BootMoves
<1>7. CASE MigrateReset
  BY <1>6, <1>7 DEF MigrateReset, BootMoves
<1>9. CASE BootFails
  <2>1. CASE UNCHANGED <<vars, erased>>
    BY <1>b, <1>9, <2>1 DEF BootFails, BootMoves
  <2>2. CASE boot = "flushed" /\ EraseRows
    BY <1>6, <1>9, <2>2 DEF BootFails, BootMoves
  <2>. QED
    BY <1>9, <2>1, <2>2 DEF BootFails
<1>. QED
  BY <1>1, <1>2, <1>3, <1>4, <1>5, <1>7, <1>8, <1>9, <1>10, <1>11 DEF DeploymentNext

THEOREM InvariantDeploymentInv == DeploymentSpec => []DeploymentInv
<1>1. DeploymentInit => DeploymentInv
  <2> SUFFICES ASSUME DeploymentInit PROVE DeploymentInv
    OBVIOUS
  <2>1. TypeInv
    BY InitTypeInv DEF DeploymentInit
  <2>2. DeploymentTypeOK
    BY <2>1 DEF TypeInv, DeploymentInit, DeploymentTypeOK
  <2>3. BootInv /\ ErasedInv /\ ToldInv /\ StopAnswersAll
    BY DEF DeploymentInit, Init, BootInv, ErasedInv, ToldInv, StopAnswersAll
  <2>. QED
    BY <2>1, <2>2, <2>3 DEF DeploymentInv
<1>. QED
  BY <1>1, StepDeploymentInv, PTL DEF DeploymentSpec

-----------------------------------------------------------------------------
(* The properties.                                                         *)

\* The variables keep their types through stops, starts and resets.
THEOREM DeploymentTypeCorrect == DeploymentSpec => []DeploymentTypeOK
<1>1. DeploymentInv => DeploymentTypeOK
  BY DEF DeploymentInv
<1>. QED
  BY InvariantDeploymentInv, <1>1, PTL

\* No worker brings anything back that a reset has erased.
THEOREM NothingComesBack == DeploymentSpec => []ErasedIsGone
<1>1. DeploymentInv => ErasedIsGone
  BY DEF DeploymentInv, ErasedInv, ErasedIsGone
<1>. QED
  BY InvariantDeploymentInv, <1>1, PTL

\* A uuid that a client holds is unknown only after a reset.
THEOREM AcceptedIsKnown == DeploymentSpec => []KnownUnlessErased
<1>1. DeploymentInv => KnownUnlessErased
  BY DEF DeploymentInv, ToldInv, KnownUnlessErased
<1>. QED
  BY InvariantDeploymentInv, <1>1, PTL

\* A program told to stop answers everybody first.
THEOREM StopIsGraceful == DeploymentSpec => []StopAnswersAll
<1>1. DeploymentInv => StopAnswersAll
  BY DEF DeploymentInv
<1>. QED
  BY InvariantDeploymentInv, <1>1, PTL

-----------------------------------------------------------------------------
(* The requests a client can still ask for.  The invariant of              *)
(* WebhookRequests is not one of Deployment: a reset leaves jobs without   *)
(* rows, workers without jobs and answers without either.  It is one for   *)
(* any set of requests none of which a reset has touched: none erased and, *)
(* from the end of the program to its next start, none that had arrived.   *)

Untouched(R) == \A r \in R : r \notin erased /\ (api = "up" \/ handler[r] = "idle")

UntouchedInv == \A R \in SUBSET Requests : Untouched(R) => RequestsInv(R)

\* The program starts with nothing but erased requests and those to come.
ResetInv == boot = "reset" => \A r \in Requests \ erased : handler[r] = "idle"

\* No step of the program or of the workers makes a request untouched, and
\* while the program is down none arrives.
LEMMA RunsTouch ==
  ASSUME DeploymentInv, Runs
  PROVE  /\ api' = "up" => api = "up"
         /\ \A r \in Requests : handler'[r] = "idle" => handler[r] = "idle"
         /\ api = "down" => UNCHANGED handler
<1> USE DEF DeploymentInv, TypeInv, TypeOK, HandlerMoves, apiVars
<1> DEFINE Goal == /\ api' = "up" => api = "up"
                   /\ \A r \in Requests : handler'[r] = "idle" => handler[r] = "idle"
                   /\ api = "down" => UNCHANGED handler
<1>1. ASSUME NEW r \in Requests, Arrive(r) \/ HandlerStep(r) \/ TimerFires(r) \/ LookupStep(r)
      PROVE  Goal
  BY <1>1 DEF Arrive, HandlerStep, CreateRow, CreateRowFails, Accept, Publish, PublishFails,
     MarkUnpublished, Exit, StartRace, CompleteSync, CompleteSyncFails, FailSync,
     TimerFires, LookupStep, LookupEnds
<1>2. ASSUME NEW r \in Requests, RecoverStalled(r) \/ LoseLock(r) \/ Promote(r)
      PROVE  Goal
  BY <1>2 DEF RecoverStalled, LoseLock, Stall, Promote
<1>3. ASSUME NEW w \in Workers, WorkerStep(w) \/ WorkerCrash(w) \/ \E r \in Requests : Take(w, r)
      PROVE  Goal
  BY <1>3 DEF WorkerStep, WorkerCrash, Take, Progress, Process, MarkCompleted, ProcessThrows,
     FinishJob, FailJob
<1>4. CASE ApiCrash
  BY <1>4 DEF ApiCrash, Exit
<1>. QED
  BY <1>1, <1>2, <1>3, <1>4 DEF Runs, RunStep

LEMMA StepResetInv ==
  DeploymentInv /\ ResetInv /\ [DeploymentNext]_deploymentVars => ResetInv'
<1> SUFFICES ASSUME DeploymentInv, ResetInv, [DeploymentNext]_deploymentVars, boot' = "reset"
             PROVE  \A r \in Requests \ erased' : handler'[r] = "idle"
  BY DEF ResetInv
<1>1. CASE MigrateReset
  BY <1>1 DEF MigrateReset, BootMoves, EraseRows, apiVars
<1>2. CASE Runs
  <2>1. UNCHANGED <<boot, erased>> /\ api = "down"
    BY <1>2 DEF Runs, DeploymentInv, BootInv, TypeInv, TypeOK
  <2>. QED BY <1>2, <2>1, RunsTouch DEF ResetInv
<1>3. CASE UNCHANGED <<boot, erased, handler>>
  BY <1>3 DEF ResetInv
<1>4. api = "down" \/ UNCHANGED boot
  BY DEF DeploymentNext, Runs, ApiStops, ApiExits, WaitForRedis, FlushAll, MigrateReset,
     Bootstrap, BootFails, BootMoves, getWebhookStatus, bootVars, deploymentVars
<1>5. CASE ApiExits
  BY <1>5 DEF ApiExits, DeploymentInv, BootInv
<1>. QED
  BY <1>1, <1>2, <1>3, <1>5 DEF DeploymentNext, ApiStops, WaitForRedis, FlushAll, Bootstrap,
     BootFails, BootMoves, getWebhookStatus, bootVars, deploymentVars, vars, apiVars

\* A request that has not arrived has no row, no error, no job and no worker.
LEMMA IdleIsBlank ==
  ASSUME NEW R \in SUBSET Requests, RequestsInv(R), NEW r \in R, handler[r] = "idle"
  PROVE  /\ status[r] = "None" /\ errorText[r] = FALSE /\ job[r] = "none"
         /\ \A w \in Workers : wjob[w] = r => wpc[w] = "idle"
<1>1. job[r] = "none" /\ status[r] = "None"
  BY DEF RequestsInv, TypeInv, QueueInv, HandlerInv
<1>2. errorText[r] = FALSE
  BY <1>1 DEF RequestsInv, SettledInv, InDoubt, TypeInv, TypeOK
<1>. QED
  BY <1>1, <1>2 DEF RequestsInv, WorkerInv

LEMMA StepUntouchedInv ==
  ASSUME DeploymentInv, ResetInv, UntouchedInv, [DeploymentNext]_deploymentVars
  PROVE  UntouchedInv'
<1> SUFFICES ASSUME NEW R \in SUBSET Requests, Untouched(R)' PROVE RequestsInv(R)'
  BY DEF UntouchedInv
<1>0. TypeInv'
  BY StepDeploymentInv DEF DeploymentInv
<1>a. ASSUME Untouched(R), [Next]_vars PROVE RequestsInv(R)'
  BY <1>a, StepRequestsInv DEF UntouchedInv
<1>1. CASE Runs
  <2>1. UNCHANGED erased
    BY <1>1 DEF Runs
  <2>2. Untouched(R)
    BY <1>1, <2>1, RunsTouch DEF Untouched
  <2>. QED BY <1>1, <2>2, <1>a DEF Runs, Next
<1>2. CASE ApiExits
  <2>1. Untouched(R)
    BY <1>2 DEF ApiExits, Exit, Untouched, DeploymentInv, TypeInv, TypeOK
  <2>2. ApiCrash
    BY <1>2 DEF ApiExits, ApiCrash
  <2>. QED BY <2>1, <2>2, <1>a DEF Next, RunStep
<1>3. CASE Bootstrap
  <2>1. Untouched(R)
    BY <1>3 DEF Bootstrap, BootMoves, ResetInv, Untouched
  <2>. QED BY <1>3, <2>1, <1>a DEF Bootstrap, Next
<1>4. CASE UNCHANGED <<vars, erased>>
  <2>1. Untouched(R)
    BY <1>4 DEF Untouched, vars, apiVars
  <2>. QED BY <1>4, <2>1, <1>a
<1>5. CASE FlushAll
  <2>1. /\ UNCHANGED <<apiVars, rowVars, processed, workerVars>>
        /\ \A r \in R : handler[r] = "idle" /\ r \notin erased
    BY <1>5 DEF FlushAll, BootMoves, Untouched, apiVars
  <2>2. RequestsInv(R)
    BY <2>1 DEF Untouched, UntouchedInv
  <2>3. \A r \in R : job'[r] = job[r]
    BY <1>5, <2>1, <2>2, IdleIsBlank DEF FlushAll
  <2>. QED
    BY <1>0, <2>1, <2>2, <2>3 DEF RequestsInv, HandlerInv, AnswerInv, SettledInv, WorkerInv,
       InDoubt, apiVars, rowVars, workerVars
<1>6. ASSUME api = "down", EraseRows PROVE RequestsInv(R)'
  <2>1. /\ UNCHANGED <<apiVars, processed, queueVars, workerVars>>
        /\ \A r \in R : handler[r] = "idle"
    BY <1>6 DEF EraseRows, Untouched, apiVars
  <2>2. RequestsInv(R)
    BY <2>1 DEF Untouched, UntouchedInv, DeploymentInv, ErasedInv
  <2>3. \A r \in R : status'[r] = status[r] /\ errorText'[r] = errorText[r]
    BY <1>6, <2>1, <2>2, IdleIsBlank DEF EraseRows
  <2>. QED
    BY <1>0, <2>1, <2>2, <2>3 DEF RequestsInv, HandlerInv, AnswerInv, SettledInv, WorkerInv,
       InDoubt, apiVars, queueVars, workerVars
<1>. QED
  BY <1>1, <1>2, <1>3, <1>4, <1>5, <1>6 DEF DeploymentNext, ApiStops, WaitForRedis, MigrateReset,
     BootFails, BootMoves, getWebhookStatus, bootVars, deploymentVars

THEOREM InvariantUntouchedInv == DeploymentSpec => [](ResetInv /\ UntouchedInv)
<1>1. DeploymentInit => ResetInv /\ UntouchedInv
  <2> SUFFICES ASSUME DeploymentInit PROVE ResetInv /\ UntouchedInv
    OBVIOUS
  <2>1. TypeInv
    BY InitTypeInv DEF DeploymentInit
  <2>2. ResetInv
    BY DEF DeploymentInit, ResetInv
  <2>3. UntouchedInv
    BY <2>1, RequestsAssumption DEF DeploymentInit, Init, UntouchedInv, RequestsInv, HandlerInv,
       AnswerInv, SettledInv, WorkerInv, InDoubt, Requests
  <2>. QED BY <2>2, <2>3
<1>2. DeploymentInv /\ (ResetInv /\ UntouchedInv) /\ [DeploymentNext]_deploymentVars
        => (ResetInv /\ UntouchedInv)'
  BY StepResetInv, StepUntouchedInv
<1>. QED
  BY <1>1, <1>2, InvariantDeploymentInv, PTL DEF DeploymentSpec

\* A request that no reset has erased is served as WebhookRequests promises.
THEOREM ServedIsKept == DeploymentSpec => []KeptUnlessErased
<1>1. UntouchedInv => KeptUnlessErased
  <2> SUFFICES ASSUME UntouchedInv, api = "up", NEW r \in Requests \ erased PROVE Kept(r)
    BY DEF KeptUnlessErased
  <2>1. RequestsInv({r})
    BY DEF UntouchedInv, Untouched
  <2>. QED BY <2>1, PromisesKept DEF Kept
<1>. QED
  BY InvariantUntouchedInv, <1>1, PTL

\* Only a job in doubt moves the settled row of such a request.
THEOREM ServedRowsStay == DeploymentSpec => ServedStaysSettled
<1>1. DeploymentInv /\ UntouchedInv /\ [DeploymentNext]_deploymentVars =>
        [\A r \in Requests \ erased :
           api = "up" /\ status[r] \in {"Completed", "Failed"} /\ status'[r] # status[r]
             => InDoubt(r)]_deploymentVars
  <2> SUFFICES ASSUME UntouchedInv, DeploymentNext, NEW r \in Requests \ erased, api = "up",
                      status[r] \in {"Completed", "Failed"}, status'[r] # status[r]
               PROVE  InDoubt(r)
    BY DEF deploymentVars, vars, rowVars
  <2>1. RequestsInv({r})
    BY DEF UntouchedInv, Untouched
  <2>2. Runs
    BY DEF DeploymentNext, ApiStops, ApiExits, WaitForRedis, FlushAll, MigrateReset, Bootstrap,
       BootFails, BootMoves, getWebhookStatus, vars, rowVars
  <2>. QED BY <2>1, <2>2, SettledStep DEF Runs, Next
<1>. QED
  BY <1>1, InvariantDeploymentInv, InvariantUntouchedInv, PTL
     DEF DeploymentSpec, ServedStaysSettled
=============================================================================
