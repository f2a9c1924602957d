------------------------ MODULE WebhookRequestsProofs ------------------------
(***************************************************************************)
(* Proofs about WebhookRequests for any set of requests and workers, any   *)
(* number of attempts and any stall limit.                                 *)
(***************************************************************************)
EXTENDS WebhookRequests, TLAPS

-----------------------------------------------------------------------------
(* Types.  That attemptsMade stays within its limit needs to know who may  *)
(* fail a job: the worker that has the lock, and only of an active job.    *)

QueueInv ==
  /\ \A r \in Requests : lock[r] # NoWorker => job[r] = "active"
  /\ \A r \in Requests : job[r] # "failed" => attempts[r] < Attempts
  /\ \A w \in Workers : wpc[w] # "idle" => wjob[w] \in Requests
  /\ \A r \in Requests :
       handler[r] \in {"idle", "creating", "created", "publishing"} => job[r] = "none"

TypeInv == TypeOK /\ QueueInv

USE DEF HandlerStates, JobStates, WorkerStates

LEMMA InitTypeInv == Init => TypeInv
<1> SUFFICES ASSUME Init PROVE TypeInv
  OBVIOUS
<1>1. TypeOK
  BY LimitsAssumption DEF Init, TypeOK
<1>2. QueueInv
  BY LimitsAssumption DEF Init, QueueInv
<1>. QED BY <1>1, <1>2 DEF TypeInv

LEMMA StepTypeInv == TypeInv /\ [Next]_vars => TypeInv'
<1> SUFFICES ASSUME TypeInv, [Next]_vars PROVE TypeInv'
  OBVIOUS
<1> USE DEF TypeInv, TypeOK, QueueInv, apiVars, rowVars, queueVars, workerVars,
            HandlerMoves, Reply, createRequest, markAsCompleted, markAsFailed
<1>1. ASSUME NEW r \in Requests, Arrive(r) PROVE TypeInv'
  BY <1>1 DEF Arrive
<1>2. ASSUME NEW r \in Requests, CreateRow(r) PROVE TypeInv'
  BY <1>2 DEF CreateRow
<1>3. ASSUME NEW r \in Requests, CreateRowFails(r) PROVE TypeInv'
  BY <1>3 DEF CreateRowFails
<1>4. ASSUME NEW r \in Requests, Accept(r) PROVE TypeInv'
  BY <1>4 DEF Accept
<1>5. ASSUME NEW r \in Requests, Publish(r) PROVE TypeInv'
  BY <1>5 DEF Publish, AddJob
<1>6. ASSUME NEW r \in Requests, PublishFails(r) PROVE TypeInv'
  BY <1>6 DEF PublishFails, AddJob
<1>7. ASSUME NEW r \in Requests, MarkUnpublished(r) PROVE TypeInv'
  BY <1>7 DEF MarkUnpublished, Exit
<1>8. ASSUME NEW r \in Requests, StartRace(r) PROVE TypeInv'
  BY <1>8 DEF StartRace
<1>9. ASSUME NEW r \in Requests, TimerFires(r) PROVE TypeInv'
  BY <1>9 DEF TimerFires
<1>10. ASSUME NEW r \in Requests, NEW ok \in BOOLEAN, LookupEnds(r, ok) PROVE TypeInv'
  BY <1>10 DEF LookupEnds
<1>11. ASSUME NEW r \in Requests, CompleteSync(r) PROVE TypeInv'
  BY <1>11 DEF CompleteSync, ClearTimer
<1>12. ASSUME NEW r \in Requests, CompleteSyncFails(r) PROVE TypeInv'
  BY <1>12 DEF CompleteSyncFails
<1>13. ASSUME NEW r \in Requests, FailSync(r) PROVE TypeInv'
  <2>1. /\ status' \in [Requests -> {"None", "Pending", "Completed", "Failed"}]
        /\ errorText' \in [Requests -> BOOLEAN]
    BY <1>13 DEF FailSync
  <2>2. TypeOK'
    BY <1>13, <2>1 DEF FailSync, ClearTimer
  <2>3. QueueInv'
    BY <1>13 DEF FailSync
  <2>. QED BY <2>2, <2>3
<1>14. CASE ApiCrash
  BY <1>14 DEF ApiCrash, Exit
<1>15. CASE ApiRestart
  BY <1>15 DEF ApiRestart
<1>16. ASSUME NEW r \in Requests, Stall(r) PROVE TypeInv'
  BY <1>16, LimitsAssumption DEF Stall
<1>17. ASSUME NEW r \in Requests, Promote(r) PROVE TypeInv'
  BY <1>17 DEF Promote
<1>18. ASSUME NEW w \in Workers, NEW r \in Requests, Take(w, r) PROVE TypeInv'
  BY <1>18 DEF Take
<1>19. ASSUME NEW w \in Workers, NEW from \in WorkerStates \ {"idle"},
              NEW to \in WorkerStates, Progress(w, from, to) PROVE TypeInv'
  BY <1>19 DEF Progress, WorkerMoves
<1>20. ASSUME NEW w \in Workers, Process(w) PROVE TypeInv'
  BY <1>20 DEF Process, WorkerMoves
<1>21. ASSUME NEW w \in Workers, MarkCompleted(w) PROVE TypeInv'
  BY <1>21 DEF MarkCompleted, WorkerMoves
<1>22. ASSUME NEW w \in Workers, ProcessThrows(w) PROVE TypeInv'
  BY <1>22 DEF ProcessThrows, WorkerMoves
<1>23. ASSUME NEW w \in Workers, FinishJob(w) PROVE TypeInv'
  BY <1>23, WorkersAssumption DEF FinishJob, Owns, WorkerIdles
<1>24. ASSUME NEW w \in Workers, FailJob(w) PROVE TypeInv'
  <2>1. wjob[w] \in Requests
    BY <1>24 DEF FailJob
  <2>2. TypeOK'
    BY <1>24, <2>1, WorkersAssumption, LimitsAssumption DEF FailJob, Owns, WorkerIdles
  <2>3. QueueInv'
    BY <1>24, <2>1, WorkersAssumption, LimitsAssumption DEF FailJob, Owns, WorkerIdles
  <2>. QED BY <2>2, <2>3
<1>25. ASSUME NEW w \in Workers, WorkerCrash(w) PROVE TypeInv'
  BY <1>25 DEF WorkerCrash, WorkerIdles
<1>26. CASE UNCHANGED vars
  BY <1>26 DEF vars
<1>. QED
  BY <1>1, <1>2, <1>3, <1>4, <1>5, <1>6, <1>7, <1>8, <1>9, <1>10, <1>11, <1>12,
     <1>13, <1>14, <1>15, <1>16, <1>17, <1>18, <1>19, <1>20, <1>21, <1>22, <1>23,
     <1>24, <1>25, <1>26
     DEF Next, RunStep, HandlerStep, LookupStep, WorkerStep, RecoverStalled, LoseLock

THEOREM TypeCorrect == Spec => []TypeOK
<1>1. TypeInv => TypeOK
  BY DEF TypeInv
<1>. QED
  BY InitTypeInv, StepTypeInv, <1>1, PTL DEF Spec

-----------------------------------------------------------------------------
(* The inductive invariant: what each point of a handler and of process()  *)
(* knows about the row, the answer and the job.                            *)

\* The invariant speaks of the requests R only: all of them here, and in
\* Deployment those that no reset has erased.

\* Which handlers, jobs and lookups a request can have, and where they leave
\* the row.
HandlerInv(R) == \A r \in R :
  /\ r \in SyncRequests => handler[r] \notin {"publishing", "unpublished"} /\ job[r] = "none"
  /\ r \in AsyncRequests =>
       handler[r] \notin {"racing", "completing", "failing"} /\ lookup[r] = "none"
  /\ handler[r] \in {"idle", "creating"} => status[r] = "None"
  /\ handler[r] \in {"created", "publishing", "racing", "completing"} => status[r] = "Pending"
  /\ handler[r] = "racing" => lookup[r] = "running"
  /\ job[r] # "none" \/ lookup[r] # "none" => status[r] # "None"
  /\ api = "down" => handler[r] \in {"idle", "done", "lost"}

\* What the client has been told.
AnswerInv(R) ==
  /\ \A r \in R :
       handler[r] \in {"idle", "creating", "created", "racing", "completing", "failing"}
         => response[r] = "none"
  /\ \A r \in AsyncRequests \intersect R :
       /\ handler[r] \in {"publishing", "unpublished"} \/ job[r] # "none" => response[r] = "202"
       /\ response[r] = "500" => status[r] = "None"
       /\ handler[r] = "done" => response[r] \in {"202", "500"}
       /\ handler[r] = "done" /\ response[r] = "202" => job[r] # "none"
  /\ \A r \in SyncRequests \intersect R :
       /\ response[r] # "none" => handler[r] = "done"
       /\ handler[r] = "done" => response[r] \in {"200", "500"}
       /\ status[r] = "Completed" <=> response[r] = "200"
       /\ status[r] = "Failed" => response[r] = "500"

\* Where a settled row comes from.
SettledInv(R) == \A r \in R :
  /\ handler[r] = "completing" \/ status[r] = "Completed" => processed[r]
  /\ r \in AsyncRequests /\ status[r] = "Completed" => job[r] # "none"
  /\ r \in AsyncRequests /\ status[r] = "Failed" => handler[r] = "lost"
  /\ job[r] = "completed" => status[r] \in {"Completed", "Failed"}
  /\ status[r] = "Failed" => errorText[r]
  /\ errorText[r] => status[r] = "Failed" \/ InDoubt(r)

\* What process() knows of the request of its job, whoever else runs it too.
WorkerInv(R) == \A w \in Workers :
  wjob[w] \in R =>
    /\ wpc[w] # "idle" => job[wjob[w]] # "none"
    /\ wpc[w] \in {"report", "mark", "final", "return"} => processed[wjob[w]]
    /\ wpc[w] \in {"final", "return"} => status[wjob[w]] \in {"Completed", "Failed"}

RequestsInv(R) == TypeInv /\ HandlerInv(R) /\ AnswerInv(R) /\ SettledInv(R) /\ WorkerInv(R)

IInv == RequestsInv(Requests)

LEMMA StepRequestsInv ==
  ASSUME NEW R \in SUBSET Requests, RequestsInv(R), [Next]_vars
  PROVE  RequestsInv(R)'
<1> USE RequestsAssumption, WorkersAssumption
<1> USE DEF TypeInv, TypeOK, QueueInv, HandlerInv, AnswerInv, SettledInv, WorkerInv,
            InDoubt, Requests, apiVars, rowVars, queueVars, workerVars,
            HandlerMoves, Reply, createRequest, markAsCompleted, markAsFailed
<1> DEFINE Goal == (HandlerInv(R) /\ AnswerInv(R) /\ SettledInv(R) /\ WorkerInv(R))'
<1>0. TypeInv'
  BY StepTypeInv DEF RequestsInv
<1>1. ASSUME NEW r \in Requests, Arrive(r) PROVE Goal
  BY <1>0, <1>1 DEF RequestsInv, Arrive
<1>2. ASSUME NEW r \in Requests, CreateRow(r) PROVE Goal
  BY <1>0, <1>2 DEF RequestsInv, CreateRow
<1>3. ASSUME NEW r \in Requests, CreateRowFails(r) PROVE Goal
  BY <1>0, <1>3 DEF RequestsInv, CreateRowFails
<1>4. ASSUME NEW r \in Requests, Accept(r) PROVE Goal
  BY <1>0, <1>4 DEF RequestsInv, Accept
<1>5. ASSUME NEW r \in Requests, Publish(r) PROVE Goal
  BY <1>0, <1>5 DEF RequestsInv, Publish, AddJob
<1>6. ASSUME NEW r \in Requests, PublishFails(r) PROVE Goal
  BY <1>0, <1>6 DEF RequestsInv, PublishFails, AddJob
<1>7. ASSUME NEW r \in Requests, MarkUnpublished(r) PROVE Goal
  BY <1>0, <1>7 DEF RequestsInv, MarkUnpublished, Exit
<1>8. ASSUME NEW r \in Requests, StartRace(r) PROVE Goal
  BY <1>0, <1>8 DEF RequestsInv, StartRace
<1>9. ASSUME NEW r \in Requests, TimerFires(r) PROVE Goal
  BY <1>0, <1>9 DEF RequestsInv, TimerFires
<1>10. ASSUME NEW r \in Requests, NEW ok \in BOOLEAN, LookupEnds(r, ok) PROVE Goal
  BY <1>0, <1>10 DEF RequestsInv, LookupEnds
<1>11. ASSUME NEW r \in Requests, CompleteSync(r) PROVE Goal
  BY <1>0, <1>11 DEF RequestsInv, CompleteSync, ClearTimer
<1>12. ASSUME NEW r \in Requests, CompleteSyncFails(r) PROVE Goal
  BY <1>0, <1>12 DEF RequestsInv, CompleteSyncFails
<1>13. ASSUME NEW r \in Requests, FailSync(r) PROVE Goal
  BY <1>0, <1>13 DEF RequestsInv, FailSync, ClearTimer
<1>14. ASSUME ApiCrash PROVE Goal
  BY <1>0, <1>14 DEF RequestsInv, ApiCrash, Exit
<1>15. ASSUME ApiRestart PROVE Goal
  BY <1>0, <1>15 DEF RequestsInv, ApiRestart
<1>16. ASSUME NEW r \in Requests, Stall(r) PROVE Goal
  BY <1>0, <1>16 DEF RequestsInv, Stall
<1>17. ASSUME NEW r \in Requests, Promote(r) PROVE Goal
  BY <1>0, <1>17 DEF RequestsInv, Promote
<1>18. ASSUME NEW w \in Workers, NEW r \in Requests, Take(w, r) PROVE Goal
  BY <1>0, <1>18 DEF RequestsInv, Take
<1>19. ASSUME NEW w \in Workers, NEW from \in {"begin", "report", "final"},
              NEW to \in WorkerStates, Progress(w, from, to),
              from = "begin" => to = "process",
              from = "report" => to = "mark", from = "final" => to = "return" PROVE Goal
  BY <1>0, <1>19 DEF RequestsInv, Progress, WorkerMoves
<1>20. ASSUME NEW w \in Workers, Process(w) PROVE Goal
  BY <1>0, <1>20 DEF RequestsInv, Process, WorkerMoves
<1>21. ASSUME NEW w \in Workers, MarkCompleted(w) PROVE Goal
  BY <1>0, <1>21 DEF RequestsInv, MarkCompleted, WorkerMoves
<1>22. ASSUME NEW w \in Workers, ProcessThrows(w) PROVE Goal
  BY <1>0, <1>22 DEF RequestsInv, ProcessThrows, WorkerMoves
<1>23. ASSUME NEW w \in Workers, FinishJob(w) PROVE Goal
  BY <1>0, <1>23 DEF RequestsInv, FinishJob, Owns, WorkerIdles
<1>24. ASSUME NEW w \in Workers, FailJob(w) PROVE Goal
  BY <1>0, <1>24 DEF RequestsInv, FailJob, Owns, WorkerIdles
<1>25. ASSUME NEW w \in Workers, WorkerCrash(w) PROVE Goal
  BY <1>0, <1>25 DEF RequestsInv, WorkerCrash, WorkerIdles
<1>26. ASSUME UNCHANGED vars PROVE Goal
  BY <1>26 DEF RequestsInv, vars
<1>27. Goal
  BY <1>1, <1>2, <1>3, <1>4, <1>5, <1>6, <1>7, <1>8, <1>9, <1>10, <1>11, <1>12, <1>13, <1>14, <1>15, <1>16, <1>17, <1>18, <1>19, <1>20, <1>21, <1>22, <1>23, <1>24, <1>25, <1>26
     DEF Next, RunStep, HandlerStep, LookupStep, WorkerStep, RecoverStalled, LoseLock
<1>. QED BY <1>0, <1>27 DEF RequestsInv

THEOREM InvariantIInv == Spec => []IInv
<1>1. Init => IInv
  <2> SUFFICES ASSUME Init PROVE IInv
    OBVIOUS
  <2>1. TypeInv
    BY InitTypeInv
  <2>2. HandlerInv(Requests) /\ AnswerInv(Requests) /\ SettledInv(Requests) /\ WorkerInv(Requests)
    BY DEF Init, HandlerInv, AnswerInv, SettledInv, WorkerInv, InDoubt, Requests
  <2>. QED BY <2>1, <2>2 DEF IInv, RequestsInv
<1>2. IInv /\ [Next]_vars => IInv'
  BY StepRequestsInv DEF IInv
<1>. QED
  BY <1>1, <1>2, PTL DEF Spec

-----------------------------------------------------------------------------
(* The properties.                                                         *)

\* What the invariant of some requests says of each of them.
LEMMA PromisesKept ==
  ASSUME NEW R \in SUBSET Requests, RequestsInv(R), NEW r \in R
  PROVE  /\ WasProcessed(r) /\ JobSettles(r) /\ IsOwed(r) /\ TellsFailure(r)
         /\ r \in SyncRequests => AnswerAgrees(r)
<1> USE RequestsAssumption DEF RequestsInv
<1>1. WasProcessed(r) /\ JobSettles(r) /\ TellsFailure(r)
  BY DEF SettledInv, WasProcessed, JobSettles, TellsFailure
<1>2. r \in SyncRequests => AnswerAgrees(r)
  BY DEF AnswerInv, AnswerAgrees
<1>3. IsOwed(r)
  <2> SUFFICES ASSUME status[r] = "Pending", ~InFlight(r), handler[r] # "lost"
               PROVE  \/ r \in SyncRequests /\ response[r] = "500"
                      \/ r \in AsyncRequests /\ job[r] \in {"waiting", "active", "delayed", "failed"}
    BY DEF IsOwed
  <2>1. handler[r] = "done"
    BY DEF TypeInv, TypeOK, HandlerInv, InFlight
  <2>2. CASE r \in SyncRequests
    BY <2>1, <2>2 DEF AnswerInv
  <2>3. CASE r \in AsyncRequests
    <3>1. job[r] # "none"
      BY <2>1, <2>3 DEF AnswerInv
    <3>2. job[r] # "completed"
      BY DEF SettledInv
    <3>. QED BY <2>3, <3>1, <3>2 DEF TypeInv, TypeOK
  <2>. QED BY <2>2, <2>3 DEF Requests
<1>. QED BY <1>1, <1>2, <1>3

\* No row says Completed whose lookups have all failed.
THEOREM CompletedIsProcessed == Spec => []CompletedWasProcessed
<1>1. IInv => CompletedWasProcessed
  BY PromisesKept DEF IInv, CompletedWasProcessed
<1>. QED
  BY InvariantIInv, <1>1, PTL

\* The sync answer and the row agree.
THEOREM SyncAnswersAgree == Spec => []SyncAnswerAgreesWithRow
<1>1. IInv => SyncAnswerAgreesWithRow
  BY PromisesKept DEF IInv, SyncAnswerAgreesWithRow, Requests
<1>. QED
  BY InvariantIInv, <1>1, PTL

\* No sync handler waits for what has already happened.
THEOREM RacesAreOpen == Spec => []RaceIsOpen
<1>1. IInv => RaceIsOpen
  BY DEF IInv, RequestsInv, HandlerInv, RaceIsOpen, Requests
<1>. QED
  BY InvariantIInv, <1>1, PTL

\* A job leaves the queue by completion only with its row settled.
THEOREM CompletedJobsSettle == Spec => []CompletedJobSettlesRow
<1>1. IInv => CompletedJobSettlesRow
  BY PromisesKept DEF IInv, CompletedJobSettlesRow
<1>. QED
  BY InvariantIInv, <1>1, PTL

\* Nobody lets go of a Pending row except in the three listed ways.
THEOREM PendingRowsAreOwed == Spec => []PendingIsOwed
<1>1. IInv => PendingIsOwed
  BY PromisesKept DEF IInv, PendingIsOwed
<1>. QED
  BY InvariantIInv, <1>1, PTL

\* The status and the error of a row disagree only in doubt.
THEOREM ErrorsTellFailure == Spec => []ErrorTellsFailure
<1>1. IInv => ErrorTellsFailure
  BY PromisesKept DEF IInv, ErrorTellsFailure
<1>. QED
  BY InvariantIInv, <1>1, PTL

\* The only writes to a settled row are those of markAsCompleted in a worker
\* and markAsFailed after a failed publication: the invariant says that each
\* finds it as it would leave it, or finds the request in doubt.
LEMMA SettledStep ==
  ASSUME NEW R \in SUBSET Requests, RequestsInv(R), Next, NEW r \in R,
         status[r] \in {"Completed", "Failed"}, status'[r] # status[r]
  PROVE  InDoubt(r)
<1> USE RequestsAssumption
<1> USE DEF RequestsInv, TypeInv, TypeOK, QueueInv, HandlerInv, AnswerInv, SettledInv,
            WorkerInv, Requests, InDoubt, rowVars, HandlerMoves, createRequest,
            markAsCompleted, markAsFailed
<1>1. ASSUME NEW q \in Requests, HandlerStep(q) PROVE InDoubt(r)
  BY <1>1 DEF HandlerStep, CreateRow, CreateRowFails, Accept, Publish, PublishFails,
     MarkUnpublished, StartRace, CompleteSync, CompleteSyncFails, FailSync
<1>2. ASSUME NEW w \in Workers, WorkerStep(w) PROVE InDoubt(r)
  BY <1>2 DEF WorkerStep, Progress, Process, MarkCompleted, ProcessThrows, FinishJob,
     FailJob, WorkerMoves
<1>3. CASE UNCHANGED status
  BY <1>3
<1>. QED
  BY <1>1, <1>2, <1>3 DEF Next, RunStep, Arrive, TimerFires, LookupStep, LookupEnds,
     RecoverStalled, LoseLock, Stall, Promote, Take, WorkerCrash, ApiCrash, ApiRestart

\* A settled row changes only if the request is in doubt.
THEOREM SettledRowsStay == Spec => SettledStaysSettled
<1>1. IInv /\ [Next]_vars =>
        [\A r \in Requests : status[r] \in {"Completed", "Failed"} /\ status'[r] # status[r]
           => InDoubt(r)]_vars
  BY SettledStep DEF IInv
<1>. QED
  BY <1>1, InvariantIInv, PTL DEF Spec, SettledStaysSettled

-----------------------------------------------------------------------------
(* The jobs.                                                               *)

\* A rank is a natural number, so that a job cannot advance for ever.
LEMMA JobRankIsNatural ==
  ASSUME TypeInv, NEW r \in Requests
  PROVE  JobRank(r) \in Nat /\ (job[r] \notin {"completed", "failed"} => JobRank(r) > 0)
<1>1. /\ attempts[r] \in 0 .. Attempts /\ stalls[r] \in 0 .. MaxStalled
      /\ Attempts \in Nat /\ MaxStalled \in Nat
  BY LimitsAssumption DEF TypeInv, TypeOK
<1>. QED BY <1>1 DEF JobRank

LEMMA StepAdvances ==
  ASSUME TypeInv, [Next]_vars, NEW r \in Requests, job[r] # "none", job'[r] # job[r]
  PROVE  JobRank(r)' < JobRank(r)
<1>1. /\ attempts[r] \in 0 .. Attempts /\ stalls[r] \in 0 .. MaxStalled
      /\ Attempts \in Nat /\ MaxStalled \in Nat
  BY LimitsAssumption DEF TypeInv, TypeOK
<1> USE DEF TypeInv, TypeOK, QueueInv
<1>2. CASE Stall(r)
  <2>1. \/ job'[r] = "waiting" /\ stalls'[r] = stalls[r] + 1
        \/ job'[r] = "failed"
    BY <1>2 DEF Stall
  <2>. QED BY <1>1, <1>2, <2>1 DEF Stall, JobRank
<1>3. CASE Promote(r)
  BY <1>1, <1>3 DEF Promote, JobRank
<1>4. ASSUME NEW w \in Workers, Take(w, r) PROVE JobRank(r)' < JobRank(r)
  BY <1>1, <1>4 DEF Take, JobRank
<1>5. ASSUME NEW w \in Workers, wjob[w] = r, Owns(w, r), FinishJob(w) \/ FailJob(w)
      PROVE  JobRank(r)' < JobRank(r)
  <2>1. job[r] = "active"
    BY <1>5, WorkersAssumption DEF Owns
  <2>2. \/ job'[r] \in {"completed", "failed"}
        \/ job'[r] = "delayed" /\ attempts'[r] = attempts[r] + 1 /\ UNCHANGED stalls
    BY <1>5 DEF FinishJob, FailJob
  <2>. QED BY <1>1, <2>1, <2>2 DEF JobRank
<1>6. ASSUME NEW w \in Workers, FinishJob(w) \/ FailJob(w)
      PROVE  wjob[w] = r /\ Owns(w, r)
  BY <1>6 DEF FinishJob, FailJob, Owns
<1>7. ASSUME NEW q \in Requests, Publish(q) \/ PublishFails(q) PROVE FALSE
  BY <1>7 DEF Publish, PublishFails, AddJob, HandlerMoves, queueVars
<1>8. ASSUME NEW q \in Requests, q # r, Stall(q) \/ Promote(q) \/ \E w \in Workers : Take(w, q)
      PROVE  FALSE
  BY <1>8 DEF Stall, Promote, Take
<1>9. job' # job
  OBVIOUS
<1>. QED
  BY <1>2, <1>3, <1>4, <1>5, <1>6, <1>7, <1>8, <1>9
     DEF Next, RunStep, Arrive, HandlerStep, CreateRow, CreateRowFails, Accept, MarkUnpublished,
         StartRace, CompleteSync, CompleteSyncFails, FailSync, TimerFires, LookupStep, LookupEnds,
         RecoverStalled, LoseLock, WorkerStep, Progress, Process, MarkCompleted, ProcessThrows,
         WorkerCrash, ApiCrash, ApiRestart, vars, queueVars

\* Deliveries are bounded, however stalls and failed attempts follow one
\* another.
THEOREM JobsOnlyAdvance == Spec => JobsAdvance
<1>1. TypeInv /\ [Next]_vars =>
        [\A r \in Requests :
           job[r] # "none" /\ job'[r] # job[r] => JobRank(r)' < JobRank(r)]_vars
  BY StepAdvances
<1>. QED
  BY <1>1, InitTypeInv, StepTypeInv, PTL DEF Spec, JobsAdvance

-----------------------------------------------------------------------------
(* WebhookRequests implements RequestLifecycle.                            *)

\* Only a publication that fails although the job was added puts a request
\* in doubt, and it stays there.
LEMMA DoubtStays ==
  ASSUME IInv, Next, \A r \in Requests : ~PublishFails(r)
  PROVE  \A r \in Requests : InDoubt(r)' = InDoubt(r)
<1> USE RequestsAssumption
<1> USE DEF IInv, RequestsInv, TypeInv, TypeOK, QueueInv, HandlerInv, AnswerInv, WorkerInv, Requests,
            InDoubt, queueVars, HandlerMoves, Reply
<1> TAKE q \in Requests
<1>1. ASSUME NEW r \in Requests, Arrive(r) \/ HandlerStep(r) \/ TimerFires(r) \/ LookupStep(r)
      PROVE  InDoubt(q)' = InDoubt(q)
  BY <1>1 DEF Arrive, HandlerStep, CreateRow, CreateRowFails, Accept, Publish, AddJob,
     MarkUnpublished, Exit, StartRace, CompleteSync, CompleteSyncFails, FailSync,
     TimerFires, LookupStep, LookupEnds
<1>2. ASSUME NEW r \in Requests,
             Stall(r) \/ Promote(r) \/ \E w \in Workers : Take(w, r)
      PROVE  InDoubt(q)' = InDoubt(q)
  BY <1>2 DEF Stall, Promote, Take, apiVars
<1>3. ASSUME NEW w \in Workers, WorkerStep(w) \/ WorkerCrash(w)
      PROVE  InDoubt(q)' = InDoubt(q)
  BY <1>3 DEF WorkerStep, WorkerCrash, Progress, Process, MarkCompleted, ProcessThrows,
     FinishJob, FailJob, WorkerMoves, apiVars
<1>4. CASE ApiCrash \/ ApiRestart
  BY <1>4 DEF ApiCrash, ApiRestart, Exit
<1>. QED
  BY <1>1, <1>2, <1>3, <1>4 DEF Next, RunStep, RecoverStalled, LoseLock

\* Every step of the program is a step of the request's life or none.
LEMMA StepLifecycle ==
  IInv /\ [Next]_vars => [Lifecycle!Next]_(Lifecycle!lifecycle)
<1> SUFFICES ASSUME IInv, [Next]_vars PROVE [Lifecycle!Next]_(Lifecycle!lifecycle)
  OBVIOUS
<1> USE RequestsAssumption, WorkersAssumption
<1> DEFINE D == [r \in Requests |-> InDoubt(r)]
<1> USE DEF IInv, RequestsInv, TypeInv, TypeOK, QueueInv, Requests, Lifecycle!Requests, Lifecycle!Sets,
            rowVars, HandlerMoves, Reply, createRequest, markAsCompleted, markAsFailed
<1>1. CASE UNCHANGED vars
  BY <1>1 DEF vars, apiVars, queueVars, Lifecycle!lifecycle, InDoubt
<1>2. ASSUME Next, NEW r \in Requests, PublishFails(r)
      PROVE  [Lifecycle!Next]_(Lifecycle!lifecycle)
  <2>1. CASE AddJob(r)
    <3>a. InDoubt(r)' = TRUE
      BY <1>2, <2>1 DEF PublishFails, AddJob, InDoubt, HandlerInv
    <3>b. \A q \in Requests \ {r} : InDoubt(q)' = InDoubt(q)
      BY <1>2, <2>1 DEF PublishFails, AddJob, InDoubt
    <3>1. D' = [D EXCEPT ![r] = TRUE]
      BY <3>a, <3>b, Zenon
    <3>2. Lifecycle!Doubt(r)
      BY <1>2, <2>1, <3>1 DEF PublishFails, Lifecycle!Doubt, HandlerInv, AnswerInv
    <3>. QED BY <3>2 DEF Lifecycle!Next
  <2>2. CASE UNCHANGED queueVars
    <3>1. D' = D
      BY <1>2, <2>2 DEF PublishFails, queueVars, InDoubt, HandlerInv
    <3>. QED BY <1>2, <3>1 DEF PublishFails, Lifecycle!lifecycle
  <2>. QED BY <1>2, <2>1, <2>2 DEF PublishFails
<1>3. ASSUME Next, \A r \in Requests : ~PublishFails(r)
      PROVE  [Lifecycle!Next]_(Lifecycle!lifecycle)
  <2>0. D' = D
    BY <1>3, DoubtStays
  <2>1. ASSUME NEW r \in Requests, CreateRow(r) PROVE Lifecycle!Next
    BY <2>0, <2>1 DEF CreateRow, HandlerInv, Lifecycle!Record, Lifecycle!Next
  <2>2. ASSUME NEW r \in Requests, CreateRowFails(r)
        PROVE  Lifecycle!Next \/ UNCHANGED Lifecycle!lifecycle
    BY <2>0, <2>2 DEF CreateRowFails, HandlerInv, AnswerInv, Lifecycle!Refuse,
       Lifecycle!Next, Lifecycle!lifecycle
  <2>3. ASSUME NEW r \in Requests, Accept(r) PROVE Lifecycle!Next
    BY <2>0, <2>3 DEF Accept, HandlerInv, AnswerInv, Lifecycle!Accept, Lifecycle!Next
  <2>4. ASSUME NEW r \in Requests, MarkUnpublished(r)
        PROVE  Lifecycle!Next \/ UNCHANGED Lifecycle!lifecycle
    <3>1. r \in AsyncRequests /\ response[r] = "202"
      BY <2>4 DEF MarkUnpublished, HandlerInv, AnswerInv
    <3>2. status[r] = "Pending" \/ InDoubt(r) \/ status[r] = "Failed" \/ status[r] = "None"
      BY <2>4, <3>1 DEF MarkUnpublished, SettledInv, InDoubt
    <3>3. CASE UNCHANGED rowVars
      BY <2>0, <2>4, <3>3 DEF MarkUnpublished, Exit, Lifecycle!lifecycle
    <3>4. CASE markAsFailed(r) /\ status[r] # "Failed"
      <4>1. Lifecycle!Settle(r, "Failed")
        BY <2>0, <2>4, <3>1, <3>2, <3>4 DEF MarkUnpublished, Exit, Lifecycle!Settle
      <4>. QED BY <4>1 DEF Lifecycle!Next
    <3>5. CASE markAsFailed(r) /\ status[r] = "Failed"
      BY <2>0, <2>4, <3>5 DEF MarkUnpublished, Exit, Lifecycle!lifecycle
    <3>. QED BY <2>4, <3>3, <3>4, <3>5 DEF MarkUnpublished
  <2>5. ASSUME NEW r \in Requests, NEW ok \in BOOLEAN, LookupEnds(r, ok)
        PROVE  Lifecycle!Next \/ UNCHANGED Lifecycle!lifecycle
    <3>1. status[r] # "None"
      BY <2>5 DEF LookupEnds, HandlerInv
    <3>2. CASE ok
      BY <2>0, <2>5, <3>1, <3>2 DEF LookupEnds, Lifecycle!Work, Lifecycle!Next
    <3>3. CASE ~ok
      BY <2>0, <2>5, <3>3 DEF LookupEnds, Lifecycle!lifecycle
    <3>. QED BY <3>2, <3>3
  <2>6. ASSUME NEW r \in Requests, CompleteSync(r) PROVE Lifecycle!Next
    <3>1. r \in SyncRequests /\ status[r] = "Pending" /\ response[r] = "none" /\ processed[r]
      BY <2>6 DEF CompleteSync, HandlerInv, AnswerInv, SettledInv
    <3>. QED
      BY <2>0, <2>6, <3>1 DEF CompleteSync, Lifecycle!AnswerCompleted, Lifecycle!Next
  <2>7. ASSUME NEW r \in Requests, FailSync(r) PROVE Lifecycle!Next
    <3>1. r \in SyncRequests /\ response[r] = "none" /\ status[r] \in {"None", "Pending"}
      BY <2>7 DEF FailSync, HandlerInv, AnswerInv
    <3>2. CASE status[r] = "None"
      BY <2>0, <2>7, <3>1, <3>2 DEF FailSync, Lifecycle!Refuse, Lifecycle!Next
    <3>3. CASE status[r] = "Pending"
      <4>1. \E outcome \in {"Failed", "Pending"} : status' = [status EXCEPT ![r] = outcome]
        BY <2>7, <3>3 DEF FailSync
      <4>. QED
        BY <2>0, <2>7, <3>1, <3>3, <4>1 DEF FailSync, Lifecycle!AnswerFailed, Lifecycle!Next
    <3>. QED BY <3>1, <3>2, <3>3
  <2>8. ASSUME NEW w \in Workers, Process(w) PROVE Lifecycle!Next
    <3>1. wjob[w] \in Requests /\ status[wjob[w]] # "None"
      BY <2>8 DEF Process, WorkerMoves, WorkerInv, HandlerInv
    <3>. QED
      BY <2>0, <2>8, <3>1 DEF Process, apiVars, Lifecycle!Work, Lifecycle!Next
  <2>9. ASSUME NEW w \in Workers, MarkCompleted(w)
        PROVE  Lifecycle!Next \/ UNCHANGED Lifecycle!lifecycle
    <3> DEFINE r == wjob[w]
    <3>1. r \in AsyncRequests /\ job[r] # "none" /\ processed[r] /\ response[r] = "202"
      BY <2>9 DEF MarkCompleted, WorkerMoves, WorkerInv, HandlerInv, AnswerInv
    <3>2. CASE status[r] = "Completed"
      BY <2>0, <2>9, <3>1, <3>2 DEF MarkCompleted, apiVars, Lifecycle!lifecycle
    <3>3. CASE status[r] # "Completed"
      <4>1. status[r] = "Pending" \/ InDoubt(r)
        BY <2>9, <3>1, <3>3 DEF MarkCompleted, SettledInv, InDoubt
      <4>2. Lifecycle!Settle(r, "Completed")
        BY <2>0, <2>9, <3>1, <4>1 DEF MarkCompleted, apiVars, Lifecycle!Settle
      <4>. QED BY <3>1, <4>2 DEF Lifecycle!Next
    <3>. QED BY <3>2, <3>3
  <2>10. CASE UNCHANGED <<status, response, processed>>
    BY <2>0, <2>10 DEF Lifecycle!lifecycle
  <2>. QED
    BY <1>3, <2>1, <2>2, <2>3, <2>4, <2>5, <2>6, <2>7, <2>8, <2>9, <2>10
       DEF Next, RunStep, HandlerStep, LookupStep, WorkerStep, Arrive, Publish, StartRace, TimerFires,
           CompleteSyncFails, ApiCrash, ApiRestart, Exit, RecoverStalled, LoseLock, Stall,
           Promote, Take, Progress, ProcessThrows, FinishJob, FailJob, WorkerCrash, apiVars
<1>. QED
  BY <1>1, <1>2, <1>3

\* A client that knows RequestLifecycle knows everything the row, the answer
\* and the work of its request can do.
THEOREM ImplementsLifecycle == Spec => LifecycleSpec
<1>1. Init => Lifecycle!Init
    BY DEF Init, Lifecycle!Init, Lifecycle!Requests, Requests, InDoubt
<1>. QED
  BY <1>1, StepLifecycle, InvariantIInv, PTL DEF Spec, LifecycleSpec, Lifecycle!Spec
=============================================================================
