--------------------------- MODULE RequestLifecycle ---------------------------
(***************************************************************************)
(* What a client of the webhook endpoints is promised about a request,     *)
(* whatever happens in the API process, the queue and the workers: in which *)
(* order the row, the work and the HTTP answer can change.                 *)
(***************************************************************************)
CONSTANTS AsyncRequests, SyncRequests

Requests == AsyncRequests \union SyncRequests

VARIABLES
  row,     \* what GET /webhook/:uuid reports ("None": 404)
  answer,  \* what the POST was answered
  worked,  \* a landmark lookup for the request has succeeded
  doubt    \* the API was told that queueing failed, and the job is queued

lifecycle == <<row, answer, worked, doubt>>

Init ==
  /\ row = [r \in Requests |-> "None"]
  /\ answer = [r \in Requests |-> "none"]
  /\ worked = [r \in Requests |-> FALSE]
  /\ doubt = [r \in Requests |-> FALSE]

Sets(f, g, r, v) == g = [f EXCEPT ![r] = v]

Record(r) ==
  /\ row[r] = "None"
  /\ Sets(row, row', r, "Pending")
  /\ UNCHANGED <<answer, worked, doubt>>

Refuse(r) ==
  /\ row[r] = "None" /\ answer[r] = "none"
  /\ Sets(answer, answer', r, "500")
  /\ UNCHANGED <<row, worked, doubt>>

\* A request is accepted only once it can be polled.
Accept(r) ==
  /\ r \in AsyncRequests
  /\ row[r] # "None" /\ answer[r] = "none"
  /\ Sets(answer, answer', r, "202")
  /\ UNCHANGED <<row, worked, doubt>>

Doubt(r) ==
  /\ r \in AsyncRequests /\ answer[r] = "202"
  /\ Sets(doubt, doubt', r, TRUE)
  /\ UNCHANGED <<row, answer, worked>>

Work(r) ==
  /\ row[r] # "None"
  /\ Sets(worked, worked', r, TRUE)
  /\ UNCHANGED <<row, answer, doubt>>

\* An accepted request is settled once; only doubt lets it be settled again.
Settle(r, outcome) ==
  /\ r \in AsyncRequests /\ answer[r] = "202"
  /\ row[r] = "Pending" \/ doubt[r]
  /\ outcome = "Completed" => worked[r]
  /\ Sets(row, row', r, outcome)
  /\ UNCHANGED <<answer, worked, doubt>>

\* A sync request is settled in the step that answers it.
AnswerCompleted(r) ==
  /\ r \in SyncRequests
  /\ row[r] = "Pending" /\ answer[r] = "none" /\ worked[r]
  /\ Sets(row, row', r, "Completed")
  /\ Sets(answer, answer', r, "200")
  /\ UNCHANGED <<worked, doubt>>

AnswerFailed(r) ==
  /\ r \in SyncRequests
  /\ row[r] = "Pending" /\ answer[r] = "none"
  /\ \E outcome \in {"Failed", "Pending"} : Sets(row, row', r, outcome)
  /\ Sets(answer, answer', r, "500")
  /\ UNCHANGED <<worked, doubt>>

Next == \E r \in Requests :
  \/ Record(r) \/ Refuse(r) \/ Accept(r) \/ Doubt(r) \/ Work(r)
  \/ \E outcome \in {"Completed", "Failed"} : Settle(r, outcome)
  \/ AnswerCompleted(r) \/ AnswerFailed(r)

Spec == Init /\ [][Next]_lifecycle
=============================================================================
