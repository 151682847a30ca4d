--------------------------- MODULE WebhookDelivery ---------------------------
(***************************************************************************)
(* Inbound webhooks, from the verified request to the settled delivery:    *)
(* WebhookDeliveryService.recordDelivery in the web processes, the queue,  *)
(* and ProcessWebhookDeliveryJob in the worker processes.                   *)
(*                                                                         *)
(* Senders repeat what was not answered with 202, and the network repeats  *)
(* what it likes. Every query and every call on the queue is a step that   *)
(* can fail, before it has had its effect or after it, when only the reply *)
(* is lost; and a process can die before any of them. The queue is not in  *)
(* the repository: it hands a waiting job to one worker, retries it as     *)
(* config/queue.ts says, and hands it out again when its worker has been   *)
(* silent for stalledThreshold, whether that worker is dead or only slow.  *)
(***************************************************************************)
EXTENDS Naturals

CONSTANTS
  Deliveries,   \* idempotency keys: (receiver, delivery id)
  Requests,     \* POST requests, each handled once; also the jobs they queue
  Workers,      \* job executions at a time, over all the worker processes
  NoRequest,
  MaxRetries,   \* retry.maxRetries
  MaxStalls     \* bound: how often a job is taken for stalled

ASSUME WebhookAssumption ==
  /\ Deliveries # {}
  /\ NoRequest \notin Requests
  /\ MaxRetries \in Nat
  /\ MaxStalls \in Nat

VARIABLES
  row,        \* webhook_deliveries: the status of each delivery
  pc, of,     \* where each request is, and its delivery
  answer,     \* the status code it was answered with
  job,        \* the job of each request, as the queue has it
  retries,    \* how often it has been retried
  stalls,     \* how often it was taken for stalled
  run,        \* the job each worker runs
  phase,      \* and how far it is
  failures,   \* history: deliveries on record that a failure left to nobody
  unheard     \* history: deliveries marked processed by an execution that threw

request == <<pc, of, answer>>
queue   == <<job, retries, stalls>>
worker  == <<run, phase>>
history == <<failures, unheard>>
vars == <<row, request, queue, worker, history>>

Settled == {"processed", "failed"}
InFlight(r) == pc[r] \notin {"idle", "done"}
Queued(r) == job[r] \in {"waiting", "active"}

Init ==
  /\ row = [d \in Deliveries |-> "absent"]
  /\ pc = [r \in Requests |-> "idle"]
  /\ of \in [Requests -> Deliveries]
  /\ answer = [r \in Requests |-> "none"]
  /\ job = [r \in Requests |-> "none"]
  /\ retries = [r \in Requests |-> 0]
  /\ stalls = [r \in Requests |-> 0]
  /\ run = [w \in Workers |-> NoRequest]
  /\ phase = [w \in Workers |-> "idle"]
  /\ failures = {}
  /\ unheard = {}

Goto(r, label) == pc' = [pc EXCEPT ![r] = label] /\ UNCHANGED answer
Answer(r, code) == pc' = [pc EXCEPT ![r] = "done"] /\ answer' = [answer EXCEPT ![r] = code]
SetRow(d, status) == row' = [row EXCEPT ![d] = status]

------------------------------------------------------------------------------
(* recordDelivery *)

Receive(r) ==
  /\ pc[r] = "idle"
  /\ Goto(r, "find")
  /\ UNCHANGED <<row, of, queue, worker, history>>

(* A delivery on record is a duplicate. *)
FindByReceiverAndDeliveryId(r) ==
  /\ pc[r] = "find"
  /\ \/ row[of[r]] # "absent" /\ Answer(r, "accepted")
     \/ row[of[r]] = "absent" /\ Goto(r, "create")
     \/ Answer(r, "error")
  /\ UNCHANGED <<row, of, queue, worker, history>>

(* Deviation: the table has no unique index. *)
CreateUnguarded(r) ==
  /\ pc[r] = "create"
  /\ \/ SetRow(of[r], "received") /\ Goto(r, "dispatch")
     \/ Answer(r, "error") /\ UNCHANGED row
  /\ UNCHANGED <<of, queue, worker, history>>

(* Deviation: any error of the insert passes for a duplicate. *)
CreateLenient(r) ==
  /\ pc[r] = "create"
  /\ \/ /\ row[of[r]] = "absent"
        /\ SetRow(of[r], "received")
        /\ Goto(r, "dispatch")
     \/ Answer(r, "accepted") /\ UNCHANGED row
  /\ UNCHANGED <<of, queue, worker, history>>

(* The insert: the unique index turns a second one into a duplicate. One     *)
(* whose reply is lost leaves a row that nobody will dispatch.               *)
CreateRecord(r) ==
  /\ pc[r] = "create"
  /\ \/ /\ row[of[r]] = "absent"
        /\ SetRow(of[r], "received")
        /\ \/ Goto(r, "dispatch") /\ UNCHANGED failures
           \/ Answer(r, "error") /\ failures' = failures \cup {of[r]}
     \/ /\ \/ row[of[r]] # "absent" /\ Answer(r, "accepted")
           \/ Answer(r, "error")
        /\ UNCHANGED <<row, failures>>
  /\ UNCHANGED <<of, queue, worker, unheard>>

(* The job is queued. Redis can refuse it, or take it and lose the reply. *)
Dispatch(r) ==
  /\ pc[r] = "dispatch"
  /\ \/ /\ job' = [job EXCEPT ![r] = "waiting"]
        /\ \E code \in {"accepted", "error"} : Answer(r, code)
        /\ UNCHANGED failures
     \/ /\ failures' = failures \cup {of[r]}
        /\ Answer(r, "error")
        /\ UNCHANGED job
  /\ UNCHANGED <<row, of, retries, stalls, worker, unheard>>

(* The web process dies; nobody is answered. *)
Crash(r) ==
  /\ InFlight(r)
  /\ pc' = [pc EXCEPT ![r] = "done"]
  /\ failures' = IF pc[r] = "dispatch" THEN failures \cup {of[r]} ELSE failures
  /\ UNCHANGED <<row, of, answer, queue, worker, unheard>>

------------------------------------------------------------------------------
(* The queue and its workers *)

Rest(w) == phase' = [phase EXCEPT ![w] = "idle"] /\ run' = [run EXCEPT ![w] = NoRequest]
EnterPhase(w, p) == phase' = [phase EXCEPT ![w] = p] /\ UNCHANGED run

(* A job that another worker has ended does not come back. *)
Requeue(r) == job' = [job EXCEPT ![r] = IF @ = "over" THEN "over" ELSE "waiting"]

Take(w, r) ==
  /\ phase[w] = "idle"
  /\ job[r] = "waiting"
  /\ job' = [job EXCEPT ![r] = "active"]
  /\ run' = [run EXCEPT ![w] = r]
  /\ phase' = [phase EXCEPT ![w] = "execute"]
  /\ UNCHANGED <<row, request, retries, stalls, history>>

(* execute: processDelivery, which is one update. *)
MarkProcessed(w) ==
  /\ phase[w] = "execute"
  /\ SetRow(of[run[w]], "processed")
  /\ EnterPhase(w, "complete")
  /\ UNCHANGED <<request, queue, history>>

(* The worker tells the queue that the job is done. *)
Complete(w) ==
  /\ phase[w] = "complete"
  /\ job' = [job EXCEPT ![run[w]] = "over"]
  /\ Rest(w)
  /\ UNCHANGED <<row, request, retries, stalls, history>>

(* Deviation: the failed() hook runs after every failed attempt. *)
ThrowFailing(w) ==
  /\ phase[w] = "execute"
  /\ SetRow(of[run[w]], "failed")
  /\ retries[run[w]] < MaxRetries
  /\ retries' = [retries EXCEPT ![run[w]] = @ + 1]
  /\ Requeue(run[w])
  /\ Rest(w)
  /\ UNCHANGED <<request, stalls, history>>

(* Deviation: one retry too many. *)
ThrowOnceMore(w) ==
  /\ phase[w] = "execute"
  /\ \/ /\ retries[run[w]] <= MaxRetries
        /\ retries' = [retries EXCEPT ![run[w]] = @ + 1]
        /\ Requeue(run[w])
        /\ Rest(w)
     \/ /\ retries[run[w]] > MaxRetries
        /\ EnterPhase(w, "failed")
        /\ UNCHANGED <<job, retries>>
  /\ UNCHANGED <<row, request, stalls, history>>

(* Deviation: retries are not counted. *)
ThrowUncounted(w) ==
  /\ phase[w] = "execute"
  /\ Requeue(run[w])
  /\ Rest(w)
  /\ UNCHANGED <<row, request, retries, stalls, history>>

(* execute throws, though the update may have been applied and only its      *)
(* reply lost: the job is retried, or has permanently failed.                *)
Throw(w) ==
  /\ phase[w] = "execute"
  /\ \/ UNCHANGED <<row, unheard>>
     \/ SetRow(of[run[w]], "processed") /\ unheard' = unheard \cup {of[run[w]]}
  /\ \/ /\ retries[run[w]] < MaxRetries
        /\ retries' = [retries EXCEPT ![run[w]] = @ + 1]
        /\ Requeue(run[w])
        /\ Rest(w)
     \/ /\ retries[run[w]] = MaxRetries
        /\ EnterPhase(w, "failed")
        /\ UNCHANGED <<job, retries>>
  /\ UNCHANGED <<request, stalls, failures>>

(* Deviation: failed() only reads the delivery. *)
MarkNothing(w) ==
  /\ phase[w] = "failed"
  /\ job' = [job EXCEPT ![run[w]] = "over"]
  /\ Rest(w)
  /\ UNCHANGED <<row, request, retries, stalls, history>>

(* failed: markDeliveryFailed, whatever the status is by then; it can throw  *)
(* itself, and is not repeated.                                              *)
MarkDeliveryFailed(w) ==
  /\ phase[w] = "failed"
  /\ \/ SetRow(of[run[w]], "failed") /\ UNCHANGED failures
     \/ failures' = failures \cup {of[run[w]]} /\ UNCHANGED row
  /\ job' = [job EXCEPT ![run[w]] = "over"]
  /\ Rest(w)
  /\ UNCHANGED <<request, retries, stalls, unheard>>

(* The job's worker has been silent for too long. *)
Stall(r) ==
  /\ job[r] = "active"
  /\ stalls[r] < MaxStalls
  /\ stalls' = [stalls EXCEPT ![r] = @ + 1]
  /\ job' = [job EXCEPT ![r] = "waiting"]
  /\ UNCHANGED <<row, request, retries, worker, history>>

(* A worker dies; its job is found stalled. *)
Die(w) ==
  /\ phase[w] # "idle"
  /\ LET r == run[w] IN
       /\ job[r] = "active" => stalls[r] < MaxStalls
       /\ stalls' = [stalls EXCEPT ![r] = IF job[r] = "active" THEN @ + 1 ELSE @]
       /\ job' = [job EXCEPT ![r] = IF @ = "active" THEN "waiting" ELSE @]
  /\ Rest(w)
  /\ UNCHANGED <<row, request, retries, history>>

------------------------------------------------------------------------------
Handle(r) ==
  FindByReceiverAndDeliveryId(r) \/ CreateRecord(r) \/ Dispatch(r)

Work(w) ==
  \/ \E r \in Requests : Take(w, r)
  \/ MarkProcessed(w) \/ Complete(w) \/ Throw(w) \/ MarkDeliveryFailed(w)

Next ==
  \/ \E r \in Requests : Receive(r) \/ Handle(r) \/ Crash(r) \/ Stall(r)
  \/ \E w \in Workers : Work(w) \/ Die(w)

Spec == Init /\ [][Next]_vars

(* The workers go on working. *)
FairSpec == Spec /\ \A w \in Workers : WF_vars(Work(w))

------------------------------------------------------------------------------
(* Properties *)

(* Every variable has its type. *)
TypeOK ==
  /\ row \in [Deliveries -> {"absent", "received"} \cup Settled]
  /\ pc \in [Requests -> {"idle", "find", "create", "dispatch", "done"}]
  /\ of \in [Requests -> Deliveries]
  /\ answer \in [Requests -> {"none", "accepted", "error"}]
  /\ job \in [Requests -> {"none", "waiting", "active", "over"}]
  /\ retries \in [Requests -> 0..MaxRetries]
  /\ stalls \in [Requests -> 0..MaxStalls]
  /\ run \in [Workers -> Requests \cup {NoRequest}]
  /\ phase \in [Workers -> {"idle", "execute", "complete", "failed"}]
  /\ failures \subseteq Deliveries
  /\ unheard \subseteq Deliveries
  /\ \A w \in Workers : phase[w] = "idle" <=> run[w] = NoRequest

(* However often a delivery is sent, and however its requests interleave,    *)
(* one of them at most gets to queue its processing.                         *)
DispatchedOnce ==
  \A r, s \in Requests :
    r # s /\ of[r] = of[s] => ~ (job[r] # "none" /\ (job[s] # "none" \/ pc[s] = "dispatch"))

(* A 202 is only given for a delivery that is on record. *)
AcceptedIsRecorded ==
  \A r \in Requests : answer[r] = "accepted" => row[of[r]] # "absent"

(* A delivery stays "received" only while a request or a job is still at it, *)
(* unless its insert, its dispatch or its failed() hook was cut short.       *)
UnsettledHasCause ==
  \A d \in Deliveries : row[d] = "received" =>
    \/ d \in failures
    \/ \E r \in Requests : of[r] = d /\ (pc[r] = "dispatch" \/ Queued(r))

(* A settled delivery is not touched again, except by a second execution of  *)
(* its job: one that was taken for stalled can turn "processed" into         *)
(* "failed" or "failed" into "processed", and one that was repeated because  *)
(* the reply to its update was lost can turn "processed" into "failed".      *)
SettledIsFinal ==
  [][\A d \in Deliveries : row[d] \in Settled /\ row'[d] # row[d] =>
       \/ \E r \in Requests : of[r] = d /\ stalls[r] > 0
       \/ d \in unheard /\ row[d] = "processed" /\ row'[d] = "failed"]_vars

(* A job that was queued comes to its end: its delivery is settled, or the   *)
(* failed() hook itself failed.                                              *)
JobsSettle ==
  \A r \in Requests :
    Queued(r) ~> ~ Queued(r) /\ (row[of[r]] \in Settled \/ of[r] \in failures)
==============================================================================
