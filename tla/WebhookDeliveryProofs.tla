----------------------- MODULE WebhookDeliveryProofs -----------------------
(***************************************************************************)
(* Proofs about WebhookDelivery, for any number of deliveries, requests,   *)
(* workers, retries and stalls. The row of a delivery is written by one    *)
(* job only, for one request only gets past the unique index               *)
(* (OneGetsThrough); and until that job is taken for stalled, one worker    *)
(* at most has it, and the row waits for that worker, or was already marked *)
(* by it unheard (FirstRunIsAlone).                                         *)
(***************************************************************************)
EXTENDS WebhookDelivery, TLAPS

(* The request has inserted the row of its delivery. *)
Through(r) == pc[r] = "dispatch" \/ job[r] # "none"

OneGetsThrough ==
  \A r, s \in Requests : r # s /\ of[r] = of[s] => ~ (Through(r) /\ Through(s))

(* Rows and jobs only appear on the way of a request. *)
TracesAreOrdered ==
  /\ \A r \in Requests :
       /\ Through(r) => row[of[r]] # "absent"
       /\ job[r] # "none" => pc[r] = "done"
  /\ \A w \in Workers : phase[w] # "idle" => job[run[w]] # "none"

(* What a worker is about to report, and what the queue has been told. *)
EndsAreSettled ==
  /\ \A w \in Workers : phase[w] = "complete" => row[of[run[w]]] \in Settled
  /\ \A r \in Requests : job[r] = "over" => row[of[r]] \in Settled \/ of[r] \in failures

(* Nobody knows of an end of this delivery. *)
Pending(d) == row[d] = "received" \/ (row[d] = "processed" /\ d \in unheard)

FirstRunIsAlone ==
  /\ \A r \in Requests : pc[r] = "dispatch" => Pending(of[r])
  /\ \A r \in Requests : stalls[r] = 0 =>
    /\ job[r] = "waiting" => Pending(of[r])
    /\ \A w \in Workers : run[w] = r =>
         /\ job[r] = "active"
         /\ phase[w] # "complete" => Pending(of[r])
         /\ \A v \in Workers : run[v] = r => v = w

IInv ==
  /\ TypeOK /\ OneGetsThrough /\ TracesAreOrdered /\ EndsAreSettled /\ FirstRunIsAlone
  /\ AcceptedIsRecorded /\ UnsettledHasCause
------------------------------------------------------------------------------
(* Types are preserved by every step. *)
LEMMA TypeIsKept ==
  ASSUME TypeOK, [Next]_vars
  PROVE  TypeOK'
<1> USE WebhookAssumption DEF TypeOK, Settled, Goto, Answer, SetRow, Rest, EnterPhase, Requeue,
                              InFlight, vars, request, queue, worker, history
<1>1. ASSUME NEW r \in Requests, Receive(r) \/ Handle(r) \/ Crash(r) PROVE TypeOK'
  BY <1>1 DEF Receive, Handle, FindByReceiverAndDeliveryId, CreateRecord, Dispatch, Crash
<1>2. ASSUME NEW r \in Requests, Stall(r) PROVE TypeOK'
  BY <1>2 DEF Stall
<1>3. ASSUME NEW w \in Workers, NEW r \in Requests, Take(w, r) PROVE TypeOK'
  BY <1>3 DEF Take
<1>4. ASSUME NEW w \in Workers, MarkProcessed(w) \/ Complete(w) \/ MarkDeliveryFailed(w) PROVE TypeOK'
  BY <1>4 DEF MarkProcessed, Complete, MarkDeliveryFailed
<1>5. ASSUME NEW w \in Workers, Throw(w) PROVE TypeOK'
  BY <1>5 DEF Throw
<1>6. ASSUME NEW w \in Workers, Die(w) PROVE TypeOK'
  BY <1>6 DEF Die
<1>7. CASE UNCHANGED vars
  BY <1>7
<1> QED
  BY <1>1, <1>2, <1>3, <1>4, <1>5, <1>6, <1>7 DEF Next, Work

(* The unique index lets one request of a delivery through. *)
LEMMA OneStaysThrough ==
  ASSUME TypeOK, OneGetsThrough, TracesAreOrdered, [Next]_vars
  PROVE  OneGetsThrough'
<1> USE DEF TypeOK, Through, Goto, Answer, SetRow, Rest, EnterPhase, Requeue,
            InFlight, vars, request, queue, worker, history
<1>s. ASSUME of' = of, \A r \in Requests : Through(r)' => Through(r)
      PROVE  OneGetsThrough'
  BY <1>s DEF OneGetsThrough
<1>1. ASSUME NEW r \in Requests, CreateRecord(r) PROVE OneGetsThrough'
  <2>1. CASE Goto(r, "dispatch") /\ row[of[r]] = "absent"
    <3>1. \A s \in Requests : of[s] = of[r] => ~ Through(s)
      BY <2>1 DEF TracesAreOrdered
    <3>2. of' = of /\ \A s \in Requests : s # r => (Through(s)' => Through(s))
      BY <1>1, <2>1 DEF CreateRecord
    <3> QED
      BY <3>1, <3>2 DEF OneGetsThrough
  <2>2. CASE \E code \in {"accepted", "error"} : Answer(r, code)
    BY <1>1, <1>s, <2>2 DEF CreateRecord
  <2> QED
    BY <1>1, <2>1, <2>2 DEF CreateRecord
<1>2. ASSUME NEW r \in Requests,
             Receive(r) \/ FindByReceiverAndDeliveryId(r) \/ Dispatch(r) \/ Crash(r) \/ Stall(r)
      PROVE  OneGetsThrough'
  BY <1>2, <1>s DEF Receive, FindByReceiverAndDeliveryId, Dispatch, Crash, Stall
<1>3. ASSUME NEW w \in Workers, NEW r \in Requests, Take(w, r) PROVE OneGetsThrough'
  BY <1>3, <1>s DEF Take
<1>4. ASSUME NEW w \in Workers,
             MarkProcessed(w) \/ Complete(w) \/ Throw(w) \/ MarkDeliveryFailed(w) \/ Die(w)
      PROVE  OneGetsThrough'
  BY <1>4, <1>s DEF MarkProcessed, Complete, Throw, MarkDeliveryFailed, Die, TracesAreOrdered
<1>5. CASE UNCHANGED vars
  BY <1>5, <1>s
<1> QED
  BY <1>1, <1>2, <1>3, <1>4, <1>5 DEF Next, Handle, Work

(* No row, no job; no job, no execution. *)
LEMMA TracesStayOrdered ==
  ASSUME TypeOK, TracesAreOrdered, AcceptedIsRecorded, [Next]_vars
  PROVE  TracesAreOrdered' /\ AcceptedIsRecorded'
<1> USE DEF TypeOK, TracesAreOrdered, AcceptedIsRecorded, Through, Settled, Goto, Answer, SetRow,
            Rest, EnterPhase, Requeue, InFlight, vars, request, queue, worker, history
<1>1. ASSUME NEW r \in Requests, Receive(r) \/ FindByReceiverAndDeliveryId(r) \/ Crash(r) \/ Stall(r)
      PROVE  TracesAreOrdered' /\ AcceptedIsRecorded'
  BY <1>1 DEF Receive, FindByReceiverAndDeliveryId, Crash, Stall
<1>2. ASSUME NEW r \in Requests, CreateRecord(r) \/ Dispatch(r)
      PROVE  TracesAreOrdered' /\ AcceptedIsRecorded'
  BY <1>2 DEF CreateRecord, Dispatch
<1>3. ASSUME NEW w \in Workers, NEW r \in Requests, Take(w, r)
      PROVE  TracesAreOrdered' /\ AcceptedIsRecorded'
  BY <1>3 DEF Take
<1>4. ASSUME NEW w \in Workers, MarkProcessed(w) \/ Throw(w) \/ MarkDeliveryFailed(w)
      PROVE  TracesAreOrdered' /\ AcceptedIsRecorded'
  BY <1>4 DEF MarkProcessed, Throw, MarkDeliveryFailed
<1>5. ASSUME NEW w \in Workers, Complete(w) \/ Die(w)
      PROVE  TracesAreOrdered' /\ AcceptedIsRecorded'
  BY <1>5 DEF Complete, Die
<1>6. CASE UNCHANGED vars
  BY <1>6
<1> QED
  BY <1>1, <1>2, <1>3, <1>4, <1>5, <1>6 DEF Next, Handle, Work

(* A job ends with its delivery settled, or with a failure on record; until *)
(* then somebody is at it.                                                  *)
LEMMA EndsStaySettled ==
  ASSUME TypeOK, TracesAreOrdered, EndsAreSettled, UnsettledHasCause, [Next]_vars
  PROVE  EndsAreSettled' /\ UnsettledHasCause'
<1> USE DEF TypeOK, EndsAreSettled, UnsettledHasCause, Settled, Queued, Goto, Answer, SetRow,
            Rest, EnterPhase, Requeue, InFlight, vars, request, queue, worker, history
<1> DEFINE Kept == EndsAreSettled' /\ UnsettledHasCause'
<1>1. ASSUME NEW r \in Requests, Receive(r) \/ FindByReceiverAndDeliveryId(r) PROVE Kept
  BY <1>1 DEF Receive, FindByReceiverAndDeliveryId
<1>2. ASSUME NEW r \in Requests, CreateRecord(r) PROVE Kept
  BY <1>2 DEF CreateRecord
<1>3. ASSUME NEW r \in Requests, Dispatch(r) PROVE Kept
  BY <1>3 DEF Dispatch, TracesAreOrdered
<1>4. ASSUME NEW r \in Requests, Crash(r) PROVE Kept
  BY <1>4 DEF Crash
<1>5. ASSUME NEW r \in Requests, Stall(r) PROVE Kept
  BY <1>5 DEF Stall
<1>6. ASSUME NEW w \in Workers, NEW r \in Requests, Take(w, r) PROVE Kept
  BY <1>6 DEF Take
<1>7. ASSUME NEW w \in Workers, MarkProcessed(w) PROVE Kept
  BY <1>7 DEF MarkProcessed
<1>8. ASSUME NEW w \in Workers, Complete(w) PROVE Kept
  BY <1>8 DEF Complete
<1>9. ASSUME NEW w \in Workers, Throw(w) PROVE Kept
  BY <1>9 DEF Throw, TracesAreOrdered
<1>10. ASSUME NEW w \in Workers, MarkDeliveryFailed(w) PROVE Kept
  BY <1>10 DEF MarkDeliveryFailed
<1>11. ASSUME NEW w \in Workers, Die(w) PROVE Kept
  BY <1>11 DEF Die
<1>12. CASE UNCHANGED vars
  BY <1>12
<1> QED
  BY <1>1, <1>2, <1>3, <1>4, <1>5, <1>6, <1>7, <1>8, <1>9, <1>10, <1>11, <1>12
  DEF Next, Handle, Work

(* Without a stall, a job is in one place. *)
LEMMA FirstRunStaysAlone ==
  ASSUME TypeOK, OneGetsThrough, TracesAreOrdered, FirstRunIsAlone, [Next]_vars
  PROVE  FirstRunIsAlone'
<1> USE WebhookAssumption DEF TypeOK, FirstRunIsAlone, Pending, TracesAreOrdered, Through, Goto, Answer,
            SetRow, Rest, EnterPhase, Requeue, InFlight, vars, request, queue, worker, history
<1>o. \A r, s \in Requests : r # s /\ of[r] = of[s] => ~ (Through(r) /\ Through(s))
  BY DEF OneGetsThrough
<1>1. ASSUME NEW r \in Requests, Receive(r) \/ FindByReceiverAndDeliveryId(r) \/ Crash(r)
      PROVE  FirstRunIsAlone'
  BY <1>1 DEF Receive, FindByReceiverAndDeliveryId, Crash
<1>2. ASSUME NEW r \in Requests, CreateRecord(r) PROVE FirstRunIsAlone'
  BY <1>2 DEF CreateRecord
<1>3. ASSUME NEW r \in Requests, Dispatch(r) PROVE FirstRunIsAlone'
  BY <1>3 DEF Dispatch
<1>4. ASSUME NEW r \in Requests, Stall(r) PROVE FirstRunIsAlone'
  BY <1>4 DEF Stall
<1>5. ASSUME NEW w \in Workers, NEW r \in Requests, Take(w, r) PROVE FirstRunIsAlone'
  BY <1>5 DEF Take
<1>6. ASSUME NEW w \in Workers, MarkProcessed(w) \/ Throw(w) \/ MarkDeliveryFailed(w)
      PROVE  FirstRunIsAlone'
  <2>p. PICK r \in Requests : r = run[w]
    BY <1>6 DEF MarkProcessed, Throw, MarkDeliveryFailed
  <2>1. run[w] = r /\ phase[w] \in {"execute", "failed"} /\ Through(r)
    BY <1>6, <2>p DEF MarkProcessed, Throw, MarkDeliveryFailed
  <2>2. \A s \in Requests : s # r /\ Through(s) => (Pending(of[s]) => Pending(of[s])')
    BY <1>6, <1>o, <2>1 DEF MarkProcessed, Throw, MarkDeliveryFailed
  <2>3. pc[r] # "dispatch" /\ pc' = pc /\ of' = of /\ stalls' = stalls
    BY <1>6, <2>1 DEF MarkProcessed, Throw, MarkDeliveryFailed
  <2>4. \A s \in Requests : pc'[s] = "dispatch" => Pending(of[s])'
    BY <2>1, <2>2, <2>3
  <2>5. ASSUME NEW s \in Requests, s # r, stalls'[s] = 0
        PROVE  /\ job'[s] = "waiting" => Pending(of[s])'
               /\ \A v \in Workers : run'[v] = s =>
                    /\ job'[s] = "active"
                    /\ phase'[v] # "complete" => Pending(of[s])'
                    /\ \A u \in Workers : run'[u] = s => u = v
    <3>1. job'[s] = job[s] /\ \A v \in Workers : run'[v] = s => run[v] = s /\ phase'[v] = phase[v]
      BY <1>6, <2>1, <2>5 DEF MarkProcessed, Throw, MarkDeliveryFailed
    <3>2. job[s] # "none" /\ Pending(of[s]) => Pending(of[s])'
      BY <2>2, <2>3, <2>5
    <3> QED
      BY <2>3, <2>5, <3>1, <3>2
  <2>6. ASSUME stalls'[r] = 0
        PROVE  /\ job'[r] = "waiting" => Pending(of[r])'
               /\ \A v \in Workers : run'[v] = r =>
                    /\ job'[r] = "active"
                    /\ phase'[v] # "complete" => Pending(of[r])'
                    /\ \A u \in Workers : run'[u] = r => u = v
    <3>1. job[r] = "active" /\ \A v \in Workers : run[v] = r => v = w
      BY <2>1, <2>3, <2>6
    <3>2. CASE Throw(w)
      <4>1. Pending(of[r])
        BY <2>1, <2>3, <2>6
      <4>2. Pending(of[r])'
        BY <2>1, <3>2, <4>1 DEF Throw
      <4>3. \A v \in Workers : run'[v] = r => v = w /\ job'[r] = "active"
        BY <2>1, <3>1, <3>2 DEF Throw
      <4> QED
        BY <4>2, <4>3
    <3>3. CASE MarkProcessed(w) \/ MarkDeliveryFailed(w)
      BY <2>1, <3>1, <3>3 DEF MarkProcessed, MarkDeliveryFailed
    <3> QED
      BY <1>6, <3>2, <3>3
  <2> QED
    BY <2>3, <2>4, <2>5, <2>6
<1>7. ASSUME NEW w \in Workers, Complete(w) PROVE FirstRunIsAlone'
  BY <1>7 DEF Complete
<1>9. ASSUME NEW w \in Workers, Die(w) PROVE FirstRunIsAlone'
  BY <1>9 DEF Die
<1>10. CASE UNCHANGED vars
  BY <1>10
<1> QED
  BY <1>1, <1>2, <1>3, <1>4, <1>5, <1>6, <1>7, <1>9, <1>10 DEF Next, Handle, Work
------------------------------------------------------------------------------
(* The inductive invariant holds in every reachable state. *)
LEMMA InvariantHolds == Spec => []IInv
<1>1. Init => IInv
  <2> SUFFICES ASSUME Init PROVE IInv
    OBVIOUS
  <2> USE WebhookAssumption DEF Init
  <2>1. TypeOK
    BY DEF TypeOK
  <2>2. OneGetsThrough /\ TracesAreOrdered /\ EndsAreSettled /\ FirstRunIsAlone
    BY DEF OneGetsThrough, TracesAreOrdered, EndsAreSettled, FirstRunIsAlone, Through
  <2>3. AcceptedIsRecorded /\ UnsettledHasCause
    BY DEF AcceptedIsRecorded, UnsettledHasCause
  <2> QED
    BY <2>1, <2>2, <2>3 DEF IInv
<1>2. IInv /\ [Next]_vars => IInv'
  BY TypeIsKept, OneStaysThrough, TracesStayOrdered, EndsStaySettled, FirstRunStaysAlone DEF IInv
<1> QED
  BY <1>1, <1>2, PTL DEF Spec

(* Every reachable state of the webhook pipeline is well typed: a job is     *)
(* never retried more than config/queue.ts allows.                           *)
THEOREM TypeCorrect == Spec => []TypeOK
<1>1. IInv => TypeOK
  BY DEF IInv
<1> QED
  BY <1>1, InvariantHolds, PTL

(* Of all the requests that carry one delivery, one at most queues a job. *)
THEOREM OneDispatch == Spec => []DispatchedOnce
<1>1. IInv => DispatchedOnce
  BY DEF IInv, DispatchedOnce, OneGetsThrough, Through
<1> QED
  BY <1>1, InvariantHolds, PTL

(* A 202 is only given for a delivery that is on record. *)
THEOREM AcceptedAreRecorded == Spec => []AcceptedIsRecorded
<1>1. IInv => AcceptedIsRecorded
  BY DEF IInv
<1> QED
  BY <1>1, InvariantHolds, PTL

(* A delivery is left "received" only by a dispatch or a failed() hook that *)
(* was cut short.                                                           *)
THEOREM NothingIsForgotten == Spec => []UnsettledHasCause
<1>1. IInv => UnsettledHasCause
  BY DEF IInv
<1> QED
  BY <1>1, InvariantHolds, PTL

(* A settled delivery changes again only if its job was taken for stalled,   *)
(* or if the reply to its update was lost: then "processed" can become       *)
(* "failed".                                                                 *)
THEOREM SettledStays == Spec => SettledIsFinal
<1> DEFINE Excused(d) == \/ \E r \in Requests : of[r] = d /\ stalls[r] > 0
                         \/ d \in unheard /\ row[d] = "processed" /\ row'[d] = "failed"
           Final == \A d \in Deliveries : row[d] \in Settled /\ row'[d] # row[d] => Excused(d)
<1>1. ASSUME IInv, [Next]_vars PROVE Final
  <2> SUFFICES ASSUME NEW d \in Deliveries, row[d] \in Settled, row'[d] # row[d]
               PROVE  Excused(d)
    OBVIOUS
  <2> USE <1>1 DEF IInv, TypeOK, Settled, SetRow, vars, request, queue, worker, history
  <2>1. ASSUME NEW r \in Requests, Receive(r) \/ Handle(r) \/ Crash(r) \/ Stall(r) PROVE FALSE
    BY <2>1 DEF Receive, Handle, FindByReceiverAndDeliveryId, CreateRecord, Dispatch, Crash, Stall
  <2>2. ASSUME NEW w \in Workers, NEW r \in Requests, Take(w, r)
        PROVE  FALSE
    BY <2>2 DEF Take
  <2>3. ASSUME NEW w \in Workers, MarkProcessed(w) \/ Throw(w) \/ MarkDeliveryFailed(w)
        PROVE  Excused(d)
    <3>1. run[w] \in Requests /\ of[run[w]] = d /\ phase[w] # "complete"
      BY <2>3 DEF MarkProcessed, Throw, MarkDeliveryFailed
    <3>2. CASE stalls[run[w]] > 0
      BY <3>1, <3>2
    <3>3. CASE stalls[run[w]] = 0
      <4>1. row[d] = "processed" /\ d \in unheard
        BY <3>1, <3>3 DEF FirstRunIsAlone, Pending
      <4>2. row'[d] = "failed"
        BY <2>3, <3>1, <4>1 DEF MarkProcessed, Throw, MarkDeliveryFailed
      <4> QED
        BY <4>1, <4>2
    <3> QED
      BY <3>1, <3>2, <3>3
  <2>4. CASE UNCHANGED vars
    BY <2>4
  <2>5. ASSUME NEW w \in Workers, Complete(w) \/ Die(w) PROVE FALSE
    BY <2>5 DEF Complete, Die
  <2> QED
    BY <2>1, <2>2, <2>3, <2>4, <2>5 DEF Next, Work
<1>2. ASSUME IInv, [Next]_vars PROVE [Final]_vars
  BY <1>1, <1>2
<1> QED
  BY <1>2, InvariantHolds, PTL DEF Spec, SettledIsFinal
==============================================================================
