-------------------------- MODULE ParallelMapProofs --------------------------
(***************************************************************************)
(* Proofs about the worker pool, for any number of clients, workers and    *)
(* tasks and any capacity of the channel, and then about ParallelMap on    *)
(* top of it.                                                              *)
(*                                                                         *)
(* The safety properties of the pool are not inductive by themselves.      *)
(* They need to know where each task is (TaskPlace), which goroutine holds *)
(* which task (Holders) and what a goroutine that left, or is about to     *)
(* leave, says about the channel (Shutdown).  PoolInv is their             *)
(* conjunction, and it is inductive.                                       *)
(*                                                                         *)
(* ParallelMap loses no failure on its way to the caller, and implements   *)
(* the promise of BatchMap, on which the model of the engine is built.  To *)
(* what the pool keeps for every user (PlaceInv) its invariant adds where  *)
(* the caller is in its loop (CallerAt) and what the slots of results and  *)
(* errs and the errors of the pool say of every item (Slots).  p.errors is *)
(* not complete in the pool's own sense here: the loop adds the errors of  *)
(* the submits that failed.                                                *)
(***************************************************************************)
EXTENDS ParallelMap, SequenceTheorems, TLAPS

InQueue(t) == \E i \in 1..Len(queue) : queue[i] = t

(* Every task is in exactly one place: a queued one fills one slot of the  *)
(* channel, a taken or running one is held by one worker, and no worker    *)
(* holds any other.  So no task runs twice and none disappears between the *)
(* channel and a worker, whatever the interleaving of submits and workers. *)
TaskPlace ==
  /\ \A t \in Tasks : status[t] = "queued" <=> InQueue(t)
  /\ \A i, j \in 1..Len(queue) : queue[i] = queue[j] => i = j
  /\ \A t \in Tasks :
       status[t] \in {"taken", "running"} <=> \E w \in Workers : wtask[w] = t
  /\ \A v, w \in Workers : wtask[v] = wtask[w] /\ wtask[v] # None => v = w

(* A client holds a task from its closed check until Submit is over, and a *)
(* worker holds one exactly while it is in executeTask.                    *)
Holders ==
  /\ \A c \in Clients :
       (cpc[c] \in {"sending", "sendingTimeout", "panicked"}) <=> (ctask[c] # None)
  /\ \A c \in Clients : ctask[c] # None => status[ctask[c]] = "submitting"
  /\ \A c, d \in Clients : ctask[c] = ctask[d] /\ ctask[c] # None => c = d
  /\ \A w \in Workers : (wpc[w] \in {"holding", "running"}) <=> (wtask[w] # None)

(* Only a cancellation, or a channel that is closed and drained, ends a    *)
(* worker, and Close returns only when all of them have ended.             *)
Shutdown ==
  /\ \A w \in Workers : wpc[w] = "exited" => cancelled \/ (chanClosed /\ queue = <<>>)
  /\ \A c \in Clients : cpc[c] = "returned" => \A w \in Workers : wpc[w] = "exited"

(* What every user of the pool keeps, whatever it does with p.errors. *)
PlaceInv == TypeOK /\ TaskPlace /\ Holders /\ Shutdown

(* The inductive invariant of the pool. *)
PoolInv == PlaceInv /\ ErrorsComplete

(* Whoever closed the pool is in Close or Stop, or done with it, for good; *)
(* one caller at most won the swap and has still to close the channel.     *)
HasClosed(c) == cpc[c] \in {"stopping", "closing", "waiting", "returned"}
CloserInv ==
  /\ chanClosed => closed
  /\ \A c \in Clients : cpc[c] = "closing" => ~chanClosed
  /\ \A c, d \in Clients : cpc[c] = "closing" /\ cpc[d] = "closing" => c = d
  /\ NoSecondClose
  /\ closed => \E d \in Clients : HasClosed(d)
  /\ \A c \in Clients : cpc[c] = "closing" => closed
  /\ \A c \in Clients : cpc[c] = "panicked" => closed

-----------------------------------------------------------------------------
(* What sending a task does to the set of queued tasks. *)
LEMMA AppendQueue ==
  ASSUME NEW q \in Seq(Tasks), NEW t \in Tasks
  PROVE  /\ Append(q, t) \in Seq(Tasks)
         /\ Len(q) \in Nat
         /\ Len(Append(q, t)) = Len(q) + 1
         /\ \A i \in 1..Len(q) : Append(q, t)[i] = q[i]
         /\ Append(q, t)[Len(q) + 1] = t
  BY AppendProperties, LenProperties

(* What receiving a task does to the queue: the head leaves, the others    *)
(* move up one place.                                                      *)
LEMMA TailQueue ==
  ASSUME NEW q \in Seq(Tasks), q # <<>>
  PROVE  /\ Tail(q) \in Seq(Tasks)
         /\ Len(q) \in Nat \ {0}
         /\ Len(Tail(q)) = Len(q) - 1
         /\ \A i \in 1..(Len(q) - 1) : Tail(q)[i] = q[i + 1]
         /\ Head(q) = q[1]
         /\ Head(q) \in Tasks
  BY HeadTailProperties, LenProperties, EmptySeq

(* The pool starts in the invariant. *)
LEMMA InitPoolInv == PoolInit => PoolInv
  <1> SUFFICES ASSUME PoolInit PROVE PoolInv
    OBVIOUS
  <1> USE PoolAssumption DEF PoolInit, PoolAssumption
  <1>1. TypeOK
    <2>1. queue \in Seq(Tasks) /\ Len(queue) <= QueueSize
      BY EmptySeq
    <2>2. status \in [Tasks -> Status]
      BY DEF Status
    <2>3. cpc \in [Clients -> ClientPC]
      BY DEF ClientPC
    <2>4. errors \subseteq [task : Tasks, kind : Failed]
      OBVIOUS
    <2> QED BY <2>1, <2>2, <2>3, <2>4 DEF TypeOK
  <1>2. TaskPlace
    BY DEF TaskPlace, InQueue
  <1>3. ErrorsComplete
    BY DEF ErrorsComplete, Failed
  <1>4. Holders
    BY DEF Holders
  <1>5. Shutdown
    BY DEF Shutdown
  <1> QED BY <1>1, <1>2, <1>3, <1>4, <1>5 DEF PoolInv, PlaceInv

(* A step that leaves p.errors alone and neither ends nor revives a failed *)
(* task keeps p.errors complete.                                           *)
LEMMA QuietStep ==
  ASSUME ErrorsComplete, errors' = errors,
         \A t \in Tasks : status'[t] = status[t]
                        \/ (status[t] \notin Failed /\ status'[t] \notin Failed)
  PROVE  ErrorsComplete'
  BY DEF ErrorsComplete

(* The closed check of Submit keeps the invariant. *)
LEMMA StepSubmitCheck ==
  ASSUME PlaceInv, NEW c \in Clients, NEW t \in Tasks, NEW sel \in {"sending", "sendingTimeout"}, SubmitCheck(c, t, sel)
  PROVE  PlaceInv' /\ (ErrorsComplete => ErrorsComplete')
  <1> USE PoolAssumption DEF PoolAssumption, PlaceInv, SubmitCheck, clientVars, workerVars, shutVars
  <1>1. TypeOK'
    BY DEF TypeOK, ClientPC, Status, Rejected, Failed, Ended, Pending
  <1>2. TaskPlace'
    BY DEF TaskPlace, InQueue, TypeOK, Holders
  <1>3. ASSUME ErrorsComplete PROVE ErrorsComplete'
    BY <1>3, QuietStep DEF TypeOK, Failed
  <1>4. Holders'
    BY DEF Holders, TaskPlace, TypeOK
  <1>5. Shutdown'
    BY DEF Shutdown, TypeOK, Holders
  <1> QED BY <1>1, <1>2, <1>3, <1>4, <1>5

(* The send of Submit keeps the invariant. *)
LEMMA StepSendTask ==
  ASSUME PlaceInv, NEW c \in Clients, SendTask(c)
  PROVE  PlaceInv' /\ (ErrorsComplete => ErrorsComplete')
  <1> USE PoolAssumption DEF PoolAssumption, PlaceInv, SendTask, HasRoom, IsSending, clientVars, workerVars, shutVars
  <1>1. TypeOK'
    <2>1. ctask[c] \in Tasks
      BY DEF TypeOK, Holders
    <2>2. queue' \in Seq(Tasks) /\ Len(queue') <= QueueSize
      BY <2>1, AppendQueue DEF TypeOK
    <2>3. status' \in [Tasks -> Status]
      BY DEF TypeOK, Status, Pending
    <2>4. cpc' \in [Clients -> ClientPC]
      BY DEF TypeOK, ClientPC
    <2> QED BY <2>2, <2>3, <2>4 DEF TypeOK
  <1>2. TaskPlace'
    BY DEF TaskPlace, InQueue, TypeOK, Holders
  <1>3. ASSUME ErrorsComplete PROVE ErrorsComplete'
    BY <1>3, QuietStep DEF TypeOK, Failed, Holders
  <1>4. Holders'
    BY DEF Holders, TaskPlace, TypeOK
  <1>5. Shutdown'
    BY DEF Shutdown, TypeOK, Holders
  <1> QED BY <1>1, <1>2, <1>3, <1>4, <1>5

(* A Submit that gives up keeps the invariant. *)
LEMMA StepAbortSend ==
  ASSUME PlaceInv, NEW c \in Clients, NEW why \in Rejected, AbortSend(c, why),
         errors' \subseteq [task : Tasks, kind : Failed]
  PROVE  PlaceInv' /\ (ErrorsComplete /\ errors' = errors => ErrorsComplete')
  <1> USE PoolAssumption DEF PoolAssumption, PlaceInv, AbortSend, Rejected, IsSending, clientVars, workerVars, shutVars
  <1>1. TypeOK'
    BY DEF TypeOK, ClientPC, Status, Rejected, Failed, Ended, Pending
  <1>2. TaskPlace'
    BY DEF TaskPlace, InQueue, TypeOK, Holders
  <1>3. ASSUME ErrorsComplete, errors' = errors PROVE ErrorsComplete'
    BY <1>3, QuietStep DEF TypeOK, Failed, Holders
  <1>4. Holders'
    BY DEF Holders, TaskPlace, TypeOK
  <1>5. Shutdown'
    BY DEF Shutdown, TypeOK
  <1> QED BY <1>1, <1>2, <1>3, <1>4, <1>5

(* A send on the closed channel keeps the invariant. *)
LEMMA StepSendOnClosed ==
  ASSUME PlaceInv, NEW c \in Clients, SendOnClosed(c)
  PROVE  PlaceInv' /\ (ErrorsComplete => ErrorsComplete')
  <1> USE PoolAssumption DEF PoolAssumption, PlaceInv, SendOnClosed, IsSending, clientVars, workerVars, shutVars
  <1>1. TypeOK'
    BY DEF TypeOK, ClientPC, Status, Rejected, Failed, Ended, Pending
  <1>2. TaskPlace'
    BY DEF TaskPlace, InQueue, TypeOK, Holders
  <1>3. ASSUME ErrorsComplete PROVE ErrorsComplete'
    BY <1>3 DEF ErrorsComplete
  <1>4. Holders'
    BY DEF Holders, TaskPlace, TypeOK
  <1>5. Shutdown'
    BY DEF Shutdown, TypeOK, Holders
  <1> QED BY <1>1, <1>2, <1>3, <1>4, <1>5

(* The steps of Close, Stop and Wait keep the invariant. *)
LEMMA StepShut ==
  ASSUME PlaceInv, NEW c \in Clients, StopCancel(c) \/ CloseSwap(c) \/ CloseChan(c) \/ WaitReturn(c)
  PROVE  PlaceInv' /\ (ErrorsComplete => ErrorsComplete')
  <1> USE PoolAssumption DEF PoolAssumption, PlaceInv, StopCancel, CloseSwap, CloseChan, WaitReturn, clientVars, workerVars, shutVars
  <1>1. TypeOK'
    BY DEF TypeOK, ClientPC, Status, Rejected, Failed, Ended, Pending
  <1>2. TaskPlace'
    BY DEF TaskPlace, InQueue, TypeOK, Holders
  <1>3. ASSUME ErrorsComplete PROVE ErrorsComplete'
    BY <1>3 DEF ErrorsComplete
  <1>4. Holders'
    BY DEF Holders, TaskPlace, TypeOK
  <1>5. Shutdown'
    BY DEF Shutdown, TypeOK, Holders
  <1> QED BY <1>1, <1>2, <1>3, <1>4, <1>5

(* A cancellation by the owner of the context keeps the invariant. *)
LEMMA StepParentCancel ==
  ASSUME PlaceInv, ParentCancel
  PROVE  PlaceInv' /\ (ErrorsComplete => ErrorsComplete')
  <1> USE PoolAssumption DEF PoolAssumption, PlaceInv, ParentCancel, clientVars, workerVars, shutVars
  <1>1. TypeOK'
    BY DEF TypeOK, ClientPC, Status, Rejected, Failed, Ended, Pending
  <1>2. TaskPlace'
    BY DEF TaskPlace, InQueue, TypeOK, Holders
  <1>3. ASSUME ErrorsComplete PROVE ErrorsComplete'
    BY <1>3 DEF ErrorsComplete
  <1>4. Holders'
    BY DEF Holders, TaskPlace, TypeOK
  <1>5. Shutdown'
    BY DEF Shutdown, TypeOK, Holders
  <1> QED BY <1>1, <1>2, <1>3, <1>4, <1>5

(* A worker's receive keeps the invariant. *)
LEMMA StepWorkerReceive ==
  ASSUME PlaceInv, NEW w \in Workers, WorkerReceive(w)
  PROVE  PlaceInv' /\ (ErrorsComplete => ErrorsComplete')
  <1> USE PoolAssumption DEF PoolAssumption, PlaceInv, WorkerReceive, clientVars, workerVars, shutVars
  <1>1. TypeOK'
    BY DEF TypeOK, ClientPC, Status, Rejected, Failed, Ended, Pending
  <1>2. TaskPlace'
    <2> DEFINE h == Head(queue)
    <2>1. h \in Tasks /\ h = queue[1] /\ Len(queue) \in Nat \ {0}
          /\ Len(queue') = Len(queue) - 1
          /\ \A i \in 1..(Len(queue) - 1) : queue'[i] = queue[i + 1]
      BY TailQueue DEF TypeOK
    <2>2. status[h] = "queued"
      BY <2>1 DEF TaskPlace, InQueue
    <2>3. \A t \in Tasks : status'[t] = IF t = h THEN "taken" ELSE status[t]
      BY DEF TypeOK
    <2>4. \A v \in Workers : wtask'[v] = IF v = w THEN h ELSE wtask[v]
      BY DEF TypeOK
    <2>5. \A i, j \in 1..Len(queue') : queue'[i] = queue'[j] => i = j
      BY <2>1 DEF TaskPlace
    <2>6. \A t \in Tasks : InQueue(t)' <=> (InQueue(t) /\ t # h)
      <3> SUFFICES ASSUME NEW t \in Tasks
                   PROVE  InQueue(t)' <=> (InQueue(t) /\ t # h)
        OBVIOUS
      <3>1. InQueue(t)' => (InQueue(t) /\ t # h)
        BY <2>1 DEF TaskPlace, InQueue
      <3>2. ASSUME InQueue(t), t # h PROVE InQueue(t)'
        <4>1. PICK i \in 1..Len(queue) : queue[i] = t
          BY <3>2 DEF InQueue
        <4>2. i # 1 /\ i - 1 \in 1..Len(queue') /\ queue'[i - 1] = t
          BY <2>1, <3>2, <4>1
        <4> QED BY <4>2 DEF InQueue
      <3> QED BY <3>1, <3>2
    <2>7. \A t \in Tasks : status'[t] = "queued" <=> InQueue(t)'
      BY <2>3, <2>6 DEF TaskPlace
    <2>8. wtask[w] = None /\ \A v \in Workers : wtask[v] # h
      BY <2>1, <2>2 DEF Holders, TaskPlace, TypeOK
    <2>9. \A t \in Tasks : status'[t] \in {"taken", "running"}
                             <=> \E v \in Workers : wtask'[v] = t
      BY <2>1, <2>3, <2>4, <2>8 DEF TaskPlace
    <2>10. \A u, v \in Workers : wtask'[u] = wtask'[v] /\ wtask'[u] # None => u = v
      BY <2>4, <2>8 DEF TaskPlace
    <2> QED BY <2>5, <2>7, <2>9, <2>10 DEF TaskPlace
  <1>3. ASSUME ErrorsComplete PROVE ErrorsComplete'
    <2>1. Head(queue) \in Tasks /\ status[Head(queue)] = "queued"
      BY TailQueue DEF TypeOK, TaskPlace, InQueue
    <2> QED BY <1>3, <2>1, QuietStep DEF TypeOK, Failed
  <1>4. Holders'
    BY TailQueue DEF Holders, TaskPlace, InQueue, TypeOK
  <1>5. Shutdown'
    BY DEF Shutdown, TypeOK, Holders
  <1> QED BY <1>1, <1>2, <1>3, <1>4, <1>5

(* A worker that leaves its loop keeps the invariant. *)
LEMMA StepWorkerExit ==
  ASSUME PlaceInv, NEW w \in Workers, WorkerExit(w)
  PROVE  PlaceInv' /\ (ErrorsComplete => ErrorsComplete')
  <1> USE PoolAssumption DEF PoolAssumption, PlaceInv, WorkerExit, Drained, clientVars, workerVars, shutVars
  <1>1. TypeOK'
    BY DEF TypeOK, ClientPC, Status, Rejected, Failed, Ended, Pending
  <1>2. TaskPlace'
    BY DEF TaskPlace, InQueue, TypeOK, Holders
  <1>3. ASSUME ErrorsComplete PROVE ErrorsComplete'
    BY <1>3 DEF ErrorsComplete
  <1>4. Holders'
    BY DEF Holders, TaskPlace, TypeOK
  <1>5. Shutdown'
    BY DEF Shutdown, TypeOK, Holders
  <1> QED BY <1>1, <1>2, <1>3, <1>4, <1>5

(* The start of a task keeps the invariant. *)
LEMMA StepBeginTask ==
  ASSUME PlaceInv, NEW w \in Workers, BeginTask(w)
  PROVE  PlaceInv' /\ (ErrorsComplete => ErrorsComplete')
  <1> USE PoolAssumption DEF PoolAssumption, PlaceInv, BeginTask, clientVars, workerVars, shutVars
  <1>0. wtask[w] \in Tasks /\ status[wtask[w]] \in {"taken", "running"}
    BY DEF TypeOK, TaskPlace, Holders
  <1>1. TypeOK'
    BY DEF TypeOK, ClientPC, Status, Rejected, Failed, Ended, Pending
  <1>2. TaskPlace'
    BY DEF TaskPlace, InQueue, TypeOK, Holders
  <1>3. ASSUME ErrorsComplete PROVE ErrorsComplete'
    BY <1>0, <1>3, QuietStep DEF TypeOK, Failed
  <1>4. Holders'
    BY <1>0 DEF Holders, TypeOK
  <1>5. Shutdown'
    BY DEF Shutdown, TypeOK, Holders
  <1> QED BY <1>1, <1>2, <1>3, <1>4, <1>5

(* The end of executeTask, with any outcome, keeps the invariant. *)
LEMMA StepEndTask ==
  ASSUME PlaceInv, NEW w \in Workers, NEW o \in Ended, wpc[w] \in {"holding", "running"}, EndTask(w, o)
  PROVE  PlaceInv' /\ (ErrorsComplete => ErrorsComplete')
  <1> USE PoolAssumption DEF PoolAssumption, PlaceInv, EndTask, Recorded, Ended, clientVars, workerVars, shutVars
  <1>0. wtask[w] \in Tasks /\ status[wtask[w]] \in {"taken", "running"}
    BY DEF TypeOK, TaskPlace, Holders
  <1>1. TypeOK'
    <2>1. status' \in [Tasks -> Status]
      BY DEF TypeOK, Status, Ended
    <2>2. o # "ok" => o \in Failed
      OBVIOUS
    <2>3. errors' \subseteq [task : Tasks, kind : Failed]
      BY <1>0, <2>2 DEF TypeOK
    <2> QED BY <2>1, <2>3 DEF TypeOK
  <1>2. TaskPlace'
    <2>1. \A t \in Tasks : t # wtask[w] => status'[t] = status[t]
      BY DEF TypeOK
    <2>2. status'[wtask[w]] = o /\ o \notin {"queued", "taken", "running"}
      BY <1>0 DEF TypeOK, Failed
    <2>3. \A t \in Tasks : status'[t] = "queued" <=> InQueue(t)'
      BY <1>0, <2>1, <2>2 DEF TaskPlace, InQueue
    <2>4. \A v \in Workers : wtask'[v] = IF v = w THEN None ELSE wtask[v]
      BY DEF TypeOK
    <2>5. \A t \in Tasks : status'[t] \in {"taken", "running"}
                             <=> \E v \in Workers : wtask'[v] = t
      BY <1>0, <2>1, <2>2, <2>4 DEF TaskPlace
    <2>6. \A u, v \in Workers : wtask'[u] = wtask'[v] /\ wtask'[u] # None => u = v
      BY <2>4 DEF TaskPlace
    <2> QED BY <2>3, <2>5, <2>6 DEF TaskPlace
  <1>3. ASSUME ErrorsComplete PROVE ErrorsComplete'
    <2> SUFFICES ASSUME NEW t \in Tasks, NEW k \in Failed
                 PROVE  status'[t] = k <=> [task |-> t, kind |-> k] \in errors'
      BY DEF ErrorsComplete
    <2>1. CASE t # wtask[w]
      BY <1>3, <2>1 DEF ErrorsComplete, TypeOK
    <2>2. CASE t = wtask[w]
      <3>1. status[t] # k
        BY <1>0, <2>2 DEF Failed
      <3>2. [task |-> t, kind |-> k] \notin errors
        BY <1>3, <3>1 DEF ErrorsComplete
      <3>3. status'[t] = o
        BY <2>2 DEF TypeOK
      <3>4. CASE o = "ok"
        BY <3>2, <3>3, <3>4 DEF Failed
      <3>5. CASE o # "ok"
        BY <2>2, <3>2, <3>3, <3>5
      <3> QED BY <3>4, <3>5
    <2> QED BY <2>1, <2>2
  <1>4. Holders'
    BY DEF Holders, TaskPlace, TypeOK
  <1>5. Shutdown'
    BY DEF Shutdown, TypeOK, Holders
  <1> QED BY <1>1, <1>2, <1>3, <1>4, <1>5

(* Every step of the pool keeps the invariant. *)
LEMMA NextPoolInv == PoolInv /\ [PoolNext]_poolVars => PoolInv'
  <1> SUFFICES ASSUME PoolInv, [PoolNext]_poolVars PROVE PoolInv'
    OBVIOUS
  <1>1. CASE UNCHANGED poolVars
    BY <1>1 DEF PoolInv, PlaceInv, TypeOK, TaskPlace, InQueue, ErrorsComplete, Holders,
                Shutdown, poolVars
  <1>2. ASSUME NEW c \in Clients, ClientNext(c) PROVE PoolInv'
    <2>1. CASE SendCancelled(c) \/ SendTimeout(c)
      BY <2>1, StepAbortSend DEF PoolInv, PlaceInv, TypeOK, SendCancelled, SendTimeout, Rejected
    <2> QED BY <1>2, <2>1, StepSubmitCheck, StepSendTask, StepSendOnClosed, StepShut
            DEF ClientNext, PoolInv
  <1>3. ASSUME NEW w \in Workers, WorkerNext(w) PROVE PoolInv'
    <2>1. CASE SkipTask(w)
      BY <2>1, StepEndTask DEF PoolInv, SkipTask, Ended, Failed
    <2>2. ASSUME NEW o \in Ended, FinishTask(w, o) PROVE PoolInv'
      BY <2>2, StepEndTask DEF PoolInv, FinishTask
    <2> QED BY <1>3, <2>1, <2>2, StepWorkerReceive, StepWorkerExit, StepBeginTask
            DEF WorkerNext, PoolInv
  <1> QED BY <1>1, <1>2, <1>3, StepParentCancel DEF PoolNext, PoolInv

(* The invariant holds in every behaviour of the pool. *)
LEMMA PoolInvariance == PoolSpec => []PoolInv
  BY InitPoolInv, NextPoolInv, PTL DEF PoolSpec

(* The state of the pool is well typed and its channel never holds more    *)
(* than its capacity.                                                      *)
THEOREM PoolTypeCorrect == PoolSpec => []TypeOK
  <1>1. PoolInv => TypeOK
    BY DEF PoolInv, PlaceInv
  <1> QED BY <1>1, PoolInvariance, PTL

(* Errors() names exactly the tasks that failed, panicked or were skipped. *)
THEOREM ErrorsAreComplete == PoolSpec => []ErrorsComplete
  <1>1. PoolInv => ErrorsComplete
    BY DEF PoolInv, PlaceInv
  <1> QED BY <1>1, PoolInvariance, PTL

(* A Close that returned with no cancellation left no accepted task behind. *)
THEOREM CloseIsGraceful == PoolSpec => []GracefulClose
  <1>1. PoolInv => GracefulClose
    <2> SUFFICES ASSUME PoolInv, NEW c \in Clients, cpc[c] = "returned", ~cancelled,
                        NEW t \in Tasks
                 PROVE  status[t] \notin Pending
      BY DEF GracefulClose
    <2>1. \A w \in Workers : wpc[w] = "exited"
      BY DEF PoolInv, PlaceInv, Shutdown
    <2>2. queue = <<>>
      BY <2>1, PoolAssumption DEF PoolInv, PlaceInv, Shutdown, PoolAssumption
    <2>3. \A w \in Workers : wtask[w] = None
      BY <2>1 DEF PoolInv, PlaceInv, Holders
    <2>4. status[t] # "queued"
      BY <2>2, EmptySeq DEF PoolInv, PlaceInv, TaskPlace, InQueue
    <2>5. status[t] \notin {"taken", "running"}
      BY <2>3, PoolAssumption DEF PoolInv, PlaceInv, TaskPlace, PoolAssumption
    <2> QED BY <2>4, <2>5 DEF Pending
  <1> QED BY <1>1, PoolInvariance, PTL

(* A task that ended or was refused is never touched again. *)
THEOREM EndedTasksStayEnded == PoolSpec => EndedStaysEnded
  <1> DEFINE Keep == \A t \in Tasks : status[t] \in Ended \cup Rejected
                                       => status'[t] = status[t]
  <1>1. PoolInv /\ [PoolNext]_poolVars => [Keep]_poolVars
    <2> SUFFICES ASSUME PoolInv, PoolNext, NEW t \in Tasks,
                        status[t] \in Ended \cup Rejected
                 PROVE  status'[t] = status[t]
      OBVIOUS
    <2> USE DEF PoolInv, PlaceInv, Ended, Rejected, Failed
    <2>1. ASSUME NEW c \in Clients, ClientNext(c) PROVE status'[t] = status[t]
      BY <2>1 DEF ClientNext, SubmitCheck, SendTask, HasRoom, SendCancelled, SendTimeout,
                  AbortSend, SendOnClosed, StopCancel, CloseSwap, CloseChan,
                  WaitReturn, IsSending, Holders, TypeOK
    <2>2. ASSUME NEW w \in Workers, WorkerNext(w) PROVE status'[t] = status[t]
      <3>1. CASE WorkerReceive(w)
        <4>1. status[Head(queue)] = "queued"
          BY <3>1, TailQueue DEF WorkerReceive, TaskPlace, InQueue, TypeOK
        <4> QED BY <3>1, <4>1 DEF WorkerReceive, TypeOK
      <3>2. wpc[w] \in {"holding", "running"} => status[wtask[w]] \in {"taken", "running"}
        BY DEF Holders, TaskPlace, TypeOK
      <3>3. CASE ~WorkerReceive(w)
        BY <2>2, <3>2, <3>3 DEF WorkerNext, WorkerExit, Drained, BeginTask, SkipTask,
                                FinishTask, EndTask, Recorded, TypeOK
      <3> QED BY <3>1, <3>3
    <2> QED BY <2>1, <2>2 DEF PoolNext, ParentCancel
  <1> QED BY <1>1, PoolInvariance, PTL DEF PoolSpec, EndedStaysEnded

(* What is known of the goroutines that close the pool holds in every      *)
(* behaviour: the swap of the flag lets one of them through.               *)
LEMMA CloserInvariance == PoolSpec => []CloserInv
  <1>1. PoolInit => CloserInv
    BY DEF PoolInit, CloserInv, NoSecondClose
  <1>2. PoolInv /\ CloserInv /\ [PoolNext]_poolVars => CloserInv'
    <2> SUFFICES ASSUME PoolInv, CloserInv, [PoolNext]_poolVars PROVE CloserInv'
      OBVIOUS
    <2> USE DEF CloserInv, HasClosed, NoSecondClose, PoolInv, PlaceInv, TypeOK
    <2>1. CASE UNCHANGED poolVars
      BY <2>1 DEF poolVars
    <2>2. ASSUME NEW c \in Clients, ClientNext(c) PROVE CloserInv'
      <3>1. CASE \E t \in Tasks, sel \in {"sending", "sendingTimeout"} : SubmitCheck(c, t, sel)
        BY <3>1 DEF SubmitCheck, shutVars, clientVars
      <3>2. CASE SendTask(c) \/ SendCancelled(c) \/ SendTimeout(c) \/ SendOnClosed(c)
        BY <3>2 DEF SendTask, SendCancelled, SendTimeout, AbortSend, SendOnClosed,
                    IsSending, shutVars
      <3>3. CASE StopCancel(c) \/ CloseSwap(c) \/ CloseChan(c) \/ WaitReturn(c)
        BY <3>3 DEF StopCancel, CloseSwap, CloseChan, WaitReturn, shutVars
      <3> QED BY <2>2, <3>1, <3>2, <3>3 DEF ClientNext
    <2>3. ASSUME NEW w \in Workers, WorkerNext(w) PROVE CloserInv'
      BY <2>3 DEF WorkerNext, WorkerReceive, WorkerExit, Drained, BeginTask, SkipTask,
                  FinishTask, EndTask, Recorded, shutVars, clientVars
    <2>4. CASE ParentCancel
      BY <2>4 DEF ParentCancel, clientVars
    <2> QED BY <2>1, <2>2, <2>3, <2>4 DEF PoolNext
  <1> QED BY <1>1, <1>2, PoolInvariance, PTL DEF PoolSpec

(* A goroutine that panics on the closed channel is never alone: another   *)
(* one has called Close or Stop.                                           *)
THEOREM PanicsTakeAnother == PoolSpec => []PanicTakesAnother
  <1>1. CloserInv => PanicTakesAnother
    BY DEF CloserInv, HasClosed, PanicTakesAnother
  <1> QED BY <1>1, CloserInvariance, PTL

(* Close and Stop, called again or by several goroutines at once, close    *)
(* the channel once, and all of them return to a pool without workers.     *)
THEOREM ClosesAreIdempotent == PoolSpec => []CloseIsIdempotent
  <1>1. PoolInv /\ CloserInv => CloseIsIdempotent
    BY DEF PoolInv, PlaceInv, Shutdown, CloserInv, CloseIsIdempotent
  <1> QED BY <1>1, PoolInvariance, CloserInvariance, PTL

(* A pool that only one goroutine submits to and closes, as ExecuteTasks   *)
(* and ParallelMap do, never sends on its closed channel.                  *)
COROLLARY SingleOwnerNeverPanics ==
  ASSUME \A c, d \in Clients : c = d
  PROVE  PoolSpec => []NoSendOnClosed
  <1>1. PanicTakesAnother => NoSendOnClosed
    BY DEF PanicTakesAnother, NoSendOnClosed
  <1> QED BY <1>1, PanicsTakeAnother, PTL

-----------------------------------------------------------------------------
(* The caller submits the items one by one, closes the pool only when it   *)
(* is through, and has an answer only after the pool has drained.          *)
CallerAt ==
  /\ next \in 1..(N + 1)
  /\ \A i \in Items : status[i] = "new" <=> i >= next
  /\ \A i \in Items : status[i] = "submitting" => ctask[Caller] = i
  /\ closed => next = N + 1
  /\ closed <=> cpc[Caller] \in {"closing", "waiting", "returned"}
  /\ chanClosed => cpc[Caller] \in {"waiting", "returned"}
  /\ cpc[Caller] \in {"idle", "sending", "closing", "waiting", "returned"}
  /\ answer # NotYet => cpc[Caller] = "returned"

(* What is written where about item i. *)
Slot(i) ==
  /\ i \in results <=> status[i] = "ok"
  /\ status[i] \in {"err", "ctxErr"} => i \in errs
  /\ i \in errs => status[i] \in {"err", "skipped", "ctxErr"} /\ hasError
  /\ status[i] \in {"panic", "skipped"} => [task |-> i, kind |-> status[i]] \in errors
  /\ \A k \in Failed : [task |-> i, kind |-> k] \in errors
                         => status[i] = k \/ (k = "skipped" /\ status[i] = "ctxErr")
  /\ status[i] \notin {"ErrPoolClosed", "ErrPoolFull"}

Slots ==
  /\ results \subseteq Items /\ errs \subseteq Items
  /\ \A i \in Items : Slot(i)

(* A worker calls the closure of an item only after its look at the        *)
(* context.                                                                *)
Stages ==
  \A w \in Workers : /\ wpc[w] = "holding" => status[wtask[w]] = "taken"
                     /\ wpc[w] = "running" => status[wtask[w]] = "running"

(* The inductive invariant of ParallelMap. *)
MapInv == OwnPool /\ PlaceInv /\ Stages /\ CallerAt /\ Slots /\ NoSilentFailure

-----------------------------------------------------------------------------
(* What is written about an item that a step does not touch stays true. *)
LEMMA SlotFrame ==
  ASSUME NEW i \in Items, Slot(i), status'[i] = status[i],
         (i \in results') <=> (i \in results), (i \in errs') <=> (i \in errs),
         hasError => hasError',
         \A k \in Failed : [task |-> i, kind |-> k] \in errors' <=> [task |-> i, kind |-> k] \in errors
  PROVE  Slot(i)'
  BY DEF Slot, Failed

(* While a worker or the caller is still at work there is no answer. *)
LEMMA NoAnswerYet ==
  ASSUME MapInv, cpc[Caller] # "returned" \/ \E w \in Workers : wpc[w] # "exited"
  PROVE  answer = NotYet
  BY DEF OwnPool, Items, MapInv, CallerAt, PlaceInv, Shutdown

(* ParallelMap starts in the invariant. *)
LEMMA InitMapInv == Init => MapInv
  <1> SUFFICES ASSUME Init PROVE MapInv
    OBVIOUS
  <1>0. OwnPool
    BY DEF Init
  <1> USE <1>0 DEF OwnPool, Items, Init
  <1>1. PlaceInv
    BY InitPoolInv DEF PoolInv
  <1>2. CallerAt
    BY DEF CallerAt, PoolInit, Items
  <1>3. Slots
    BY DEF Slots, Slot, PoolInit, Items
  <1>4. NoSilentFailure
    BY DEF NoSilentFailure
  <1>5. Stages
    BY DEF Stages, PoolInit
  <1> QED BY <1>1, <1>2, <1>3, <1>4, <1>5 DEF MapInv

(* The closed check of the next submit keeps the invariant: the pool is    *)
(* not closed before the loop is through.                                  *)
LEMMA StepSubmitItem ==
  ASSUME MapInv, SubmitItem
  PROVE  MapInv'
  <1>0. OwnPool
    BY DEF MapInv
  <1> USE <1>0 DEF OwnPool, Items
  <1>1. PlaceInv'
    BY StepSubmitCheck DEF MapInv, SubmitItem, Items
  <1>2. /\ next \in 1..N /\ N \in Nat /\ ~closed /\ next' = next + 1 /\ status[next] = "new"
        /\ status' = [status EXCEPT ![next] = "submitting"]
        /\ cpc' = [cpc EXCEPT ![Caller] = "sending"] /\ ctask' = [ctask EXCEPT ![Caller] = next]
        /\ UNCHANGED <<closed, chanClosed, results, errs, hasError, answer, errors>>
    BY DEF MapInv, CallerAt, SubmitItem, SubmitCheck, shutVars, Items
  <1>7. \A i \in Items : status[i] # "submitting"
    BY PoolAssumption DEF PoolAssumption, MapInv, CallerAt, PlaceInv, Holders, SubmitItem, SubmitCheck, Items
  <1>3. CallerAt'
    BY <1>2, <1>7 DEF MapInv, CallerAt, PlaceInv, TypeOK, Items
  <1>4. Slots'
    <2>1. \A i \in Items : i = next => Slot(i)'
      BY <1>2 DEF MapInv, Slots, Slot, CallerAt, PlaceInv, TypeOK, Items, Failed
    <2>2. \A i \in Items : i # next => Slot(i)'
      BY <1>2, SlotFrame DEF MapInv, Slots, PlaceInv, TypeOK, Items
    <2> QED BY <1>2, <2>1, <2>2 DEF MapInv, Slots
  <1>5. NoSilentFailure'
    BY <1>2, NoAnswerYet DEF NoSilentFailure, MapInv, CallerAt
  <1>6. Stages'
    BY <1>2 DEF MapInv, Stages, PlaceInv, Holders, TaskPlace, TypeOK, SubmitItem, SubmitCheck, workerVars, Items
  <1> QED BY <1>1, <1>3, <1>4, <1>5, <1>6 DEF MapInv

(* A step that changes the status of one item from one that says nothing   *)
(* to another, and writes no slot, keeps what is written.                  *)
LEMMA SilentChange ==
  ASSUME MapInv, NEW t \in Items, NEW st \in {"queued", "taken", "running"},
         status[t] \in {"submitting", "queued", "taken"},
         status' = [status EXCEPT ![t] = st],
         UNCHANGED <<results, errs, hasError, errors>>
  PROVE  /\ Slots'
         /\ \A i \in Items : status'[i] = "new" <=> status[i] = "new"
         /\ \A i \in Items : status'[i] = "submitting" => status[i] = "submitting" /\ i # t
  <1>0. OwnPool
    BY DEF MapInv
  <1> USE <1>0 DEF OwnPool, Items
  <1>1. Slot(t)'
    BY DEF MapInv, Slots, Slot, PlaceInv, TypeOK, Items, Failed
  <1>2. \A i \in Items : i # t => Slot(i)'
    BY SlotFrame DEF MapInv, Slots, PlaceInv, TypeOK, Items
  <1>3. \A i \in Items : /\ status'[i] = "new" <=> status[i] = "new"
                         /\ status'[i] = "submitting" => status[i] = "submitting" /\ i # t
    BY DEF MapInv, PlaceInv, TypeOK, Items
  <1> QED BY <1>1, <1>2, <1>3 DEF MapInv, Slots

(* The send on the channel keeps the invariant. *)
LEMMA StepSendItem ==
  ASSUME MapInv, SendItem
  PROVE  MapInv'
  <1>0. OwnPool
    BY DEF MapInv
  <1> USE <1>0 DEF OwnPool, Items
  <1>1. PlaceInv'
    BY StepSendTask DEF MapInv, SendItem
  <1>2. /\ ctask[Caller] \in Items /\ status[ctask[Caller]] = "submitting" /\ cpc[Caller] = "sending"
        /\ status' = [status EXCEPT ![ctask[Caller]] = "queued"]
        /\ cpc' = [cpc EXCEPT ![Caller] = "idle"]
        /\ UNCHANGED <<closed, chanClosed, next, results, errs, hasError, answer, errors>>
    BY DEF MapInv, CallerAt, SendItem, SendTask, IsSending, PlaceInv, Holders, TypeOK, shutVars, mapVars, Items
  <1>3. /\ Slots'
        /\ \A i \in Items : status'[i] = "new" <=> status[i] = "new"
        /\ \A i \in Items : status'[i] # "submitting"
    BY <1>2, SilentChange DEF MapInv, CallerAt
  <1>4. CallerAt'
    BY <1>2, <1>3, NoAnswerYet DEF MapInv, CallerAt, PlaceInv, TypeOK
  <1>5. NoSilentFailure'
    BY <1>2, NoAnswerYet DEF NoSilentFailure
  <1>6. Stages'
    BY <1>2 DEF MapInv, Stages, PlaceInv, Holders, TaskPlace, TypeOK, SendItem, SendTask, workerVars, Items
  <1> QED BY <1>1, <1>3, <1>4, <1>5, <1>6 DEF MapInv

(* A submit that the cancellation turned away keeps the invariant: its     *)
(* error is noted at the index of its item.                                *)
LEMMA StepSubmitFailed ==
  ASSUME MapInv, SubmitFailed
  PROVE  MapInv'
  <1>0. OwnPool
    BY DEF MapInv
  <1> USE <1>0 DEF OwnPool, Items
  <1> DEFINE t == ctask[Caller]
  <1>1. /\ t \in Items /\ status[t] = "submitting" /\ cpc[Caller] = "sending"
        /\ status' = [status EXCEPT ![t] = "ctxErr"]
        /\ cpc' = [cpc EXCEPT ![Caller] = "idle"]
        /\ errs' = errs \cup {t} /\ hasError' = TRUE
        /\ errors' = errors \cup {[task |-> t, kind |-> "skipped"]}
        /\ UNCHANGED <<closed, chanClosed, next, results, answer>>
    BY DEF MapInv, CallerAt, SubmitFailed, AbortSend, IsSending, PlaceInv, Holders, TypeOK, shutVars, Items
  <1>2. PlaceInv'
    <2>1. errors' \subseteq [task : Tasks, kind : Failed]
      BY <1>1 DEF MapInv, PlaceInv, TypeOK, Items, Failed
    <2> QED BY <2>1, StepAbortSend DEF MapInv, SubmitFailed, Rejected
  <1>3. Slots'
    <2>1. \A i \in Items : i = t => Slot(i)'
      BY <1>1 DEF MapInv, Slots, Slot, PlaceInv, TypeOK, Items, Failed
    <2>2. ASSUME NEW i \in Items, i # t PROVE Slot(i)'
      <3>1. \A k \in Failed : [task |-> i, kind |-> k] # [task |-> t, kind |-> "skipped"]
        BY <2>2
      <3>2. \A k \in Failed : [task |-> i, kind |-> k] \in errors' <=> [task |-> i, kind |-> k] \in errors
        BY <1>1, <3>1
      <3> QED BY <1>1, <2>2, <3>2, SlotFrame DEF MapInv, Slots, PlaceInv, TypeOK, Items
    <2> QED BY <1>1, <2>1, <2>2 DEF MapInv, Slots
  <1>4. CallerAt'
    BY <1>1, NoAnswerYet DEF MapInv, CallerAt, PlaceInv, TypeOK, Items
  <1>5. NoSilentFailure'
    BY <1>1, NoAnswerYet DEF NoSilentFailure
  <1>6. Stages'
    BY <1>1 DEF MapInv, Stages, PlaceInv, Holders, TaskPlace, TypeOK, SubmitFailed, AbortSend, workerVars, Items
  <1> QED BY <1>2, <1>3, <1>4, <1>5, <1>6 DEF MapInv

(* Closing the pool and waiting for its workers keeps the invariant. *)
LEMMA StepClosePool ==
  ASSUME MapInv, ClosePool
  PROVE  MapInv'
  <1>0. OwnPool
    BY DEF MapInv
  <1> USE <1>0 DEF OwnPool, Items
  <1>1. PlaceInv'
    BY StepShut DEF MapInv, ClosePool
  <1>2. UNCHANGED <<status, errors, next, results, errs, hasError, answer>>
    BY DEF ClosePool, CloseSwap, CloseChan, WaitReturn, mapVars
  <1>3. CallerAt'
    BY DEF MapInv, CallerAt, PlaceInv, TypeOK, Items, ClosePool, CloseSwap, CloseChan, WaitReturn, mapVars, shutVars
  <1>4. Slots'
    BY <1>2 DEF MapInv, Slots, Slot
  <1>5. NoSilentFailure'
    BY <1>2 DEF MapInv, NoSilentFailure
  <1>6. Stages'
    BY <1>2 DEF MapInv, Stages, ClosePool, CloseSwap, CloseChan, WaitReturn, workerVars
  <1> QED BY <1>1, <1>3, <1>4, <1>5, <1>6 DEF MapInv

(* A worker that receives a task, leaves, or begins one keeps the          *)
(* invariant.                                                              *)
LEMMA StepWorkerMoves ==
  ASSUME MapInv, NEW w \in Workers, WorkerReceive(w) \/ WorkerExit(w) \/ BeginTask(w), UNCHANGED mapVars
  PROVE  MapInv'
  <1>0. OwnPool
    BY DEF MapInv
  <1> USE <1>0 DEF OwnPool, Items
  <1>1. PlaceInv'
    BY StepWorkerReceive, StepWorkerExit, StepBeginTask DEF MapInv
  <1>2. /\ UNCHANGED <<closed, chanClosed, cpc, ctask, next, results, errs, hasError, answer, errors>>
        /\ wpc[w] # "exited"
    BY DEF WorkerReceive, WorkerExit, BeginTask, shutVars, clientVars, mapVars
  <1>3. NoSilentFailure'
    BY <1>2, NoAnswerYet DEF NoSilentFailure
  <1>4. CASE WorkerReceive(w)
    <2>1. Head(queue) \in Items /\ status[Head(queue)] = "queued"
      BY <1>4, TailQueue DEF MapInv, PlaceInv, WorkerReceive, TaskPlace, InQueue, TypeOK, Items
    <2>2. /\ Slots'
          /\ \A i \in Items : status'[i] = "new" <=> status[i] = "new"
          /\ \A i \in Items : status'[i] = "submitting" => status[i] = "submitting"
      BY <1>2, <1>4, <2>1, SilentChange DEF WorkerReceive
    <2>3. CallerAt'
      BY <1>2, <2>2 DEF MapInv, CallerAt
    <2>4. Stages'
      BY <1>4, <2>1 DEF MapInv, Stages, PlaceInv, TypeOK, WorkerReceive, Holders, TaskPlace, Items
    <2> QED BY <1>1, <1>3, <2>2, <2>3, <2>4 DEF MapInv
  <1>5. CASE BeginTask(w)
    <2>1. wtask[w] \in Items /\ status[wtask[w]] = "taken"
      BY <1>5 DEF MapInv, PlaceInv, BeginTask, Holders, TypeOK, Stages, Items
    <2>2. /\ Slots'
          /\ \A i \in Items : status'[i] = "new" <=> status[i] = "new"
          /\ \A i \in Items : status'[i] = "submitting" => status[i] = "submitting"
      BY <1>2, <1>5, <2>1, SilentChange DEF BeginTask
    <2>3. CallerAt'
      BY <1>2, <2>2 DEF MapInv, CallerAt
    <2>4. Stages'
      BY <1>5, <2>1 DEF MapInv, Stages, PlaceInv, TypeOK, BeginTask, Holders, TaskPlace, Items
    <2> QED BY <1>1, <1>3, <2>2, <2>3, <2>4 DEF MapInv
  <1>6. CASE WorkerExit(w)
    <2>1. status' = status
      BY <1>6 DEF WorkerExit
    <2>2. Slots' /\ CallerAt'
      BY <1>2, <2>1 DEF MapInv, Slots, Slot, CallerAt
    <2>3. Stages'
      BY <1>6 DEF MapInv, Stages, PlaceInv, TypeOK, WorkerExit
    <2> QED BY <1>1, <1>3, <2>2, <2>3 DEF MapInv
  <1> QED BY <1>4, <1>5, <1>6

(* The end of a task keeps the invariant, if the slots it wrote are those  *)
(* its outcome calls for.                                                  *)
LEMMA StepEndItem ==
  ASSUME MapInv, NEW w \in Workers, NEW o \in Ended, wpc[w] \in {"holding", "running"}, EndTask(w, o),
         results' = IF o = "ok" THEN results \cup {wtask[w]} ELSE results,
         \/ errs' = errs /\ hasError' = hasError /\ o # "err"
         \/ errs' = errs \cup {wtask[w]} /\ hasError' = TRUE /\ o \in {"err", "skipped"},
         UNCHANGED <<next, answer>>
  PROVE  MapInv'
  <1>0. OwnPool
    BY DEF MapInv
  <1> USE <1>0 DEF OwnPool, Items
  <1> DEFINE t == wtask[w]
  <1>1. PlaceInv'
    BY StepEndTask DEF MapInv
  <1>2. t \in Items /\ status[t] \in {"taken", "running"}
    BY DEF MapInv, PlaceInv, Holders, TypeOK, Stages, Items
  <1>3. /\ status' = [status EXCEPT ![t] = o] /\ UNCHANGED <<closed, chanClosed, cpc, ctask>>
        /\ errors' = errors \cup Recorded(w, o)
        /\ wpc' = [wpc EXCEPT ![w] = "select"] /\ wtask' = [wtask EXCEPT ![w] = None]
    BY DEF EndTask, shutVars, clientVars
  <1>4. \A e \in Recorded(w, o) : e = [task |-> t, kind |-> o] /\ o # "ok"
    BY DEF Recorded
  <1>5. Slots'
    <2>1. ASSUME NEW i \in Items, i # t PROVE Slot(i)'
      <3>1. \A k \in Failed : [task |-> i, kind |-> k] # [task |-> t, kind |-> o]
        BY <2>1
      <3>2. \A k \in Failed : [task |-> i, kind |-> k] \in errors' <=> [task |-> i, kind |-> k] \in errors
        BY <1>3, <1>4, <3>1
      <3>3. status'[i] = status[i] /\ (i \in results' <=> i \in results) /\ (i \in errs' <=> i \in errs)
        BY <1>3, <2>1 DEF MapInv, PlaceInv, TypeOK, Items
      <3> QED BY <2>1, <3>2, <3>3, SlotFrame DEF MapInv, Slots
    <2>2. ASSUME NEW i \in Items, i = t PROVE Slot(i)'
      <3>1. status'[i] = o
        BY <1>3, <2>2 DEF MapInv, PlaceInv, TypeOK, Items
      <3>2. i \notin results /\ i \notin errs
        BY <1>2, <2>2 DEF MapInv, Slots, Slot
      <3>3. \A k \in Failed : [task |-> i, kind |-> k] \notin errors
        BY <1>2, <2>2 DEF MapInv, Slots, Slot, Failed
      <3>4. \A k \in Failed : [task |-> i, kind |-> k] \in errors' => k = o
        BY <1>3, <1>4, <3>3
      <3>5. o # "ok" => [task |-> i, kind |-> o] \in errors'
        BY <1>3, <2>2 DEF Recorded
      <3> QED BY <2>2, <3>1, <3>2, <3>4, <3>5 DEF Slot, Ended, Failed
    <2>3. results' \subseteq Items /\ errs' \subseteq Items
      BY <1>2 DEF MapInv, Slots
    <2> QED BY <2>1, <2>2, <2>3 DEF Slots
  <1>6. CallerAt'
    BY <1>2, <1>3 DEF MapInv, CallerAt, PlaceInv, TypeOK, Items, Ended, Failed
  <1>7. Stages'
    BY <1>2, <1>3 DEF MapInv, Stages, PlaceInv, TypeOK, Holders, TaskPlace, Items
  <1>8. NoSilentFailure'
    BY NoAnswerYet DEF NoSilentFailure
  <1> QED BY <1>1, <1>5, <1>6, <1>7, <1>8 DEF MapInv

(* The steps of a worker on an item keep the invariant. *)
LEMMA StepRunItem ==
  ASSUME MapInv, NEW w \in Workers, RunItem(w)
  PROVE  MapInv'
  <1>1. CASE (WorkerReceive(w) \/ WorkerExit(w) \/ BeginTask(w)) /\ UNCHANGED mapVars
    BY <1>1, StepWorkerMoves
  <1>2. CASE SkipTask(w) /\ UNCHANGED mapVars
    BY <1>2, StepEndItem DEF SkipTask, mapVars, Ended, Failed
  <1>3. CASE /\ FinishTask(w, "ok") /\ results' = results \cup {wtask[w]}
             /\ UNCHANGED <<next, errs, hasError, answer>>
    BY <1>3, StepEndItem DEF FinishTask, Ended
  <1>4. ASSUME NEW o \in {"err", "skipped"}, FinishTask(w, o), errs' = errs \cup {wtask[w]},
               hasError' = TRUE, UNCHANGED <<next, results, answer>>
        PROVE  MapInv'
    BY <1>4, StepEndItem DEF FinishTask, Ended, Failed
  <1>5. CASE FinishTask(w, "panic") /\ UNCHANGED mapVars
    BY <1>5, StepEndItem DEF FinishTask, mapVars, Ended, Failed
  <1> QED BY <1>1, <1>2, <1>3, <1>4, <1>5 DEF RunItem

(* Every item that is not accounted for when ParallelMap returns was cut   *)
(* off by a cancellation.                                                  *)
LEMMA AllItemsEnded ==
  ASSUME MapInv, cpc[Caller] = "returned", NEW i \in Items
  PROVE  /\ status[i] \in Ended \cup {"ctxErr", "queued"}
         /\ status[i] = "queued" => cancelled
  <1>0. OwnPool
    BY DEF MapInv
  <1> USE <1>0 DEF OwnPool, Items
  <1>1. \A w \in Workers : wpc[w] = "exited"
    BY DEF MapInv, PlaceInv, Shutdown
  <1>2. \A w \in Workers : wtask[w] = None
    BY <1>1 DEF MapInv, PlaceInv, Holders
  <1>3. status[i] \notin {"taken", "running"}
    BY <1>2, PoolAssumption DEF MapInv, PlaceInv, TaskPlace, Items, PoolAssumption
  <1>4. status[i] # "submitting"
    BY PoolAssumption DEF MapInv, CallerAt, PlaceInv, Holders, Items, PoolAssumption
  <1>5. status[i] # "new"
    BY DEF MapInv, CallerAt, Items
  <1>6. status[i] = "queued" => cancelled
    <2>1. status[i] = "queued" => queue # <<>>
      BY EmptySeq DEF MapInv, PlaceInv, TaskPlace, InQueue, Items
    <2> QED BY <1>1, <2>1, PoolAssumption DEF MapInv, PlaceInv, Shutdown, PoolAssumption
  <1>7. status[i] \in Status /\ status[i] \notin {"ErrPoolClosed", "ErrPoolFull"}
    BY DEF MapInv, PlaceInv, TypeOK, Slots, Slot, Items
  <1> QED BY <1>3, <1>4, <1>5, <1>6, <1>7 DEF Status, Pending, Rejected

(* The errors returned are exactly the messages of the items with a bad    *)
(* outcome: what errs and the errors of the pool both hold is no more, and *)
(* what only one of them holds is not lost.                                *)
LEMMA ErrorsCollected ==
  ASSUME MapInv, cpc[Caller] = "returned"
  PROVE  CollectErrors = {Message(status[i], i) : i \in {j \in Items : status[j] \in Failed \cup {"ctxErr"}}}
  <1>0. OwnPool
    BY DEF MapInv
  <1> USE <1>0 DEF OwnPool, Items
  <1> DEFINE Bad == {j \in Items : status[j] \in Failed \cup {"ctxErr"}}
             All == {Message(status[i], i) : i \in errs} \cup {Message(e.kind, e.task) : e \in errors}
  <1>1. errs \subseteq Bad
    BY DEF MapInv, Slots, Slot, Failed
  <1>2. ASSUME NEW e \in errors
        PROVE  e.task \in Bad /\ Message(e.kind, e.task) = Message(status[e.task], e.task)
    <2>1. e \in [task : Tasks, kind : Failed]
      BY DEF MapInv, PlaceInv, TypeOK
    <2>2. e.task \in Items /\ e.kind \in Failed /\ [task |-> e.task, kind |-> e.kind] \in errors
      BY <2>1 DEF Items
    <2>3. status[e.task] = e.kind \/ (e.kind = "skipped" /\ status[e.task] = "ctxErr")
      BY <2>2 DEF MapInv, Slots, Slot
    <2> QED BY <2>2, <2>3 DEF Message, Failed
  <1>3. ASSUME NEW i \in Bad PROVE Message(status[i], i) \in All /\ (hasError \/ errors # {})
    <2>1. CASE i \in errs
      BY <2>1 DEF MapInv, Slots, Slot
    <2>2. CASE i \notin errs
      <3>1. [task |-> i, kind |-> status[i]] \in errors
        BY <2>2 DEF MapInv, Slots, Slot, Failed
      <3> QED BY <3>1
    <2> QED BY <2>1, <2>2
  <1>4. All = {Message(status[i], i) : i \in Bad}
    BY <1>1, <1>2, <1>3
  <1>5. CASE hasError \/ errors # {}
    BY <1>4, <1>5 DEF CollectErrors
  <1>6. CASE ~hasError /\ errors = {}
    <2>1. Bad = {}
      BY <1>3, <1>6
    <2> QED BY <1>6, <2>1 DEF CollectErrors
  <1> QED BY <1>5, <1>6

(* The return of ParallelMap keeps the invariant. *)
LEMMA StepReturnMap ==
  ASSUME MapInv, ReturnMap
  PROVE  MapInv'
  <1>0. OwnPool
    BY DEF MapInv
  <1> USE <1>0 DEF OwnPool, Items
  <1>1. UNCHANGED <<cancelled, closed, chanClosed, queue, wpc, wtask, cpc, ctask, status, errors, next, results, errs, hasError>>
    BY DEF ReturnMap, poolVars
  <1>2. PlaceInv' /\ Stages' /\ Slots'
    BY <1>1 DEF MapInv, PlaceInv, TypeOK, TaskPlace, InQueue, Holders, Shutdown, Stages, Slots, Slot
  <1>3. CallerAt'
    BY <1>1 DEF MapInv, CallerAt, ReturnMap
  <1>4. NoSilentFailure'
    <2>1. answer' = [results |-> results, errors |-> CollectErrors]
      BY DEF ReturnMap
    <2>2. results = {i \in Items : status[i] = "ok"}
      BY DEF MapInv, Slots, Slot
    <2>3. ASSUME NEW i \in Items, status[i] \in Failed \cup Rejected
          PROVE  Message(status[i], i) \in CollectErrors
      <3>1. status[i] \in Failed \cup {"ctxErr"}
        BY <2>3 DEF MapInv, Slots, Slot, Rejected
      <3> QED BY <3>1, ErrorsCollected DEF ReturnMap
    <2> QED BY <1>1, <2>1, <2>2, <2>3 DEF NoSilentFailure, Message
  <1> QED BY <1>2, <1>3, <1>4 DEF MapInv

(* A cancellation keeps the invariant. *)
LEMMA StepCancelMap ==
  ASSUME MapInv, CancelMap
  PROVE  MapInv'
  <1>1. PlaceInv'
    BY StepParentCancel DEF MapInv, CancelMap
  <1>2. UNCHANGED <<closed, chanClosed, wpc, wtask, cpc, ctask, status, errors, next, results, errs, hasError, answer>>
    BY DEF CancelMap, ParentCancel, workerVars, clientVars, mapVars
  <1> QED BY <1>1, <1>2 DEF MapInv, Stages, CallerAt, Slots, Slot, NoSilentFailure, Message

(* Every step keeps the invariant. *)
LEMMA NextMapInv == MapInv /\ [Next]_vars => MapInv'
  <1> SUFFICES ASSUME MapInv, [Next]_vars PROVE MapInv'
    OBVIOUS
  <1>1. CASE Next
    BY <1>1, StepSubmitItem, StepSendItem, StepSubmitFailed, StepClosePool, StepReturnMap,
       StepCancelMap, StepRunItem DEF Next
  <1>2. CASE UNCHANGED vars
    BY <1>2 DEF vars, poolVars, mapVars, MapInv, PlaceInv, TypeOK, TaskPlace, InQueue, Holders,
                Shutdown, Stages, CallerAt, Slots, Slot, NoSilentFailure, Message
  <1> QED BY <1>1, <1>2

(* ParallelMap never leaves its invariant. *)
LEMMA MapInvariance == Spec => []MapInv
  BY InitMapInv, NextMapInv, PTL DEF Spec

-----------------------------------------------------------------------------
(* Whatever happens to an item, the caller of ParallelMap hears of it: the *)
(* items with a result are exactly those whose closure succeeded, and the  *)
(* errors hold the message of every other one that was worked on or        *)
(* refused.                                                                *)
THEOREM NoFailureIsSilent == Spec => []NoSilentFailure
  <1>1. MapInv => NoSilentFailure
    BY DEF MapInv
  <1> QED BY <1>1, MapInvariance, PTL

(* The items as a caller sees them. *)
Outcomes == [i \in Items |-> Outcome(i)]

(* What the change of one item's status is to a caller. *)
LEMMA OutcomeChange ==
  ASSUME MapInv, NEW t \in Items, NEW st, status' = [status EXCEPT ![t] = st]
  PROVE  Outcomes' = [Outcomes EXCEPT ![t] = IF st \in Ended \cup Rejected \cup {"running"} THEN st ELSE "none"]
  BY DEF OwnPool, Items, MapInv, PlaceInv, TypeOK, Outcomes, Outcome

(* The initial state is one of BatchMap. *)
LEMMA InitRefines == Init => Promise!Init
  BY DEF OwnPool, Items, Init, PoolInit, Promise!Init, Outcome, Ended, Failed, Rejected

(* A step that ends, refuses or begins no item is no step to the caller. *)
LEMMA InvisibleChange ==
  ASSUME MapInv, NEW t \in Items, NEW st \in {"submitting", "queued", "taken"},
         status[t] \in {"new", "submitting", "queued"}, status' = [status EXCEPT ![t] = st],
         UNCHANGED <<cancelled, answer>>
  PROVE  UNCHANGED Promise!batchVars
  <1>1. Outcomes' = [Outcomes EXCEPT ![t] = "none"]
    BY OutcomeChange DEF Ended, Failed, Rejected
  <1>2. Outcomes[t] = "none"
    BY DEF Outcomes, Outcome, Ended, Failed, Rejected
  <1>3. Outcomes' = Outcomes
    BY <1>1, <1>2 DEF Outcomes
  <1> QED BY <1>3 DEF Promise!batchVars, Outcomes

(* To the caller's eye, the steps of its submit loop and of closing the    *)
(* pool are no steps, except that a submit may be refused.                 *)
LEMMA CallerRefines ==
  ASSUME MapInv, SubmitItem \/ SendItem \/ SubmitFailed \/ ClosePool
  PROVE  [Promise!Next]_(Promise!batchVars)
  <1>0. OwnPool
    BY DEF MapInv
  <1> USE <1>0 DEF OwnPool, Items
  <1>1. CASE SubmitItem
    <2>1. /\ next \in Items /\ status[next] = "new" /\ UNCHANGED <<cancelled, answer>>
          /\ status' = [status EXCEPT ![next] = "submitting"]
      BY <1>1 DEF MapInv, CallerAt, SubmitItem, SubmitCheck, shutVars, Items
    <2> QED BY <2>1, InvisibleChange
  <1>2. CASE SendItem
    <2>1. /\ ctask[Caller] \in Items /\ status[ctask[Caller]] = "submitting"
          /\ status' = [status EXCEPT ![ctask[Caller]] = "queued"] /\ UNCHANGED <<cancelled, answer>>
      BY <1>2 DEF MapInv, SendItem, SendTask, IsSending, PlaceInv, Holders, TypeOK, shutVars, mapVars, Items
    <2> QED BY <2>1, InvisibleChange
  <1>3. CASE SubmitFailed
    <2>1. /\ ctask[Caller] \in Items /\ status[ctask[Caller]] = "submitting" /\ cpc[Caller] = "sending"
          /\ status' = [status EXCEPT ![ctask[Caller]] = "ctxErr"]
          /\ cancelled /\ UNCHANGED <<cancelled, answer>>
      BY <1>3 DEF MapInv, CallerAt, SubmitFailed, AbortSend, IsSending, PlaceInv, Holders, TypeOK, shutVars, Items
    <2>2. Outcomes' = [Outcomes EXCEPT ![ctask[Caller]] = "ctxErr"]
      BY <2>1, OutcomeChange DEF Rejected
    <2>3. Outcomes[ctask[Caller]] = "none" /\ answer = NotYet
      BY <2>1, NoAnswerYet DEF Outcomes, Outcome, Ended, Failed, Rejected
    <2>4. Promise!Refuse(ctask[Caller], "ctxErr")
      BY <2>1, <2>2, <2>3 DEF Promise!Refuse, Outcomes
    <2> QED BY <2>1, <2>4 DEF Promise!Next
  <1>4. CASE ClosePool
    <2>1. UNCHANGED <<status, cancelled, answer>>
      BY <1>4 DEF ClosePool, CloseSwap, CloseChan, WaitReturn, shutVars, mapVars
    <2> QED BY <2>1 DEF Promise!batchVars, Outcome
  <1> QED BY <1>1, <1>2, <1>3, <1>4

(* A worker begins an item, ends it, or skips it after a cancellation; the *)
(* rest of what it does the caller does not see.                           *)
LEMMA WorkerRefines ==
  ASSUME MapInv, NEW w \in Workers, RunItem(w)
  PROVE  [Promise!Next]_(Promise!batchVars)
  <1>0. OwnPool
    BY DEF MapInv
  <1> USE <1>0 DEF OwnPool, Items
  <1>1. UNCHANGED <<cancelled, answer>> /\ (wpc[w] # "exited" => answer = NotYet)
    BY NoAnswerYet DEF RunItem, WorkerReceive, WorkerExit, BeginTask, SkipTask, FinishTask, EndTask, shutVars, mapVars
  <1>2. wpc[w] \in {"holding", "running"} => wtask[w] \in Items
    BY DEF MapInv, PlaceInv, Holders, TypeOK, Items
  <1>3. CASE WorkerReceive(w)
    <2>1. Head(queue) \in Items /\ status[Head(queue)] = "queued"
      BY <1>3, TailQueue DEF MapInv, PlaceInv, WorkerReceive, TaskPlace, InQueue, TypeOK, Items
    <2> QED BY <1>1, <1>3, <2>1, InvisibleChange DEF WorkerReceive
  <1>4. CASE WorkerExit(w)
    BY <1>1, <1>4 DEF WorkerExit, Promise!batchVars, Outcome
  <1>5. CASE BeginTask(w)
    <2>1. /\ wtask[w] \in Items /\ status[wtask[w]] = "taken" /\ answer = NotYet
          /\ status' = [status EXCEPT ![wtask[w]] = "running"]
      BY <1>1, <1>2, <1>5 DEF MapInv, Stages, BeginTask
    <2>2. Outcomes' = [Outcomes EXCEPT ![wtask[w]] = "running"] /\ Outcomes[wtask[w]] = "none"
      BY <2>1, OutcomeChange DEF Outcomes, Outcome, Ended, Failed, Rejected
    <2>3. Promise!Begin(wtask[w])
      BY <1>1, <2>1, <2>2 DEF Promise!Begin, Outcomes
    <2> QED BY <2>1, <2>3 DEF Promise!Next
  <1>6. CASE SkipTask(w)
    <2>1. /\ wtask[w] \in Items /\ status[wtask[w]] = "taken" /\ answer = NotYet /\ cancelled
          /\ status' = [status EXCEPT ![wtask[w]] = "skipped"]
      BY <1>1, <1>2, <1>6 DEF MapInv, Stages, SkipTask, EndTask
    <2>2. Outcomes' = [Outcomes EXCEPT ![wtask[w]] = "skipped"] /\ Outcomes[wtask[w]] = "none"
      BY <2>1, OutcomeChange DEF Outcomes, Outcome, Ended, Failed, Rejected
    <2>3. Promise!Refuse(wtask[w], "skipped")
      BY <1>1, <2>1, <2>2 DEF Promise!Refuse, Outcomes
    <2> QED BY <2>1, <2>3 DEF Promise!Next
  <1>7. ASSUME NEW o \in Ended, FinishTask(w, o)
        PROVE  Promise!Next
    <2>1. /\ wtask[w] \in Items /\ status[wtask[w]] = "running" /\ (o = "skipped" => cancelled)
          /\ status' = [status EXCEPT ![wtask[w]] = o]
      BY <1>2, <1>7 DEF MapInv, Stages, FinishTask, EndTask
    <2>2. Outcomes' = [Outcomes EXCEPT ![wtask[w]] = o] /\ Outcomes[wtask[w]] = "running"
      BY <2>1, OutcomeChange DEF Outcomes, Outcome
    <2>3. Promise!Finish(wtask[w], o)
      BY <1>1, <2>1, <2>2 DEF Promise!Finish, Outcomes
    <2> QED BY <2>1, <2>3 DEF Promise!Next, Ended, Failed
  <1> QED BY <1>3, <1>4, <1>5, <1>6, <1>7 DEF RunItem, Ended, Failed

(* ParallelMap returns what BatchMap promises: no item is under way, only  *)
(* a cancellation has left any out, and the value is that of its Answer.   *)
LEMMA ReturnRefines ==
  ASSUME MapInv, ReturnMap
  PROVE  Promise!Return
  <1>1. cpc[Caller] = "returned" /\ answer = NotYet /\ UNCHANGED <<status, cancelled>>
    BY DEF ReturnMap, poolVars
  <1>2. \A i \in Items : Outcomes[i] # "running" /\ (cancelled \/ Outcomes[i] # "none")
    BY <1>1, AllItemsEnded DEF Outcomes, Outcome, Ended, Failed, Rejected
  <1>3. {j \in Items : Outcomes[j] \in Promise!Bad} = {j \in Items : status[j] \in Failed \cup {"ctxErr"}}
    BY DEF Promise!Bad, Outcomes, Outcome, Ended, Failed, Rejected
  <1>4. \A i \in Items : status[i] \in Failed \cup {"ctxErr"}
                           => Promise!Message(Outcomes[i], i) = Message(status[i], i)
    BY DEF Promise!Message, Message, Outcomes, Outcome, Ended, Failed, Rejected
  <1>5. {Promise!Message(Outcomes[i], i) : i \in {j \in Items : Outcomes[j] \in Promise!Bad}} = CollectErrors
    BY <1>1, <1>3, <1>4, ErrorsCollected
  <1>6. {i \in Items : Outcomes[i] = "ok"} = results
    BY DEF MapInv, Slots, Slot, Outcomes, Outcome, Ended
  <1>7. answer' = Promise!Answer
    BY <1>5, <1>6 DEF ReturnMap, Promise!Answer, Outcomes
  <1>8. Outcomes' = Outcomes
    BY <1>1 DEF Outcomes, Outcome
  <1> QED BY <1>1, <1>2, <1>7, <1>8 DEF Promise!Return, Outcomes

(* ParallelMap, with its workers, its channel and its locks, implements    *)
(* BatchMap: each of its steps is one that BatchMap allows, or changes     *)
(* nothing a caller could see.                                             *)
THEOREM ParallelMapRefines == Spec => PromiseSpec
  <1>1. MapInv /\ [Next]_vars => [Promise!Next]_(Promise!batchVars)
    <2> SUFFICES ASSUME MapInv, [Next]_vars PROVE [Promise!Next]_(Promise!batchVars)
      OBVIOUS
    <2>1. CASE UNCHANGED vars
      BY <2>1 DEF vars, poolVars, mapVars, Promise!batchVars, Outcome
    <2>2. CASE CancelMap
      BY <2>2 DEF CancelMap, ParentCancel, mapVars, Promise!Next, Promise!Cancel, Outcome
    <2>3. CASE ReturnMap
      BY <2>3, ReturnRefines DEF Promise!Next
    <2> QED BY <2>1, <2>2, <2>3, CallerRefines, WorkerRefines DEF Next
  <1> QED BY <1>1, InitRefines, MapInvariance, PTL DEF Spec, PromiseSpec, Promise!Spec
=============================================================================
