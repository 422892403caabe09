------------------------------ MODULE WorkerPool ------------------------------
(***************************************************************************)
(* The bounded worker pool of internal/engine/workerpool.go: client        *)
(* goroutines submit tasks through a buffered channel, worker goroutines   *)
(* take and run them, and a client closes or stops the pool.               *)
(*                                                                         *)
(* A step is what one goroutine does between two points where another one  *)
(* can interfere: the load of the closed flag and the select that sends    *)
(* are two steps of Submit, the swap of the flag and the close of the      *)
(* channel are two steps of Close.  A nil task is refused by Submit before *)
(* anything is read or written (ErrTaskNil), so it is no step at all.      *)
(***************************************************************************)
EXTENDS Naturals, Sequences

CONSTANTS Clients,    \* the goroutines that use the pool
          Workers,    \* the worker goroutines NewWorkerPool starts
          Tasks,      \* the tasks the clients may submit
          QueueSize,  \* the capacity of the channel of tasks
          None        \* no task

ASSUME PoolAssumption ==
  /\ QueueSize \in Nat \ {0}
  /\ Workers # {}
  /\ None \notin Tasks

VARIABLES
  cancelled,   \* p.ctx is done: the parent was cancelled, or Stop was called
  closed,      \* the atomic flag p.closed
  chanClosed,  \* the channel p.tasks was closed
  queue,       \* the buffer of the channel p.tasks
  wpc, wtask,  \* where each worker is, and the task it holds
  cpc, ctask,  \* where each client is, and the task it is submitting
  status,      \* what happened to each task so far
  errors       \* p.errors, each error with the task it is about

poolVars == <<cancelled, closed, chanClosed, queue, wpc, wtask, cpc, ctask,
              status, errors>>
clientVars == <<cpc, ctask>>
workerVars == <<wpc, wtask>>
shutVars   == <<cancelled, closed, chanClosed>>

(* The results of Submit other than nil. *)
Rejected == {"ErrPoolClosed", "ErrPoolFull", "ctxErr"}
(* The ways a task the pool took can end; "skipped" is the context's error. *)
Failed   == {"err", "panic", "skipped"}
Ended    == Failed \cup {"ok"}
Pending  == {"queued", "taken", "running"}
Status   == {"new", "submitting"} \cup Pending \cup Ended \cup Rejected

ClientPC == {"idle", "sending", "sendingTimeout", "stopping", "closing",
             "waiting", "returned", "panicked", "closePanicked"}

-----------------------------------------------------------------------------
(* NewWorkerPool and start: the channel is empty, every worker is running. *)
PoolInit ==
  /\ cancelled = FALSE /\ closed = FALSE /\ chanClosed = FALSE
  /\ queue = <<>>
  /\ wpc = [w \in Workers |-> "select"]
  /\ wtask = [w \in Workers |-> None]
  /\ cpc = [c \in Clients |-> "idle"]
  /\ ctask = [c \in Clients |-> None]
  /\ status = [t \in Tasks |-> "new"]
  /\ errors = {}

(***************************************************************************)
(* Submit and SubmitWithTimeout.                                           *)
(***************************************************************************)
(* The load of the closed flag; on success the client goes on to select. *)
SubmitCheck(c, t, sel) ==
  /\ cpc[c] \in {"idle", "returned"}
  /\ status[t] = "new"
  /\ IF closed
       THEN /\ status' = [status EXCEPT ![t] = "ErrPoolClosed"]
            /\ UNCHANGED clientVars
       ELSE /\ status' = [status EXCEPT ![t] = "submitting"]
            /\ cpc' = [cpc EXCEPT ![c] = sel]
            /\ ctask' = [ctask EXCEPT ![c] = t]
  /\ UNCHANGED <<shutVars, queue, workerVars, errors>>

IsSending(c) == cpc[c] \in {"sending", "sendingTimeout"}

HasRoom == Len(queue) < QueueSize

(* The send case of the select: there is room in the channel. *)
SendTask(c) ==
  /\ IsSending(c)
  /\ ~chanClosed
  /\ HasRoom
  /\ queue' = Append(queue, ctask[c])
  /\ status' = [status EXCEPT ![ctask[c]] = "queued"]
  /\ cpc' = [cpc EXCEPT ![c] = "idle"]
  /\ ctask' = [ctask EXCEPT ![c] = None]
  /\ UNCHANGED <<shutVars, workerVars, errors>>

(* The select gives up for the reason why, and Submit returns it. *)
AbortSend(c, why) ==
  /\ IsSending(c)
  /\ status' = [status EXCEPT ![ctask[c]] = why]
  /\ cpc' = [cpc EXCEPT ![c] = "idle"]
  /\ ctask' = [ctask EXCEPT ![c] = None]
  /\ UNCHANGED <<shutVars, queue, workerVars>>

(* The ctx.Done() case of the select. *)
SendCancelled(c) == cancelled /\ AbortSend(c, "ctxErr") /\ UNCHANGED errors

(* The timer case of the select of SubmitWithTimeout. *)
SendTimeout(c) ==
  /\ cpc[c] = "sendingTimeout"
  /\ AbortSend(c, "ErrPoolFull")
  /\ UNCHANGED errors

(* The send case of the select on a closed channel: a run-time panic. *)
SendOnClosed(c) ==
  /\ IsSending(c)
  /\ chanClosed
  /\ cpc' = [cpc EXCEPT ![c] = "panicked"]
  /\ UNCHANGED <<shutVars, queue, workerVars, ctask, status, errors>>

(***************************************************************************)
(* Close, Stop and Wait.                                                   *)
(***************************************************************************)
(* p.cancel(), the first statement of Stop. *)
StopCancel(c) ==
  /\ cpc[c] \in {"idle", "returned"}
  /\ cancelled' = TRUE
  /\ cpc' = [cpc EXCEPT ![c] = "stopping"]
  /\ UNCHANGED <<closed, chanClosed, queue, workerVars, ctask, status, errors>>

(* Mutation: the flag is only looked at, and not set before the channel is *)
(* closed.                                                                 *)
CloseSwapForgets(c) ==
  /\ cpc[c] \in {"idle", "stopping", "returned"}
  /\ cpc' = [cpc EXCEPT ![c] = IF closed \/ chanClosed THEN "waiting" ELSE "closing"]
  /\ UNCHANGED <<shutVars, queue, workerVars, ctask, status, errors>>

(* p.closed.Swap(true): the first caller goes on to close the channel. *)
CloseSwap(c) ==
  /\ cpc[c] \in {"idle", "stopping", "returned"}
  /\ closed' = TRUE
  /\ cpc' = [cpc EXCEPT ![c] = IF closed THEN "waiting" ELSE "closing"]
  /\ UNCHANGED <<cancelled, chanClosed, queue, workerVars, ctask, status, errors>>

(* Mutation: the channel stays open. *)
CloseChanMissing(c) ==
  /\ cpc[c] = "closing"
  /\ cpc' = [cpc EXCEPT ![c] = "waiting"]
  /\ UNCHANGED <<shutVars, queue, workerVars, ctask, status, errors>>

(* close(p.tasks): closing a closed channel is a run-time panic. *)
CloseChan(c) ==
  /\ cpc[c] = "closing"
  /\ chanClosed' = TRUE
  /\ cpc' = [cpc EXCEPT ![c] = IF chanClosed THEN "closePanicked" ELSE "waiting"]
  /\ UNCHANGED <<cancelled, closed, queue, workerVars, ctask, status, errors>>

(* Mutation: the first worker that leaves ends the wait. *)
WaitForOne(c) ==
  /\ cpc[c] = "waiting"
  /\ \E w \in Workers : wpc[w] = "exited"
  /\ cpc' = [cpc EXCEPT ![c] = "returned"]
  /\ UNCHANGED <<shutVars, queue, workerVars, ctask, status, errors>>

(* p.wg.Wait() returns: every worker goroutine is gone. *)
WaitReturn(c) ==
  /\ cpc[c] = "waiting"
  /\ \A w \in Workers : wpc[w] = "exited"
  /\ cpc' = [cpc EXCEPT ![c] = "returned"]
  /\ UNCHANGED <<shutVars, queue, workerVars, ctask, status, errors>>

(* The context NewWorkerPool was given is cancelled by its owner. *)
ParentCancel ==
  /\ ~cancelled
  /\ cancelled' = TRUE
  /\ UNCHANGED <<closed, chanClosed, queue, workerVars, clientVars, status, errors>>

(***************************************************************************)
(* The loop of worker and executeTask.                                     *)
(***************************************************************************)
WorkerReceive(w) ==
  /\ wpc[w] = "select"
  /\ queue # <<>>
  /\ wtask' = [wtask EXCEPT ![w] = Head(queue)]
  /\ status' = [status EXCEPT ![Head(queue)] = "taken"]
  /\ queue' = Tail(queue)
  /\ wpc' = [wpc EXCEPT ![w] = "holding"]
  /\ UNCHANGED <<shutVars, clientVars, errors>>

(* Mutation: a closed channel ends the worker, whatever it buffers. *)
DrainedIgnoresBuffer == chanClosed
Drained == chanClosed /\ queue = <<>>

(* The select of the loop ends the goroutine: a closed channel still       *)
(* delivers what it buffers, a cancelled context ends the loop at once.    *)
WorkerExit(w) ==
  /\ wpc[w] = "select"
  /\ cancelled \/ Drained
  /\ wpc' = [wpc EXCEPT ![w] = "exited"]
  /\ UNCHANGED <<shutVars, queue, wtask, clientVars, status, errors>>

(* The non-blocking check of the context before the task is called. *)
BeginTask(w) ==
  /\ wpc[w] = "holding"
  /\ ~cancelled
  /\ wpc' = [wpc EXCEPT ![w] = "running"]
  /\ status' = [status EXCEPT ![wtask[w]] = "running"]
  /\ UNCHANGED <<shutVars, queue, wtask, clientVars, errors>>

(* Mutation: the recovered panic is not recorded. *)
RecordedNoPanic(w, outcome) ==
  IF outcome \in {"ok", "panic"} THEN {} ELSE {[task |-> wtask[w], kind |-> outcome]}
(* recordError *)
Recorded(w, outcome) ==
  IF outcome = "ok" THEN {} ELSE {[task |-> wtask[w], kind |-> outcome]}

(* executeTask returns with the outcome of its task. *)
EndTask(w, outcome) ==
  /\ status' = [status EXCEPT ![wtask[w]] = outcome]
  /\ errors' = errors \cup Recorded(w, outcome)
  /\ wpc' = [wpc EXCEPT ![w] = "select"]
  /\ wtask' = [wtask EXCEPT ![w] = None]
  /\ UNCHANGED <<shutVars, queue, clientVars>>

SkipTask(w) == wpc[w] = "holding" /\ cancelled /\ EndTask(w, "skipped")

(* The task returns nil, returns an error of its own or, once cancelled,   *)
(* the context's, or panics and is recovered.                              *)
FinishTask(w, outcome) ==
  /\ wpc[w] = "running"
  /\ outcome = "skipped" => cancelled
  /\ EndTask(w, outcome)

-----------------------------------------------------------------------------
ClientNext(c) ==
  \/ \E t \in Tasks, sel \in {"sending", "sendingTimeout"} : SubmitCheck(c, t, sel)
  \/ SendTask(c) \/ SendCancelled(c) \/ SendTimeout(c) \/ SendOnClosed(c)
  \/ StopCancel(c) \/ CloseSwap(c) \/ CloseChan(c) \/ WaitReturn(c)

WorkerNext(w) ==
  \/ WorkerReceive(w) \/ WorkerExit(w) \/ BeginTask(w) \/ SkipTask(w)
  \/ \E outcome \in Ended : FinishTask(w, outcome)

(* No goroutine sends on the closed channel, and none closes it again. *)
NoSendOnClosed == \A c \in Clients : cpc[c] # "panicked"
NoSecondClose  == \A c \in Clients : cpc[c] # "closePanicked"

(* Both are run-time panics that nothing in the pool recovers: they end    *)
(* the process.                                                            *)
PoolNext ==
  /\ NoSendOnClosed /\ NoSecondClose
  /\ \/ \E c \in Clients : ClientNext(c)
     \/ \E w \in Workers : WorkerNext(w)
     \/ ParentCancel

PoolSpec == PoolInit /\ [][PoolNext]_poolVars

-----------------------------------------------------------------------------
(* Type correctness; the channel never holds more than its capacity. *)
TypeOK ==
  /\ cancelled \in BOOLEAN /\ closed \in BOOLEAN /\ chanClosed \in BOOLEAN
  /\ queue \in Seq(Tasks) /\ Len(queue) <= QueueSize
  /\ wpc \in [Workers -> {"select", "holding", "running", "exited"}]
  /\ wtask \in [Workers -> Tasks \cup {None}]
  /\ cpc \in [Clients -> ClientPC]
  /\ ctask \in [Clients -> Tasks \cup {None}]
  /\ status \in [Tasks -> Status]
  /\ errors \subseteq [task : Tasks, kind : Failed]

(* Close and Stop may be called again, and by several goroutines at once:  *)
(* the channel is closed only once, and every call that has returned found *)
(* all the workers gone, also the call that left the close to another one. *)
CloseIsIdempotent ==
  /\ NoSecondClose
  /\ \A c \in Clients : cpc[c] = "returned" => \A w \in Workers : wpc[w] = "exited"

(* p.errors names exactly the tasks that failed, panicked or were skipped  *)
(* by a worker that saw the cancellation: Errors() hides no failure.       *)
ErrorsComplete ==
  \A t \in Tasks, k \in Failed : status[t] = k <=> [task |-> t, kind |-> k] \in errors

(* Close "waits for all workers to complete pending tasks": once it has    *)
(* returned without a cancellation, no task accepted by Submit is left.    *)
GracefulClose ==
  (\E c \in Clients : cpc[c] = "returned") /\ ~cancelled
    => \A t \in Tasks : status[t] \notin Pending

(* A send on the closed channel takes two goroutines: another one than the *)
(* one that panics has called Close or Stop.  So a pool with one user, as  *)
(* in ParallelMap and ExecuteTasks, never panics: the closed flag that     *)
(* Close sets keeps its own later Submits from the channel.                *)
PanicTakesAnother ==
  \A c \in Clients : cpc[c] = "panicked" =>
    \E d \in Clients \ {c} : cpc[d] \in {"stopping", "closing", "waiting", "returned"}

(* A task that ended, or was refused, is never run again. *)
EndedStaysEnded ==
  [][\A t \in Tasks : status[t] \in Ended \cup Rejected => status'[t] = status[t]]_poolVars
=============================================================================
