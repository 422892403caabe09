------------------------------ MODULE ParallelMap ------------------------------
(***************************************************************************)
(* engine.ParallelMap on top of the worker pool: one caller submits a task *)
(* per item, closes the pool, and collects results and errors by item      *)
(* index.  Items are 1..N, task i is the closure for items[i-1].           *)
(*                                                                         *)
(* ExecuteTasks is the same loop over tasks that have no result: it is the *)
(* projection of this module that forgets results, errs and hasError.      *)
(***************************************************************************)
EXTENDS WorkerPool

CONSTANTS N,       \* the number of items
          Caller,  \* the goroutine that called ParallelMap
          NotYet   \* ParallelMap has not returned

VARIABLES
  next,      \* the item the submit loop is at
  results,   \* the items whose slot of results was written
  errs,      \* the items whose slot of errs was written
  hasError,  \* the atomic flag hasError
  answer     \* what ParallelMap returned: results, and the error messages

mapVars == <<next, results, errs, hasError, answer>>
vars == <<poolVars, mapVars>>

Items == 1..N

(* The pool is made for the call: its channel has room for every item, and *)
(* no other goroutine uses it.                                             *)
OwnPool == N \in Nat /\ Tasks = Items /\ QueueSize = N /\ Clients = {Caller}

Init ==
  /\ OwnPool /\ PoolInit
  /\ next = 1 /\ results = {} /\ errs = {} /\ hasError = FALSE
  /\ answer = NotYet

-----------------------------------------------------------------------------
(* pool.Submit for the next item: the closed check, then the select. *)
SubmitItem ==
  /\ next \in Items
  /\ SubmitCheck(Caller, next, "sending")
  /\ next' = next + 1
  /\ UNCHANGED <<results, errs, hasError, answer>>

SendItem == SendTask(Caller) /\ UNCHANGED mapVars

(* Submit returned ctx.Err(): the loop notes it at the item's index and in *)
(* the errors of the pool (kind "skipped": a context error of the pool).   *)
SubmitFailed ==
  /\ cancelled
  /\ AbortSend(Caller, "ctxErr")
  /\ errs' = errs \cup {ctask[Caller]}
  /\ hasError' = TRUE
  /\ errors' = errors \cup {[task |-> ctask[Caller], kind |-> "skipped"]}
  /\ UNCHANGED <<next, results, answer>>

(* The loop is over: pool.Close(). *)
ClosePool ==
  /\ \/ next \notin Items /\ cpc[Caller] = "idle" /\ CloseSwap(Caller)
     \/ CloseChan(Caller)
     \/ WaitReturn(Caller)
  /\ UNCHANGED mapVars

(* The closure of an item: what it returned decides which slot it writes;  *)
(* a panic unwinds it before it writes any.                                *)
RunItem(w) ==
  \/ /\ WorkerReceive(w) \/ WorkerExit(w) \/ BeginTask(w) \/ SkipTask(w)
     /\ UNCHANGED mapVars
  \/ /\ FinishTask(w, "ok")
     /\ results' = results \cup {wtask[w]}
     /\ UNCHANGED <<next, errs, hasError, answer>>
  \/ /\ \E outcome \in {"err", "skipped"} : FinishTask(w, outcome)
     /\ errs' = errs \cup {wtask[w]}
     /\ hasError' = TRUE
     /\ UNCHANGED <<next, results, answer>>
  \/ FinishTask(w, "panic") /\ UNCHANGED mapVars

(* The text of an error: that of a closure names its item; recovered       *)
(* panics may read the same, and context errors always do.                 *)
Message(kind, i) == IF kind = "err" THEN [kind |-> kind, item |-> i]
                    ELSE [kind |-> IF kind = "panic" THEN kind ELSE "ctx", item |-> 0]

(* Mutation: the errors of the pool are looked at only after a closure's. *)
CollectErrorsIfFlagged ==
  IF ~hasError THEN {}
  ELSE {Message(status[i], i) : i \in errs} \cup {Message(e.kind, e.task) : e \in errors}

(* The texts of the errors returned: those at an index, and those of the   *)
(* pool whose text is not among them.                                      *)
CollectErrors ==
  IF ~hasError /\ errors = {} THEN {}
  ELSE {Message(status[i], i) : i \in errs} \cup {Message(e.kind, e.task) : e \in errors}

ReturnMap ==
  /\ cpc[Caller] = "returned"
  /\ answer = NotYet
  /\ answer' = [results |-> results, errors |-> CollectErrors]
  /\ UNCHANGED <<poolVars, next, results, errs, hasError>>

CancelMap == ParentCancel /\ UNCHANGED mapVars

Next ==
  \/ SubmitItem \/ SendItem \/ SubmitFailed \/ ClosePool \/ ReturnMap \/ CancelMap
  \/ \E w \in Workers : RunItem(w)

Spec == Init /\ [][Next]_vars

(* Every goroutine of the call is scheduled and every closure returns; the *)
(* cancellation is the environment's and may never come.                   *)
FairSpec ==
  /\ Spec
  /\ WF_vars(SubmitItem \/ SendItem \/ SubmitFailed \/ ClosePool \/ ReturnMap)
  /\ \A w \in Workers : WF_vars(RunItem(w))

-----------------------------------------------------------------------------
(* An item whose closure failed or panicked, or that was refused or        *)
(* skipped, has its message among the errors ParallelMap returns, on every *)
(* path the error can take (errs, the pool's list, or both), and the items *)
(* with a result are exactly those whose closure succeeded.                *)
NoSilentFailure ==
  answer # NotYet =>
    /\ answer.results = {i \in Items : status[i] = "ok"}
    /\ \A i \in Items :
         status[i] \in Failed \cup Rejected => Message(status[i], i) \in answer.errors

(* A send on the pool's channel never blocks the submit loop for good and  *)
(* the pool always drains: ParallelMap returns.                            *)
Returns == <>(answer # NotYet)

(* ParallelMap implements the promise of BatchMap. *)
Outcome(i) == IF status[i] \in Ended \cup Rejected \cup {"running"} THEN status[i] ELSE "none"

Promise == INSTANCE BatchMap
  WITH outcome <- [i \in Items |-> Outcome(i)], stopped <- cancelled, ret <- answer

PromiseSpec == Promise!Spec
=============================================================================
