------------------------------- MODULE BatchMap -------------------------------
(***************************************************************************)
(* What a caller of engine.ParallelMap is promised, without workers,       *)
(* queue or locks: every item is worked on at most once and gets at most   *)
(* one outcome; the call returns once no item is being worked on; an item  *)
(* is left without an outcome only by a cancellation; and the messages     *)
(* returned are those of the items that have a bad outcome.                *)
(***************************************************************************)
EXTENDS Naturals

CONSTANTS Items,   \* the items, none of them 0
          NotYet   \* the call has not returned

VARIABLES outcome,  \* outcome[i]: "none", "running", or how item i ended
          stopped,  \* the context was cancelled
          ret       \* NotYet, or the value returned to the caller

batchVars == <<outcome, stopped, ret>>

Bad == {"err", "panic", "skipped", "ctxErr"}

(* The text of an error: only the closure's own error names the item. *)
Message(o, i) == IF o = "err" THEN [kind |-> o, item |-> i]
                 ELSE [kind |-> IF o = "panic" THEN o ELSE "ctx", item |-> 0]

(* The value returned: the items that have a result, and the errors. *)
Answer == [results |-> {i \in Items : outcome[i] = "ok"},
           errors  |-> {Message(outcome[i], i) : i \in {j \in Items : outcome[j] \in Bad}}]

Init == outcome = [i \in Items |-> "none"] /\ stopped = FALSE /\ ret = NotYet

(* A worker calls the closure of item i. *)
Begin(i) ==
  /\ ret = NotYet
  /\ outcome[i] = "none"
  /\ outcome' = [outcome EXCEPT ![i] = "running"]
  /\ UNCHANGED <<stopped, ret>>

(* Mutation: an item whose closure panics is never marked done. *)
FinishUnlessPanic(i, o) ==
  /\ outcome[i] = "running" /\ o # "panic"
  /\ o = "skipped" => stopped
  /\ outcome' = [outcome EXCEPT ![i] = o]
  /\ UNCHANGED <<stopped, ret>>

(* The closure of item i ends with outcome o; "skipped" is the error of the *)
(* cancelled context.                                                      *)
Finish(i, o) ==
  /\ outcome[i] = "running"
  /\ o = "skipped" => stopped
  /\ outcome' = [outcome EXCEPT ![i] = o]
  /\ UNCHANGED <<stopped, ret>>

(* Item i is refused or skipped because of the cancellation. *)
Refuse(i, o) ==
  /\ ret = NotYet
  /\ stopped
  /\ outcome[i] = "none"
  /\ outcome' = [outcome EXCEPT ![i] = o]
  /\ UNCHANGED <<stopped, ret>>

Cancel == ~stopped /\ stopped' = TRUE /\ UNCHANGED <<outcome, ret>>

(* Mutation: the call does not wait for the items that are running. *)
ReturnEarly ==
  /\ ret = NotYet
  /\ \A i \in Items : stopped \/ outcome[i] # "none"
  /\ ret' = Answer
  /\ UNCHANGED <<outcome, stopped>>

Return ==
  /\ ret = NotYet
  /\ \A i \in Items : outcome[i] # "running" /\ (stopped \/ outcome[i] # "none")
  /\ ret' = Answer
  /\ UNCHANGED <<outcome, stopped>>

Next ==
  \/ Cancel \/ Return
  \/ \E i \in Items : \/ Begin(i)
                      \/ \E o \in {"ok", "err", "panic", "skipped"} : Finish(i, o)
                      \/ \E o \in {"skipped", "ctxErr"} : Refuse(i, o)

Spec == Init /\ [][Next]_batchVars
=============================================================================
