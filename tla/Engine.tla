-------------------------------- MODULE Engine --------------------------------
(***************************************************************************)
(* One run of the governance engine (internal/engine/engine.go): discovery, *)
(* license check, a ParallelMap over the groups, a ParallelMap over the    *)
(* projects, and the result the caller gets.  On each target the registry  *)
(* runs its operations in dependency order.                                *)
(*                                                                         *)
(* The two ParallelMap calls are instances of BatchMap, the promise that   *)
(* ParallelMap.tla is shown to keep.  What an operation does to a target   *)
(* is one of four outcomes; whether it wrote anything to GitLab is what    *)
(* `touched' remembers.                                                    *)
(***************************************************************************)
EXTENDS Naturals, Sequences, FiniteSets

CONSTANTS Groups, Projects,  \* the targets of the fleet
          Deleted,           \* the projects marked for deletion
          NumOps,            \* the number of registered operations
          NotYet             \* a call that has not returned

ASSUME EngineAssumption ==
  /\ IsFiniteSet(Groups) /\ IsFiniteSet(Projects)
  /\ Groups \cap Projects = {} /\ Deleted \subseteq Projects
  /\ NumOps \in Nat

VARIABLES
  dryRun,    \* plan instead of apply
  phase,     \* where runWithOptions is
  fleet,     \* what DiscoverFleet returned
  stopped,   \* the context of the run is done
  gOutcome, gRet,  \* the ParallelMap over the groups
  pOutcome, pRet,  \* the ParallelMap over the projects
  ops,       \* for each target the outcomes of its operations so far
  touched,   \* the targets GitLab was told to change
  result     \* the ExecutionResult

vars == <<dryRun, phase, fleet, stopped, gOutcome, gRet, pOutcome, pRet, ops,
          touched, result>>
runVars == <<dryRun, phase, fleet, result>>

Targets == Groups \cup Projects

GroupMap == INSTANCE BatchMap
  WITH Items <- Groups, outcome <- gOutcome, ret <- gRet
ProjectMap == INSTANCE BatchMap
  WITH Items <- Projects, outcome <- pOutcome, ret <- pRet

Init ==
  /\ dryRun \in BOOLEAN
  /\ phase = "discover" /\ fleet = {} /\ result = NotYet
  /\ GroupMap!Init /\ ProjectMap!Init
  /\ ops = [t \in Targets |-> <<>>] /\ touched = {}

-----------------------------------------------------------------------------
(* What SummaryMetrics holds and HasErrors reads, for the targets rs whose *)
(* TargetResult reached RecordTargetResult.                                *)
Succeeded(t) == \A i \in 1..Len(ops[t]) : ops[t][i] \in {"noop", "change"}
Changed(t)   == \E i \in 1..Len(ops[t]) : ops[t][i] = "change"

Metrics(rs) ==
  [targeted  |-> Cardinality(fleet),
   failed    |-> Cardinality({t \in rs : ~Succeeded(t)}),
   changed   |-> Cardinality({t \in rs : Succeeded(t) /\ Changed(t)}),
   unchanged |-> Cardinality({t \in rs : Succeeded(t) /\ ~Changed(t)})]

ExecutionResult(success, errs, rs) ==
  [success |-> success, errors |-> errs, targets |-> rs, metrics |-> Metrics(rs)]

HasErrors(r) == ~r.success \/ r.errors # {} \/ r.metrics.failed > 0

(* The run ends before any target: discovery or the license failed it. *)
FailRun(why) ==
  /\ phase' = "done"
  /\ result' = ExecutionResult(FALSE, {[kind |-> why, item |-> 0]}, {})
  /\ UNCHANGED <<dryRun, fleet, stopped, gOutcome, gRet, pOutcome, pRet, ops, touched>>

DiscoverFails == phase = "discover" /\ FailRun("discovery")

Discover ==
  /\ phase = "discover"
  /\ fleet' \in {{}, Targets}
  /\ phase' = "license"
  /\ UNCHANGED <<dryRun, result, stopped, gOutcome, gRet, pOutcome, pRet, ops, touched>>

LicenseDenied == phase = "license" /\ FailRun("license")

(* The license is enough; an empty fleet is a success at once. *)
LicenseGranted ==
  /\ phase = "license"
  /\ IF fleet = {} THEN phase' = "done" /\ result' = ExecutionResult(TRUE, {}, {})
                   ELSE phase' = "groups" /\ UNCHANGED result
  /\ UNCHANGED <<dryRun, fleet, stopped, gOutcome, gRet, pOutcome, pRet, ops, touched>>

-----------------------------------------------------------------------------
(* The steps of the map of the current phase on target t. *)
InPhase(t) == \/ phase = "groups" /\ t \in Groups
              \/ phase = "projects" /\ t \in Projects
Running(t) == \/ t \in Groups /\ gOutcome[t] = "running"
              \/ t \in Projects /\ pOutcome[t] = "running"

StartTarget(t) ==
  /\ InPhase(t)
  /\ \/ t \in Groups /\ GroupMap!Begin(t) /\ UNCHANGED <<pOutcome, pRet>>
     \/ t \in Projects /\ ProjectMap!Begin(t) /\ UNCHANGED <<gOutcome, gRet>>
  /\ UNCHANGED <<runVars, ops, touched>>

RefuseTarget(t, why) ==
  /\ InPhase(t)
  /\ \/ t \in Groups /\ GroupMap!Refuse(t, why) /\ UNCHANGED <<pOutcome, pRet>>
     \/ t \in Projects /\ ProjectMap!Refuse(t, why) /\ UNCHANGED <<gOutcome, gRet>>
  /\ UNCHANGED <<runVars, ops, touched>>

(* The last operation begun on t, and whether the loop may go on after it. *)
LastOp(t) == IF ops[t] = <<>> THEN "noop" ELSE ops[t][Len(ops[t])]
(* Mutation: a failure stops every target. *)
LoopStopsForAll(t) ==
  /\ LastOp(t) \in {"noop", "change"} /\ Len(ops[t]) < NumOps
  /\ \A u \in Targets : LastOp(u) \notin {"error", "panic"}
LoopGoesOn(t) == LastOp(t) \in {"noop", "change"} /\ Len(ops[t]) < NumOps

(* The loop of PlanProject, ApplyProject, PlanGroup and ApplyGroup: a look *)
(* at the context, then the next operation in order.                       *)
BeginOp(t) ==
  /\ Running(t) /\ t \notin Deleted
  /\ LoopGoesOn(t)
  /\ ~stopped
  /\ ops' = [ops EXCEPT ![t] = Append(@, "busy")]
  /\ UNCHANGED <<runVars, stopped, gOutcome, gRet, pOutcome, pRet, touched>>

(* An operation that changed something, or failed part way, in apply mode  *)
(* has written to GitLab.                                                  *)
EndOp(t, o) ==
  /\ Running(t)
  /\ LastOp(t) = "busy"
  /\ ops' = [ops EXCEPT ![t][Len(ops[t])] = o]
  /\ touched' \in CASE dryRun \/ o = "noop" -> {touched}
                    [] ~dryRun /\ o = "change" -> {touched \cup {t}}
                    [] OTHER -> {touched, touched \cup {t}}
  /\ UNCHANGED <<runVars, stopped, gOutcome, gRet, pOutcome, pRet>>

(* How executeProject or executeGroup ends on t. *)
TargetOutcome(t) ==
  IF t \in Deleted THEN "ok"
  ELSE CASE LastOp(t) = "error" -> "err"
         [] LastOp(t) = "panic" -> "panic"
         [] LoopGoesOn(t)       -> "skipped"
         [] OTHER               -> "ok"

FinishTarget(t) ==
  /\ Running(t)
  /\ LastOp(t) # "busy"
  /\ \/ t \in Groups /\ GroupMap!Finish(t, TargetOutcome(t)) /\ UNCHANGED <<pOutcome, pRet>>
     \/ t \in Projects /\ ProjectMap!Finish(t, TargetOutcome(t)) /\ UNCHANGED <<gOutcome, gRet>>
  /\ UNCHANGED <<runVars, ops, touched>>

(* Mutation: the projects are begun without waiting for the groups. *)
GroupsAsync ==
  /\ phase = "groups"
  /\ phase' = "projects"
  /\ gRet' = [results |-> {}, errors |-> {}]
  /\ UNCHANGED <<dryRun, fleet, result, stopped, gOutcome, pOutcome, pRet, ops, touched>>

GroupsReturn ==
  /\ phase = "groups"
  /\ GroupMap!Return
  /\ phase' = "projects"
  /\ UNCHANGED <<dryRun, fleet, result, pOutcome, pRet, ops, touched>>

(* Mutation: the errors of the groups are forgotten. *)
ProjectErrors(g, p) == p.errors
AllErrors(g, p) == g.errors \cup p.errors

(* The second map returns; results, errors and metrics are put together. *)
ProjectsReturn ==
  /\ phase = "projects"
  /\ ProjectMap!Return
  /\ phase' = "done"
  /\ LET errs == AllErrors(gRet, pRet')
         rs   == gRet.results \cup pRet'.results
     IN  result' = ExecutionResult(errs = {} /\ Metrics(rs).failed = 0, errs, rs)
  /\ UNCHANGED <<dryRun, fleet, gOutcome, gRet, ops, touched>>

(* A signal, the --timeout of the command line or the end of the Lambda. *)
CancelRun ==
  /\ phase # "done"
  /\ GroupMap!Cancel
  /\ UNCHANGED <<runVars, pOutcome, pRet, ops, touched>>

OpOutcome == {"noop", "change", "error", "panic"}

TargetStep(t) ==
  \/ StartTarget(t) \/ FinishTarget(t) \/ BeginOp(t)
  \/ \E o \in OpOutcome : EndOp(t, o)

RunStep ==
  \/ DiscoverFails \/ Discover \/ LicenseDenied \/ LicenseGranted
  \/ GroupsReturn \/ ProjectsReturn

Next ==
  \/ RunStep
  \/ \E t \in Targets : TargetStep(t)
  \/ \E t \in Targets, why \in {"skipped", "ctxErr"} : RefuseTarget(t, why)
  \/ CancelRun

Spec == Init /\ [][Next]_vars

(* The engine's goroutine and the workers are scheduled, and every API     *)
(* call of an operation ends (the transport of gitlab/ratelimit.go bounds  *)
(* its retries): no fairness is asked of the cancellation.                 *)
FairSpec ==
  /\ Spec
  /\ WF_vars(RunStep)
  /\ \A t \in Targets : WF_vars(TargetStep(t))

-----------------------------------------------------------------------------
HasFailed(t)   == LastOp(t) \in {"error", "panic"}
IsComplete(t)  == t \in Deleted \/ (Len(ops[t]) = NumOps /\ Succeeded(t))

(* Groups come first: while any operation has been begun on a project, no  *)
(* group is still being reconciled, even when a cancellation cut the map   *)
(* of the groups short.                                                    *)
GroupsBeforeProjects ==
  (\E p \in Projects : ops[p] # <<>>) => \A g \in Groups : ~Running(g)

(* A failed or panicking operation on any target, on a cancelled run too,  *)
(* makes the run fail: HasErrors is what the exit code depends on.         *)
FailureReported ==
  result # NotYet /\ (\E t \in Targets : HasFailed(t)) => HasErrors(result)

(* "prevent fleet-wide aborts": on a run that was not cancelled, a target  *)
(* that does not itself fail gets all of its operations, whatever happens  *)
(* on the others.                                                          *)
FailuresAreIsolated ==
  phase = "done" /\ ~stopped /\ gRet # NotYet
    => \A t \in Targets : HasFailed(t) \/ IsComplete(t)

(* Nothing is under way once the caller has its result: no operation is    *)
(* left running behind it, and nothing is written to GitLab afterwards.    *)
QuietAfterReturn ==
  [][phase = "done" => UNCHANGED <<ops, touched>>]_vars

(* Every run ends with a result. *)
RunEnds == <>(result # NotYet)

-----------------------------------------------------------------------------
(* What the repository says of a run, and the code does not do. *)

(* ExecutionResult is "the complete end-to-end outcome of an engine run":  *)
(* a run without errors has completed every target of its fleet.           *)
SuccessMeansComplete ==
  result # NotYet /\ ~HasErrors(result) => \A t \in fleet : IsComplete(t)
=============================================================================
