--------------------------- MODULE GovernanceProofs ---------------------------
(***************************************************************************)
(* Proofs about a run of the engine, for any fleet and any number of       *)
(* operations, and about the reconcilers of collections that it runs, for  *)
(* any policies, page size, limit and number of faults.                    *)
(*                                                                         *)
(* What a run of the engine reports at its end was put together from what  *)
(* the two ParallelMap calls returned.  Its inductive invariant therefore  *)
(* ties three things to each other: how far the operations of a target are *)
(* (Loop), how the map it belongs to says it ended (Ended), and what the   *)
(* phase of the run says of both maps (Phases).                            *)
(*                                                                         *)
(* Apply works through a list with what it saw of it some time ago.  Its   *)
(* inductive invariant says what each of its loops has reached: which      *)
(* entries there can be (Known), which of the declared ones are settled    *)
(* (Settlement), and that what is to be pruned is still to come (Leftover, *)
(* GroupLeftover), with a version of the same for the framework that is    *)
(* replaced as a whole (Framework) and for the rules that are destroyed    *)
(* and created again (Destroying, Recreating).  All of it rests on the     *)
(* lists being sound: ids are unique and not given again while Apply may   *)
(* use them (Sound, Agree).                                                *)
(***************************************************************************)
EXTENDS Engine, Collections, FiniteSetTheorems, SequenceTheorems, WellFoundedInduction, TLAPS

-----------------------------------------------------------------------------
(* The engine.                                                             *)

OpState == OpOutcome \cup {"busy"}
MapState == {"none", "running", "ok", "err", "panic", "skipped", "ctxErr"}
Phase == {"discover", "license", "groups", "projects", "done"}

EngineTypes ==
  /\ phase \in Phase /\ stopped \in BOOLEAN
  /\ gOutcome \in [Groups -> MapState] /\ pOutcome \in [Projects -> MapState]
  /\ ops \in [Targets -> Seq(OpState)]

(* The outcome of a target in the map it belongs to. *)
MapOutcome(t) == IF t \in Groups THEN gOutcome[t] ELSE pOutcome[t]

(* The loop over the operations: all but the last of those begun have      *)
(* succeeded, and the last one is under way only inside the map.           *)
Loop ==
  \A t \in Targets :
    /\ Len(ops[t]) <= NumOps
    /\ \A k \in 1..Len(ops[t]) : k # Len(ops[t]) => ops[t][k] \in {"noop", "change"}
    /\ LastOp(t) = "busy" => MapOutcome(t) = "running"
    /\ MapOutcome(t) = "none" \/ t \in Deleted => ops[t] = <<>>

(* The map's outcome of a target is the truth about its operations, and    *)
(* only a cancellation leaves one out.                                     *)
Ended ==
  \A t \in Targets :
    /\ HasFailed(t) => MapOutcome(t) \in {"running", "err", "panic"}
    /\ MapOutcome(t) = "ok" => IsComplete(t)
    /\ MapOutcome(t) \in {"err", "panic"} => HasFailed(t)
    /\ MapOutcome(t) \in {"skipped", "ctxErr"} => stopped

GroupsUntouched   == gRet = NotYet /\ \A g \in Groups : gOutcome[g] = "none"
ProjectsUntouched == \A p \in Projects : pOutcome[p] = "none"
(* The map over the groups has returned: nothing of it is under way, and   *)
(* its errors speak for the groups that failed.                            *)
GroupsReturned ==
  \A g \in Groups : /\ gOutcome[g] # "running"
                    /\ stopped \/ gOutcome[g] # "none"
                    /\ HasFailed(g) => gRet.errors # {}
ProjectsReturned ==
  \A p \in Projects : /\ pOutcome[p] # "running"
                      /\ stopped \/ pOutcome[p] # "none"

Phases ==
  /\ phase # "done" => result = NotYet
  /\ phase \in {"discover", "license"} => GroupsUntouched /\ ProjectsUntouched
  /\ phase = "groups" => gRet = NotYet /\ ProjectsUntouched
  /\ phase = "projects" => GroupsReturned
  /\ phase = "done" => \/ GroupsUntouched /\ ProjectsUntouched
                       \/ GroupsReturned /\ ProjectsReturned

(* The inductive invariant of a run. *)
EngineInv == EngineTypes /\ Loop /\ Ended /\ Phases /\ FailureReported

-----------------------------------------------------------------------------
(* A sequence of operation outcomes with one more at its end. *)
LEMMA AppendOp ==
  ASSUME NEW S, NEW s \in Seq(S), NEW e \in S
  PROVE  /\ Append(s, e) \in Seq(S) /\ Append(s, e) # <<>>
         /\ Len(s) \in Nat /\ Len(Append(s, e)) = Len(s) + 1
         /\ \A k \in 1..Len(s) : Append(s, e)[k] = s[k]
         /\ Append(s, e)[Len(s) + 1] = e
  BY AppendProperties, LenProperties, EmptySeq

(* A sequence of operation outcomes whose last one is replaced. *)
LEMMA ReplaceLast ==
  ASSUME NEW S, NEW s \in Seq(S), s # <<>>, NEW e \in S
  PROVE  /\ [s EXCEPT ![Len(s)] = e] \in Seq(S)
         /\ [s EXCEPT ![Len(s)] = e] # <<>>
         /\ Len(s) \in Nat \ {0} /\ Len([s EXCEPT ![Len(s)] = e]) = Len(s)
         /\ \A k \in 1..Len(s) : k # Len(s) => [s EXCEPT ![Len(s)] = e][k] = s[k]
         /\ [s EXCEPT ![Len(s)] = e][Len(s)] = e
  <1>1. Len(s) \in Nat \ {0} /\ s \in [1..Len(s) -> S]
    BY LenProperties, EmptySeq
  <1>2. [s EXCEPT ![Len(s)] = e] \in Seq(S) /\ Len([s EXCEPT ![Len(s)] = e]) = Len(s)
    BY <1>1, ExceptSeq
  <1>3. [s EXCEPT ![Len(s)] = e] # <<>>
    BY <1>1, <1>2
  <1>4. \A k \in 1..Len(s) : [s EXCEPT ![Len(s)] = e][k] = IF k = Len(s) THEN e ELSE s[k]
    BY <1>1, ExceptSeq
  <1>5. Len(s) \in 1..Len(s)
    BY <1>1
  <1> QED BY <1>1, <1>2, <1>3, <1>4, <1>5

(* The run starts in the invariant. *)
LEMMA InitEngineInv == Init => EngineInv
  <1> SUFFICES ASSUME Init PROVE EngineInv
    OBVIOUS
  <1> USE EngineAssumption DEF EngineAssumption, Init, GroupMap!Init, ProjectMap!Init
  <1>1. EngineTypes
    BY EmptySeq DEF EngineTypes, Phase, MapState
  <1>2. \A t \in Targets : ops[t] = <<>> /\ MapOutcome(t) = "none"
    BY DEF Targets, MapOutcome
  <1>3. Loop
    BY <1>2 DEF Loop, LastOp
  <1>4. Ended
    BY <1>2 DEF Ended, HasFailed, LastOp
  <1>5. Phases
    BY DEF Phases, GroupsUntouched, ProjectsUntouched
  <1>6. FailureReported
    BY DEF FailureReported
  <1> QED BY <1>1, <1>3, <1>4, <1>5, <1>6 DEF EngineInv

(* A target is worked on only in the phase of its kind. *)
LEMMA RunningPhase ==
  ASSUME EngineInv, NEW t \in Targets
  PROVE  /\ Running(t) <=> MapOutcome(t) = "running"
         /\ Running(t) => \/ phase = "groups" /\ t \in Groups
                          \/ phase = "projects" /\ t \in Projects
  <1> USE EngineAssumption DEF EngineAssumption
  <1>1. Running(t) <=> MapOutcome(t) = "running"
    BY DEF Running, MapOutcome, Targets
  <1>2. CASE t \in Groups /\ Running(t)
    BY <1>1, <1>2 DEF EngineInv, EngineTypes, Phase, Phases, Running, GroupsReturned, GroupsUntouched
  <1>3. CASE t \in Projects /\ Running(t)
    BY <1>1, <1>3 DEF EngineInv, EngineTypes, Phase, Phases, Running, ProjectsReturned, ProjectsUntouched
  <1> QED BY <1>1, <1>2, <1>3 DEF Targets

(* Discovery and the license check keep the invariant: whatever they       *)
(* answer, no target has been begun.                                       *)
LEMMA StepBeforeTargets ==
  ASSUME EngineInv, DiscoverFails \/ Discover \/ LicenseDenied \/ LicenseGranted
  PROVE  EngineInv'
  <1>1. UNCHANGED <<stopped, gOutcome, gRet, pOutcome, ops>>
    BY DEF DiscoverFails, Discover, LicenseDenied, LicenseGranted, FailRun
  <1>2. phase \in {"discover", "license"}
    BY DEF DiscoverFails, Discover, LicenseDenied, LicenseGranted
  <1>3. phase' \in {"license", "groups", "done"} /\ (phase' # "done" => result' = result)
    BY DEF DiscoverFails, Discover, LicenseDenied, LicenseGranted, FailRun
  <1>4. EngineTypes'
    BY <1>1, <1>3 DEF EngineInv, EngineTypes, Phase
  <1>5. Loop'
    BY <1>1 DEF EngineInv, Loop, LastOp, MapOutcome
  <1>6. Ended'
    BY <1>1 DEF EngineInv, Ended, HasFailed, LastOp, MapOutcome, IsComplete, Succeeded
  <1>7. Phases'
    BY <1>1, <1>2, <1>3 DEF EngineInv, Phases, GroupsUntouched, ProjectsUntouched
  <1>8. FailureReported'
    <2>1. \A t \in Targets : ~HasFailed(t)
      BY <1>2 DEF EngineInv, Ended, Phases, GroupsUntouched, ProjectsUntouched, MapOutcome, Targets
    <2> QED BY <1>1, <2>1 DEF FailureReported, HasFailed, LastOp
  <1> QED BY <1>4, <1>5, <1>6, <1>7, <1>8 DEF EngineInv

(* A worker that takes up a target keeps the invariant. *)
LEMMA StepStartTarget ==
  ASSUME EngineInv, NEW t \in Targets, StartTarget(t)
  PROVE  EngineInv'
  <1> USE EngineAssumption DEF EngineAssumption, EngineInv, StartTarget, InPhase, runVars, GroupMap!Begin, ProjectMap!Begin
  <1>1. EngineTypes'
    BY DEF EngineTypes, MapState
  <1>2. \A u \in Targets : MapOutcome(u)' = IF u = t THEN "running" ELSE MapOutcome(u)
    BY DEF EngineTypes, MapOutcome, Targets
  <1>3. MapOutcome(t) = "none"
    BY DEF EngineTypes, MapOutcome, Targets
  <1>4. Loop'
    BY <1>2, <1>3 DEF Loop, LastOp
  <1>5. Ended'
    BY <1>2, <1>3 DEF Ended, HasFailed, LastOp, IsComplete, Succeeded
  <1>6. Phases'
    BY DEF Phases, EngineTypes, GroupsReturned, ProjectsUntouched, HasFailed, LastOp
  <1>7. FailureReported'
    BY DEF FailureReported, Phases
  <1> QED BY <1>1, <1>4, <1>5, <1>6, <1>7

(* A target that is refused after a cancellation keeps the invariant. *)
LEMMA StepRefuseTarget ==
  ASSUME EngineInv, NEW t \in Targets, NEW why \in {"skipped", "ctxErr"}, RefuseTarget(t, why)
  PROVE  EngineInv'
  <1> USE EngineAssumption DEF EngineAssumption, EngineInv, RefuseTarget, InPhase, runVars, GroupMap!Refuse, ProjectMap!Refuse
  <1>1. EngineTypes'
    BY DEF EngineTypes, MapState
  <1>2. \A u \in Targets : MapOutcome(u)' = IF u = t THEN why ELSE MapOutcome(u)
    BY DEF EngineTypes, MapOutcome, Targets
  <1>3. MapOutcome(t) = "none" /\ stopped' = stopped /\ stopped
    BY DEF EngineTypes, MapOutcome, Targets
  <1>4. Loop'
    BY <1>2, <1>3 DEF Loop, LastOp
  <1>5. Ended'
    BY <1>2, <1>3 DEF Ended, HasFailed, LastOp, IsComplete, Succeeded
  <1>6. Phases'
    BY DEF Phases, EngineTypes, GroupsReturned, ProjectsUntouched, HasFailed, LastOp
  <1>7. FailureReported'
    BY DEF FailureReported, Phases
  <1> QED BY <1>1, <1>4, <1>5, <1>6, <1>7

(* The loop taking up its next operation keeps the invariant. *)
LEMMA StepBeginOp ==
  ASSUME EngineInv, NEW t \in Targets, BeginOp(t)
  PROVE  EngineInv'
  <1> DEFINE n == Len(ops[t])
  <1>1. ops[t] \in Seq(OpState) /\ n \in Nat /\ n < NumOps
    BY LenProperties DEF EngineInv, EngineTypes, BeginOp, LoopGoesOn
  <1>2. /\ ops' = [ops EXCEPT ![t] = Append(ops[t], "busy")]
        /\ UNCHANGED <<phase, result, stopped, gOutcome, gRet, pOutcome>>
    BY DEF BeginOp, runVars
  <1>3. /\ MapOutcome(t) = "running"
        /\ \/ phase = "groups" /\ t \in Groups
           \/ phase = "projects" /\ t \in Projects
    BY RunningPhase DEF BeginOp
  <1>4. /\ ops'[t] \in Seq(OpState) /\ ops'[t] # <<>> /\ Len(ops'[t]) = n + 1
        /\ \A k \in 1..n : ops'[t][k] = ops[t][k]
        /\ ops'[t][n + 1] = "busy"
    <2>1. ops'[t] = Append(ops[t], "busy")
      BY <1>2 DEF EngineInv, EngineTypes
    <2>2. "busy" \in OpState
      BY DEF OpState
    <2> QED BY <1>1, <2>1, <2>2, AppendOp
  <1>5. \A u \in Targets : u # t => ops'[u] = ops[u]
    BY <1>2 DEF EngineInv, EngineTypes
  <1>6. EngineTypes'
    BY <1>2, <1>4 DEF EngineInv, EngineTypes
  <1>7. Loop'
    <2>1. \A k \in 1..n : ops[t][k] \in {"noop", "change"}
      BY <1>1 DEF EngineInv, Loop, BeginOp, LoopGoesOn, LastOp
    <2>2. LastOp(t)' = "busy"
      BY <1>4 DEF LastOp
    <2>3. \A u \in Targets : u # t => LastOp(u)' = LastOp(u)
      BY <1>5 DEF LastOp
    <2>4. \A u \in Targets : MapOutcome(u)' = MapOutcome(u)
      BY <1>2 DEF MapOutcome
    <2>5. ASSUME NEW u \in Targets
          PROVE  /\ Len(ops'[u]) <= NumOps
                 /\ \A k \in 1..Len(ops'[u]) : k # Len(ops'[u]) => ops'[u][k] \in {"noop", "change"}
                 /\ LastOp(u)' = "busy" => MapOutcome(u) = "running"
                 /\ MapOutcome(u) = "none" \/ u \in Deleted => ops'[u] = <<>>
      <3>1. CASE u = t
        BY <1>1, <1>3, <1>4, <2>1, <3>1, EngineAssumption DEF BeginOp, EngineAssumption
      <3>2. CASE u # t
        BY <3>2, <1>5, <2>3 DEF EngineInv, Loop
      <3> QED BY <3>1, <3>2
    <2> QED BY <2>4, <2>5 DEF Loop
  <1>8. Ended'
    <2>1. LastOp(t)' = "busy"
      BY <1>4 DEF LastOp
    <2>2. \A u \in Targets : u # t => LastOp(u)' = LastOp(u) /\ IsComplete(u)' = IsComplete(u)
      BY <1>5 DEF LastOp, IsComplete, Succeeded
    <2>3. \A u \in Targets : MapOutcome(u)' = MapOutcome(u)
      BY <1>2 DEF MapOutcome
    <2> QED BY <1>2, <1>3, <2>1, <2>2, <2>3 DEF EngineInv, Ended, HasFailed
  <1>9. Phases'
    BY <1>2, <1>3, <1>5, EngineAssumption DEF EngineInv, Phases, GroupsReturned, ProjectsUntouched, HasFailed, LastOp, EngineAssumption, Targets
  <1>10. FailureReported'
    BY <1>2, <1>3 DEF EngineInv, Phases, FailureReported
  <1> QED BY <1>6, <1>7, <1>8, <1>9, <1>10 DEF EngineInv

(* The end of an operation, with any outcome, keeps the invariant. *)
LEMMA StepEndOp ==
  ASSUME EngineInv, NEW t \in Targets, NEW o \in OpOutcome, EndOp(t, o)
  PROVE  EngineInv'
  <1> DEFINE n == Len(ops[t])
  <1>1. ops[t] \in Seq(OpState) /\ ops[t] # <<>>
    BY DEF EngineInv, EngineTypes, EndOp, LastOp
  <1>2. /\ ops' = [ops EXCEPT ![t] = [ops[t] EXCEPT ![n] = o]]
        /\ UNCHANGED <<phase, result, stopped, gOutcome, gRet, pOutcome>>
    BY DEF EndOp, runVars
  <1>3. /\ MapOutcome(t) = "running"
        /\ \/ phase = "groups" /\ t \in Groups
           \/ phase = "projects" /\ t \in Projects
    BY RunningPhase DEF EndOp
  <1>4. /\ ops'[t] \in Seq(OpState) /\ ops'[t] # <<>> /\ n \in Nat \ {0} /\ Len(ops'[t]) = n
        /\ \A k \in 1..n : k # n => ops'[t][k] = ops[t][k]
        /\ ops'[t][n] = o
    <2>1. ops'[t] = [ops[t] EXCEPT ![n] = o]
      BY <1>2 DEF EngineInv, EngineTypes
    <2>2. o \in OpState
      BY DEF OpState
    <2> QED BY <1>1, <2>1, <2>2, ReplaceLast
  <1>5. \A u \in Targets : u # t => ops'[u] = ops[u]
    BY <1>2 DEF EngineInv, EngineTypes
  <1>6. \A u \in Targets : MapOutcome(u)' = MapOutcome(u)
    BY <1>2 DEF MapOutcome
  <1>7. LastOp(t)' = o
    BY <1>4 DEF LastOp
  <1>8. \A u \in Targets : u # t => LastOp(u)' = LastOp(u) /\ IsComplete(u)' = IsComplete(u)
    BY <1>5 DEF LastOp, IsComplete, Succeeded
  <1>9. EngineTypes'
    BY <1>2, <1>4 DEF EngineInv, EngineTypes
  <1>10. Loop'
    <2>1. ASSUME NEW u \in Targets
          PROVE  /\ Len(ops'[u]) <= NumOps
                 /\ \A k \in 1..Len(ops'[u]) : k # Len(ops'[u]) => ops'[u][k] \in {"noop", "change"}
                 /\ LastOp(u)' = "busy" => MapOutcome(u) = "running"
                 /\ MapOutcome(u) = "none" \/ u \in Deleted => ops'[u] = <<>>
      <3>1. CASE u = t
        BY <1>1, <1>3, <1>4, <3>1 DEF EngineInv, Loop
      <3>2. CASE u # t
        BY <3>2, <1>5, <1>8 DEF EngineInv, Loop
      <3> QED BY <3>1, <3>2
    <2> QED BY <1>6, <2>1 DEF Loop
  <1>11. Ended'
    BY <1>2, <1>3, <1>6, <1>8 DEF EngineInv, Ended, HasFailed
  <1>12. Phases'
    BY <1>2, <1>3, <1>5, EngineAssumption DEF EngineInv, Phases, GroupsReturned, ProjectsUntouched, HasFailed, LastOp, EngineAssumption, Targets
  <1>13. FailureReported'
    BY <1>2, <1>3 DEF EngineInv, Phases, FailureReported
  <1> QED BY <1>9, <1>10, <1>11, <1>12, <1>13 DEF EngineInv

(* The end of a target keeps the invariant: TargetOutcome tells the truth. *)
LEMMA StepFinishTarget ==
  ASSUME EngineInv, NEW t \in Targets, FinishTarget(t)
  PROVE  EngineInv'
  <1> DEFINE o == TargetOutcome(t)
  <1>1. /\ LastOp(t) # "busy" /\ MapOutcome(t) = "running" /\ (o = "skipped" => stopped)
        /\ UNCHANGED <<phase, result, stopped, gRet, ops>>
        /\ \/ phase = "groups" /\ t \in Groups
           \/ phase = "projects" /\ t \in Projects
    BY RunningPhase DEF FinishTarget, runVars, GroupMap!Finish, ProjectMap!Finish
  <1>2. o \in {"ok", "err", "panic", "skipped"}
    BY DEF TargetOutcome
  <1>3. /\ gOutcome' = IF t \in Groups THEN [gOutcome EXCEPT ![t] = o] ELSE gOutcome
        /\ pOutcome' = IF t \in Groups THEN pOutcome ELSE [pOutcome EXCEPT ![t] = o]
    BY EngineAssumption DEF FinishTarget, GroupMap!Finish, ProjectMap!Finish, EngineAssumption, Targets
  <1>4. \A u \in Targets : MapOutcome(u)' = IF u = t THEN o ELSE MapOutcome(u)
    BY <1>3 DEF EngineInv, EngineTypes, MapOutcome, Targets
  <1>5. EngineTypes'
    BY <1>1, <1>2, <1>3 DEF EngineInv, EngineTypes, MapState, Targets
  <1>6. \A u \in Targets : LastOp(u)' = LastOp(u) /\ IsComplete(u)' = IsComplete(u)
    BY <1>1 DEF LastOp, IsComplete, Succeeded
  <1>7. Loop'
    BY <1>1, <1>2, <1>4, <1>6 DEF EngineInv, Loop
  <1>8. /\ o = "ok" => IsComplete(t) /\ ~HasFailed(t)
        /\ o \in {"err", "panic"} => HasFailed(t)
        /\ o = "skipped" => ~HasFailed(t)
    <2>1. CASE t \in Deleted
      <3>1. o = "ok" /\ IsComplete(t)
        BY <2>1 DEF TargetOutcome, IsComplete
      <3>2. ~HasFailed(t)
        BY <2>1 DEF EngineInv, Loop, HasFailed, LastOp
      <3> QED BY <3>1, <3>2
    <2>2. CASE t \notin Deleted /\ HasFailed(t)
      BY <2>2 DEF TargetOutcome, HasFailed, LoopGoesOn
    <2>3. CASE t \notin Deleted /\ ~HasFailed(t) /\ LoopGoesOn(t)
      BY <2>3 DEF TargetOutcome, HasFailed, LoopGoesOn
    <2>4. CASE t \notin Deleted /\ ~HasFailed(t) /\ ~LoopGoesOn(t)
      <3>1. ops[t] \in Seq(OpState) /\ Len(ops[t]) \in Nat /\ (ops[t] # <<>> => Len(ops[t]) \in 1..Len(ops[t]))
        BY LenProperties, EmptySeq DEF EngineInv, EngineTypes
      <3>2. LastOp(t) \in {"noop", "change"}
        BY <1>1, <2>4, <3>1, ElementOfSeq DEF LastOp, HasFailed, OpState, OpOutcome
      <3>3. Len(ops[t]) = NumOps
        BY <2>4, <3>1, <3>2, EngineAssumption DEF LoopGoesOn, EngineInv, Loop, EngineAssumption
      <3>4. Succeeded(t)
        BY <3>1, <3>2 DEF Succeeded, LastOp, EngineInv, Loop
      <3> QED BY <2>4, <3>2, <3>3, <3>4 DEF IsComplete, HasFailed, TargetOutcome
    <2> QED BY <2>1, <2>2, <2>3, <2>4
  <1>9. Ended'
    BY <1>1, <1>2, <1>4, <1>6, <1>8 DEF EngineInv, Ended, HasFailed
  <1>10. Phases'
    BY <1>1, <1>2, <1>3, <1>6, EngineAssumption DEF EngineInv, EngineTypes, Phases, GroupsReturned, ProjectsUntouched, HasFailed, EngineAssumption, Targets
  <1>11. FailureReported'
    BY <1>1 DEF EngineInv, Phases, FailureReported
  <1> QED BY <1>5, <1>7, <1>9, <1>10, <1>11 DEF EngineInv

(* The return of the map over the groups keeps the invariant: its errors   *)
(* hold the message of every group that failed.                            *)
LEMMA StepGroupsReturn ==
  ASSUME EngineInv, GroupsReturn
  PROVE  EngineInv'
  <1>1. /\ phase = "groups" /\ phase' = "projects"
        /\ UNCHANGED <<stopped, gOutcome, pOutcome, ops, result>>
        /\ \A g \in Groups : gOutcome[g] # "running" /\ (stopped \/ gOutcome[g] # "none")
        /\ gRet' = GroupMap!Answer
    BY DEF GroupsReturn, GroupMap!Return
  <1>2. EngineTypes'
    BY <1>1 DEF EngineInv, EngineTypes, Phase
  <1>3. Loop'
    BY <1>1 DEF EngineInv, Loop, LastOp, MapOutcome
  <1>4. Ended'
    BY <1>1 DEF EngineInv, Ended, HasFailed, LastOp, MapOutcome, IsComplete, Succeeded
  <1>5. ASSUME NEW g \in Groups, HasFailed(g)
        PROVE  gRet'.errors # {}
    <2>1. gOutcome[g] \in {"err", "panic"}
      BY <1>1, <1>5 DEF EngineInv, Ended, MapOutcome, Targets
    <2>2. GroupMap!Message(gOutcome[g], g) \in GroupMap!Answer.errors
      BY <2>1 DEF GroupMap!Answer, GroupMap!Bad
    <2> QED BY <1>1, <2>2
  <1>6. Phases'
    BY <1>1, <1>5 DEF EngineInv, Phases, GroupsReturned, HasFailed, LastOp
  <1>7. FailureReported'
    BY <1>1 DEF EngineInv, Phases, FailureReported
  <1> QED BY <1>2, <1>3, <1>4, <1>6, <1>7 DEF EngineInv

(* The end of the run keeps the invariant: a failure in either map is in   *)
(* the errors of the result.                                               *)
LEMMA StepProjectsReturn ==
  ASSUME EngineInv, ProjectsReturn
  PROVE  EngineInv'
  <1>1. /\ phase = "projects" /\ phase' = "done"
        /\ UNCHANGED <<stopped, gOutcome, gRet, pOutcome, ops>>
        /\ \A p \in Projects : pOutcome[p] # "running" /\ (stopped \/ pOutcome[p] # "none")
        /\ pRet' = ProjectMap!Answer
    BY DEF ProjectsReturn, ProjectMap!Return
  <1>2. EngineTypes'
    BY <1>1 DEF EngineInv, EngineTypes, Phase
  <1>3. Loop'
    BY <1>1 DEF EngineInv, Loop, LastOp, MapOutcome
  <1>4. Ended'
    BY <1>1 DEF EngineInv, Ended, HasFailed, LastOp, MapOutcome, IsComplete, Succeeded
  <1>5. Phases'
    BY <1>1 DEF EngineInv, Phases, GroupsReturned, ProjectsReturned, HasFailed, LastOp
  <1>6. ASSUME NEW t \in Targets, HasFailed(t)
        PROVE  AllErrors(gRet, pRet') # {}
    <2>1. CASE t \in Groups
      BY <1>1, <1>6, <2>1 DEF EngineInv, Phases, GroupsReturned, AllErrors
    <2>2. CASE t \in Projects
      <3>1. pOutcome[t] \in {"err", "panic"}
        BY <1>1, <1>6, <2>2, EngineAssumption DEF EngineInv, Ended, MapOutcome, Targets, EngineAssumption
      <3>2. ProjectMap!Message(pOutcome[t], t) \in ProjectMap!Answer.errors
        BY <2>2, <3>1 DEF ProjectMap!Answer, ProjectMap!Bad
      <3> QED BY <1>1, <3>2 DEF AllErrors
    <2> QED BY <2>1, <2>2 DEF Targets
  <1>7. result'.errors = AllErrors(gRet, pRet')
    BY DEF ProjectsReturn, ExecutionResult
  <1>8. FailureReported'
    BY <1>1, <1>6, <1>7 DEF FailureReported, HasErrors, HasFailed, LastOp
  <1> QED BY <1>2, <1>3, <1>4, <1>5, <1>8 DEF EngineInv

(* A cancellation keeps the invariant. *)
LEMMA StepCancelRun ==
  ASSUME EngineInv, CancelRun
  PROVE  EngineInv'
  <1>1. /\ stopped' = TRUE /\ UNCHANGED <<phase, gOutcome, gRet, pOutcome, ops, result>>
    BY DEF CancelRun, GroupMap!Cancel, runVars
  <1>2. EngineTypes'
    BY <1>1 DEF EngineInv, EngineTypes
  <1>3. Loop'
    BY <1>1 DEF EngineInv, Loop, LastOp, MapOutcome
  <1>4. Ended'
    BY <1>1 DEF EngineInv, Ended, HasFailed, LastOp, MapOutcome, IsComplete, Succeeded
  <1>5. Phases'
    BY <1>1 DEF EngineInv, Phases, GroupsUntouched, ProjectsUntouched, GroupsReturned, ProjectsReturned, HasFailed, LastOp
  <1>6. FailureReported'
    BY <1>1 DEF EngineInv, FailureReported, HasErrors, HasFailed, LastOp
  <1> QED BY <1>2, <1>3, <1>4, <1>5, <1>6 DEF EngineInv

(* Every step of a run keeps the invariant. *)
LEMMA NextEngineInv == EngineInv /\ [Next]_vars => EngineInv'
  <1> SUFFICES ASSUME EngineInv, [Next]_vars PROVE EngineInv'
    OBVIOUS
  <1>1. CASE RunStep
    BY <1>1, StepBeforeTargets, StepGroupsReturn, StepProjectsReturn DEF RunStep
  <1>2. CASE \E t \in Targets : TargetStep(t)
    BY <1>2, StepStartTarget, StepFinishTarget, StepBeginOp, StepEndOp DEF TargetStep
  <1>3. CASE \E t \in Targets, why \in {"skipped", "ctxErr"} : RefuseTarget(t, why)
    BY <1>3, StepRefuseTarget
  <1>4. CASE CancelRun
    BY <1>4, StepCancelRun
  <1>5. CASE UNCHANGED vars
    <2>1. UNCHANGED <<phase, stopped, gOutcome, gRet, pOutcome, ops, result>>
      BY <1>5 DEF vars
    <2>2. EngineTypes' /\ Loop'
      BY <2>1 DEF EngineInv, EngineTypes, Loop, LastOp, MapOutcome
    <2>3. Ended'
      BY <2>1 DEF EngineInv, Ended, HasFailed, LastOp, MapOutcome, IsComplete, Succeeded
    <2>4. Phases' /\ FailureReported'
      BY <2>1 DEF EngineInv, Phases, GroupsUntouched, ProjectsUntouched, GroupsReturned, ProjectsReturned, FailureReported, HasErrors, HasFailed, LastOp
    <2> QED BY <2>2, <2>3, <2>4 DEF EngineInv
  <1> QED BY <1>1, <1>2, <1>3, <1>4, <1>5 DEF Next

(* A run never leaves its invariant. *)
LEMMA EngineInvariance == Spec => []EngineInv
  BY InitEngineInv, NextEngineInv, PTL DEF Spec

-----------------------------------------------------------------------------
(* No operation of a project is begun while a group is being reconciled,   *)
(* however large the fleet and wherever a cancellation cuts the map over   *)
(* the groups short (runWithOptions calls the two maps one after the       *)
(* other).                                                                 *)
THEOREM GroupsComeFirst == Spec => []GroupsBeforeProjects
  <1>1. EngineInv => GroupsBeforeProjects
    <2> SUFFICES ASSUME EngineInv, NEW p \in Projects, ops[p] # <<>>, NEW g \in Groups, Running(g)
                 PROVE  FALSE
      BY DEF GroupsBeforeProjects
    <2>1. phase = "groups"
      BY RunningPhase, EngineAssumption DEF Targets, EngineAssumption
    <2>2. MapOutcome(p) = "none"
      BY <2>1, EngineAssumption DEF EngineInv, Phases, ProjectsUntouched, MapOutcome, EngineAssumption
    <2> QED BY <2>2 DEF EngineInv, Loop, Targets
  <1> QED BY <1>1, EngineInvariance, PTL

(* The result of a run says so when an operation failed or panicked on any *)
(* of its targets: HasErrors holds, and the command exits with an error.   *)
THEOREM FailuresAreReported == Spec => []FailureReported
  <1>1. EngineInv => FailureReported
    BY DEF EngineInv
  <1> QED BY <1>1, EngineInvariance, PTL

(* Unless the run was cancelled, every target that did not itself fail has *)
(* had all of its operations: one target's failure never costs another.    *)
THEOREM FailuresStayIsolated == Spec => []FailuresAreIsolated
  <1>1. EngineInv => FailuresAreIsolated
    <2> SUFFICES ASSUME EngineInv, phase = "done", ~stopped, gRet # NotYet, NEW t \in Targets
                 PROVE  HasFailed(t) \/ IsComplete(t)
      BY DEF FailuresAreIsolated
    <2>1. GroupsReturned /\ ProjectsReturned
      BY DEF EngineInv, Phases, GroupsUntouched
    <2>2. MapOutcome(t) \in MapState \ {"none", "running"}
      BY <2>1 DEF EngineInv, EngineTypes, MapOutcome, Targets, GroupsReturned, ProjectsReturned
    <2> QED BY <2>2 DEF EngineInv, Ended, MapState
  <1> QED BY <1>1, EngineInvariance, PTL

(* Once the caller has its result no operation begins or ends, and nothing *)
(* more is written to GitLab: neither map leaves a goroutine behind.       *)
THEOREM QuietAfterward == Spec => QuietAfterReturn
  <1>1. EngineInv /\ [Next]_vars => [phase = "done" => UNCHANGED <<ops, touched>>]_vars
    <2> SUFFICES ASSUME EngineInv, Next, phase = "done"
                 PROVE  UNCHANGED <<ops, touched>>
      OBVIOUS
    <2>1. \A t \in Targets : ~Running(t)
      BY RunningPhase
    <2> QED BY <2>1 DEF Next, RunStep, DiscoverFails, Discover, LicenseDenied, LicenseGranted, FailRun,
                        GroupsReturn, ProjectsReturn, TargetStep, StartTarget, FinishTarget, BeginOp,
                        EndOp, RefuseTarget, CancelRun
  <1> QED BY <1>1, EngineInvariance, PTL DEF Spec, QuietAfterReturn

-----------------------------------------------------------------------------
(* The reconcilers of collections: the state between two steps.            *)

(* An entry of a list. *)
Entry == [id : Nat \ {0}, key : policy.keys, value : Nat]
Steps == {"idle", "settings", "list", "upsert", "prune", "destroy", "recreate"}

(* The kinds that GitLab addresses by an id, those whose entries keep the  *)
(* key they were listed with, and those that may share a key.              *)
ById == policy.kind \notin {"project_variable", "group_variable"}
KeepsKeys == policy.kind \notin {"group_variable", "compliance"}
SharesKeys == Is("webhook") \/ Is("runner")

(* The variables have their types. *)
ListTypes ==
  /\ policy \in Policies /\ pc \in Steps /\ i \in Nat \ {0} /\ faults \in Nat
  /\ whole \in BOOLEAN /\ disturbed \in BOOLEAN /\ settings \in BOOLEAN

(* A list in which every entry has an id of its own, and a key of its own  *)
(* where GitLab asks for one.                                              *)
Sound(l) ==
  /\ l \in Seq(Entry)
  /\ \A a, b \in DOMAIN l : l[a].id = l[b].id => a = b
  /\ ~SharesKeys => \A a, b \in DOMAIN l : l[a].key = l[b].key => a = b
  /\ Is("compliance") => Len(l) <= 1

(* An id stands for the same key as long as Apply may use it. *)
Agree(l) ==
  KeepsKeys =>
    \A a \in DOMAIN l, b \in DOMAIN seen : l[a].id = seen[b].id => l[a].key = seen[b].key

(* Which loops a kind goes through; settings were sent before the first. *)
Path ==
  /\ pc \in {"destroy", "recreate"} => Is("target_branch_rule")
  /\ Is("target_branch_rule") => pc \in {"idle", "destroy", "recreate"}
  /\ pc # "idle" => outcome = "none"
  /\ pc \in {"list", "upsert", "prune"} /\ HasSettings /\ ~disturbed => settings

(* Apply is in a loop that works through single entries. *)
Looping == pc \in {"upsert", "prune"} /\ ~Is("compliance")
(* The declared entries that the loop has come to. *)
Reached(n) == n \in DOMAIN policy.declared /\ (pc = "upsert" => n < i)

(* Every entry was listed or is one that Apply created. *)
Known ==
  Looping /\ whole /\ ~disturbed =>
    \A a \in DOMAIN live :
      \/ \E b \in DOMAIN seen : live[a].key = seen[b].key
      \/ \E n \in DOMAIN policy.declared : Reached(n) /\ live[a].key = policy.declared[n]

(* A declared entry is settled: there is one as declared, and pruning will *)
(* not take it for another.  Every one that the loop has come to is.       *)
Settled(k, v) ==
  \E a \in DOMAIN live :
    /\ live[a].key = k /\ live[a].value = v
    /\ ById => \A b \in DOMAIN seen : live[a].id = seen[b].id => b = Match(seen, k)
Settlement ==
  Looping /\ ~disturbed /\ ~Ambiguous(seen) /\ ~Unassigned(seen) /\ ~Contradictory =>
    \A n \in DOMAIN policy.declared :
      Reached(n) => Settled(policy.declared[n], policy.values[n])

(* What is to be pruned was listed, and the loop has not come to it yet. *)
ToCome(b) == b \in DOMAIN seen /\ (pc = "prune" => b >= i)
Surplus(e) ==
  /\ policy.prune /\ e.key \notin Declared
  /\ Is("approval_rule") => e.key.name \notin System
Leftover ==
  Looping /\ whole /\ ~disturbed /\ KeepsKeys =>
    \A a \in DOMAIN live : Surplus(live[a]) =>
      \E b \in DOMAIN seen : ToCome(b) /\ seen[b].id = live[a].id

(* A group variable is deleted by its name alone, whichever scope it hits: *)
(* of each name that is not declared, no more are left than deletions.     *)
Rest == {seen[b].key : b \in {c \in DOMAIN seen : ToCome(c)}}
Named(S, x) == {y \in S : y.name = x.name}
GroupLeftover ==
  Looping /\ whole /\ ~disturbed /\ Is("group_variable") /\ policy.prune =>
    \A x \in policy.keys : (\A k \in Declared : k.name # x.name) =>
      Cardinality(Named(KeysOf(live), x)) <= Cardinality(Named(Rest, x))

(* The framework is the declared one as soon as it was set; one that is to *)
(* be removed is gone or still to come.                                    *)
Framework ==
  Is("compliance") /\ pc \in {"upsert", "prune"} /\ ~disturbed =>
    /\ \A n \in DOMAIN policy.declared :
         Reached(n) => live = <<[id |-> 1, key |-> policy.declared[n], value |-> policy.values[n]]>>
    /\ Declared = {} /\ whole /\ policy.prune =>
         live = << >> \/ (live = seen /\ (pc = "prune" => i = 1))

(* What is to be destroyed was listed, and the loop has not come to it. *)
Destroying ==
  pc = "destroy" /\ whole /\ ~disturbed =>
    \A a \in DOMAIN live : policy.prune \/ IsDeclared(live[a]) =>
      \E b \in DOMAIN seen : b >= i /\ seen[b].id = live[a].id

(* The rules that are there again, and no other of those that are          *)
(* replaced, stand in the declared order.                                  *)
Recreated(n) == n \in DOMAIN policy.declared /\ n > ReversePosition
Recreating ==
  pc = "recreate" /\ whole /\ ~disturbed =>
    /\ \A a \in DOMAIN live : policy.prune \/ IsDeclared(live[a]) =>
         \E n \in DOMAIN policy.declared : Recreated(n) /\ live[a].key = policy.declared[n]
    /\ \A n \in DOMAIN policy.declared : Recreated(n) =>
         \E a \in DOMAIN live : live[a].key = policy.declared[n] /\ live[a].value = policy.values[n]
    /\ InDeclaredOrder(live)

(* The inductive invariant. *)
CollectionsInv ==
  /\ ListTypes /\ Sound(live) /\ Sound(seen) /\ Agree(live) /\ Path
  /\ Known /\ Settlement /\ Leftover /\ GroupLeftover /\ Framework /\ Destroying /\ Recreating

-----------------------------------------------------------------------------
(* A set of numbers that is not empty has a least one. *)
LEMMA HasLeast ==
  ASSUME NEW S \in SUBSET Nat, S # {}
  PROVE  \E x \in S : \A y \in S : x <= y
PROOF
  <1>1. PICK x \in S : \A y \in S : ~(<<y, x>> \in OpToRel(<, Nat))
    BY NatLessThanWellFounded, WFMin, Zenon
  <1>2. \A y \in S : ~(y < x)
    BY <1>1 DEF OpToRel
  <1> QED BY <1>2

(* The image of a finite set has no more members than the set. *)
LEMMA ImageIsSmaller ==
  ASSUME NEW S, IsFiniteSet(S), NEW f, NEW T, T = {f[x] : x \in S}
  PROVE  IsFiniteSet(T) /\ Cardinality(T) <= Cardinality(S)
PROOF
  <1> DEFINE g == [x \in S |-> f[x]]
  <1>1. g \in Surjection(S, T)
    BY DEF Surjection
  <1> QED BY <1>1, FS_Surjection

(* A list is as long as it has places. *)
LEMMA PlacesOf ==
  ASSUME NEW S, NEW l \in Seq(S)
  PROVE  /\ DOMAIN l = 1..Len(l) /\ Len(l) \in Nat
         /\ IsFiniteSet(DOMAIN l) /\ Cardinality(DOMAIN l) = Len(l)
PROOF
  <1>1. DOMAIN l = 1..Len(l) /\ Len(l) \in Nat
    OBVIOUS
  <1>2. IsFiniteSet(1..Len(l)) /\ Cardinality(1..Len(l)) = Len(l)
    BY <1>1, FS_Interval
  <1> QED BY <1>1, <1>2

(* A list that fits its page is listed as it is, a longer one is cut. *)
LEMMA PageIs ==
  ASSUME NEW S, NEW l \in Seq(S), PageSize \in Nat
  PROVE  /\ Page(l) \in Seq(S) /\ Len(Page(l)) <= Len(l)
         /\ \A a \in DOMAIN Page(l) : a \in DOMAIN l /\ Page(l)[a] = l[a]
         /\ Len(l) <= PageSize => Page(l) = l
PROOF
  <1> DEFINE n == IF Len(l) < PageSize THEN Len(l) ELSE PageSize
  <1>1. n \in Nat /\ n <= Len(l) /\ (Len(l) <= PageSize => n = Len(l)) /\ Page(l) = SubSeq(l, 1, n)
    BY DEF Page
  <1> HIDE DEF n
  <1>2. SubSeq(l, 1, n) \in Seq(S) /\ Len(SubSeq(l, 1, n)) = n
    BY <1>1, SubSeqProperties
  <1>3. \A a \in 1..n : SubSeq(l, 1, n)[a] = l[a] /\ a \in DOMAIN l
    BY <1>1
  <1>4. n = Len(l) => SubSeq(l, 1, n) = l
    BY <1>2, <1>3, SeqEqual
  <1> QED BY <1>1, <1>2, <1>3, <1>4

(* An entry is taken out of a list: those before it stay where they are,   *)
(* those behind it move up.                                                *)
LEMMA RemovedIs ==
  ASSUME NEW S, NEW l \in Seq(S), NEW j \in DOMAIN l, NEW m, m = RemoveAt(l, j)
  PROVE  /\ m \in Seq(S) /\ Len(m) = Len(l) - 1
         /\ \A a \in DOMAIN m : m[a] = l[IF a < j THEN a ELSE a + 1]
PROOF
  <1> DEFINE p == SubSeq(l, 1, j - 1)
             q == SubSeq(l, j + 1, Len(l))
  <1>1. m = p \o q
    BY DEF RemoveAt
  <1>2. p \in Seq(S) /\ Len(p) = j - 1 /\ \A a \in 1..(j - 1) : p[a] = l[a]
    BY SubSeqProperties
  <1>3. q \in Seq(S) /\ Len(q) = Len(l) - j /\ \A a \in 1..(Len(l) - j) : q[a] = l[j + a]
    BY SubSeqProperties
  <1> HIDE DEF p, q
  <1>4. /\ m \in Seq(S) /\ Len(m) = (j - 1) + (Len(l) - j)
        /\ \A a \in 1..((j - 1) + (Len(l) - j)) : m[a] = IF a <= j - 1 THEN p[a] ELSE q[a - (j - 1)]
    <2>1. /\ p \o q \in Seq(S) /\ Len(p \o q) = Len(p) + Len(q)
          /\ \A a \in 1..(Len(p) + Len(q)) : (p \o q)[a] = IF a <= Len(p) THEN p[a] ELSE q[a - Len(p)]
      BY <1>2, <1>3, ConcatProperties
    <2> QED BY <1>1, <1>2, <1>3, <2>1
  <1>5. j \in Nat /\ Len(l) \in Nat /\ 1 <= j /\ j <= Len(l)
    OBVIOUS
  <1>6. DOMAIN m = 1..(Len(l) - 1) /\ Len(m) = Len(l) - 1
    BY <1>4, <1>5
  <1>7. ASSUME NEW a \in 1..(Len(l) - 1)
        PROVE  m[a] = l[IF a < j THEN a ELSE a + 1]
    <2>1. CASE a < j
      BY <1>2, <1>4, <1>5, <2>1
    <2>2. CASE ~(a < j)
      <3>1. m[a] = q[a - (j - 1)] /\ a - (j - 1) \in 1..(Len(l) - j)
        BY <1>4, <1>5, <2>2
      <3> QED BY <1>3, <1>5, <2>2, <3>1
    <2> QED BY <2>1, <2>2
  <1> QED BY <1>4, <1>6, <1>7


(* A number that fewer than that many others have not used up. *)
LEMMA LeastFree ==
  ASSUME NEW N \in Nat, NEW used, IsFiniteSet(used), Cardinality(used) <= N,
         NEW n, n = Min((1..(N + 1)) \ used)
  PROVE  n \in Nat \ {0} /\ n \notin used
PROOF
  <1> DEFINE free == (1..(N + 1)) \ used
  <1>1. free # {}
    <2> SUFFICES ASSUME 1..(N + 1) \in SUBSET used
                 PROVE  FALSE
      OBVIOUS
    <2>1. Cardinality(1..(N + 1)) = N + 1
      BY FS_Interval
    <2>2. Cardinality(1..(N + 1)) <= Cardinality(used)
      BY FS_Subset
    <2>3. Cardinality(used) \in Nat
      BY FS_CardinalityType
    <2> HIDE DEF free
    <2> QED BY <2>1, <2>2, <2>3
  <1>2. free \in SUBSET Nat
    OBVIOUS
  <1>3. n = Min(free)
    OBVIOUS
  <1>4. n \in free
    <2> HIDE DEF free
    <2>1. PICK x \in free : \A y \in free : x <= y
      BY <1>1, <1>2, HasLeast
    <2> QED BY <1>3, <2>1 DEF Min
  <1> QED BY <1>4

(* The id that GitLab gives a new entry is that of no entry it has, and of *)
(* none that Apply has listed.                                             *)
LEMMA FreshId ==
  ASSUME NEW l \in Seq(Entry), seen \in Seq(Entry), NEW c, c = l \o seen, NEW n,
         n = Min((1..(Len(c) + 1)) \ {c[j].id : j \in DOMAIN c})
  PROVE  /\ n \in Nat \ {0}
         /\ \A a \in DOMAIN l : l[a].id # n
         /\ \A b \in DOMAIN seen : seen[b].id # n
PROOF
  <1> DEFINE used == {c[j].id : j \in DOMAIN c}
  <1>1. /\ c \in Seq(Entry) /\ Len(c) = Len(l) + Len(seen)
        /\ \A a \in 1..(Len(l) + Len(seen)) : c[a] = IF a <= Len(l) THEN l[a] ELSE seen[a - Len(l)]
    BY ConcatProperties
  <1>2. /\ DOMAIN c = 1..Len(c) /\ Len(c) \in Nat
        /\ IsFiniteSet(DOMAIN c) /\ Cardinality(DOMAIN c) = Len(c)
    BY <1>1, PlacesOf
  <1>3. IsFiniteSet(used) /\ Cardinality(used) <= Len(c)
    <2> DEFINE f == [j \in DOMAIN c |-> c[j].id]
    <2>1. used = {f[j] : j \in DOMAIN c}
      OBVIOUS
    <2> HIDE DEF f, used
    <2>2. IsFiniteSet(used) /\ Cardinality(used) <= Cardinality(DOMAIN c)
      BY <2>1, <1>2, ImageIsSmaller
    <2> QED BY <1>2, <2>2
  <1>4. n \in Nat \ {0} /\ n \notin used
    <2>1. n = Min((1..(Len(c) + 1)) \ used)
      OBVIOUS
    <2> HIDE DEF used
    <2> QED BY <1>2, <1>3, <2>1, LeastFree
  <1>5. ASSUME NEW a \in DOMAIN l
        PROVE  l[a].id # n
    <2>1. a \in DOMAIN c /\ c[a] = l[a]
      BY <1>1
    <2> QED BY <1>4, <2>1
  <1>6. ASSUME NEW b \in DOMAIN seen
        PROVE  seen[b].id # n
    <2>1. Len(l) + b \in DOMAIN c /\ c[Len(l) + b] = seen[b]
      BY <1>1
    <2> QED BY <1>4, <2>1
  <1> QED BY <1>4, <1>5, <1>6

(* A new entry stands at the end of the list; a target branch rule stands  *)
(* at its top.                                                             *)
IsInserted(m, l, e) ==
  /\ m \in Seq(Entry) /\ Len(m) = Len(l) + 1
  /\ \A a \in DOMAIN m :
       m[a] = IF Is("target_branch_rule") THEN IF a = 1 THEN e ELSE l[a - 1]
                                          ELSE IF a = Len(l) + 1 THEN e ELSE l[a]

(* The new entry has an id that no other has, live or listed. *)
LEMMA InsertIs ==
  ASSUME NEW l \in Seq(Entry), seen \in Seq(Entry), NEW k \in policy.keys, NEW v \in Nat
  PROVE  \E e \in Entry :
           /\ e.key = k /\ e.value = v /\ IsInserted(Insert(l, k, v), l, e)
           /\ \A a \in DOMAIN l : l[a].id # e.id
           /\ \A b \in DOMAIN seen : seen[b].id # e.id
PROOF
  <1> DEFINE used == {(l \o seen)[j].id : j \in DOMAIN (l \o seen)}
             n == Min((1..(Len(l \o seen) + 1)) \ used)
             e == [id |-> n, key |-> k, value |-> v]
  <1>1. /\ n \in Nat \ {0}
        /\ \A a \in DOMAIN l : l[a].id # n
        /\ \A b \in DOMAIN seen : seen[b].id # n
    BY FreshId
  <1>2. Insert(l, k, v) = IF Is("target_branch_rule") THEN <<e>> \o l ELSE Append(l, e)
    BY DEF Insert
  <1> HIDE DEF n
  <1>3. e \in Entry /\ e.key = k /\ e.value = v /\ e.id = n
    BY <1>1 DEF Entry
  <1> HIDE DEF e
  <1>4. CASE Is("target_branch_rule")
    <2>1. Insert(l, k, v) = <<e>> \o l
      BY <1>2, <1>4
    <2>2. <<e>> \in Seq(Entry) /\ Len(<<e>>) = 1 /\ <<e>>[1] = e
      BY <1>3
    <2>3. /\ <<e>> \o l \in Seq(Entry) /\ Len(<<e>> \o l) = 1 + Len(l)
          /\ \A a \in 1..(1 + Len(l)) : (<<e>> \o l)[a] = IF a <= 1 THEN <<e>>[a] ELSE l[a - 1]
      BY <2>2, ConcatProperties
    <2>4. \A a \in 1..(1 + Len(l)) : (<<e>> \o l)[a] = IF a = 1 THEN e ELSE l[a - 1]
      BY <2>2, <2>3
    <2>5. IsInserted(Insert(l, k, v), l, e)
      BY <1>4, <2>1, <2>3, <2>4 DEF IsInserted
    <2> QED BY <1>1, <1>3, <2>5
  <1>5. CASE ~Is("target_branch_rule")
    <2>1. Insert(l, k, v) = Append(l, e)
      BY <1>2, <1>5
    <2>2. IsInserted(Insert(l, k, v), l, e)
      BY <1>3, <1>5, <2>1, AppendProperties DEF IsInserted
    <2> QED BY <1>1, <1>3, <2>2
  <1> QED BY <1>4, <1>5

(* A list stays sound when an entry is added for which there is room. *)
LEMMA InsertIsSound ==
  ASSUME NEW l, Sound(l), Agree(l), Sound(seen), NEW k \in policy.keys, NEW v \in Nat, HasRoom(l, k)
  PROVE  Sound(Insert(l, k, v)) /\ Agree(Insert(l, k, v))
PROOF
  <1> DEFINE m == Insert(l, k, v)
  <1>1. l \in Seq(Entry) /\ seen \in Seq(Entry)
    BY DEF Sound
  <1>2. PICK e \in Entry : /\ e.key = k /\ e.value = v /\ IsInserted(m, l, e)
                           /\ \A a \in DOMAIN l : l[a].id # e.id
                           /\ \A b \in DOMAIN seen : seen[b].id # e.id
    BY <1>1, InsertIs
  <1> HIDE DEF m
  <1>3. m \in Seq(Entry) /\ DOMAIN m = 1..(Len(l) + 1) /\ DOMAIN l = 1..Len(l) /\ Len(l) \in Nat
        /\ Len(m) = Len(l) + 1
    BY <1>1, <1>2 DEF IsInserted
  <1>4. PICK t \in DOMAIN m : /\ m[t] = e
                              /\ \A a \in DOMAIN m \ {t} : \E c \in DOMAIN l : m[a] = l[c] /\ (c = a \/ c = a - 1)
                              /\ t \in {1, Len(l) + 1}
                              /\ t = 1 => \A a \in DOMAIN m \ {t} : m[a] = l[a - 1] /\ a - 1 \in DOMAIN l
                              /\ t # 1 => \A a \in DOMAIN m \ {t} : m[a] = l[a] /\ a \in DOMAIN l
    <2>1. CASE Is("target_branch_rule")
      <3>1. m[1] = e /\ \A a \in DOMAIN m \ {1} : m[a] = l[a - 1] /\ a - 1 \in DOMAIN l
        BY <1>2, <1>3, <2>1 DEF IsInserted
      <3>2. 1 \in DOMAIN m
        BY <1>3
      <3> QED BY <1>3, <3>1, <3>2
    <2>2. CASE ~Is("target_branch_rule")
      <3>1. m[Len(l) + 1] = e /\ \A a \in DOMAIN m \ {Len(l) + 1} : m[a] = l[a] /\ a \in DOMAIN l
        BY <1>2, <1>3, <2>2 DEF IsInserted
      <3>2. Len(l) + 1 = 1 => DOMAIN m \ {1} = {}
        BY <1>3
      <3>3. Len(l) + 1 \in DOMAIN m
        BY <1>3
      <3> QED BY <1>3, <3>1, <3>2, <3>3
    <2> QED BY <2>1, <2>2
  <1>5. \A a, b \in DOMAIN m : m[a].id = m[b].id => a = b
    <2> SUFFICES ASSUME NEW a \in DOMAIN m, NEW b \in DOMAIN m, m[a].id = m[b].id
                 PROVE  a = b
      OBVIOUS
    <2>1. CASE a = t \/ b = t
      BY <1>2, <1>4, <2>1
    <2>2. CASE a # t /\ b # t
      BY <1>3, <1>4, <2>2 DEF Sound
    <2> QED BY <2>1, <2>2
  <1>6. ASSUME ~SharesKeys, NEW a \in DOMAIN m, NEW b \in DOMAIN m, m[a].key = m[b].key
        PROVE  a = b
    <2>1. \A c \in DOMAIN l : l[c].key # k
      BY <1>6 DEF HasRoom, SharesKeys, KeysOf
    <2>2. CASE a = t \/ b = t
      <3>1. \A c \in DOMAIN m \ {t} : m[c].key # m[t].key
        BY <1>2, <1>4, <2>1
      <3> QED BY <1>6, <2>2, <3>1
    <2>3. CASE a # t /\ b # t
      BY <1>3, <1>4, <1>6, <2>3 DEF Sound
    <2> QED BY <2>2, <2>3
  <1>7. Is("compliance") => Len(m) <= 1
    BY <1>3 DEF HasRoom
  <1>8. Sound(m)
    BY <1>3, <1>5, <1>6, <1>7 DEF Sound
  <1>9. Agree(m)
    <2> SUFFICES ASSUME KeepsKeys, NEW a \in DOMAIN m, NEW b \in DOMAIN seen, m[a].id = seen[b].id
                 PROVE  m[a].key = seen[b].key
      BY DEF Agree
    <2> QED BY <1>2, <1>4 DEF Agree
  <1> QED BY <1>8, <1>9 DEF m


(* A list stays sound when an entry is removed. *)
LEMMA RemoveIsSound ==
  ASSUME NEW l, Sound(l), Agree(l), NEW j \in DOMAIN l
  PROVE  Sound(RemoveAt(l, j)) /\ Agree(RemoveAt(l, j))
PROOF
  <1> DEFINE m == RemoveAt(l, j)
  <1>1. l \in Seq(Entry)
    BY DEF Sound
  <1>2. /\ m \in Seq(Entry) /\ Len(m) = Len(l) - 1
        /\ \A a \in DOMAIN m : m[a] = l[IF a < j THEN a ELSE a + 1]
    BY <1>1, RemovedIs
  <1> HIDE DEF m
  <1>3. \A a \in DOMAIN m : (IF a < j THEN a ELSE a + 1) \in DOMAIN l
    BY <1>1, <1>2
  <1>4. DOMAIN m \subseteq Nat /\ DOMAIN l \subseteq Nat /\ Len(l) \in Nat
    BY <1>1, <1>2
  <1>5. \A a, b \in DOMAIN m :
          (IF a < j THEN a ELSE a + 1) = (IF b < j THEN b ELSE b + 1) => a = b
    BY <1>4
  <1>6. Sound(m)
    BY <1>2, <1>3, <1>4, <1>5 DEF Sound
  <1>7. Agree(m)
    BY <1>2, <1>3 DEF Agree
  <1> QED BY <1>6, <1>7 DEF m

(* Which entries are left: all but one, and those in the order they had. *)
LEMMA RemovedEntries ==
  ASSUME NEW l, Sound(l), NEW j \in DOMAIN l, NEW m, m = RemoveAt(l, j)
  PROVE  /\ \A a \in DOMAIN m : \E b \in DOMAIN l \ {j} : m[a] = l[b]
         /\ \A b \in DOMAIN l \ {j} : \E a \in DOMAIN m : m[a] = l[b]
         /\ \A a, b \in DOMAIN m : a < b =>
              \E c, d \in DOMAIN l : c < d /\ m[a] = l[c] /\ m[b] = l[d]
PROOF
  <1>1. l \in Seq(Entry)
    BY DEF Sound
  <1>2. /\ m \in Seq(Entry) /\ Len(m) = Len(l) - 1
        /\ \A a \in DOMAIN m : m[a] = l[IF a < j THEN a ELSE a + 1]
    BY <1>1, RemovedIs
  <1>3. DOMAIN m = 1..(Len(l) - 1) /\ DOMAIN l = 1..Len(l) /\ Len(l) \in Nat
    BY <1>1, <1>2
  <1>4. ASSUME NEW a \in DOMAIN m
        PROVE  /\ (IF a < j THEN a ELSE a + 1) \in DOMAIN l \ {j}
    BY <1>3
  <1>5. ASSUME NEW b \in DOMAIN l \ {j}
        PROVE  \E a \in DOMAIN m : m[a] = l[b]
    <2>1. CASE b < j
      <3>1. b \in DOMAIN m
        BY <1>3, <2>1
      <3> QED BY <1>2, <2>1, <3>1
    <2>2. CASE ~(b < j)
      <3>1. b - 1 \in DOMAIN m /\ ~(b - 1 < j) /\ (b - 1) + 1 = b
        BY <1>3, <2>2
      <3> QED BY <1>2, <3>1
    <2> QED BY <2>1, <2>2
  <1>6. ASSUME NEW a \in DOMAIN m, NEW b \in DOMAIN m, a < b
        PROVE  \E c, d \in DOMAIN l : c < d /\ m[a] = l[c] /\ m[b] = l[d]
    <2>1. (IF a < j THEN a ELSE a + 1) < (IF b < j THEN b ELSE b + 1)
      BY <1>3, <1>6
    <2> QED BY <1>2, <1>4, <2>1
  <1> QED BY <1>2, <1>4, <1>5, <1>6

(* The page of a sound list is sound, and agrees with itself. *)
LEMMA PageIsSound ==
  ASSUME Sound(live)
  PROVE  Sound(Page(live))
PROOF
  <1>1. live \in Seq(Entry) /\ PageSize \in Nat
    BY CollectionsAssumption DEF Sound
  <1>2. /\ Page(live) \in Seq(Entry) /\ Len(Page(live)) <= Len(live)
        /\ \A a \in DOMAIN Page(live) : a \in DOMAIN live /\ Page(live)[a] = live[a]
    BY <1>1, PageIs
  <1>3. Len(Page(live)) \in Nat /\ Len(live) \in Nat
    BY <1>1, <1>2
  <1> QED BY <1>2, <1>3 DEF Sound

(* A finite set of one member has no other. *)
LEMMA OnlyOne ==
  ASSUME NEW S, IsFiniteSet(S), Cardinality(S) = 1, NEW x \in S
  PROVE  \A y \in S : y = x
PROOF
  <1>1. IsFiniteSet(S \ {x}) /\ Cardinality(S \ {x}) = 0
    BY FS_RemoveElement
  <1>2. S \ {x} = {}
    BY <1>1, FS_EmptySet
  <1> QED BY <1>2

(* What an update makes of the list: the entry that it addresses has the   *)
(* listed key and is as declared; but for a group variable it had that key *)
(* before.                                                                 *)
Updated(j, e, v) == [live EXCEPT ![j].key = e.key, ![j].value = v]
Updates(j, e) ==
  /\ j \in Addressed(e)
  /\ Cardinality(Addressed(e)) = 1 \/ live[j].key = e.key

(* An update changes one entry and leaves the others alone. *)
LEMMA UpdatedIs ==
  ASSUME Sound(live), Sound(seen), NEW c \in DOMAIN seen, NEW j, Updates(j, seen[c]),
         NEW v \in Nat, NEW m, m = Updated(j, seen[c], v)
  PROVE  /\ m \in Seq(Entry) /\ DOMAIN m = DOMAIN live /\ Len(m) = Len(live)
         /\ j \in DOMAIN live
         /\ m[j].id = live[j].id /\ m[j].key = seen[c].key /\ m[j].value = v
         /\ \A a \in DOMAIN live \ {j} : m[a] = live[a]
PROOF
  <1>1. j \in DOMAIN live
    BY DEF Updates, Addressed
  <1>2. live \in Seq(Entry) /\ live[j] \in Entry /\ seen[c] \in Entry
    BY <1>1 DEF Sound
  <1>3. PICK x : x = [live[j] EXCEPT !.key = seen[c].key, !.value = v]
    OBVIOUS
  <1>4. x \in Entry /\ x.id = live[j].id /\ x.key = seen[c].key /\ x.value = v
    BY <1>2, <1>3 DEF Entry
  <1>5. m = [live EXCEPT ![j] = x]
    BY <1>1, <1>2, <1>3 DEF Updated, Entry
  <1> QED BY <1>1, <1>2, <1>4, <1>5

(* But for a group variable, what is updated had the key before. *)
LEMMA UpdateKeepsKey ==
  ASSUME Sound(live), Sound(seen), Agree(live), KeepsKeys, NEW c \in DOMAIN seen, NEW j, Updates(j, seen[c])
  PROVE  live[j].key = seen[c].key
BY DEF KeepsKeys, Agree, Updates, Addressed, Is

(* A list stays sound when an entry is updated. *)
LEMMA UpdateIsSound ==
  ASSUME Sound(live), Sound(seen), Agree(live), policy.kind # "compliance",
         NEW c \in DOMAIN seen, NEW j, Updates(j, seen[c]), NEW v \in Nat
  PROVE  Sound(Updated(j, seen[c], v)) /\ Agree(Updated(j, seen[c], v))
PROOF
  <1> DEFINE m == Updated(j, seen[c], v)
  <1>1. /\ m \in Seq(Entry) /\ DOMAIN m = DOMAIN live /\ Len(m) = Len(live)
        /\ j \in DOMAIN live
        /\ m[j].id = live[j].id /\ m[j].key = seen[c].key /\ m[j].value = v
        /\ \A a \in DOMAIN live \ {j} : m[a] = live[a]
    BY UpdatedIs
  <1> HIDE DEF m
  <1>2. \A a \in DOMAIN live : m[a].id = live[a].id
    BY <1>1
  <1>3. \A a, b \in DOMAIN m : m[a].id = m[b].id => a = b
    BY <1>1, <1>2 DEF Sound
  <1>4. ASSUME NEW a \in DOMAIN live, live[a].key = seen[c].key, ~SharesKeys
        PROVE  a = j
    <2>1. CASE live[j].key = seen[c].key
      BY <1>1, <1>4, <2>1 DEF Sound
    <2>2. CASE live[j].key # seen[c].key
      <3>1. Is("group_variable")
        BY <2>2, UpdateKeepsKey DEF KeepsKeys, Is
      <3>2. IsFiniteSet(Addressed(seen[c]))
        <4>1. live \in Seq(Entry)
          BY DEF Sound
        <4>2. IsFiniteSet(DOMAIN live)
          BY <4>1, PlacesOf
        <4>3. Addressed(seen[c]) \in SUBSET DOMAIN live
          BY DEF Addressed
        <4> QED BY <4>2, <4>3, FS_Subset
      <3>3. a \in Addressed(seen[c])
        BY <1>4, <3>1 DEF Addressed, Is
      <3>4. Cardinality(Addressed(seen[c])) = 1 /\ j \in Addressed(seen[c])
        BY <2>2 DEF Updates
      <3> QED BY <3>2, <3>3, <3>4, OnlyOne
    <2> QED BY <2>1, <2>2
  <1>5. ASSUME ~SharesKeys, NEW a \in DOMAIN m, NEW b \in DOMAIN m, m[a].key = m[b].key
        PROVE  a = b
    <2>1. CASE a = j \/ b = j
      <3>1. \A d \in DOMAIN live \ {j} : m[d].key # m[j].key
        BY <1>1, <1>4, <1>5
      <3> QED BY <1>1, <1>5, <2>1, <3>1
    <2>2. CASE a # j /\ b # j
      BY <1>1, <1>5, <2>2 DEF Sound
    <2> QED BY <2>1, <2>2
  <1>6. Sound(m)
    BY <1>1, <1>3, <1>5 DEF Sound
  <1>7. Agree(m)
    <2> SUFFICES ASSUME KeepsKeys
                 PROVE  \A a \in DOMAIN m, b \in DOMAIN seen : m[a].id = seen[b].id => m[a].key = seen[b].key
      BY DEF Agree
    <2>1. live[j].key = seen[c].key
      BY UpdateKeepsKey
    <2>2. \A a \in DOMAIN live : m[a].key = live[a].key
      BY <1>1, <2>1
    <2> QED BY <1>1, <1>2, <2>2 DEF Agree
  <1> QED BY <1>6, <1>7 DEF m


-----------------------------------------------------------------------------
(* What is assumed of a policy. *)
LEMMA PolicyFacts ==
  ASSUME policy \in Policies
  PROVE  /\ policy.kind \in Kinds /\ policy.prune \in BOOLEAN /\ IsFiniteSet(policy.keys)
         /\ policy.declared \in Seq(policy.keys)
         /\ DOMAIN policy.declared = 1..Len(policy.declared) /\ Len(policy.declared) \in Nat
         /\ Is("target_branch_rule") =>
              \A x, y \in DOMAIN policy.declared : policy.declared[x] = policy.declared[y] => x = y
         /\ \A x \in DOMAIN policy.declared :
              /\ policy.declared[x] \in policy.keys /\ policy.declared[x] \in Declared
              /\ policy.values[x] \in Nat
         /\ \A k \in Declared : \E x \in DOMAIN policy.declared : policy.declared[x] = k
         /\ policy.kind \in Single => Len(policy.declared) <= 1
         /\ policy.kind \in Unpruned => ~policy.prune
PROOF
  <1>1. /\ policy.kind \in Kinds /\ policy.prune \in BOOLEAN /\ IsFiniteSet(policy.keys)
        /\ policy.declared \in Seq(policy.keys)
        /\ policy.values \in [DOMAIN policy.declared -> Nat \ {0}]
        /\ policy.kind \in Validated => IsInjective(policy.declared)
        /\ policy.kind \in Single => Len(policy.declared) <= 1
        /\ policy.kind \in Unpruned => ~policy.prune
    BY CollectionsAssumption
  <1>2. DOMAIN policy.declared = 1..Len(policy.declared) /\ Len(policy.declared) \in Nat
    BY <1>1
  <1>3. Is("target_branch_rule") =>
          \A x, y \in DOMAIN policy.declared : policy.declared[x] = policy.declared[y] => x = y
    BY <1>1 DEF IsInjective, Is, Validated
  <1>4. \A x \in DOMAIN policy.declared :
          /\ policy.declared[x] \in policy.keys /\ policy.declared[x] \in Declared
          /\ policy.values[x] \in Nat
    BY <1>1 DEF Declared, Range
  <1>5. \A k \in Declared : \E x \in DOMAIN policy.declared : policy.declared[x] = k
    BY DEF Declared, Range
  <1> QED BY <1>1, <1>2, <1>3, <1>4, <1>5

(* A bounded set of numbers that is not empty has a greatest one. *)
LEMMA HasGreatest ==
  ASSUME NEW n \in Nat, NEW S \in SUBSET (1..n), S # {}
  PROVE  \E x \in S : \A y \in S : x >= y
PROOF
  <1> DEFINE T == {m \in Nat : n - m \in S}
  <1>1. T \in SUBSET Nat /\ T # {}
    <2>1. PICK x \in S : TRUE
      OBVIOUS
    <2>2. n - x \in Nat /\ n - (n - x) = x
      OBVIOUS
    <2> QED BY <2>2
  <1>2. PICK m \in T : \A k \in T : m <= k
    BY <1>1, HasLeast
  <1>3. n - m \in S
    BY <1>2
  <1>4. \A y \in S : n - m >= y
    <2> TAKE y \in S
    <2>1. n - y \in Nat /\ n - (n - y) = y
      OBVIOUS
    <2>2. n - y \in T
      BY <2>1
    <2>3. m <= n - y
      BY <1>2, <2>2
    <2> QED BY <2>1, <2>3
  <1> QED BY <1>3, <1>4

(* Match finds an entry with the key, if there is one. *)
LEMMA MatchIs ==
  ASSUME NEW l, Sound(l), NEW k
  PROVE  \/ Match(l, k) = 0 /\ \A a \in DOMAIN l : l[a].key # k
         \/ Match(l, k) \in DOMAIN l /\ l[Match(l, k)].key = k
PROOF
  <1> DEFINE at == {j \in DOMAIN l : l[j].key = k}
  <1>1. CASE at = {}
    BY <1>1 DEF Match
  <1>2. CASE at # {}
    <2>1. DOMAIN l = 1..Len(l) /\ Len(l) \in Nat
      BY DEF Sound
    <2>2. at \in SUBSET Nat /\ at \in SUBSET (1..Len(l))
      BY <2>1
    <2>3. PICK x \in at : \A y \in at : x <= y
      BY <1>2, <2>2, HasLeast
    <2>4. PICK z \in at : \A y \in at : z >= y
      BY <1>2, <2>1, <2>2, HasGreatest
    <2>5. Match(l, k) = IF Is("runner") THEN Min(at) ELSE Max(at)
      BY <1>2 DEF Match
    <2> HIDE DEF at
    <2>6. Min(at) \in at
      BY <2>3 DEF Min
    <2>7. Max(at) \in at
      BY <2>4 DEF Max
    <2>8. Match(l, k) \in at
      BY <2>5, <2>6, <2>7
    <2> QED BY <2>8 DEF at
  <1> QED BY <1>1, <1>2

(* The answers to the calls: a call that is accepted is answered, or its   *)
(* answer is lost, or it never arrived.                                    *)
LEMMA AcceptedIs ==
  ASSUME NEW l, NEW answer \in Accepted(l)
  PROVE  /\ answer.faults \in Nat /\ answer.unheard = FALSE
         /\ \/ answer.live = l /\ answer.ok = TRUE
            \/ answer.live = l /\ answer.ok = FALSE /\ answer.faults = 1
            \/ answer.live = live /\ answer.ok = FALSE /\ answer.faults = 1
BY DEF Accepted, Done, Failed

(* A refused call has no effect, and Apply is told. *)
LEMMA RefusedIs ==
  ASSUME NEW answer \in Refused
  PROVE  answer.faults \in Nat /\ answer.unheard = FALSE /\ answer.live = live /\ answer.ok = FALSE
BY DEF Refused

(* What is created is new, and made once or, with a fault, twice. *)
LEMMA CreateAnswers ==
  ASSUME Sound(live), Sound(seen), Agree(live), NEW k \in policy.keys, NEW v \in Nat,
         NEW answer \in CreateCall(k, v), NEW once, once = Insert(live, k, v)
  PROVE  /\ answer.faults \in Nat /\ answer.ok \in BOOLEAN /\ answer.unheard = FALSE
         /\ Sound(answer.live) /\ Agree(answer.live)
         /\ \/ ~answer.ok /\ answer.live = live
            \/ HasRoom(live, k) /\ answer.live = once
            \/ /\ HasRoom(live, k) /\ HasRoom(once, k) /\ answer.live = Insert(once, k, v)
               /\ answer.ok /\ answer.faults = 1
PROOF
  <1> DEFINE twice == Insert(once, k, v)
  <1>1. CASE ~HasRoom(live, k)
    <2>1. answer \in Refused
      BY <1>1 DEF CreateCall
    <2>2. answer.faults \in Nat /\ answer.unheard = FALSE /\ answer.live = live /\ answer.ok = FALSE
      BY <2>1, RefusedIs
    <2>3. Sound(answer.live) /\ Agree(answer.live)
      BY <2>2
    <2> QED BY <2>2, <2>3
  <1>2. CASE HasRoom(live, k)
    <2>1. Sound(once) /\ Agree(once)
      BY <1>2, InsertIsSound
    <2>2. HasRoom(once, k) => Sound(twice) /\ Agree(twice)
      BY <2>1, InsertIsSound
    <2>3. \/ answer \in Accepted(once)
          \/ HasRoom(once, k) /\ answer = [Done(twice) EXCEPT !.faults = 1]
      BY <1>2 DEF CreateCall
    <2>4. CASE answer \in Accepted(once)
      <3>1. /\ answer.faults \in Nat /\ answer.unheard = FALSE
            /\ \/ answer.live = once /\ answer.ok = TRUE
               \/ answer.live = once /\ answer.ok = FALSE /\ answer.faults = 1
               \/ answer.live = live /\ answer.ok = FALSE /\ answer.faults = 1
        BY <2>4, AcceptedIs
      <3>2. Sound(answer.live) /\ Agree(answer.live)
        BY <2>1, <3>1
      <3> QED BY <1>2, <3>1, <3>2
    <2>5. CASE HasRoom(once, k) /\ answer = [Done(twice) EXCEPT !.faults = 1]
      <3>1. answer.live = twice /\ answer.ok = TRUE /\ answer.faults = 1 /\ answer.unheard = FALSE
        BY <2>5 DEF Done
      <3>2. Sound(answer.live) /\ Agree(answer.live)
        BY <2>2, <2>5, <3>1
      <3>3. answer.faults \in Nat
        BY <3>1
      <3> QED BY <1>2, <2>5, <3>1, <3>2, <3>3
    <2> QED BY <2>3, <2>4, <2>5
  <1> QED BY <1>1, <1>2

(* An update changes one of the entries it addresses, or none. *)
LEMMA UpdateAnswers ==
  ASSUME Sound(live), Sound(seen), Agree(live), policy.kind # "compliance",
         NEW c \in DOMAIN seen, NEW v \in Nat, NEW answer \in UpdateCall(seen[c], v)
  PROVE  /\ answer.faults \in Nat /\ answer.ok \in BOOLEAN /\ answer.unheard = FALSE
         /\ Sound(answer.live) /\ Agree(answer.live)
         /\ \/ ~answer.ok /\ answer.live = live
            \/ \E j : Updates(j, seen[c]) /\ answer.live = Updated(j, seen[c], v)
PROOF
  <1>1. CASE answer \in Refused
    <2>1. answer.faults \in Nat /\ answer.unheard = FALSE /\ answer.live = live /\ answer.ok = FALSE
      BY <1>1, RefusedIs
    <2>2. Sound(answer.live) /\ Agree(answer.live)
      BY <2>1
    <2> QED BY <2>1, <2>2
  <1>2. ASSUME NEW j, Updates(j, seen[c]), answer \in Accepted(Updated(j, seen[c], v))
        PROVE  /\ answer.faults \in Nat /\ answer.ok \in BOOLEAN /\ answer.unheard = FALSE
               /\ Sound(answer.live) /\ Agree(answer.live)
               /\ \/ ~answer.ok /\ answer.live = live
                  \/ \E h : Updates(h, seen[c]) /\ answer.live = Updated(h, seen[c], v)
    <2>1. Sound(Updated(j, seen[c], v)) /\ Agree(Updated(j, seen[c], v))
      BY <1>2, UpdateIsSound
    <2>2. /\ answer.faults \in Nat /\ answer.unheard = FALSE
          /\ \/ answer.live = Updated(j, seen[c], v) /\ answer.ok = TRUE
             \/ answer.live = Updated(j, seen[c], v) /\ answer.ok = FALSE /\ answer.faults = 1
             \/ answer.live = live /\ answer.ok = FALSE /\ answer.faults = 1
      BY <1>2, AcceptedIs
    <2>3. Sound(answer.live) /\ Agree(answer.live)
      BY <2>1, <2>2
    <2> QED BY <1>2, <2>2, <2>3
  <1>3. answer \in Refused \/ \E j : Updates(j, seen[c]) /\ answer \in Accepted(Updated(j, seen[c], v))
    <2> DEFINE at == Addressed(seen[c])
               one == IF Cardinality(at) = 1 THEN at ELSE {j \in at : live[j].key = seen[c].key}
               accepted == UNION {Accepted(Updated(j, seen[c], v)) : j \in one}
               refused == IF Cardinality(at) = 1 THEN {} ELSE Refused
    <2>1. UpdateCall(seen[c], v) = accepted \cup refused
      BY DEF UpdateCall, Updated
    <2>2. \A j \in one : Updates(j, seen[c])
      BY DEF Updates
    <2> HIDE DEF one, at
    <2>3. CASE answer \in accepted
      <3>1. PICK T \in {Accepted(Updated(j, seen[c], v)) : j \in one} : answer \in T
        BY <2>3
      <3>2. PICK j \in one : T = Accepted(Updated(j, seen[c], v))
        BY <3>1
      <3> QED BY <2>2, <3>1, <3>2
    <2>4. CASE answer \in refused
      BY <2>4
    <2> HIDE DEF accepted, refused
    <2> QED BY <2>1, <2>3, <2>4
  <1> QED BY <1>1, <1>2, <1>3

(* A deletion removes one of the entries it addresses, or none. *)
LEMMA DeleteAnswers ==
  ASSUME Sound(live), Agree(live), NEW e, NEW answer \in DeleteCall(e)
  PROVE  /\ answer.faults \in Nat /\ answer.ok \in BOOLEAN /\ answer.unheard = FALSE
         /\ Sound(answer.live) /\ Agree(answer.live)
         /\ \/ ~answer.ok /\ answer.live = live
            \/ \E j \in Addressed(e) : answer.live = RemoveAt(live, j)
PROOF
  <1>1. CASE answer \in Refused
    <2>1. answer.faults \in Nat /\ answer.unheard = FALSE /\ answer.live = live /\ answer.ok = FALSE
      BY <1>1, RefusedIs
    <2>2. Sound(answer.live) /\ Agree(answer.live)
      BY <2>1
    <2> QED BY <2>1, <2>2
  <1>2. ASSUME NEW j \in Addressed(e), answer \in Accepted(RemoveAt(live, j))
        PROVE  /\ answer.faults \in Nat /\ answer.ok \in BOOLEAN /\ answer.unheard = FALSE
               /\ Sound(answer.live) /\ Agree(answer.live)
               /\ \/ ~answer.ok /\ answer.live = live
                  \/ \E h \in Addressed(e) : answer.live = RemoveAt(live, h)
    <2>1. j \in DOMAIN live
      BY DEF Addressed
    <2>2. Sound(RemoveAt(live, j)) /\ Agree(RemoveAt(live, j))
      BY <2>1, RemoveIsSound
    <2>3. /\ answer.faults \in Nat /\ answer.unheard = FALSE
          /\ \/ answer.live = RemoveAt(live, j) /\ answer.ok = TRUE
             \/ answer.live = RemoveAt(live, j) /\ answer.ok = FALSE /\ answer.faults = 1
             \/ answer.live = live /\ answer.ok = FALSE /\ answer.faults = 1
      BY <1>2, AcceptedIs
    <2>4. Sound(answer.live) /\ Agree(answer.live)
      BY <2>2, <2>3
    <2> QED BY <1>2, <2>3, <2>4
  <1>3. answer \in Refused \/ \E j \in Addressed(e) : answer \in Accepted(RemoveAt(live, j))
    <2> DEFINE accepted == UNION {Accepted(RemoveAt(live, j)) : j \in Addressed(e)}
               refused == IF Cardinality(Addressed(e)) = 1 THEN {} ELSE Refused
    <2>1. DeleteCall(e) = accepted \cup refused
      BY DEF DeleteCall
    <2>2. CASE answer \in accepted
      <3>1. PICK T \in {Accepted(RemoveAt(live, j)) : j \in Addressed(e)} : answer \in T
        BY <2>2
      <3>2. PICK j \in Addressed(e) : T = Accepted(RemoveAt(live, j))
        BY <3>1
      <3> QED BY <3>1, <3>2
    <2>3. CASE answer \in refused
      BY <2>3
    <2> HIDE DEF accepted, refused
    <2> QED BY <2>1, <2>2, <2>3
  <1> QED BY <1>1, <1>2, <1>3

(* A mutation that was not disturbed and succeeded had its effect. *)
LEMMA MutationAnswers ==
  ASSUME NEW l, NEW answer \in Mutation(l)
  PROVE  /\ answer.faults \in Nat /\ answer.ok \in BOOLEAN /\ answer.unheard \in BOOLEAN
         /\ answer.live \in {l, live}
         /\ answer.ok /\ ~answer.unheard => answer.live = l
PROOF
  <1>1. \/ answer \in Accepted(l)
        \/ answer = [Done(live) EXCEPT !.faults = 1, !.unheard = TRUE]
    BY DEF Mutation
  <1>2. CASE answer \in Accepted(l)
    BY <1>2, AcceptedIs
  <1>3. CASE answer = [Done(live) EXCEPT !.faults = 1, !.unheard = TRUE]
    BY <1>3 DEF Done
  <1> QED BY <1>1, <1>2, <1>3


(* The keys of a list are at most as many as its entries, and there are    *)
(* fewer if two entries have the same one.                                 *)
LEMMA KeysFacts ==
  ASSUME NEW l \in Seq(Entry)
  PROVE  /\ KeysOf(l) \in SUBSET policy.keys /\ IsFiniteSet(KeysOf(l))
         /\ Cardinality(KeysOf(l)) \in Nat /\ Cardinality(KeysOf(l)) <= Len(l)
         /\ Copies(l) = 0 => \A a, b \in DOMAIN l : l[a].key = l[b].key => a = b
PROOF
  <1> DEFINE f == [a \in DOMAIN l |-> l[a].key]
  <1>1. \A a \in DOMAIN l : l[a].key \in policy.keys
    <2> TAKE a \in DOMAIN l
    <2>1. l[a] \in Entry
      OBVIOUS
    <2> QED BY <2>1 DEF Entry
  <1>2. KeysOf(l) = {f[a] : a \in DOMAIN l} /\ KeysOf(l) \in SUBSET policy.keys
    BY <1>1 DEF KeysOf
  <1>3. IsFiniteSet(DOMAIN l) /\ Cardinality(DOMAIN l) = Len(l) /\ Len(l) \in Nat
    BY PlacesOf
  <1>4. f \in Surjection(DOMAIN l, KeysOf(l))
    BY <1>2 DEF Surjection
  <1>5. /\ IsFiniteSet(KeysOf(l)) /\ Cardinality(KeysOf(l)) <= Cardinality(DOMAIN l)
        /\ Cardinality(KeysOf(l)) = Cardinality(DOMAIN l) => f \in Injection(DOMAIN l, KeysOf(l))
    BY <1>3, <1>4, FS_Surjection
  <1>6. Cardinality(KeysOf(l)) \in Nat
    BY <1>5, FS_CardinalityType
  <1>7. Copies(l) = 0 => Cardinality(KeysOf(l)) = Cardinality(DOMAIN l)
    BY <1>3, <1>6 DEF Copies
  <1>8. f \in Injection(DOMAIN l, KeysOf(l)) => \A a, b \in DOMAIN l : l[a].key = l[b].key => a = b
    BY DEF Injection, IsInjective
  <1> QED BY <1>2, <1>3, <1>5, <1>6, <1>7, <1>8

-----------------------------------------------------------------------------
(* Soundness and agreement of a list are those of the next state's list.   *)
LEMMA SoundNext ==
  ASSUME policy' = policy, NEW l, Sound(l), live' = l
  PROVE  Sound(live)'
BY DEF Sound, Entry, SharesKeys, Is

(* The same for what Apply has listed. *)
LEMMA SeenNext ==
  ASSUME policy' = policy, NEW l, Sound(l), seen' = l
  PROVE  Sound(seen)'
BY DEF Sound, Entry, SharesKeys, Is

(* A list that agrees with what was listed goes on to. *)
LEMMA AgreeNext ==
  ASSUME policy' = policy, seen' = seen, NEW l, Agree(l), live' = l
  PROVE  Agree(live)'
BY DEF Agree, KeepsKeys

(* Between two runs nothing but the soundness of the lists is claimed.     *)
LEMMA IdleIsSafe ==
  ASSUME ListTypes', Sound(live)', Sound(seen)', Agree(live)', pc' = "idle"
  PROVE  CollectionsInv'
BY DEF CollectionsInv, Path, Looping, Known, Settlement, Leftover, GroupLeftover, Framework,
       Destroying, Recreating

(* A loop that begins after a listing knows the list. *)
LEMMA ListedIsKnown ==
  ASSUME ListTypes, Sound(live), policy' = policy, live' = live, seen' = Page(live),
         whole' => Len(live) <= PageSize, i' = 1, pc' \in {"settings", "list", "upsert", "destroy"}
  PROVE  /\ Sound(live)' /\ Sound(seen)' /\ Agree(live)'
         /\ Known' /\ Settlement' /\ Leftover' /\ GroupLeftover' /\ Framework'
         /\ Destroying' /\ Recreating'
PROOF
  <1>1. live \in Seq(Entry) /\ PageSize \in Nat
    BY CollectionsAssumption DEF Sound
  <1>2. /\ \A a \in DOMAIN Page(live) : a \in DOMAIN live /\ Page(live)[a] = live[a]
        /\ whole' => seen' = live'
    BY <1>1, PageIs
  <1>3. Sound(live)' /\ Sound(seen)'
    BY PageIsSound, SoundNext, SeenNext
  <1>4. Agree(live)'
    <2> SUFFICES ASSUME NEW a \in DOMAIN live, NEW b \in DOMAIN Page(live), live[a].id = Page(live)[b].id
                 PROVE  live[a].key = Page(live)[b].key
      BY DEF Agree
    <2>1. b \in DOMAIN live /\ live[a].id = live[b].id
      BY <1>2
    <2>2. a = b
      BY <2>1 DEF Sound
    <2> QED BY <1>2, <2>2
  <1>5. Known'
    BY <1>2 DEF Known
  <1>6. \A n \in DOMAIN policy'.declared : pc' = "upsert" => ~Reached(n)'
    <2>1. DOMAIN policy.declared \subseteq 1..Len(policy.declared)
      BY PolicyFacts DEF ListTypes
    <2> QED BY <2>1 DEF Reached
  <1>7. Settlement'
    BY <1>6 DEF Settlement, Looping
  <1>8. \A b : b \in DOMAIN seen' => ToCome(b)'
    BY DEF ToCome
  <1>9. Leftover'
    BY <1>2, <1>8 DEF Leftover
  <1>10. GroupLeftover'
    <2> SUFFICES ASSUME Looping', whole', NEW x \in policy.keys
                 PROVE  Cardinality(Named(KeysOf(live), x))' = Cardinality(Named(Rest, x))'
      <3>1. \A x \in policy.keys : Cardinality(Named(KeysOf(live), x))' \in Nat
        <4> TAKE x \in policy.keys
        <4>1. KeysOf(live)' \subseteq policy.keys
          BY <1>1, KeysFacts DEF KeysOf
        <4>2. Named(KeysOf(live), x)' \in SUBSET policy.keys
          BY <4>1 DEF Named
        <4> QED BY <4>2, PolicyFacts, FS_Subset, FS_CardinalityType DEF ListTypes
      <3> QED BY <3>1 DEF GroupLeftover
    <2>1. KeysOf(live)' = Rest'
      BY <1>2, <1>8 DEF KeysOf, Rest
    <2> QED BY <2>1
  <1>11. Framework'
    BY <1>2, <1>6 DEF Framework
  <1>12. Destroying'
    <2> SUFFICES ASSUME whole', NEW a \in DOMAIN live'
                 PROVE  \E b \in DOMAIN seen' : b >= i' /\ seen'[b].id = live'[a].id
      BY DEF Destroying
    <2>1. a \in DOMAIN seen' /\ seen'[a] = live'[a] /\ a \in Nat /\ a >= 1
      BY <1>1, <1>2
    <2> QED BY <2>1
  <1>13. Recreating'
    BY DEF Recreating
  <1> QED BY <1>3, <1>4, <1>5, <1>7, <1>9, <1>10, <1>11, <1>12, <1>13


(* A list that the governor meets first has every key once. *)
LEMMA InitIsSound ==
  ASSUME CollectionsInit
  PROVE  CollectionsInv
PROOF
  <1>1. PICK s, n, f : /\ n \in Nat /\ s \in [1..n -> policy.keys] /\ IsInjective(s)
                           /\ f \in [policy.keys -> Nat]
                           /\ live = [j \in DOMAIN s |-> [id |-> j, key |-> s[j], value |-> f[s[j]]]]
    <2>1. live \in Lists(policy.keys, Range(policy.values))
      BY DEF CollectionsInit
    <2> DEFINE Orders == {t \in UNION {[1..n -> policy.keys] : n \in 0..Cardinality(policy.keys)} : IsInjective(t)}
               List(s, f) == [j \in DOMAIN s |-> [id |-> j, key |-> s[j], value |-> f[s[j]]]]
    <2>2. Lists(policy.keys, Range(policy.values)) =
            {List(s, f) : s \in Orders, f \in [policy.keys -> (Range(policy.values) \cup {0})]}
      BY DEF Lists
    <2> HIDE DEF Orders, List
    <2>3. PICK s \in Orders, f \in [policy.keys -> (Range(policy.values) \cup {0})] : live = List(s, f)
      BY <2>1, <2>2
    <2>4. IsInjective(s)
      BY DEF Orders
    <2>5. PICK n \in 0..Cardinality(policy.keys) : s \in [1..n -> policy.keys]
      BY DEF Orders
    <2>6. n \in Nat
      BY <2>5, PolicyFacts, FS_CardinalityType DEF CollectionsInit
    <2>7. Range(policy.values) \cup {0} \in SUBSET Nat
      <3>1. policy.values \in [DOMAIN policy.declared -> Nat \ {0}]
        BY CollectionsAssumption DEF CollectionsInit
      <3> QED BY <3>1 DEF Range
    <2>8. f \in [policy.keys -> Nat]
      BY <2>3, <2>7
    <2> QED BY <2>3, <2>4, <2>5, <2>6, <2>8 DEF List
  <1>2. DOMAIN live = 1..n
    BY <1>1
  <1>3. \A a \in 1..n : live[a] = [id |-> a, key |-> s[a], value |-> f[s[a]]] /\ s[a] \in policy.keys
    BY <1>1
  <1>4. \A a \in 1..n : live[a] \in Entry /\ live[a].id = a /\ live[a].key = s[a]
    <2> TAKE a \in 1..n
    <2>1. a \in Nat \ {0} /\ f[s[a]] \in Nat
      BY <1>1
    <2>2. live[a] = [id |-> a, key |-> s[a], value |-> f[s[a]]] /\ s[a] \in policy.keys
      BY <1>3
    <2> QED BY <2>1, <2>2 DEF Entry
  <1>5. live \in Seq(Entry) /\ Len(live) = n
    <2>1. live \in [1..n -> Entry]
      BY <1>1, <1>2, <1>4
    <2> QED BY <1>1, <2>1
  <1>6. Is("compliance") => Len(live) <= 1
    BY DEF CollectionsInit
  <1>7. Sound(live)
    <2>1. \A a, b \in 1..n : s[a] = s[b] => a = b
      BY <1>1 DEF IsInjective
    <2> QED BY <1>2, <1>4, <1>5, <1>6, <2>1 DEF Sound
  <1>8. Sound(seen) /\ Agree(live)
    <2>1. seen = << >> /\ seen \in Seq(Entry) /\ DOMAIN seen = {} /\ Len(seen) = 0
      BY DEF CollectionsInit
    <2> QED BY <2>1 DEF Sound, Agree
  <1>9. ListTypes /\ pc = "idle"
    <2>1. policy \in Policies /\ pc = "idle" /\ i = 1 /\ faults = 0 /\ settings \in BOOLEAN
      BY DEF CollectionsInit
    <2>2. whole \in BOOLEAN /\ disturbed \in BOOLEAN
      BY Zenon DEF CollectionsInit
    <2> QED BY <2>1, <2>2 DEF ListTypes, Steps
  <1> QED
    BY <1>7, <1>8, <1>9
    DEF CollectionsInv, Path, Looping, Known, Settlement, Leftover, GroupLeftover, Framework,
        Destroying, Recreating

(* Plan, and the second listing. *)
LEMMA BeginKeepsInv ==
  ASSUME CollectionsInv, NEW where, BeginApply(where),
         where \in {"settings", "list", "upsert", "destroy"},
         where \in {"upsert", "list"} => ~HasSettings,
         where = "destroy" <=> Is("target_branch_rule")
  PROVE  CollectionsInv'
PROOF
  <1>1. /\ pc = "idle" /\ policy' = policy /\ live' = live /\ settings' = settings /\ faults' = faults
        /\ seen' = Page(live) /\ whole' = (Len(live) <= PageSize) /\ disturbed' = FALSE /\ i' = 1
        /\ pc' = "idle" \/ (pc' = where /\ outcome' = "none")
    BY DEF BeginApply, PlanOn, EndApply
  <1>2. ListTypes'
    <2>1. whole' \in BOOLEAN /\ disturbed' \in BOOLEAN
      <3>1. (Len(live) <= PageSize) \in BOOLEAN
        OBVIOUS
      <3>2. whole' = (Len(live) <= PageSize) /\ disturbed' = FALSE
        BY <1>1
      <3> QED BY <3>1, <3>2, Zenon
    <2> QED BY <1>1, <2>1 DEF CollectionsInv, ListTypes, Steps
  <1>3. ListTypes /\ Sound(live)
    BY DEF CollectionsInv
  <1>4. CASE pc' = "idle"
    <2>1. live \in Seq(Entry) /\ PageSize \in Nat
      BY <1>3, CollectionsAssumption DEF Sound
    <2>2. \A a \in DOMAIN Page(live) : a \in DOMAIN live /\ Page(live)[a] = live[a]
      BY <2>1, PageIs
    <2>3. Sound(live)' /\ Sound(seen)'
      BY <1>1, <1>3, PageIsSound, SoundNext, SeenNext
    <2>4. Agree(live)'
      <3> SUFFICES ASSUME NEW a \in DOMAIN live, NEW b \in DOMAIN Page(live), live[a].id = Page(live)[b].id
                   PROVE  live[a].key = Page(live)[b].key
        BY <1>1 DEF Agree
      <3>1. b \in DOMAIN live /\ live[a].id = live[b].id
        BY <2>2
      <3>2. a = b
        BY <1>3, <3>1 DEF Sound
      <3> QED BY <2>2, <3>2
    <2> QED BY <1>2, <1>4, <2>3, <2>4, IdleIsSafe
  <1>5. CASE pc' = where /\ outcome' = "none"
    <2>1. /\ Sound(live)' /\ Sound(seen)' /\ Agree(live)'
          /\ Known' /\ Settlement' /\ Leftover' /\ GroupLeftover' /\ Framework'
          /\ Destroying' /\ Recreating'
      BY <1>1, <1>3, <1>5, ListedIsKnown
    <2>2. Path'
      BY <1>1, <1>5 DEF Path, HasSettings, Is
    <2> QED BY <1>2, <2>1, <2>2 DEF CollectionsInv
  <1> QED BY <1>1, <1>4, <1>5

(* A framework that was misread disturbs Apply. *)
LEMMA MisreadKeepsInv ==
  ASSUME CollectionsInv, MisreadFramework
  PROVE  CollectionsInv'
PROOF
  <1>1. /\ policy' = policy /\ live' = live /\ settings' = settings /\ faults' = faults + 1
        /\ seen' = << >> /\ whole' = TRUE /\ disturbed' = TRUE /\ i' = 1 /\ Is("compliance")
        /\ pc' = "idle" \/ (pc' = "upsert" /\ outcome' = "none")
    BY DEF MisreadFramework, PlanOn, EndApply, Fault
  <1>2. ListTypes'
    BY <1>1 DEF CollectionsInv, ListTypes, Steps
  <1>3. Sound(<< >>) /\ DOMAIN << >> = {}
    <2>1. << >> \in Seq(Entry) /\ DOMAIN << >> = {} /\ Len(<< >>) = 0
      OBVIOUS
    <2> QED BY <2>1 DEF Sound
  <1>4. Sound(live)' /\ Sound(seen)'
    BY <1>1, <1>3, SoundNext, SeenNext DEF CollectionsInv
  <1>5. Agree(live)'
    BY <1>1, <1>3 DEF Agree
  <1>6. CASE pc' = "idle"
    BY <1>2, <1>4, <1>5, <1>6, IdleIsSafe
  <1>7. CASE pc' = "upsert" /\ outcome' = "none"
    <2>1. Path'
      BY <1>1, <1>7 DEF Path, HasSettings, Is
    <2> QED
      BY <1>1, <1>2, <1>4, <1>5, <1>7, <2>1
      DEF CollectionsInv, Known, Settlement, Leftover, GroupLeftover, Framework, Destroying, Recreating
  <1> QED BY <1>1, <1>6, <1>7

(* The second listing. *)
LEMMA ListAgainKeepsInv ==
  ASSUME CollectionsInv, ListAgain
  PROVE  CollectionsInv'
PROOF
  <1>1. /\ pc = "list" /\ policy' = policy /\ live' = live /\ settings' = settings /\ faults' = faults
        /\ seen' = Page(live) /\ whole' = (whole /\ Len(live) <= PageSize) /\ disturbed' = disturbed
        /\ i' = 1 /\ pc' = "upsert" /\ outcome' = outcome
    BY DEF ListAgain, ListEntries, GoTo
  <1>2. ListTypes'
    BY <1>1 DEF CollectionsInv, ListTypes, Steps
  <1>3. /\ Sound(live)' /\ Sound(seen)' /\ Agree(live)'
        /\ Known' /\ Settlement' /\ Leftover' /\ GroupLeftover' /\ Framework'
        /\ Destroying' /\ Recreating'
    BY <1>1, ListedIsKnown DEF CollectionsInv
  <1>4. Path'
    BY <1>1 DEF CollectionsInv, Path, HasSettings, Is
  <1> QED BY <1>2, <1>3, <1>4 DEF CollectionsInv

(* The settings are sent before the second listing. *)
LEMMA SettingsKeepInv ==
  ASSUME CollectionsInv, ChangeSettings
  PROVE  CollectionsInv'
PROOF
  <1>1. /\ pc = "settings" /\ policy' = policy /\ live' = live /\ seen' = seen /\ whole' = whole
        /\ disturbed' = disturbed /\ settings' = TRUE /\ i' = 1
        /\ \/ pc' = "list" /\ outcome' = outcome /\ faults' = faults
           \/ pc' = "idle" /\ faults' = faults + 1
    BY DEF ChangeSettings, GoTo, EndApply, Fault
  <1>2. ListTypes'
    BY <1>1 DEF CollectionsInv, ListTypes, Steps
  <1>3. Sound(live)' /\ Sound(seen)' /\ Agree(live)'
    BY <1>1, SoundNext, SeenNext, AgreeNext DEF CollectionsInv
  <1>4. CASE pc' = "idle"
    BY <1>2, <1>3, <1>4, IdleIsSafe
  <1>5. CASE pc' = "list" /\ outcome' = outcome
    BY <1>1, <1>2, <1>3, <1>5
    DEF CollectionsInv, Path, Looping, Known, Settlement, Leftover, GroupLeftover, Framework,
        Destroying, Recreating, HasSettings, Is
  <1> QED BY <1>1, <1>4, <1>5

(* Apply gives up. *)
LEMMA FailureKeepsInv ==
  ASSUME CollectionsInv, ApplyFails
  PROVE  CollectionsInv'
PROOF
  <1>1. /\ policy' = policy /\ live' = live /\ seen' = seen /\ whole' = whole /\ settings' = settings
        /\ disturbed' = disturbed /\ i' = 1 /\ pc' = "idle" /\ faults' = faults + 1
    BY DEF ApplyFails, EndApply, Fault
  <1>2. ListTypes'
    BY <1>1 DEF CollectionsInv, ListTypes, Steps
  <1>3. Sound(live)' /\ Sound(seen)' /\ Agree(live)'
    BY <1>1, SoundNext, SeenNext, AgreeNext DEF CollectionsInv
  <1> QED BY <1>1, <1>2, <1>3, IdleIsSafe

(* Whoever changes an entry by hand leaves a sound list. *)
LEMMA DriftKeepsInv ==
  ASSUME CollectionsInv, Drift
  PROVE  CollectionsInv'
PROOF
  <1>1. /\ policy' = policy /\ seen' = seen /\ whole' = whole /\ i' = i /\ pc' = pc
        /\ outcome' = outcome /\ disturbed' = TRUE /\ faults' = faults + 1
        /\ \/ live' = live
           \/ \E j \in DOMAIN live : live' = [live EXCEPT ![j].value = 0]
           \/ \E j \in DOMAIN live : live' = RemoveAt(live, j)
           \/ \E k \in policy.keys : HasRoom(live, k) /\ live' = Insert(live, k, 0)
        /\ settings' \in BOOLEAN
    BY DEF Drift, Fault, CollectionsInv, ListTypes
  <1>2. Sound(live) /\ Sound(seen) /\ Agree(live)
    BY DEF CollectionsInv
  <1>3. \E l : Sound(l) /\ Agree(l) /\ live' = l
    <2>1. CASE live' = live
      BY <1>2, <2>1
    <2>2. ASSUME NEW j \in DOMAIN live, live' = [live EXCEPT ![j].value = 0]
          PROVE  \E l : Sound(l) /\ Agree(l) /\ live' = l
      <3>1. PICK m : m = [live EXCEPT ![j].value = 0]
        OBVIOUS
      <3>2. live \in Seq(Entry) /\ live[j] \in Entry
        BY <1>2 DEF Sound
      <3>3. PICK x : x = [live[j] EXCEPT !.value = 0]
        OBVIOUS
      <3>4. x \in Entry /\ x.id = live[j].id /\ x.key = live[j].key
        BY <3>2, <3>3 DEF Entry
      <3>5. m = [live EXCEPT ![j] = x]
        BY <3>1, <3>2, <3>3 DEF Entry
      <3>6. /\ m \in Seq(Entry) /\ Len(m) = Len(live) /\ DOMAIN m = DOMAIN live
            /\ \A a \in DOMAIN live : m[a].id = live[a].id /\ m[a].key = live[a].key
        BY <3>2, <3>4, <3>5
      <3>7. Sound(m) /\ Agree(m)
        BY <1>2, <3>6 DEF Sound, Agree
      <3> QED BY <2>2, <3>1, <3>7
    <2>3. ASSUME NEW j \in DOMAIN live, live' = RemoveAt(live, j)
          PROVE  \E l : Sound(l) /\ Agree(l) /\ live' = l
      BY <1>2, <2>3, RemoveIsSound
    <2>4. ASSUME NEW k \in policy.keys, HasRoom(live, k), live' = Insert(live, k, 0)
          PROVE  \E l : Sound(l) /\ Agree(l) /\ live' = l
      BY <1>2, <2>4, InsertIsSound
    <2> QED BY <1>1, <2>1, <2>2, <2>3, <2>4
  <1>4. Sound(live)' /\ Sound(seen)' /\ Agree(live)'
    BY <1>1, <1>2, <1>3, SoundNext, SeenNext, AgreeNext
  <1>5. ListTypes'
    BY <1>1 DEF CollectionsInv, ListTypes, Steps
  <1>6. Path'
    BY <1>1 DEF CollectionsInv, Path, HasSettings, Is
  <1> QED
    BY <1>1, <1>4, <1>5, <1>6
    DEF CollectionsInv, Known, Settlement, Leftover, GroupLeftover, Framework, Destroying, Recreating


(* The step of a loop: Apply goes on with the next entry, or it fails and   *)
(* is over.                                                                *)
LEMMA ReceiveKeepsInv ==
  ASSUME CollectionsInv, NEW answers, Receive(answers), pc # "idle",
         \A answer \in answers :
           /\ answer.faults \in Nat /\ answer.ok \in BOOLEAN /\ answer.unheard \in BOOLEAN
           /\ Sound(answer.live) /\ Agree(answer.live)
  PROVE  \E answer \in answers :
           /\ policy' = policy /\ seen' = seen /\ whole' = whole /\ settings' = settings
           /\ live' = answer.live /\ faults' = faults + answer.faults
           /\ disturbed' = (disturbed \/ answer.unheard)
           /\ ListTypes' /\ Sound(live)' /\ Sound(seen)' /\ Agree(live)'
           /\ \/ ~answer.ok /\ pc' = "idle" /\ outcome' = "failed" /\ CollectionsInv'
              \/ answer.ok /\ pc' = pc /\ i' = i + 1 /\ outcome' = outcome /\ Path'
PROOF
  <1>1. PICK answer \in answers :
          /\ live' = answer.live /\ faults' = faults + answer.faults
          /\ IF answer.ok THEN i' = i + 1 /\ pc' = pc /\ outcome' = outcome
                          ELSE pc' = "idle" /\ outcome' = "failed" /\ i' = 1
          /\ disturbed' = (disturbed \/ answer.unheard)
    BY DEF Receive, EndApply
  <1>2. policy' = policy /\ seen' = seen /\ whole' = whole /\ settings' = settings
    BY DEF Receive
  <1>3. Sound(live)' /\ Sound(seen)' /\ Agree(live)'
    BY <1>1, <1>2, SoundNext, SeenNext, AgreeNext DEF CollectionsInv
  <1>4. ListTypes'
    <2>1. disturbed' \in BOOLEAN
      BY <1>1
    <2>2. i' \in Nat \ {0} /\ faults' \in Nat
      BY <1>1 DEF CollectionsInv, ListTypes
    <2>3. pc' \in Steps
      BY <1>1 DEF CollectionsInv, ListTypes, Steps
    <2> QED BY <1>2, <2>1, <2>2, <2>3 DEF CollectionsInv, ListTypes
  <1>5. CASE answer.ok
    <2>1. Path'
      BY <1>1, <1>2, <1>5 DEF CollectionsInv, Path, HasSettings, Is
    <2> QED BY <1>1, <1>2, <1>3, <1>4, <1>5, <2>1
  <1>6. CASE ~answer.ok
    <2>1. pc' = "idle" /\ outcome' = "failed"
      BY <1>1, <1>6
    <2>2. CollectionsInv'
      BY <1>3, <1>4, <2>1, IdleIsSafe
    <2> QED BY <1>1, <1>2, <1>3, <1>4, <1>6, <2>1, <2>2
  <1> QED BY <1>5, <1>6

(* What creating and updating an entry have in common: there is an entry   *)
(* with the key, as declared; the others have their keys and ids, and those *)
(* of other declared keys are what they were.                              *)
Upserts(m, k, v) ==
  /\ \A a \in DOMAIN m :
       m[a].key = k \/ \E c \in DOMAIN live : m[a].key = live[c].key /\ m[a].id = live[c].id
  /\ \E a \in DOMAIN m :
       /\ m[a].key = k /\ m[a].value = v
       /\ ById => \A b \in DOMAIN seen : m[a].id = seen[b].id => b = Match(seen, k)
  /\ ~Ambiguous(seen) =>
       \A c \in DOMAIN live : live[c].key \in Declared \ {k} => \E a \in DOMAIN m : m[a] = live[c]
  /\ Is("group_variable") =>
       \A c \in DOMAIN live : live[c].key.name = k.name \/ \E a \in DOMAIN m : m[a].key = live[c].key

(* Such a list keeps what the loops rely on, one position further. *)
LEMMA UpsertsKeepInv ==
  ASSUME CollectionsInv, pc = "upsert", i <= Len(policy.declared), ~Is("compliance"),
         policy' = policy, seen' = seen, whole' = whole, disturbed' = disturbed,
         pc' = pc, i' = i + 1, NEW m, live' = m, m \in Seq(Entry), Upserts(m, policy.declared[i], policy.values[i])
  PROVE  /\ Known' /\ Settlement' /\ Leftover' /\ GroupLeftover' /\ Framework'
         /\ Destroying' /\ Recreating'
PROOF
  <1> DEFINE k == policy.declared[i]
             v == policy.values[i]
  <1>1. /\ i \in DOMAIN policy.declared /\ k \in Declared /\ i \in Nat
        /\ DOMAIN policy.declared \subseteq Nat
        /\ \A x \in DOMAIN policy.declared : policy.declared[x] \in Declared
    BY PolicyFacts DEF CollectionsInv, ListTypes
  <1> HIDE DEF k, v
  <1>2. Upserts(m, k, v)
    BY DEF k, v
  <1>3. \A n : Reached(n)' <=> Reached(n) \/ n = i
    BY <1>1 DEF Reached
  <1>4. \A b : ToCome(b)' <=> ToCome(b)
    BY DEF ToCome
  <1>5. Known'
    <2> SUFFICES ASSUME Looping, whole, ~disturbed, NEW a \in DOMAIN m
                 PROVE  \/ \E b \in DOMAIN seen : m[a].key = seen[b].key
                        \/ \E n \in DOMAIN policy.declared : Reached(n)' /\ m[a].key = policy.declared[n]
      BY DEF Known, Looping, Is
    <2>1. CASE m[a].key = k
      BY <1>1, <1>3, <2>1 DEF k
    <2>2. ASSUME NEW c \in DOMAIN live, m[a].key = live[c].key
          PROVE  \/ \E b \in DOMAIN seen : m[a].key = seen[b].key
                 \/ \E n \in DOMAIN policy.declared : Reached(n)' /\ m[a].key = policy.declared[n]
      BY <1>3, <2>2 DEF CollectionsInv, Known
    <2> QED BY <1>2, <2>1, <2>2 DEF Upserts
  <1>6. Settlement'
    <2> SUFFICES ASSUME ~disturbed, ~Ambiguous(seen), ~Unassigned(seen), ~Contradictory,
                        NEW n \in DOMAIN policy.declared, Reached(n)'
                 PROVE  \E a \in DOMAIN m :
                          /\ m[a].key = policy.declared[n] /\ m[a].value = policy.values[n]
                          /\ ById => \A b \in DOMAIN seen : m[a].id = seen[b].id => b = Match(seen, policy.declared[n])
      <3>1. /\ Ambiguous(seen)' = Ambiguous(seen) /\ Unassigned(seen)' = Unassigned(seen)
            /\ Contradictory' = Contradictory
        BY DEF Ambiguous, Unassigned, Contradictory, Is, Declared, KeysOf
      <3>2. \A x : Match(seen, x)' = Match(seen, x)
        BY DEF Match, Is
      <3> QED BY <3>1, <3>2 DEF Settlement, Settled, ById
    <2>1. CASE policy.declared[n] = k
      <3>1. policy.values[n] = v
        BY <1>1, <2>1 DEF Contradictory, k, v
      <3> QED BY <1>2, <2>1, <3>1 DEF Upserts
    <2>2. CASE policy.declared[n] # k
      <3>1. Reached(n) /\ policy.declared[n] \in Declared
        BY <1>1, <1>3, <2>2 DEF k
      <3>2. Settled(policy.declared[n], policy.values[n])
        BY <3>1 DEF CollectionsInv, Settlement, Looping
      <3>3. PICK c \in DOMAIN live :
              /\ live[c].key = policy.declared[n] /\ live[c].value = policy.values[n]
              /\ ById => \A b \in DOMAIN seen : live[c].id = seen[b].id => b = Match(seen, policy.declared[n])
        BY <3>2 DEF Settled
      <3>4. PICK a \in DOMAIN m : m[a] = live[c]
        BY <1>2, <2>2, <3>1, <3>3 DEF Upserts
      <3> QED BY <3>3, <3>4
    <2> QED BY <2>1, <2>2
  <1>7. Leftover'
    <2> SUFFICES ASSUME Looping, whole, ~disturbed, KeepsKeys, NEW a \in DOMAIN m, Surplus(m[a])
                 PROVE  \E b \in DOMAIN seen : ToCome(b) /\ seen[b].id = m[a].id
      BY <1>4 DEF Leftover, Looping, KeepsKeys, Surplus, Is, Declared
    <2>1. m[a].key # k
      BY <1>1 DEF Surplus
    <2>2. PICK c \in DOMAIN live : m[a].key = live[c].key /\ m[a].id = live[c].id
      BY <1>2, <2>1 DEF Upserts
    <2>3. Surplus(live[c])
      BY <2>2 DEF Surplus
    <2> QED BY <2>2, <2>3 DEF CollectionsInv, Leftover
  <1>8. GroupLeftover'
    <2> SUFFICES ASSUME Looping, whole, ~disturbed, Is("group_variable"), policy.prune,
                        NEW x \in policy.keys, \A y \in Declared : y.name # x.name
                 PROVE  Cardinality(Named(KeysOf(m), x)) <= Cardinality(Named(Rest, x))
      <3>1. Rest' = Rest
        BY <1>4 DEF Rest
      <3> QED BY <3>1 DEF GroupLeftover, Looping, Is, Declared, KeysOf, Named
    <2>1. Named(KeysOf(m), x) = Named(KeysOf(live), x)
      <3>1. ASSUME NEW y \in Named(KeysOf(m), x)
            PROVE  y \in Named(KeysOf(live), x)
        <4>1. PICK a \in DOMAIN m : y = m[a].key /\ m[a].key.name = x.name
          BY DEF Named, KeysOf
        <4>2. m[a].key # k
          BY <1>1, <4>1
        <4>3. PICK c \in DOMAIN live : m[a].key = live[c].key
          BY <1>2, <4>2 DEF Upserts
        <4> QED BY <4>1, <4>3 DEF Named, KeysOf
      <3>2. ASSUME NEW y \in Named(KeysOf(live), x)
            PROVE  y \in Named(KeysOf(m), x)
        <4>1. PICK c \in DOMAIN live : y = live[c].key /\ live[c].key.name = x.name
          BY DEF Named, KeysOf
        <4>2. live[c].key.name # k.name
          BY <1>1, <4>1
        <4>3. PICK a \in DOMAIN m : m[a].key = live[c].key
          BY <1>2, <4>2 DEF Upserts
        <4> QED BY <4>1, <4>3 DEF Named, KeysOf
      <3> QED BY <3>1, <3>2
    <2> QED BY <2>1 DEF CollectionsInv, GroupLeftover
  <1>9. Framework' /\ Destroying' /\ Recreating'
    BY DEF Framework, Destroying, Recreating, Is
  <1> QED BY <1>5, <1>6, <1>7, <1>8, <1>9


(* But for target branch rules, a new entry is the last. *)
LEMMA AppendedIs ==
  ASSUME ~Is("target_branch_rule"), NEW l \in Seq(Entry), NEW m, NEW e, IsInserted(m, l, e)
  PROVE  /\ DOMAIN l = 1..Len(l) /\ Len(l) \in Nat
         /\ m \in Seq(Entry) /\ DOMAIN m = 1..(Len(l) + 1)
         /\ m[Len(l) + 1] = e /\ \A a \in 1..Len(l) : m[a] = l[a]
BY DEF IsInserted

(* What is created is as declared, and not among what was listed. *)
Unlisted(e) == \A b \in DOMAIN seen : seen[b].id # e.id

(* A creation inserts such an entry. *)
LEMMA CreatedIs ==
  ASSUME NEW l \in Seq(Entry), seen \in Seq(Entry), NEW k \in policy.keys, NEW v \in Nat,
         NEW m, m = Insert(l, k, v)
  PROVE  \E e \in Entry :
           /\ e.key = k /\ e.value = v /\ IsInserted(m, l, e) /\ Unlisted(e)
PROOF
  BY InsertIs DEF Unlisted

(* A creation, made once or twice, settles the declared entry. *)
LEMMA CreateUpserts ==
  ASSUME CollectionsInv, ~Is("target_branch_rule"), NEW k \in policy.keys, NEW v, Match(seen, k) = 0,
         NEW once, NEW e \in Entry, e.key = k, e.value = v, IsInserted(once, live, e),
         Unlisted(e),
         NEW m, m = once \/ \E f \in Entry : f.key = k /\ IsInserted(m, once, f)
  PROVE  Upserts(m, k, v)
PROOF
  <1>1. live \in Seq(Entry) /\ seen \in Seq(Entry)
    BY DEF Sound, CollectionsInv
  <1>2. /\ DOMAIN live = 1..Len(live) /\ Len(live) \in Nat
        /\ once \in Seq(Entry) /\ DOMAIN once = 1..(Len(live) + 1)
        /\ once[Len(live) + 1] = e /\ \A a \in 1..Len(live) : once[a] = live[a]
    BY <1>1, AppendedIs
  <1>3. /\ DOMAIN live \subseteq DOMAIN m /\ \A a \in DOMAIN live : m[a] = live[a]
        /\ \A a \in DOMAIN m \ DOMAIN live : m[a].key = k
        /\ Len(live) + 1 \in DOMAIN m /\ m[Len(live) + 1] = e
    <2>1. CASE m = once
      BY <1>2, <2>1
    <2>2. CASE \E f \in Entry : f.key = k /\ IsInserted(m, once, f)
      <3>1. PICK f \in Entry : f.key = k /\ IsInserted(m, once, f)
        BY <2>2
      <3>2. /\ DOMAIN m = 1..(Len(once) + 1) /\ m[Len(once) + 1] = f
            /\ \A a \in 1..Len(once) : m[a] = once[a]
        BY <1>2, <3>1, AppendedIs
      <3>3. Len(once) = Len(live) + 1
        BY <1>2
      <3>4. \A a \in 1..Len(live) : a \in 1..Len(once) /\ m[a] = live[a]
        BY <1>2, <3>2, <3>3
      <3>5. \A a \in DOMAIN m \ DOMAIN live : a = Len(live) + 1 \/ a = Len(once) + 1
        BY <1>2, <3>2, <3>3
      <3>6. m[Len(live) + 1] = e /\ Len(live) + 1 \in DOMAIN m
        BY <1>2, <3>2, <3>3
      <3> QED BY <1>2, <3>1, <3>2, <3>3, <3>4, <3>5, <3>6
    <2> QED BY <2>1, <2>2
  <1>4. \A a \in DOMAIN m :
          m[a].key = k \/ \E c \in DOMAIN live : m[a].key = live[c].key /\ m[a].id = live[c].id
    BY <1>3
  <1>5. \E a \in DOMAIN m :
          /\ m[a].key = k /\ m[a].value = v
          /\ ById => \A b \in DOMAIN seen : m[a].id = seen[b].id => b = Match(seen, k)
    BY <1>3 DEF Unlisted
  <1> QED BY <1>3, <1>4, <1>5 DEF Upserts

(* An update of the matched entry settles the declared one. *)
LEMMA UpdateUpserts ==
  ASSUME CollectionsInv, ~Is("compliance"), NEW k \in Declared, NEW v \in Nat, Match(seen, k) \in DOMAIN seen,
         seen[Match(seen, k)].key = k,
         NEW j, Updates(j, seen[Match(seen, k)]), NEW m, m = Updated(j, seen[Match(seen, k)], v)
  PROVE  Upserts(m, k, v)
PROOF
  <1>1. Sound(live) /\ Sound(seen) /\ Agree(live)
    BY DEF CollectionsInv
  <1>2. PICK c \in DOMAIN seen : c = Match(seen, k)
    OBVIOUS
  <1>3. /\ DOMAIN m = DOMAIN live /\ j \in DOMAIN live
        /\ m[j].id = live[j].id /\ m[j].key = k /\ m[j].value = v
        /\ \A a \in DOMAIN live \ {j} : m[a] = live[a]
    BY <1>1, <1>2, UpdatedIs
  <1>4. Updates(j, seen[c]) /\ seen[c].key = k
    BY <1>2
  <1>5. \A a \in DOMAIN m :
          m[a].key = k \/ \E d \in DOMAIN live : m[a].key = live[d].key /\ m[a].id = live[d].id
    BY <1>3
  <1>6. ById => \A b \in DOMAIN seen : m[j].id = seen[b].id => b = c
    <2> SUFFICES ASSUME ById, NEW b \in DOMAIN seen, m[j].id = seen[b].id
                 PROVE  b = c
      OBVIOUS
    <2>1. live[j].id = seen[c].id
      BY <1>4 DEF Updates, Addressed, ById, Is
    <2> QED BY <1>1, <1>3, <2>1 DEF Sound
  <1>7. ASSUME ~Ambiguous(seen), NEW d \in DOMAIN live, live[d].key \in Declared \ {k}
        PROVE  d # j
    <2> SUFFICES ASSUME d = j
                 PROVE  FALSE
      OBVIOUS
    <2>1. CASE Is("group_variable")
      <3>1. live[j].key.name = seen[c].key.name
        BY <1>4, <2>1 DEF Updates, Addressed, Is
      <3>2. Ambiguous(seen)
        BY <1>4, <1>7, <2>1, <3>1 DEF Ambiguous
      <3> QED BY <1>7, <3>2
    <2>2. CASE ~Is("group_variable")
      <3>1. live[j].key = seen[c].key
        BY <1>1, <1>4, <2>2, UpdateKeepsKey DEF KeepsKeys, Is
      <3> QED BY <1>4, <1>7, <3>1
    <2> QED BY <2>1, <2>2
  <1>8. ASSUME Is("group_variable"), NEW d \in DOMAIN live
        PROVE  live[d].key.name = k.name \/ \E a \in DOMAIN m : m[a].key = live[d].key
    <2>1. CASE d = j
      BY <1>4, <1>8, <2>1 DEF Updates, Addressed, Is
    <2>2. CASE d # j
      BY <1>3, <2>2
    <2> QED BY <2>1, <2>2
  <1> QED BY <1>2, <1>3, <1>5, <1>6, <1>7, <1>8 DEF Upserts

(* The loop over the declared entries. *)
LEMMA UpsertKeepsInv ==
  ASSUME CollectionsInv, Upsert, ~Is("compliance")
  PROVE  CollectionsInv'
PROOF
  <1> DEFINE k == policy.declared[i]
             v == policy.values[i]
  <1>1. /\ pc = "upsert" /\ i <= Len(policy.declared)
        /\ Receive(IF Match(seen, k) = 0 THEN CreateCall(k, v) ELSE UpdateCall(seen[Match(seen, k)], v))
    BY DEF Upsert
  <1>2. k \in policy.keys /\ k \in Declared /\ v \in Nat
    BY <1>1, PolicyFacts DEF CollectionsInv, ListTypes
  <1>3. Sound(live) /\ Sound(seen) /\ Agree(live) /\ ~Is("target_branch_rule")
    BY <1>1 DEF CollectionsInv, Path
  <1> HIDE DEF k, v
  <1>4. ASSUME NEW answers, Receive(answers),
               \A answer \in answers :
                 /\ answer.faults \in Nat /\ answer.ok \in BOOLEAN /\ answer.unheard = FALSE
                 /\ Sound(answer.live) /\ Agree(answer.live)
                 /\ answer.ok => Upserts(answer.live, k, v)
        PROVE  CollectionsInv'
    <2>1. PICK answer \in answers :
            /\ policy' = policy /\ seen' = seen /\ whole' = whole /\ settings' = settings
            /\ live' = answer.live /\ faults' = faults + answer.faults
            /\ disturbed' = (disturbed \/ answer.unheard)
            /\ ListTypes' /\ Sound(live)' /\ Sound(seen)' /\ Agree(live)'
            /\ \/ ~answer.ok /\ pc' = "idle" /\ outcome' = "failed" /\ CollectionsInv'
               \/ answer.ok /\ pc' = pc /\ i' = i + 1 /\ outcome' = outcome /\ Path'
      BY <1>1, <1>4, ReceiveKeepsInv
    <2>2. CASE answer.ok /\ pc' = pc /\ i' = i + 1 /\ Path'
      <3>1. disturbed' = disturbed
        BY <1>4, <2>1 DEF CollectionsInv, ListTypes
      <3>2. answer.live \in Seq(Entry) /\ Upserts(answer.live, policy.declared[i], policy.values[i])
        BY <1>4, <2>2 DEF Sound, k, v
      <3>3. /\ Known' /\ Settlement' /\ Leftover' /\ GroupLeftover' /\ Framework'
            /\ Destroying' /\ Recreating'
        BY <1>1, <2>1, <2>2, <3>1, <3>2, UpsertsKeepInv
      <3> QED BY <2>1, <2>2, <3>3 DEF CollectionsInv
    <2> QED BY <2>1, <2>2
  <1>5. CASE Match(seen, k) = 0
    <2>1. ASSUME NEW answer \in CreateCall(k, v)
          PROVE  /\ answer.faults \in Nat /\ answer.ok \in BOOLEAN /\ answer.unheard = FALSE
                 /\ Sound(answer.live) /\ Agree(answer.live)
                 /\ answer.ok => Upserts(answer.live, k, v)
      <3>1. PICK once : once = Insert(live, k, v)
        OBVIOUS
      <3>2. /\ answer.faults \in Nat /\ answer.ok \in BOOLEAN /\ answer.unheard = FALSE
            /\ Sound(answer.live) /\ Agree(answer.live)
            /\ \/ ~answer.ok /\ answer.live = live
               \/ HasRoom(live, k) /\ answer.live = once
               \/ HasRoom(live, k) /\ HasRoom(once, k) /\ answer.live = Insert(once, k, v)
        <4>1. Sound(live) /\ Sound(seen) /\ Agree(live) /\ k \in policy.keys /\ v \in Nat
          BY <1>2, <1>3, Zenon
        <4> QED BY <3>1, <4>1, CreateAnswers, ZenonT(60)
      <3>3. answer.ok => Upserts(answer.live, k, v)
        <4>1. live \in Seq(Entry) /\ seen \in Seq(Entry)
          BY <1>3 DEF Sound
        <4>2. PICK e \in Entry : /\ e.key = k /\ e.value = v /\ IsInserted(once, live, e)
                                 /\ Unlisted(e)
          BY <1>2, <3>1, <4>1, CreatedIs
        <4>3. once \in Seq(Entry)
          BY <4>2 DEF IsInserted
        <4>4. ASSUME answer.ok
              PROVE  answer.live = once \/ \E f \in Entry : f.key = k /\ IsInserted(answer.live, once, f)
          BY <1>2, <1>3, <3>2, <4>3, <4>4, CreatedIs DEF Sound
        <4> HIDE <3>1
        <4> QED BY <1>2, <1>3, <1>5, <4>2, <4>4, CreateUpserts
      <3> QED BY <3>2, <3>3
    <2> QED BY <1>1, <1>4, <1>5, <2>1
  <1>6. CASE Match(seen, k) # 0
    <2>1. PICK c \in DOMAIN seen : c = Match(seen, k) /\ seen[c].key = k
      BY <1>3, <1>6, MatchIs
    <2>2. ASSUME NEW answer \in UpdateCall(seen[c], v)
          PROVE  /\ answer.faults \in Nat /\ answer.ok \in BOOLEAN /\ answer.unheard = FALSE
                 /\ Sound(answer.live) /\ Agree(answer.live)
                 /\ answer.ok => Upserts(answer.live, k, v)
      <3>1. /\ answer.faults \in Nat /\ answer.ok \in BOOLEAN /\ answer.unheard = FALSE
            /\ Sound(answer.live) /\ Agree(answer.live)
            /\ \/ ~answer.ok /\ answer.live = live
               \/ \E j : Updates(j, seen[c]) /\ answer.live = Updated(j, seen[c], v)
        BY <1>2, <1>3, UpdateAnswers DEF Is
      <3>2. answer.ok => Upserts(answer.live, k, v)
        BY <1>2, <2>1, <3>1, UpdateUpserts
      <3> QED BY <3>1, <3>2
    <2>3. Receive(UpdateCall(seen[c], v))
      BY <1>1, <1>6, <2>1
    <2> QED BY <1>4, <2>2, <2>3
  <1> QED BY <1>5, <1>6


(* A declared runner that was not listed is passed over. *)
LEMMA RunnerKeepsInv ==
  ASSUME CollectionsInv, UpdateRunner
  PROVE  CollectionsInv'
PROOF
  <1> DEFINE k == policy.declared[i]
  <1>1. Is("runner") /\ ~Is("compliance") /\ pc = "upsert" /\ i <= Len(policy.declared)
    BY DEF UpdateRunner, Is
  <1>2. CASE Match(seen, k) # 0
    <2>1. Upsert
      BY <1>1, <1>2 DEF UpdateRunner, Upsert
    <2> QED BY <1>1, <2>1, UpsertKeepsInv
  <1>3. CASE Match(seen, k) = 0
    <2>1. /\ i' = i + 1 /\ policy' = policy /\ live' = live /\ settings' = settings /\ seen' = seen
          /\ whole' = whole /\ pc' = pc /\ outcome' = outcome /\ disturbed' = disturbed /\ faults' = faults
      BY <1>3 DEF UpdateRunner, Skip
    <2>2. k \in Declared /\ ~policy.prune
      BY <1>1, PolicyFacts DEF CollectionsInv, ListTypes, Unpruned, Is
    <2>3. Unassigned(seen)'
      <3>1. k \notin KeysOf(seen)
        BY <1>3, MatchIs DEF CollectionsInv, KeysOf, Sound
      <3>2. Unassigned(seen)
        BY <1>1, <2>2, <3>1 DEF Unassigned
      <3> QED BY <2>1, <3>2 DEF Unassigned, Is, Declared, KeysOf
    <2>4. ListTypes'
      BY <2>1 DEF CollectionsInv, ListTypes
    <2>5. Sound(live)' /\ Sound(seen)' /\ Agree(live)'
      BY <2>1, SoundNext, SeenNext, AgreeNext DEF CollectionsInv
    <2>6. Path'
      BY <2>1 DEF CollectionsInv, Path, HasSettings, Is
    <2>7. Known'
      <3>1. \A n \in DOMAIN policy.declared : Reached(n) => Reached(n)'
        BY <1>1, <2>1, PolicyFacts DEF CollectionsInv, ListTypes, Reached
      <3> QED BY <2>1, <3>1 DEF CollectionsInv, Known, Looping, Is
    <2>8. Settlement'
      BY <2>3 DEF Settlement
    <2>9. Leftover' /\ GroupLeftover' /\ Framework' /\ Destroying' /\ Recreating'
      BY <1>1, <2>1, <2>2 DEF Leftover, Surplus, GroupLeftover, Framework, Destroying, Recreating, Is
    <2> QED BY <2>4, <2>5, <2>6, <2>7, <2>8, <2>9 DEF CollectionsInv
  <1> QED BY <1>2, <1>3

(* A compliance framework is replaced as a whole. *)
LEMMA FrameworkKeepsInv ==
  ASSUME CollectionsInv, Is("compliance"), pc \in {"upsert", "prune"}, NEW l, Sound(l), Receive(Mutation(l)),
         \/ pc = "prune" /\ Declared = {} /\ l = << >>
         \/ /\ pc = "upsert" /\ i <= Len(policy.declared)
            /\ l = <<[id |-> 1, key |-> policy.declared[i], value |-> policy.values[i]]>>
  PROVE  CollectionsInv'
PROOF
  <1>1. /\ ListTypes /\ Sound(live) /\ Agree(live)
        /\ \A n \in DOMAIN policy.declared : n \in 1..1 /\ policy.declared[n] \in Declared
        /\ i \in Nat \ {0} /\ (i <= Len(policy.declared) => i \in DOMAIN policy.declared)
    BY PolicyFacts DEF CollectionsInv, ListTypes, Single, Is
  <1>2. \A x : Agree(x)
    BY DEF Agree, KeepsKeys, Is
  <1>3. ASSUME NEW answer \in Mutation(l)
        PROVE  /\ answer.faults \in Nat /\ answer.ok \in BOOLEAN /\ answer.unheard \in BOOLEAN
               /\ Sound(answer.live) /\ Agree(answer.live)
    <2>1. /\ answer.faults \in Nat /\ answer.ok \in BOOLEAN /\ answer.unheard \in BOOLEAN
          /\ answer.live \in {l, live}
      BY MutationAnswers
    <2>2. Sound(answer.live)
      BY <1>1, <2>1
    <2> QED BY <1>2, <2>1, <2>2
  <1>4. PICK answer \in Mutation(l) :
          /\ policy' = policy /\ seen' = seen /\ whole' = whole /\ settings' = settings
          /\ live' = answer.live /\ faults' = faults + answer.faults
          /\ disturbed' = (disturbed \/ answer.unheard)
          /\ ListTypes' /\ Sound(live)' /\ Sound(seen)' /\ Agree(live)'
          /\ \/ ~answer.ok /\ pc' = "idle" /\ outcome' = "failed" /\ CollectionsInv'
             \/ answer.ok /\ pc' = pc /\ i' = i + 1 /\ outcome' = outcome /\ Path'
    BY <1>3, ReceiveKeepsInv
  <1>5. CASE answer.ok /\ pc' = pc /\ i' = i + 1 /\ Path'
    <2>1. ~disturbed' => live' = l
      BY <1>4, <1>5, MutationAnswers
    <2>2. Is("compliance")' /\ ~Looping'
      BY <1>4 DEF Is, Looping
    <2>3. Framework'
      <3> SUFFICES ASSUME ~disturbed'
                   PROVE  /\ \A n \in DOMAIN policy.declared :
                               Reached(n)' => live' = <<[id |-> 1, key |-> policy.declared[n], value |-> policy.values[n]]>>
                          /\ Declared = {} => live' = << >>
        BY <1>4 DEF Framework, Declared
      <3>1. CASE pc = "prune" /\ Declared = {} /\ l = << >>
        BY <1>1, <2>1, <3>1
      <3>2. CASE /\ pc = "upsert" /\ i <= Len(policy.declared)
                 /\ l = <<[id |-> 1, key |-> policy.declared[i], value |-> policy.values[i]]>>
        <4>1. i \in DOMAIN policy.declared /\ i = 1 /\ Declared # {}
          BY <1>1, <3>2
        <4>2. \A n \in DOMAIN policy.declared : n = i
          BY <1>1, <4>1
        <4> QED BY <2>1, <3>2, <4>1, <4>2
      <3> QED BY <3>1, <3>2
    <2>4. Known' /\ Settlement' /\ Leftover' /\ GroupLeftover' /\ Destroying' /\ Recreating'
      BY <1>5, <2>2 DEF Known, Settlement, Leftover, GroupLeftover, Destroying, Recreating
    <2> QED BY <1>4, <1>5, <2>3, <2>4 DEF CollectionsInv
  <1> QED BY <1>4, <1>5

(* The framework is set. *)
LEMMA SetFrameworkKeepsInv ==
  ASSUME CollectionsInv, SetFramework
  PROVE  CollectionsInv'
PROOF
  <1> DEFINE k == policy.declared[i]
             e == [id |-> 1, key |-> k, value |-> policy.values[i]]
  <1>1. Is("compliance") /\ pc = "upsert" /\ i <= Len(policy.declared) /\ Receive(Mutation(<<e>>))
    BY DEF SetFramework
  <1>2. k \in policy.keys /\ policy.values[i] \in Nat
    BY <1>1, PolicyFacts DEF CollectionsInv, ListTypes
  <1>3. e \in Entry
    BY <1>2 DEF Entry
  <1>4. Sound(<<e>>)
    <2> HIDE DEF e
    <2>1. <<e>> \in Seq(Entry) /\ DOMAIN <<e>> = {1} /\ Len(<<e>>) = 1
      BY <1>3
    <2> QED BY <2>1 DEF Sound
  <1>5. pc \in {"upsert", "prune"}
    BY <1>1
  <1> QED BY <1>1, <1>4, <1>5, FrameworkKeepsInv


(* The framework is removed, or passed over. *)
LEMMA RemoveFrameworkKeepsInv ==
  ASSUME CollectionsInv, RemoveFramework
  PROVE  CollectionsInv'
PROOF
  <1>1. Is("compliance") /\ pc = "prune" /\ i <= Len(seen)
    BY DEF RemoveFramework
  <1>2. CASE IsStale(seen, i)
    <2>1. Declared = {} /\ Receive(Mutation(<< >>))
      BY <1>1, <1>2 DEF RemoveFramework, IsStale
    <2>2. Sound(<< >>)
      <3>1. << >> \in Seq(Entry) /\ DOMAIN << >> = {} /\ Len(<< >>) = 0
        OBVIOUS
      <3> QED BY <3>1 DEF Sound
    <2>3. pc \in {"upsert", "prune"}
      BY <1>1
    <2> QED BY <1>1, <2>1, <2>2, <2>3, FrameworkKeepsInv
  <1>3. CASE ~IsStale(seen, i)
    <2>1. /\ i' = i + 1 /\ policy' = policy /\ live' = live /\ settings' = settings /\ seen' = seen
          /\ whole' = whole /\ pc' = pc /\ outcome' = outcome /\ disturbed' = disturbed /\ faults' = faults
      BY <1>3 DEF RemoveFramework, Skip
    <2>2. ListTypes'
      BY <2>1 DEF CollectionsInv, ListTypes
    <2>3. Sound(live)' /\ Sound(seen)' /\ Agree(live)'
      BY <2>1, SoundNext, SeenNext, AgreeNext DEF CollectionsInv
    <2>4. Path'
      BY <2>1 DEF CollectionsInv, Path, HasSettings, Is
    <2>5. Is("compliance")' /\ ~Looping'
      BY <1>1, <2>1 DEF Is, Looping
    <2>6. ~(policy.prune /\ Declared = {})
      BY <1>1, <1>3 DEF IsStale, Is
    <2>7. Framework'
      <3> SUFFICES ASSUME ~disturbed, NEW n \in DOMAIN policy.declared
                   PROVE  live = <<[id |-> 1, key |-> policy.declared[n], value |-> policy.values[n]]>>
        BY <2>1, <2>6 DEF Framework, Declared
      <3>1. Reached(n)
        BY <1>1 DEF Reached
      <3> QED BY <1>1, <3>1 DEF CollectionsInv, Framework
    <2>8. Known' /\ Settlement' /\ Leftover' /\ GroupLeftover' /\ Destroying' /\ Recreating'
      BY <1>1, <2>1, <2>5 DEF Known, Settlement, Leftover, GroupLeftover, Destroying, Recreating
    <2> QED BY <2>2, <2>3, <2>4, <2>7, <2>8 DEF CollectionsInv
  <1> QED BY <1>2, <1>3

(* What pruning has still to come to, after one more entry. *)
LEMMA RestShrinks ==
  ASSUME Sound(seen), pc = "prune", i \in DOMAIN seen, seen' = seen, pc' = pc, i' = i + 1
  PROVE  /\ \A b : ToCome(b)' <=> ToCome(b) /\ b # i
         /\ \A x : seen[i].key.name # x.name => Named(Rest, x)' = Named(Rest, x)
         /\ ~SharesKeys => \A x : seen[i].key.name = x.name =>
              seen[i].key \in Named(Rest, x) /\ Named(Rest, x)' = Named(Rest, x) \ {seen[i].key}
PROOF
  <1>1. DOMAIN seen \subseteq Nat
    BY DEF Sound
  <1>2. \A b : ToCome(b)' <=> ToCome(b) /\ b # i
    BY <1>1 DEF ToCome
  <1>3. ToCome(i)
    BY <1>1 DEF ToCome
  <1>4. \A y : y \in Rest <=> \E b \in DOMAIN seen : ToCome(b) /\ y = seen[b].key
    BY DEF Rest
  <1>5. \A y : y \in Rest' <=> \E b \in DOMAIN seen : ToCome(b) /\ b # i /\ y = seen[b].key
    BY <1>2 DEF Rest
  <1>6. ASSUME NEW x, seen[i].key.name # x.name
        PROVE  Named(Rest, x)' = Named(Rest, x)
    BY <1>3, <1>4, <1>5, <1>6 DEF Named
  <1>7. ASSUME ~SharesKeys, NEW x, seen[i].key.name = x.name
        PROVE  seen[i].key \in Named(Rest, x) /\ Named(Rest, x)' = Named(Rest, x) \ {seen[i].key}
    <2>1. \A b \in DOMAIN seen : seen[b].key = seen[i].key => b = i
      BY <1>7 DEF Sound
    <2>2. seen[i].key \in Named(Rest, x)
      BY <1>3, <1>4, <1>7 DEF Named
    <2>3. \A y : y \in Rest' <=> y \in Rest /\ y # seen[i].key
      BY <1>4, <1>5, <2>1
    <2> QED BY <2>2, <2>3 DEF Named
  <1> QED BY <1>2, <1>6, <1>7

(* Of the listed entries a key is matched with one that has it.  So one    *)
(* that is not declared is stale, and a stale one of a kind that does not  *)
(* share its keys is not declared.                                         *)
LEMMA StaleIs ==
  ASSUME CollectionsInv, ~Is("target_branch_rule"), ~Is("compliance"), NEW b \in DOMAIN seen
  PROVE  /\ IsStale(seen, b) => \A k \in Declared : Match(seen, k) # b
         /\ IsStale(seen, b) /\ ~SharesKeys => seen[b].key \notin Declared
         /\ Surplus(seen[b]) => IsStale(seen, b)
         /\ Is("group_variable") /\ policy.prune /\ ~IsStale(seen, b) => seen[b].key \in Declared
PROOF
  <1>1. Sound(seen)
    BY DEF CollectionsInv
  <1>2. b \in Nat \ {0}
    BY <1>1 DEF Sound
  <1>3. \A k : Match(seen, k) = b => seen[b].key = k
    BY <1>1, <1>2, MatchIs
  <1>4. ASSUME ~SharesKeys, seen[b].key \in Declared
        PROVE  Match(seen, seen[b].key) = b
    <2>1. PICK c \in DOMAIN seen : c = Match(seen, seen[b].key) /\ seen[c].key = seen[b].key
      BY <1>1, MatchIs
    <2> QED BY <1>1, <1>4, <2>1 DEF Sound
  <1>5. IsStale(seen, b) => \A k \in Declared : Match(seen, k) # b
    BY DEF IsStale
  <1>6. Surplus(seen[b]) => IsStale(seen, b)
    BY <1>3 DEF IsStale, Surplus
  <1>7. Is("group_variable") /\ policy.prune /\ ~IsStale(seen, b) => seen[b].key \in Declared
    BY <1>3 DEF IsStale, Is
  <1> QED BY <1>4, <1>5, <1>6, <1>7


(* The loop that prunes passes over an entry. *)
LEMMA PruneSkipKeepsInv ==
  ASSUME CollectionsInv, ~Is("compliance"), pc = "prune", i <= Len(seen), ~IsStale(seen, i), Skip
  PROVE  CollectionsInv'
PROOF
  <1>1. /\ i' = i + 1 /\ policy' = policy /\ live' = live /\ settings' = settings /\ seen' = seen
        /\ whole' = whole /\ pc' = pc /\ outcome' = outcome /\ disturbed' = disturbed /\ faults' = faults
    BY DEF Skip
  <1>2. /\ Sound(live) /\ Sound(seen) /\ Agree(live) /\ ~Is("target_branch_rule")
        /\ i \in Nat \ {0} /\ Known /\ Settlement /\ Leftover /\ GroupLeftover
    BY DEF CollectionsInv, Path, ListTypes
  <1>3. i \in DOMAIN seen
    BY <1>2 DEF Sound
  <1>4. /\ \A b : ToCome(b)' <=> ToCome(b) /\ b # i
        /\ \A x : seen[i].key.name # x.name => Named(Rest, x)' = Named(Rest, x)
    BY <1>1, <1>2, <1>3, RestShrinks
  <1>5. ListTypes'
    BY <1>1 DEF CollectionsInv, ListTypes
  <1>6. Sound(live)' /\ Sound(seen)' /\ Agree(live)'
    BY <1>1, <1>2, SoundNext, SeenNext, AgreeNext
  <1>7. Path'
    BY <1>1 DEF CollectionsInv, Path, HasSettings, Is
  <1>8. \A n : Reached(n)' <=> Reached(n)
    BY <1>1 DEF Reached
  <1>9. Known'
    BY <1>1, <1>2, <1>8 DEF Known, Looping, Is
  <1>10. Settlement'
    <2>1. /\ Ambiguous(seen)' = Ambiguous(seen) /\ Unassigned(seen)' = Unassigned(seen)
          /\ Contradictory' = Contradictory
      BY <1>1 DEF Ambiguous, Unassigned, Contradictory, Is, Declared, KeysOf
    <2>2. \A x : Match(seen, x)' = Match(seen, x)
      BY <1>1 DEF Match, Is
    <2>3. \A x, y : Settled(x, y)' <=> Settled(x, y)
      BY <1>1, <2>2 DEF Settled, ById
    <2> QED BY <1>1, <1>2, <1>8, <2>1, <2>3 DEF Settlement, Looping, Is
  <1>11. Leftover'
    <2> SUFFICES ASSUME Looping, whole, ~disturbed, KeepsKeys, NEW a \in DOMAIN live, Surplus(live[a])
                 PROVE  \E b \in DOMAIN seen : ToCome(b)' /\ seen[b].id = live[a].id
      BY <1>1 DEF Leftover, Looping, KeepsKeys, Surplus, Is, Declared
    <2>1. PICK b \in DOMAIN seen : ToCome(b) /\ seen[b].id = live[a].id
      BY <1>2 DEF Leftover
    <2>2. seen[b].key = live[a].key
      BY <1>2, <2>1 DEF Agree
    <2>3. Surplus(seen[b])
      BY <2>2 DEF Surplus
    <2>4. b # i
      BY <1>2, <1>3, <2>3, StaleIs
    <2> QED BY <1>4, <2>1, <2>4
  <1>12. GroupLeftover'
    <2> SUFFICES ASSUME Looping, whole, ~disturbed, Is("group_variable"), policy.prune,
                        NEW x \in policy.keys, \A y \in Declared : y.name # x.name
                 PROVE  Cardinality(Named(KeysOf(live), x)) <= Cardinality(Named(Rest, x)')
      BY <1>1 DEF GroupLeftover, Looping, Is, Declared, KeysOf, Named
    <2>1. seen[i].key \in Declared
      BY <1>2, <1>3, StaleIs
    <2>2. Named(Rest, x)' = Named(Rest, x)
      BY <1>4, <2>1
    <2> QED BY <1>2, <2>2 DEF GroupLeftover
  <1>13. Framework' /\ Destroying' /\ Recreating'
    BY <1>1 DEF Framework, Destroying, Recreating, Is
  <1> QED BY <1>5, <1>6, <1>7, <1>9, <1>10, <1>11, <1>12, <1>13 DEF CollectionsInv

(* A set without one of its elements is one smaller. *)
LEMMA OneLess ==
  ASSUME NEW S, NEW T, NEW x \in S, IsFiniteSet(S), T = S \ {x}
  PROVE  Cardinality(T) = Cardinality(S) - 1
PROOF
  BY FS_RemoveElement

(* It removes one that is stale: no entry that Apply has settled, and the  *)
(* one that was listed.                                                    *)
LEMMA PrunedKeepsInv ==
  ASSUME CollectionsInv, ~Is("compliance"), pc = "prune", i \in DOMAIN seen, IsStale(seen, i),
         NEW j \in Addressed(seen[i]), live' = RemoveAt(live, j),
         policy' = policy, seen' = seen, whole' = whole, disturbed' = disturbed, pc' = pc, i' = i + 1
  PROVE  /\ Known' /\ Settlement' /\ Leftover' /\ GroupLeftover' /\ Framework'
         /\ Destroying' /\ Recreating'
PROOF
  <1>1. /\ Sound(live) /\ Sound(seen) /\ Agree(live) /\ ~Is("target_branch_rule")
        /\ i \in Nat \ {0} /\ Known /\ Settlement /\ Leftover /\ GroupLeftover /\ ListTypes
    BY DEF CollectionsInv, Path, ListTypes
  <1>2. PICK m : m = RemoveAt(live, j)
    OBVIOUS
  <1>3. j \in DOMAIN live
    BY DEF Addressed
  <1>4. /\ \A a \in DOMAIN m : \E b \in DOMAIN live \ {j} : m[a] = live[b]
        /\ \A b \in DOMAIN live \ {j} : \E a \in DOMAIN m : m[a] = live[b]
    BY <1>1, <1>2, <1>3, RemovedEntries
  <1>5. live' = m
    BY <1>2
  <1>6. /\ \A b : ToCome(b)' <=> ToCome(b) /\ b # i
        /\ \A x : seen[i].key.name # x.name => Named(Rest, x)' = Named(Rest, x)
        /\ ~SharesKeys => \A x : seen[i].key.name = x.name =>
             seen[i].key \in Named(Rest, x) /\ Named(Rest, x)' = Named(Rest, x) \ {seen[i].key}
    BY <1>1, RestShrinks
  <1>7. /\ \A k \in Declared : Match(seen, k) # i
        /\ ~SharesKeys => seen[i].key \notin Declared
    BY <1>1, StaleIs
  <1>8. \A n : Reached(n)' <=> Reached(n)
    BY DEF Reached
  <1>9. Known'
    <2> SUFFICES ASSUME Looping, whole, ~disturbed, NEW a \in DOMAIN m
                 PROVE  \/ \E b \in DOMAIN seen : m[a].key = seen[b].key
                        \/ \E n \in DOMAIN policy.declared : Reached(n) /\ m[a].key = policy.declared[n]
      BY <1>5, <1>8 DEF Known, Looping, Is
    <2> QED BY <1>1, <1>4 DEF Known
  <1>10. Settlement'
    <2> SUFFICES ASSUME ~disturbed, ~Ambiguous(seen), ~Unassigned(seen), ~Contradictory,
                        NEW n \in DOMAIN policy.declared, Reached(n)
                 PROVE  \E a \in DOMAIN m :
                          /\ m[a].key = policy.declared[n] /\ m[a].value = policy.values[n]
                          /\ ById => \A b \in DOMAIN seen : m[a].id = seen[b].id => b = Match(seen, policy.declared[n])
      <3>1. /\ Ambiguous(seen)' = Ambiguous(seen) /\ Unassigned(seen)' = Unassigned(seen)
            /\ Contradictory' = Contradictory
        BY DEF Ambiguous, Unassigned, Contradictory, Is, Declared, KeysOf
      <3>2. \A x : Match(seen, x)' = Match(seen, x)
        BY DEF Match, Is
      <3> QED BY <1>5, <1>8, <3>1, <3>2 DEF Settlement, Settled, ById
    <2>1. policy.declared[n] \in Declared
      BY <1>1, PolicyFacts DEF ListTypes
    <2>2. PICK c \in DOMAIN live :
            /\ live[c].key = policy.declared[n] /\ live[c].value = policy.values[n]
            /\ ById => \A b \in DOMAIN seen : live[c].id = seen[b].id => b = Match(seen, policy.declared[n])
      BY <1>1 DEF Settlement, Looping, Settled
    <2>3. c # j
      <3> SUFFICES ASSUME c = j
                   PROVE  FALSE
        OBVIOUS
      <3>1. CASE ById
        <4>1. live[j].id = seen[i].id
          BY <3>1 DEF Addressed, ById, Is
        <4> QED BY <1>7, <2>1, <2>2, <3>1, <4>1
      <3>2. CASE Is("project_variable")
        <4>1. live[j].key = seen[i].key /\ ~SharesKeys
          BY <3>2 DEF Addressed, SharesKeys, Is
        <4> QED BY <1>7, <2>1, <2>2, <4>1
      <3>3. CASE Is("group_variable")
        <4>1. live[j].key.name = seen[i].key.name /\ ~SharesKeys
          BY <3>3 DEF Addressed, SharesKeys, Is
        <4>2. seen[i].key # policy.declared[n]
          BY <1>7, <2>1, <4>1
        <4>3. Ambiguous(seen)
          BY <2>1, <2>2, <3>3, <4>1, <4>2 DEF Ambiguous
        <4> QED BY <4>3
      <3> QED BY <3>1, <3>2, <3>3 DEF ById, Is
    <2>4. PICK a \in DOMAIN m : m[a] = live[c]
      BY <1>4, <2>3
    <2> QED BY <2>2, <2>4
  <1>11. Leftover'
    <2> SUFFICES ASSUME Looping, whole, ~disturbed, KeepsKeys, NEW a \in DOMAIN m, Surplus(m[a])
                 PROVE  \E b \in DOMAIN seen : ToCome(b)' /\ seen[b].id = m[a].id
      BY <1>5 DEF Leftover, Looping, KeepsKeys, Surplus, Is, Declared
    <2>1. PICK c \in DOMAIN live \ {j} : m[a] = live[c]
      BY <1>4
    <2>2. PICK b \in DOMAIN seen : ToCome(b) /\ seen[b].id = live[c].id
      BY <1>1, <2>1 DEF Leftover
    <2>3. b # i
      <3> SUFFICES ASSUME b = i
                   PROVE  FALSE
        OBVIOUS
      <3>1. CASE ById
        <4>1. live[j].id = seen[i].id
          BY <3>1 DEF Addressed, ById, Is
        <4> QED BY <1>1, <1>3, <2>1, <2>2, <4>1 DEF Sound
      <3>2. CASE Is("project_variable")
        <4>1. live[j].key = seen[i].key /\ ~SharesKeys
          BY <3>2 DEF Addressed, SharesKeys, Is
        <4>2. live[c].key = seen[i].key
          BY <1>1, <2>2 DEF Agree
        <4> QED BY <1>1, <1>3, <2>1, <4>1, <4>2 DEF Sound
      <3> QED BY <3>1, <3>2 DEF ById, KeepsKeys, Is
    <2> QED BY <1>6, <2>1, <2>2, <2>3
  <1>12. GroupLeftover'
    <2> SUFFICES ASSUME Looping, whole, ~disturbed, Is("group_variable"), policy.prune,
                        NEW x \in policy.keys, \A y \in Declared : y.name # x.name
                 PROVE  Cardinality(Named(KeysOf(m), x)) <= Cardinality(Named(Rest, x)')
      BY <1>5 DEF GroupLeftover, Looping, Is, Declared, KeysOf, Named
    <2>1. Cardinality(Named(KeysOf(live), x)) <= Cardinality(Named(Rest, x))
      BY <1>1 DEF GroupLeftover
    <2>2. live[j].key.name = seen[i].key.name /\ ~SharesKeys
      BY DEF Addressed, SharesKeys, Is
    <2>3. \A y : y \in KeysOf(m) <=> y \in KeysOf(live) /\ y # live[j].key
      <3>1. \A c \in DOMAIN live \ {j} : live[c].key # live[j].key
        BY <1>1, <1>3, <2>2 DEF Sound
      <3> QED BY <1>4, <3>1 DEF KeysOf
    <2>4. /\ IsFiniteSet(Named(KeysOf(live), x)) /\ IsFiniteSet(Named(Rest, x))
          /\ Cardinality(Named(KeysOf(live), x)) \in Nat /\ Cardinality(Named(Rest, x)) \in Nat
      <3>1. live \in Seq(Entry) /\ seen \in Seq(Entry)
        BY <1>1 DEF Sound
      <3>2. IsFiniteSet(KeysOf(live)) /\ IsFiniteSet(KeysOf(seen))
        BY <3>1, KeysFacts
      <3>3. Named(KeysOf(live), x) \in SUBSET KeysOf(live) /\ Named(Rest, x) \in SUBSET KeysOf(seen)
        BY DEF Named, Rest, KeysOf
      <3>4. IsFiniteSet(Named(KeysOf(live), x)) /\ IsFiniteSet(Named(Rest, x))
        BY <3>2, <3>3, FS_Subset
      <3> QED BY <3>4, FS_CardinalityType
    <2>5. CASE seen[i].key.name = x.name
      <3>1. live[j].key \in Named(KeysOf(live), x) /\ Named(KeysOf(m), x) = Named(KeysOf(live), x) \ {live[j].key}
        BY <1>3, <2>2, <2>3, <2>5 DEF Named, KeysOf
      <3>2. Cardinality(Named(KeysOf(m), x)) = Cardinality(Named(KeysOf(live), x)) - 1
        BY <2>4, <3>1, OneLess
      <3>3. seen[i].key \in Named(Rest, x) /\ Named(Rest, x)' = Named(Rest, x) \ {seen[i].key}
        BY <1>6, <2>2, <2>5
      <3>4. Cardinality(Named(Rest, x)') = Cardinality(Named(Rest, x)) - 1
        BY <2>4, <3>3, OneLess
      <3> QED BY <2>1, <2>4, <3>2, <3>4
    <2>6. CASE seen[i].key.name # x.name
      <3>1. Named(KeysOf(m), x) = Named(KeysOf(live), x)
        BY <2>2, <2>3, <2>6 DEF Named
      <3> QED BY <1>6, <2>1, <2>6, <3>1
    <2> QED BY <2>5, <2>6
  <1>13. Framework' /\ Destroying' /\ Recreating'
    BY DEF Framework, Destroying, Recreating, Is
  <1> QED BY <1>9, <1>10, <1>11, <1>12, <1>13

(* One step of the loop that prunes. *)
LEMMA PruneKeepsInv ==
  ASSUME CollectionsInv, PruneEntry
  PROVE  CollectionsInv'
PROOF
  <1>1. ~Is("compliance") /\ pc = "prune" /\ i <= Len(seen)
    BY DEF PruneEntry
  <1>2. Sound(live) /\ Sound(seen) /\ Agree(live) /\ i \in DOMAIN seen
    BY <1>1 DEF CollectionsInv, ListTypes, Sound
  <1>3. CASE ~IsStale(seen, i)
    <2>1. Skip
      BY <1>3 DEF PruneEntry
    <2> QED BY <1>1, <1>3, <2>1, PruneSkipKeepsInv
  <1>4. CASE IsStale(seen, i)
    <2>1. Receive(DeleteCall(seen[i]))
      BY <1>4 DEF PruneEntry
    <2>2. PICK answer \in DeleteCall(seen[i]) :
            /\ policy' = policy /\ seen' = seen /\ whole' = whole /\ settings' = settings
            /\ live' = answer.live /\ faults' = faults + answer.faults
            /\ disturbed' = (disturbed \/ answer.unheard)
            /\ ListTypes' /\ Sound(live)' /\ Sound(seen)' /\ Agree(live)'
            /\ \/ ~answer.ok /\ pc' = "idle" /\ outcome' = "failed" /\ CollectionsInv'
               \/ answer.ok /\ pc' = pc /\ i' = i + 1 /\ outcome' = outcome /\ Path'
      <3>1. \A answer \in DeleteCall(seen[i]) :
              /\ answer.faults \in Nat /\ answer.ok \in BOOLEAN /\ answer.unheard \in BOOLEAN
              /\ Sound(answer.live) /\ Agree(answer.live)
        BY <1>2, DeleteAnswers
      <3> QED BY <1>1, <2>1, <3>1, ReceiveKeepsInv
    <2>3. CASE answer.ok /\ pc' = pc /\ i' = i + 1 /\ Path'
      <3>1. /\ answer.unheard = FALSE
            /\ \/ ~answer.ok /\ answer.live = live
               \/ \E j \in Addressed(seen[i]) : answer.live = RemoveAt(live, j)
        BY <1>2, DeleteAnswers
      <3>2. disturbed' = disturbed
        BY <2>2, <3>1 DEF CollectionsInv, ListTypes
      <3>3. PICK j \in Addressed(seen[i]) : live' = RemoveAt(live, j)
        BY <2>2, <2>3, <3>1
      <3>4. /\ Known' /\ Settlement' /\ Leftover' /\ GroupLeftover' /\ Framework'
            /\ Destroying' /\ Recreating'
        BY <1>1, <1>2, <1>4, <2>2, <2>3, <3>2, <3>3, PrunedKeepsInv
      <3> QED BY <2>2, <2>3, <3>4 DEF CollectionsInv
    <2> QED BY <2>2, <2>3
  <1> QED BY <1>3, <1>4


(* The loop that destroys has one entry less to come to. *)
LEMMA DestroyKeepsInv ==
  ASSUME CollectionsInv, DestroyRule
  PROVE  CollectionsInv'
PROOF
  <1>1. pc = "destroy" /\ i <= Len(seen) /\ Is("target_branch_rule")
    BY DEF DestroyRule, CollectionsInv, Path
  <1>2. /\ Sound(live) /\ Sound(seen) /\ Agree(live) /\ i \in DOMAIN seen /\ i \in Nat
        /\ DOMAIN seen \in SUBSET Nat
    BY <1>1 DEF CollectionsInv, ListTypes, Sound
  <1>3. KeepsKeys /\ Destroying
    BY <1>1 DEF KeepsKeys, Is, CollectionsInv
  <1>4. CASE ~(policy.prune \/ IsDeclared(seen[i]))
    <2>1. /\ i' = i + 1 /\ policy' = policy /\ live' = live /\ settings' = settings /\ seen' = seen
          /\ whole' = whole /\ pc' = pc /\ outcome' = outcome /\ disturbed' = disturbed /\ faults' = faults
      BY <1>4 DEF DestroyRule, Skip
    <2>2. ListTypes'
      BY <2>1 DEF CollectionsInv, ListTypes
    <2>3. Sound(live)' /\ Sound(seen)' /\ Agree(live)'
      BY <1>2, <2>1, SoundNext, SeenNext, AgreeNext
    <2>4. Path'
      BY <1>1, <2>1 DEF CollectionsInv, Path, HasSettings, Is
    <2>5. Destroying'
      <3> SUFFICES ASSUME whole, ~disturbed, NEW a \in DOMAIN live, policy.prune \/ IsDeclared(live[a])
                   PROVE  \E b \in DOMAIN seen : b >= i + 1 /\ seen[b].id = live[a].id
        BY <2>1 DEF Destroying, IsDeclared, Declared
      <3>1. PICK b \in DOMAIN seen : b >= i /\ seen[b].id = live[a].id
        BY <1>1, <1>3 DEF Destroying
      <3>2. seen[b].key = live[a].key
        BY <1>2, <1>3, <3>1 DEF Agree
      <3>3. b # i
        BY <1>4, <3>2 DEF IsDeclared
      <3> QED BY <1>2, <3>1, <3>3
    <2>6. /\ Known' /\ Settlement' /\ Leftover' /\ GroupLeftover' /\ Framework' /\ Recreating'
      BY <1>1, <2>1 DEF Known, Settlement, Leftover, GroupLeftover, Framework, Recreating, Looping
    <2> QED BY <2>2, <2>3, <2>4, <2>5, <2>6 DEF CollectionsInv
  <1>5. CASE policy.prune \/ IsDeclared(seen[i])
    <2>1. Receive(DeleteCall(seen[i]))
      BY <1>5 DEF DestroyRule
    <2>2. PICK answer \in DeleteCall(seen[i]) :
            /\ policy' = policy /\ seen' = seen /\ whole' = whole /\ settings' = settings
            /\ live' = answer.live /\ faults' = faults + answer.faults
            /\ disturbed' = (disturbed \/ answer.unheard)
            /\ ListTypes' /\ Sound(live)' /\ Sound(seen)' /\ Agree(live)'
            /\ \/ ~answer.ok /\ pc' = "idle" /\ outcome' = "failed" /\ CollectionsInv'
               \/ answer.ok /\ pc' = pc /\ i' = i + 1 /\ outcome' = outcome /\ Path'
      <3>1. \A answer \in DeleteCall(seen[i]) :
              /\ answer.faults \in Nat /\ answer.ok \in BOOLEAN /\ answer.unheard \in BOOLEAN
              /\ Sound(answer.live) /\ Agree(answer.live)
        BY <1>2, DeleteAnswers
      <3> QED BY <1>1, <2>1, <3>1, ReceiveKeepsInv
    <2>3. CASE answer.ok /\ pc' = pc /\ i' = i + 1 /\ Path'
      <3>1. /\ answer.unheard = FALSE
            /\ \/ ~answer.ok /\ answer.live = live
               \/ \E j \in Addressed(seen[i]) : answer.live = RemoveAt(live, j)
        BY <1>2, DeleteAnswers
      <3>2. disturbed' = disturbed
        BY <2>2, <3>1 DEF CollectionsInv, ListTypes
      <3>3. PICK j \in Addressed(seen[i]) : live' = RemoveAt(live, j)
        BY <2>2, <2>3, <3>1
      <3>4. j \in DOMAIN live /\ live[j].id = seen[i].id
        BY <1>1, <3>3 DEF Addressed, Is
      <3>5. PICK m : m = RemoveAt(live, j)
        OBVIOUS
      <3>6. \A a \in DOMAIN m : \E b \in DOMAIN live \ {j} : m[a] = live[b]
        BY <1>2, <3>4, <3>5, RemovedEntries
      <3>7. live' = m
        BY <3>3, <3>5
      <3>8. Destroying'
        <4> SUFFICES ASSUME whole, ~disturbed, NEW a \in DOMAIN m, policy.prune \/ IsDeclared(m[a])
                     PROVE  \E b \in DOMAIN seen : b >= i + 1 /\ seen[b].id = m[a].id
          BY <2>2, <2>3, <3>2, <3>7 DEF Destroying, IsDeclared, Declared
        <4>1. PICK c \in DOMAIN live \ {j} : m[a] = live[c]
          BY <3>6
        <4>2. PICK b \in DOMAIN seen : b >= i /\ seen[b].id = live[c].id
          BY <1>1, <1>3, <4>1 DEF Destroying
        <4>3. b # i
          BY <1>2, <3>4, <4>1, <4>2 DEF Sound
        <4> QED BY <1>2, <4>1, <4>2, <4>3
      <3>9. /\ Known' /\ Settlement' /\ Leftover' /\ GroupLeftover' /\ Framework' /\ Recreating'
        BY <1>1, <2>2, <2>3 DEF Known, Settlement, Leftover, GroupLeftover, Framework, Recreating, Looping
      <3> QED BY <2>2, <2>3, <3>8, <3>9 DEF CollectionsInv
    <2> QED BY <2>2, <2>3
  <1> QED BY <1>4, <1>5

(* A rule that is created on top of those that were declared below it      *)
(* leaves them in the declared order.                                      *)
LEMMA CreatedOnTop ==
  ASSUME CollectionsInv, pc = "recreate", i <= Len(policy.declared), whole, ~disturbed,
         NEW m, NEW e \in Entry, e.key = policy.declared[ReversePosition],
         e.value = policy.values[ReversePosition], IsInserted(m, live, e)
  PROVE  /\ \A a \in DOMAIN m : policy.prune \/ IsDeclared(m[a]) =>
              \E n \in DOMAIN policy.declared :
                n >= ReversePosition /\ m[a].key = policy.declared[n]
         /\ \A n \in DOMAIN policy.declared : n >= ReversePosition =>
              \E a \in DOMAIN m : m[a].key = policy.declared[n] /\ m[a].value = policy.values[n]
         /\ InDeclaredOrder(m)
PROOF
  <1>1. /\ Is("target_branch_rule") /\ i \in Nat \ {0} /\ policy \in Policies
        /\ live \in Seq(Entry) /\ Recreating
    BY DEF CollectionsInv, Path, ListTypes, Sound
  <1>2. /\ DOMAIN policy.declared = 1..Len(policy.declared) /\ Len(policy.declared) \in Nat
        /\ \A x, y \in DOMAIN policy.declared : policy.declared[x] = policy.declared[y] => x = y
    BY <1>1, PolicyFacts
  <1>3. PICK p : p = ReversePosition
    OBVIOUS
  <1>4. p \in DOMAIN policy.declared
    BY <1>1, <1>2, <1>3 DEF ReversePosition
  <1>5. /\ DOMAIN live = 1..Len(live) /\ Len(live) \in Nat /\ DOMAIN m = 1..(Len(live) + 1)
        /\ m[1] = e /\ \A a \in DOMAIN m : a # 1 => a - 1 \in DOMAIN live /\ m[a] = live[a - 1]
        /\ \A a \in DOMAIN live : a + 1 \in DOMAIN m /\ m[a + 1] = live[a]
    <2>1. DOMAIN live = 1..Len(live) /\ Len(live) \in Nat
      BY <1>1
    <2>2. /\ DOMAIN m = 1..(Len(live) + 1)
          /\ \A a \in DOMAIN m : m[a] = IF a = 1 THEN e ELSE live[a - 1]
      BY <1>1, <2>1 DEF IsInserted
    <2> QED BY <2>1, <2>2
  <1>6. \A a \in DOMAIN live : policy.prune \/ IsDeclared(live[a]) =>
          \E n \in DOMAIN policy.declared : n > p /\ live[a].key = policy.declared[n]
    BY <1>1, <1>3 DEF Recreating, Recreated
  <1>7. \A n \in DOMAIN policy.declared : n > p =>
          \E a \in DOMAIN live : live[a].key = policy.declared[n] /\ live[a].value = policy.values[n]
    BY <1>1, <1>3 DEF Recreating, Recreated
  <1>8. InDeclaredOrder(live)
    BY <1>1 DEF Recreating
  <1>9. ASSUME NEW a \in DOMAIN m, policy.prune \/ IsDeclared(m[a])
        PROVE  \E n \in DOMAIN policy.declared : n >= p /\ m[a].key = policy.declared[n]
    <2>1. CASE a = 1
      BY <1>2, <1>3, <1>4, <1>5, <2>1
    <2>2. CASE a # 1
      <3>1. PICK n \in DOMAIN policy.declared : n > p /\ live[a - 1].key = policy.declared[n]
        BY <1>5, <1>6, <1>9, <2>2
      <3> QED BY <1>2, <1>4, <1>5, <2>2, <3>1
    <2> QED BY <2>1, <2>2
  <1>10. ASSUME NEW n \in DOMAIN policy.declared, n >= p
         PROVE  \E a \in DOMAIN m : m[a].key = policy.declared[n] /\ m[a].value = policy.values[n]
    <2>1. CASE n = p
      <3>1. e.key = policy.declared[n] /\ e.value = policy.values[n]
        BY <1>3, <2>1
      <3>2. 1 \in DOMAIN m
        BY <1>5
      <3> QED BY <1>5, <3>1, <3>2
    <2>2. CASE n # p
      <3>1. n > p
        BY <1>2, <1>4, <1>10, <2>2
      <3>2. PICK a \in DOMAIN live : live[a].key = policy.declared[n] /\ live[a].value = policy.values[n]
        BY <1>7, <3>1
      <3> QED BY <1>5, <3>2
    <2> QED BY <2>1, <2>2
  <1>11. InDeclaredOrder(m)
    <2> SUFFICES ASSUME NEW a \in DOMAIN m, NEW b \in DOMAIN m, NEW x \in DOMAIN policy.declared,
                        NEW y \in DOMAIN policy.declared, a < b,
                        m[a].key = policy.declared[x], m[b].key = policy.declared[y]
                 PROVE  x < y
      BY DEF InDeclaredOrder
    <2>1. b # 1 /\ b - 1 \in DOMAIN live /\ m[b] = live[b - 1]
      BY <1>5
    <2>2. CASE a = 1
      <3>1. x = p
        BY <1>2, <1>3, <1>4, <1>5, <2>2
      <3>2. IsDeclared(live[b - 1])
        BY <1>1, <2>1, PolicyFacts DEF IsDeclared
      <3>3. PICK n \in DOMAIN policy.declared : n > p /\ live[b - 1].key = policy.declared[n]
        BY <1>6, <2>1, <3>2
      <3>4. y = n
        BY <1>2, <2>1, <3>3
      <3> QED BY <3>1, <3>3, <3>4
    <2>3. CASE a # 1
      <3>1. a - 1 \in DOMAIN live /\ m[a] = live[a - 1] /\ a - 1 < b - 1
        BY <1>5, <2>3
      <3> QED BY <1>8, <2>1, <3>1 DEF InDeclaredOrder
    <2> QED BY <2>2, <2>3
  <1> QED BY <1>3, <1>9, <1>10, <1>11

(* A name that a rule has cannot be given to another. *)
LEMMA NoRoomForAnother ==
  ASSUME Is("target_branch_rule"), Sound(live), NEW once, NEW e, IsInserted(once, live, e)
  PROVE  ~HasRoom(once, e.key)
PROOF
  <1>1. once \in Seq(Entry) /\ Len(once) = Len(live) + 1 /\ Len(live) \in Nat
    BY DEF IsInserted, Sound
  <1>2. 1 \in DOMAIN once /\ once[1] = e
    BY <1>1 DEF IsInserted
  <1>3. e.key \in KeysOf(once)
    BY <1>2 DEF KeysOf
  <1>4. ~Is("webhook") /\ ~Is("runner")
    BY DEF Is
  <1> QED BY <1>3, <1>4 DEF HasRoom

(* The loop that creates has one more entry on top. *)
LEMMA RecreateKeepsInv ==
  ASSUME CollectionsInv, RecreateRule
  PROVE  CollectionsInv'
PROOF
  <1>1. pc = "recreate" /\ i <= Len(policy.declared) /\ Is("target_branch_rule")
    BY DEF RecreateRule, CollectionsInv, Path
  <1>2. Sound(live) /\ Sound(seen) /\ Agree(live) /\ i \in Nat \ {0} /\ policy \in Policies
    BY <1>1 DEF CollectionsInv, ListTypes
  <1>3. PICK k, v : k = policy.declared[ReversePosition] /\ v = policy.values[ReversePosition]
    OBVIOUS
  <1>4. k \in policy.keys /\ v \in Nat /\ Len(policy.declared) \in Nat
    BY <1>1, <1>2, <1>3, PolicyFacts DEF ReversePosition
  <1>5. PICK once : once = Insert(live, k, v)
    OBVIOUS
  <1>6. \A answer \in CreateCall(k, v) :
         /\ answer.faults \in Nat /\ answer.ok \in BOOLEAN /\ answer.unheard = FALSE
         /\ Sound(answer.live) /\ Agree(answer.live)
         /\ \/ ~answer.ok /\ answer.live = live
            \/ HasRoom(live, k) /\ answer.live = once
            \/ /\ HasRoom(live, k) /\ HasRoom(once, k) /\ answer.live = Insert(once, k, v)
               /\ answer.ok /\ answer.faults = 1
    <2> TAKE answer \in CreateCall(k, v)
    <2>1. Sound(live) /\ Sound(seen) /\ Agree(live) /\ k \in policy.keys /\ v \in Nat
      BY <1>2, <1>4
    <2> QED BY <1>5, <2>1, CreateAnswers, ZenonT(60)
  <1>7. Receive(CreateCall(k, v))
    BY <1>3 DEF RecreateRule
  <1>8. PICK answer \in CreateCall(k, v) :
            /\ policy' = policy /\ seen' = seen /\ whole' = whole /\ settings' = settings
            /\ live' = answer.live /\ faults' = faults + answer.faults
            /\ disturbed' = (disturbed \/ answer.unheard)
            /\ ListTypes' /\ Sound(live)' /\ Sound(seen)' /\ Agree(live)'
            /\ \/ ~answer.ok /\ pc' = "idle" /\ outcome' = "failed" /\ CollectionsInv'
               \/ answer.ok /\ pc' = pc /\ i' = i + 1 /\ outcome' = outcome /\ Path'
    <2>1. \A answer \in CreateCall(k, v) :
            /\ answer.faults \in Nat /\ answer.ok \in BOOLEAN /\ answer.unheard \in BOOLEAN
            /\ Sound(answer.live) /\ Agree(answer.live)
      <3> HIDE <1>5
      <3> QED BY <1>6
    <2> HIDE <1>5
    <2> QED BY <1>1, <1>7, <2>1, ReceiveKeepsInv
  <1>9. PICK e \in Entry : e.key = k /\ e.value = v /\ IsInserted(once, live, e) /\ Unlisted(e)
    BY <1>2, <1>4, <1>5, CreatedIs DEF Sound
  <1>10. ~HasRoom(once, k)
    BY <1>1, <1>2, <1>9, NoRoomForAnother
  <1>11. CASE answer.ok /\ pc' = pc /\ i' = i + 1 /\ Path'
    <2>1. live' = once /\ disturbed' = disturbed
      <3>1. answer.live = once /\ answer.unheard = FALSE
        BY <1>6, <1>10, <1>11
      <3> QED BY <1>8, <3>1 DEF CollectionsInv, ListTypes
    <2>2. Recreating'
      <3> SUFFICES ASSUME whole, ~disturbed
                   PROVE  Recreating'
        BY <1>8, <2>1 DEF Recreating
      <3>1. /\ \A a \in DOMAIN once : policy.prune \/ IsDeclared(once[a]) =>
                 \E n \in DOMAIN policy.declared :
                   n >= ReversePosition /\ once[a].key = policy.declared[n]
            /\ \A n \in DOMAIN policy.declared : n >= ReversePosition =>
                 \E a \in DOMAIN once : once[a].key = policy.declared[n] /\ once[a].value = policy.values[n]
            /\ InDeclaredOrder(once)
        BY <1>1, <1>3, <1>9, CreatedOnTop
      <3>2. \A n : Recreated(n)' <=> n \in DOMAIN policy.declared /\ n >= ReversePosition
        <4>1. ReversePosition' = ReversePosition - 1 /\ ReversePosition \in Int
          <5>1. policy' = policy /\ i' = i + 1 /\ i \in Int /\ Len(policy.declared) \in Int
            BY <1>2, <1>4, <1>8, <1>11
          <5>2. PICK n \in Int : n = Len(policy.declared)
            BY <5>1
          <5>3. ReversePosition = n + 1 - i
            BY <5>2 DEF ReversePosition
          <5>4. ReversePosition' = n + 1 - i'
            BY <5>1, <5>2 DEF ReversePosition
          <5> QED BY <5>1, <5>3, <5>4
        <4>2. DOMAIN policy.declared \in SUBSET Int
          BY <1>2, PolicyFacts
        <4> QED BY <1>8, <4>1, <4>2 DEF Recreated
      <3>3. InDeclaredOrder(live)'
        BY <1>8, <2>1, <3>1 DEF InDeclaredOrder
      <3> QED BY <1>8, <2>1, <3>1, <3>2, <3>3 DEF Recreating, IsDeclared, Declared
    <2>3. /\ Known' /\ Settlement' /\ Leftover' /\ GroupLeftover' /\ Framework' /\ Destroying'
      BY <1>1, <1>8, <1>11 DEF Known, Settlement, Leftover, GroupLeftover, Framework, Destroying, Looping
    <2> QED BY <1>8, <1>11, <2>2, <2>3 DEF CollectionsInv
  <1> QED BY <1>8, <1>11


(* The end of a loop: what was still to come is none. *)
LEMMA PhaseKeepsInv ==
  ASSUME CollectionsInv, NextPhase
  PROVE  CollectionsInv'
PROOF
  <1>1. /\ policy' = policy /\ live' = live /\ settings' = settings /\ seen' = seen
        /\ whole' = whole /\ disturbed' = disturbed /\ faults' = faults
    BY DEF NextPhase
  <1>2. Sound(live) /\ Sound(seen) /\ Agree(live) /\ i \in Nat \ {0} /\ policy \in Policies
    BY DEF CollectionsInv, ListTypes
  <1>3. Sound(live)' /\ Sound(seen)' /\ Agree(live)'
    BY <1>1, <1>2, SoundNext, SeenNext, AgreeNext
  <1>4. i' = 1 /\ pc' \in Steps
    BY DEF NextPhase, GoTo, EndApply, Steps
  <1>5. ListTypes'
    BY <1>1, <1>4 DEF CollectionsInv, ListTypes
  <1>6. CASE EndApply("success")
    <2>1. pc' = "idle"
      BY <1>6 DEF EndApply
    <2> QED BY <1>3, <1>5, <2>1, IdleIsSafe
  <1>7. CASE pc = "upsert" /\ i > Len(policy.declared) /\ GoTo("prune")
    <2>1. pc' = "prune" /\ outcome' = outcome
      BY <1>7 DEF GoTo
    <2>2. Path'
      BY <1>1, <1>7, <2>1 DEF CollectionsInv, Path, HasSettings, Is
    <2>3. \A n : Reached(n)' <=> Reached(n)
      <3>1. \A n \in DOMAIN policy.declared : n < i
        BY <1>2, <1>7, PolicyFacts
      <3> QED BY <1>1, <1>7, <2>1, <3>1 DEF Reached
    <2>4. Looping' <=> Looping
      BY <1>1, <1>7, <2>1 DEF Looping, Is
    <2>5. Known'
      BY <1>1, <2>3, <2>4 DEF CollectionsInv, Known
    <2>6. Settlement'
      <3>1. /\ Ambiguous(seen)' = Ambiguous(seen) /\ Unassigned(seen)' = Unassigned(seen)
            /\ Contradictory' = Contradictory
        BY <1>1 DEF Ambiguous, Unassigned, Contradictory, Is, Declared, KeysOf
      <3>2. \A x : Match(seen, x)' = Match(seen, x)
        BY <1>1 DEF Match, Is
      <3>3. \A x, y : Settled(x, y)' <=> Settled(x, y)
        BY <1>1, <3>2 DEF Settled, ById
      <3> QED BY <1>1, <2>3, <2>4, <3>1, <3>3 DEF CollectionsInv, Settlement
    <2>7. \A b : ToCome(b)' <=> ToCome(b)
      <3>1. \A b \in DOMAIN seen : b >= 1
        BY <1>2 DEF Sound
      <3> QED BY <1>1, <1>4, <1>7, <2>1, <3>1 DEF ToCome
    <2>8. Leftover'
      BY <1>1, <2>4, <2>7 DEF CollectionsInv, Leftover, KeepsKeys, Surplus, Is, Declared
    <2>9. GroupLeftover'
      <3>1. Rest' = Rest
        BY <1>1, <2>7 DEF Rest
      <3> QED BY <1>1, <2>4, <3>1 DEF CollectionsInv, GroupLeftover, Is, Declared, KeysOf, Named
    <2>10. Framework'
      BY <1>1, <1>4, <1>7, <2>1, <2>3 DEF CollectionsInv, Framework, Is, Declared
    <2>11. Destroying' /\ Recreating'
      BY <2>1 DEF Destroying, Recreating
    <2> QED BY <1>3, <1>5, <2>2, <2>5, <2>6, <2>8, <2>9, <2>10, <2>11 DEF CollectionsInv
  <1>8. CASE pc = "destroy" /\ i > Len(seen) /\ GoTo("recreate")
    <2>1. pc' = "recreate" /\ outcome' = outcome
      BY <1>8 DEF GoTo
    <2>2. Path'
      BY <1>1, <1>8, <2>1 DEF CollectionsInv, Path, HasSettings, Is
    <2>3. Recreating'
      <3> SUFFICES ASSUME whole, ~disturbed
                   PROVE  /\ \A a \in DOMAIN live : ~policy.prune /\ ~IsDeclared(live[a])
                          /\ \A n \in DOMAIN policy.declared : ~Recreated(n)'
                          /\ InDeclaredOrder(live)
        BY <1>1 DEF Recreating, IsDeclared, Declared, InDeclaredOrder, Recreated
      <3>1. \A b \in DOMAIN seen : b < i
        BY <1>2, <1>8 DEF Sound
      <3>2. DOMAIN seen \in SUBSET Nat
        BY <1>2 DEF Sound
      <3>3. \A a \in DOMAIN live : ~policy.prune /\ ~IsDeclared(live[a])
        BY <1>2, <1>8, <3>1, <3>2 DEF CollectionsInv, Destroying
      <3>4. \A n \in DOMAIN policy.declared : ~Recreated(n)'
        BY <1>1, <1>2, <1>4, PolicyFacts DEF Recreated, ReversePosition
      <3>5. \A x \in DOMAIN policy.declared : policy.declared[x] \in Declared
        BY <1>2, PolicyFacts
      <3>6. InDeclaredOrder(live)
        BY <3>3, <3>5 DEF InDeclaredOrder, IsDeclared
      <3> QED BY <3>3, <3>4, <3>6
    <2>4. /\ Known' /\ Settlement' /\ Leftover' /\ GroupLeftover' /\ Framework' /\ Destroying'
      BY <2>1 DEF Known, Settlement, Leftover, GroupLeftover, Framework, Destroying, Looping
    <2> QED BY <1>3, <1>5, <2>2, <2>3, <2>4 DEF CollectionsInv
  <1> QED BY <1>6, <1>7, <1>8 DEF NextPhase

(* A step that changes nothing. *)
LEMMA StutterKeepsInv ==
  ASSUME CollectionsInv, UNCHANGED collectionsVars
  PROVE  CollectionsInv'
PROOF
  <1>1. /\ policy' = policy /\ live' = live /\ settings' = settings /\ seen' = seen
        /\ whole' = whole /\ disturbed' = disturbed /\ faults' = faults
        /\ i' = i /\ pc' = pc /\ outcome' = outcome
    BY DEF collectionsVars
  <1>2. ListTypes' /\ Path'
    BY <1>1 DEF CollectionsInv, ListTypes, Path, HasSettings, Is
  <1>3. Sound(live)' /\ Sound(seen)' /\ Agree(live)'
    BY <1>1, SoundNext, SeenNext, AgreeNext DEF CollectionsInv
  <1>4. /\ \A n : Reached(n)' <=> Reached(n)
        /\ \A n : Recreated(n)' <=> Recreated(n)
        /\ \A b : ToCome(b)' <=> ToCome(b)
        /\ Looping' <=> Looping
    BY <1>1 DEF Reached, Recreated, ReversePosition, ToCome, Looping, Is
  <1>5. Known'
    BY <1>1, <1>4 DEF CollectionsInv, Known
  <1>6. Settlement'
    <2>1. /\ Ambiguous(seen)' = Ambiguous(seen) /\ Unassigned(seen)' = Unassigned(seen)
          /\ Contradictory' = Contradictory
      BY <1>1 DEF Ambiguous, Unassigned, Contradictory, Is, Declared, KeysOf
    <2>2. \A x : Match(seen, x)' = Match(seen, x)
      BY <1>1 DEF Match, Is
    <2>3. \A x, y : Settled(x, y)' <=> Settled(x, y)
      BY <1>1, <2>2 DEF Settled, ById
    <2> QED BY <1>1, <1>4, <2>1, <2>3 DEF CollectionsInv, Settlement
  <1>7. Leftover'
    BY <1>1, <1>4 DEF CollectionsInv, Leftover, KeepsKeys, Surplus, Is, Declared
  <1>8. GroupLeftover'
    <2>1. Rest' = Rest
      BY <1>1, <1>4 DEF Rest
    <2> QED BY <1>1, <1>4, <2>1 DEF CollectionsInv, GroupLeftover, Is, Declared, KeysOf, Named
  <1>9. Framework'
    BY <1>1, <1>4 DEF CollectionsInv, Framework, Is, Declared
  <1>10. Destroying'
    BY <1>1 DEF CollectionsInv, Destroying, IsDeclared, Declared
  <1>11. Recreating'
    BY <1>1, <1>4 DEF CollectionsInv, Recreating, IsDeclared, Declared, InDeclaredOrder
  <1> QED BY <1>2, <1>3, <1>5, <1>6, <1>7, <1>8, <1>9, <1>10, <1>11 DEF CollectionsInv

(* What Apply goes on with after Plan depends on the kind. *)
LEMMA PlanKeepsInv ==
  ASSUME CollectionsInv,
         \/ ApplyVariables \/ ApplyGroupVariables \/ ApplyWebhooks \/ ApplyApprovalRules
         \/ ApplyTargetBranchRules \/ ApplyPushRules \/ ApplyGroupPushRules \/ ApplyProjectSettings
         \/ ApplyPipelineRetention \/ ApplyRunners \/ ApplyCompliance
  PROVE  CollectionsInv'
PROOF
  <1>1. PICK where : /\ BeginApply(where) /\ where \in {"settings", "list", "upsert", "destroy"}
                     /\ where \in {"upsert", "list"} => ~HasSettings
                     /\ where = "destroy" <=> Is("target_branch_rule")
    BY DEF ApplyVariables, ApplyGroupVariables, ApplyWebhooks, ApplyApprovalRules,
           ApplyTargetBranchRules, ApplyPushRules, ApplyGroupPushRules, ApplyProjectSettings,
           ApplyPipelineRetention, ApplyRunners, ApplyCompliance, HasSettings, Is
  <1> QED BY <1>1, BeginKeepsInv

(* Every step keeps the invariant. *)
LEMMA NextKeepsInv ==
  ASSUME CollectionsInv, [CollectionsNext]_collectionsVars
  PROVE  CollectionsInv'
PROOF
  <1>1. CASE \/ ApplyVariables \/ ApplyGroupVariables \/ ApplyWebhooks \/ ApplyApprovalRules
             \/ ApplyTargetBranchRules \/ ApplyPushRules \/ ApplyGroupPushRules \/ ApplyProjectSettings
             \/ ApplyPipelineRetention \/ ApplyRunners \/ ApplyCompliance
    BY <1>1, PlanKeepsInv
  <1>2. CASE \/ UpsertVariable \/ UpsertGroupVariable \/ UpsertHook \/ UpsertApprovalRule
             \/ UpsertPushRule \/ UpsertGroupPushRule \/ EditProjectSettings \/ SetPipelineRetention
    <2>1. Upsert /\ ~Is("compliance")
      BY <1>2 DEF UpsertVariable, UpsertGroupVariable, UpsertHook, UpsertApprovalRule, UpsertPushRule,
                  UpsertGroupPushRule, EditProjectSettings, SetPipelineRetention, Is
    <2> QED BY <2>1, UpsertKeepsInv
  <1>3. CASE ChangeSettings
    BY <1>3, SettingsKeepInv
  <1>4. CASE ListAgain
    BY <1>4, ListAgainKeepsInv
  <1>5. CASE UpdateRunner
    BY <1>5, RunnerKeepsInv
  <1>6. CASE SetFramework
    BY <1>6, SetFrameworkKeepsInv
  <1>7. CASE RemoveFramework
    BY <1>7, RemoveFrameworkKeepsInv
  <1>8. CASE PruneEntry
    BY <1>8, PruneKeepsInv
  <1>9. CASE DestroyRule
    BY <1>9, DestroyKeepsInv
  <1>10. CASE RecreateRule
    BY <1>10, RecreateKeepsInv
  <1>11. CASE NextPhase
    BY <1>11, PhaseKeepsInv
  <1>12. CASE ApplyFails
    BY <1>12, FailureKeepsInv
  <1>13. CASE Drift
    BY <1>13, DriftKeepsInv
  <1>14. CASE UNCHANGED collectionsVars
    BY <1>14, StutterKeepsInv
  <1>15. CASE MisreadFramework
    BY <1>15, MisreadKeepsInv
  <1> QED BY <1>1, <1>2, <1>3, <1>4, <1>5, <1>6, <1>7, <1>8, <1>9, <1>10, <1>11, <1>12, <1>13, <1>14,
             <1>15
          DEF CollectionsNext, ApplyStep


(* Where every entry has a key of its own there is no copy. *)
LEMMA DistinctHasNoCopies ==
  ASSUME NEW l \in Seq(Entry), \A a, b \in DOMAIN l : l[a].key = l[b].key => a = b
  PROVE  Copies(l) = 0
PROOF
  <1>1. PICK f : f = [k \in KeysOf(l) |-> CHOOSE a \in DOMAIN l : l[a].key = k]
    OBVIOUS
  <1>2. \A a \in DOMAIN l : l[a].key \in KeysOf(l) /\ f[l[a].key] = a
    BY <1>1 DEF KeysOf
  <1>3. \A k \in KeysOf(l) : f[k] \in DOMAIN l
    BY <1>2 DEF KeysOf
  <1>4. DOMAIN l = {f[k] : k \in KeysOf(l)}
    BY <1>2, <1>3
  <1>5. /\ IsFiniteSet(KeysOf(l)) /\ Cardinality(KeysOf(l)) \in Nat
        /\ Cardinality(KeysOf(l)) <= Len(l)
    BY KeysFacts
  <1>6. Cardinality(DOMAIN l) <= Cardinality(KeysOf(l))
    BY <1>4, <1>5, ImageIsSmaller
  <1>7. Cardinality(DOMAIN l) = Len(l) /\ Len(l) \in Nat
    BY PlacesOf
  <1>8. Len(l) = Cardinality(KeysOf(l))
    BY <1>5, <1>6, <1>7
  <1> QED BY <1>5, <1>8 DEF Copies

(* A new key makes no copy. *)
LEMMA NewKeyIsNoCopy ==
  ASSUME ~Is("target_branch_rule"), NEW l \in Seq(Entry), NEW m, NEW e, IsInserted(m, l, e), e.key \notin KeysOf(l)
  PROVE  Copies(m) = Copies(l)
PROOF
  <1>1. /\ DOMAIN l = 1..Len(l) /\ Len(l) \in Nat
        /\ m \in Seq(Entry) /\ DOMAIN m = 1..(Len(l) + 1)
        /\ m[Len(l) + 1] = e /\ \A a \in 1..Len(l) : m[a] = l[a]
    BY AppendedIs
  <1>2. KeysOf(m) = KeysOf(l) \cup {e.key}
    <2>1. \A y \in KeysOf(m) : y \in KeysOf(l) \cup {e.key}
      BY <1>1 DEF KeysOf
    <2>2. \A y \in KeysOf(l) : y \in KeysOf(m)
      BY <1>1 DEF KeysOf
    <2>3. e.key \in KeysOf(m)
      BY <1>1 DEF KeysOf
    <2> QED BY <2>1, <2>2, <2>3
  <1>3. IsFiniteSet(KeysOf(l)) /\ Cardinality(KeysOf(l)) \in Nat
    BY KeysFacts
  <1>4. Cardinality(KeysOf(m)) = Cardinality(KeysOf(l)) + 1
    BY <1>2, <1>3, FS_AddElement
  <1>5. Len(m) = Len(l) + 1
    BY DEF IsInserted
  <1> QED BY <1>1, <1>3, <1>4, <1>5 DEF Copies

(* A removal may only take a copy away. *)
LEMMA RemovalIsNoCopy ==
  ASSUME NEW l, Sound(l), NEW j \in DOMAIN l, NEW m, m = RemoveAt(l, j)
  PROVE  Copies(m) <= Copies(l)
PROOF
  <1>1. l \in Seq(Entry)
    BY DEF Sound
  <1>2. m \in Seq(Entry) /\ Len(m) = Len(l) - 1 /\ Len(l) \in Nat
    BY <1>1, RemovedIs
  <1>3. \A b \in DOMAIN l \ {j} : \E a \in DOMAIN m : m[a] = l[b]
    BY RemovedEntries
  <1>4. /\ IsFiniteSet(KeysOf(l)) /\ Cardinality(KeysOf(l)) \in Nat
        /\ IsFiniteSet(KeysOf(m)) /\ Cardinality(KeysOf(m)) \in Nat
    BY <1>1, <1>2, KeysFacts
  <1>5. PICK S : S = KeysOf(m) \cup {l[j].key}
    OBVIOUS
  <1>6. KeysOf(l) \in SUBSET S
    BY <1>3, <1>5 DEF KeysOf
  <1>7. IsFiniteSet(S) /\ Cardinality(S) \in Nat /\ Cardinality(S) <= Cardinality(KeysOf(m)) + 1
    <2>1. CASE l[j].key \in KeysOf(m)
      <3>1. S = KeysOf(m)
        BY <1>5, <2>1
      <3> QED BY <1>4, <3>1
    <2>2. CASE l[j].key \notin KeysOf(m)
      <3>1. IsFiniteSet(S) /\ Cardinality(S) = Cardinality(KeysOf(m)) + 1
        BY <1>4, <1>5, <2>2, FS_AddElement
      <3> QED BY <1>4, <3>1
    <2> QED BY <2>1, <2>2
  <1>8. Cardinality(KeysOf(l)) <= Cardinality(S)
    BY <1>6, <1>7, FS_Subset
  <1>9. Cardinality(KeysOf(l)) <= Cardinality(KeysOf(m)) + 1
    BY <1>4, <1>7, <1>8
  <1> QED BY <1>2, <1>4, <1>9 DEF Copies

(* An update that keeps the key makes no copy. *)
LEMMA UpdateIsNoCopy ==
  ASSUME Sound(live), Sound(seen), Agree(live), KeepsKeys, NEW c \in DOMAIN seen, NEW j, Updates(j, seen[c]),
         NEW v \in Nat, NEW m, m = Updated(j, seen[c], v)
  PROVE  Copies(m) = Copies(live)
PROOF
  <1>1. /\ DOMAIN m = DOMAIN live /\ Len(m) = Len(live) /\ j \in DOMAIN live
        /\ m[j].key = seen[c].key
        /\ \A a \in DOMAIN live \ {j} : m[a] = live[a]
    BY UpdatedIs
  <1>2. live[j].key = seen[c].key
    BY UpdateKeepsKey
  <1>3. \A a \in DOMAIN live : m[a].key = live[a].key
    BY <1>1, <1>2
  <1>4. KeysOf(m) = KeysOf(live)
    BY <1>1, <1>3 DEF KeysOf
  <1> QED BY <1>1, <1>4 DEF Copies

(* Copies is a number. *)
LEMMA CopiesType ==
  ASSUME NEW l \in Seq(Entry)
  PROVE  Copies(l) \in Nat
PROOF
  <1>1. Len(l) \in Nat /\ Cardinality(KeysOf(l)) \in Nat /\ Cardinality(KeysOf(l)) <= Len(l)
    BY PlacesOf, KeysFacts
  <1> QED BY <1>1 DEF Copies

(* What an answer leaves has no more copies, or it took a fault, or its    *)
(* last entry is one that is declared twice.                               *)
LEMMA ReceiveMakesNoCopy ==
  ASSUME Sound(live), NEW answers, Receive(answers), faults \in Nat,
         \A answer \in answers :
           /\ answer.faults \in Nat /\ Sound(answer.live)
           /\ \/ Copies(answer.live) <= Copies(live) \/ answer.faults = 1
              \/ IsDeclaredTwice(Last(answer.live).key),
         Copies(live') > Copies(live)
  PROVE  faults' > faults \/ IsDeclaredTwice(Last(live').key)
PROOF
  <1>1. PICK answer \in answers : live' = answer.live /\ faults' = faults + answer.faults
    BY DEF Receive
  <1>2. PICK m : m = answer.live
    OBVIOUS
  <1>3. Copies(m) \in Nat /\ Copies(live) \in Nat
    BY <1>1, <1>2, CopiesType DEF Sound
  <1>4. Copies(m) > Copies(live)
    BY <1>1, <1>2
  <1>5. answer.faults = 1 \/ IsDeclaredTwice(Last(m).key)
    BY <1>2, <1>3, <1>4
  <1>6. IsDeclaredTwice(Last(m).key) => IsDeclaredTwice(Last(live').key)
    BY <1>1, <1>2
  <1> QED BY <1>1, <1>5, <1>6

(* A hook that matched none of the listed ones has a URL of its own, or    *)
(* that of one that was declared before it.                                *)
LEMMA HookMakesNoCopy ==
  ASSUME CollectionsInv, UpsertHook, whole, ~disturbed, Copies(live') > Copies(live)
  PROVE  faults' > faults \/ IsDeclaredTwice(Last(live').key)
PROOF
  <1> DEFINE k == policy.declared[i]
             v == policy.values[i]
  <1>1. /\ pc = "upsert" /\ i <= Len(policy.declared) /\ Is("webhook")
        /\ Receive(IF Match(seen, k) = 0 THEN CreateCall(k, v) ELSE UpdateCall(seen[Match(seen, k)], v))
    BY DEF Upsert, UpsertHook
  <1>2. k \in policy.keys /\ v \in Nat /\ i \in DOMAIN policy.declared
    BY <1>1, PolicyFacts DEF CollectionsInv, ListTypes
  <1>3. /\ Sound(live) /\ Sound(seen) /\ Agree(live) /\ faults \in Nat /\ policy \in Policies
        /\ i \in Nat /\ Known
    BY <1>1 DEF CollectionsInv, ListTypes
  <1>4. ~Is("target_branch_rule") /\ ~Is("compliance") /\ KeepsKeys
    BY <1>1 DEF Is, KeepsKeys
  <1>5. live \in Seq(Entry) /\ seen \in Seq(Entry) /\ Copies(live) \in Nat
    BY <1>3, CopiesType DEF Sound
  <1>6. ASSUME Match(seen, k) = 0, ~IsDeclaredTwice(k)
        PROVE  k \notin KeysOf(live)
    <2> SUFFICES ASSUME NEW a \in DOMAIN live, live[a].key = k
                 PROVE  FALSE
      BY DEF KeysOf
    <2>1. \A b \in DOMAIN seen : seen[b].key # k
      <3>1. 0 \notin DOMAIN seen
        BY <1>5
      <3> QED BY <1>3, <1>6, <3>1, MatchIs
    <2>2. PICK n \in DOMAIN policy.declared : Reached(n) /\ live[a].key = policy.declared[n]
      BY <1>1, <1>3, <1>4, <2>1 DEF Known, Looping
    <2>3. n < i
      BY <1>1, <2>2 DEF Reached
    <2>4. n = i
      BY <1>2, <1>6, <2>2 DEF IsDeclaredTwice
    <2> QED BY <1>3, <2>3, <2>4
  <1> HIDE DEF k, v
  <1>7. CASE Match(seen, k) = 0
    <2>1. ASSUME NEW answer \in CreateCall(k, v)
          PROVE  /\ answer.faults \in Nat /\ Sound(answer.live)
                 /\ \/ Copies(answer.live) <= Copies(live) \/ answer.faults = 1
                    \/ IsDeclaredTwice(Last(answer.live).key)
      <3>1. PICK once : once = Insert(live, k, v)
        OBVIOUS
      <3>2. /\ answer.faults \in Nat /\ answer.ok \in BOOLEAN /\ answer.unheard = FALSE
            /\ Sound(answer.live) /\ Agree(answer.live)
            /\ \/ ~answer.ok /\ answer.live = live
               \/ HasRoom(live, k) /\ answer.live = once
               \/ /\ HasRoom(live, k) /\ HasRoom(once, k) /\ answer.live = Insert(once, k, v)
                  /\ answer.ok /\ answer.faults = 1
        <4>1. Sound(live) /\ Sound(seen) /\ Agree(live) /\ k \in policy.keys /\ v \in Nat
          BY <1>2, <1>3, Zenon
        <4> QED BY <3>1, <4>1, CreateAnswers, ZenonT(60)
      <3>3. PICK e \in Entry : e.key = k /\ e.value = v /\ IsInserted(once, live, e) /\ Unlisted(e)
        BY <1>2, <1>5, <3>1, CreatedIs
      <3>4. Copies(once) = Copies(live) \/ IsDeclaredTwice(Last(once).key)
        <4>1. CASE ~IsDeclaredTwice(k)
          BY <1>4, <1>5, <1>6, <1>7, <3>3, <4>1, NewKeyIsNoCopy
        <4>2. CASE IsDeclaredTwice(k)
          <5>1. once \in Seq(Entry) /\ DOMAIN once = 1..(Len(live) + 1) /\ once[Len(live) + 1] = e
                /\ Len(live) \in Nat
            BY <1>4, <1>5, <3>3, AppendedIs
          <5>2. Last(once) = e
            BY <5>1 DEF Last
          <5> QED BY <3>3, <4>2, <5>2
        <4> QED BY <4>1, <4>2
      <3> HIDE <3>1
      <3> QED BY <1>5, <3>2, <3>4
    <2>2. Receive(CreateCall(k, v))
      BY <1>1, <1>7
    <2> QED BY <1>3, <2>1, <2>2, ReceiveMakesNoCopy
  <1>8. CASE Match(seen, k) # 0
    <2>1. PICK c \in DOMAIN seen : c = Match(seen, k) /\ seen[c].key = k
      BY <1>3, <1>8, MatchIs
    <2>2. ASSUME NEW answer \in UpdateCall(seen[c], v)
          PROVE  /\ answer.faults \in Nat /\ Sound(answer.live)
                 /\ Copies(answer.live) <= Copies(live)
      <3>1. /\ answer.faults \in Nat /\ Sound(answer.live)
            /\ \/ answer.live = live
               \/ \E j : Updates(j, seen[c]) /\ answer.live = Updated(j, seen[c], v)
        BY <1>2, <1>3, <1>4, UpdateAnswers DEF Is
      <3>2. Copies(answer.live) = Copies(live)
        BY <1>2, <1>3, <1>4, <3>1, UpdateIsNoCopy
      <3> QED BY <1>5, <3>1, <3>2
    <2>3. Receive(UpdateCall(seen[c], v))
      BY <1>1, <1>8, <2>1
    <2> QED BY <1>3, <2>2, <2>3, ReceiveMakesNoCopy
  <1> QED BY <1>7, <1>8

(* A runner is updated and keeps its description. *)
LEMMA RunnerMakesNoCopy ==
  ASSUME CollectionsInv, UpdateRunner, Copies(live') > Copies(live)
  PROVE  faults' > faults \/ IsDeclaredTwice(Last(live').key)
PROOF
  <1>1. Sound(live) /\ Sound(seen) /\ Agree(live) /\ faults \in Nat
    BY DEF CollectionsInv, ListTypes
  <1>2. ~Is("compliance") /\ KeepsKeys /\ Copies(live) \in Nat
    BY <1>1, CopiesType DEF Sound, UpdateRunner, Is, KeepsKeys
  <1>3. PICK at, v : at = Match(seen, policy.declared[i]) /\ v = policy.values[i]
    OBVIOUS
  <1>4. CASE at = 0
    <2>1. live' = live
      BY <1>3, <1>4 DEF UpdateRunner, Skip
    <2> QED BY <1>2, <2>1
  <1>5. CASE at # 0
    <2>1. at \in DOMAIN seen /\ v \in Nat
      <3>1. i \in DOMAIN policy.declared
        BY PolicyFacts DEF CollectionsInv, ListTypes, UpdateRunner
      <3> QED BY <1>1, <1>3, <1>5, <3>1, MatchIs, PolicyFacts DEF CollectionsInv, ListTypes
    <2>2. ASSUME NEW answer \in UpdateCall(seen[at], v)
          PROVE  /\ answer.faults \in Nat /\ Sound(answer.live)
                 /\ Copies(answer.live) <= Copies(live)
      <3>1. /\ answer.faults \in Nat /\ Sound(answer.live)
            /\ \/ answer.live = live
               \/ \E j : Updates(j, seen[at]) /\ answer.live = Updated(j, seen[at], v)
        BY <1>1, <1>2, <2>1, UpdateAnswers DEF Is
      <3>2. Copies(answer.live) = Copies(live)
        BY <1>1, <1>2, <2>1, <3>1, UpdateIsNoCopy
      <3> QED BY <1>2, <3>1, <3>2
    <2>3. Receive(UpdateCall(seen[at], v))
      BY <1>3, <1>5 DEF UpdateRunner
    <2> QED BY <1>1, <2>2, <2>3, ReceiveMakesNoCopy
  <1> QED BY <1>4, <1>5

(* Pruning removes entries. *)
LEMMA PruneMakesNoCopy ==
  ASSUME CollectionsInv, PruneEntry, Copies(live') > Copies(live)
  PROVE  faults' > faults \/ IsDeclaredTwice(Last(live').key)
PROOF
  <1>1. Sound(live) /\ Agree(live) /\ faults \in Nat
    BY DEF CollectionsInv, ListTypes
  <1>2. Copies(live) \in Nat
    BY <1>1, CopiesType DEF Sound
  <1>3. CASE ~IsStale(seen, i)
    <2>1. live' = live
      BY <1>3 DEF PruneEntry, Skip
    <2> QED BY <1>2, <2>1
  <1>4. CASE IsStale(seen, i)
    <2>1. ASSUME NEW answer \in DeleteCall(seen[i])
          PROVE  /\ answer.faults \in Nat /\ Sound(answer.live)
                 /\ Copies(answer.live) <= Copies(live)
      <3>1. /\ answer.faults \in Nat /\ Sound(answer.live)
            /\ \/ answer.live = live
               \/ \E j \in Addressed(seen[i]) : answer.live = RemoveAt(live, j)
        BY <1>1, DeleteAnswers
      <3>2. \A j \in Addressed(seen[i]) : j \in DOMAIN live
        BY DEF Addressed
      <3>3. CASE answer.live = live
        BY <1>2, <3>1, <3>3
      <3>4. CASE \E j \in Addressed(seen[i]) : answer.live = RemoveAt(live, j)
        BY <1>1, <3>1, <3>2, <3>4, RemovalIsNoCopy
      <3> QED BY <3>1, <3>3, <3>4
    <2>2. Receive(DeleteCall(seen[i]))
      BY <1>4 DEF PruneEntry
    <2> QED BY <1>1, <2>1, <2>2, ReceiveMakesNoCopy
  <1> QED BY <1>3, <1>4

(* The policy is an input. *)
LEMMA PolicyIsFixed ==
  ASSUME [CollectionsNext]_collectionsVars
  PROVE  policy' = policy
BY DEF CollectionsNext, ApplyStep, collectionsVars, ApplyVariables, ApplyGroupVariables, ApplyWebhooks,
       ApplyApprovalRules, ApplyTargetBranchRules, ApplyPushRules, ApplyGroupPushRules,
       ApplyProjectSettings, ApplyPipelineRetention, ApplyRunners, ApplyCompliance, BeginApply,
       ChangeSettings, ListAgain, Upsert, UpsertVariable, UpsertGroupVariable, UpsertHook,
       UpsertApprovalRule, UpsertPushRule, UpsertGroupPushRule, EditProjectSettings,
       SetPipelineRetention, UpdateRunner, SetFramework, RemoveFramework, PruneEntry, DestroyRule,
       RecreateRule, NextPhase, ApplyFails, Drift, Receive, Skip, PlanOn, MisreadFramework

(* The steps of a running Apply that change the list, and what they leave  *)
(* of the rest.                                                            *)
LEMMA StepsThatWrite ==
  ASSUME CollectionsInv, [CollectionsNext]_collectionsVars, pc # "idle", ~disturbed', live' # live
  PROVE  /\ ~disturbed
         /\ \/ Upsert /\ ~Is("target_branch_rule") /\ (Is("webhook") => UpsertHook) /\ ~Is("runner")
            \/ UpdateRunner \/ SetFramework \/ RemoveFramework \/ PruneEntry
            \/ (DestroyRule \/ RecreateRule) /\ Is("target_branch_rule")
PROOF
  <1>1. CASE \/ ApplyVariables \/ ApplyGroupVariables \/ ApplyWebhooks \/ ApplyApprovalRules
             \/ ApplyTargetBranchRules \/ ApplyPushRules \/ ApplyGroupPushRules \/ ApplyProjectSettings
             \/ ApplyPipelineRetention \/ ApplyRunners \/ ApplyCompliance
    BY <1>1 DEF ApplyVariables, ApplyGroupVariables, ApplyWebhooks, ApplyApprovalRules,
           ApplyTargetBranchRules, ApplyPushRules, ApplyGroupPushRules, ApplyProjectSettings,
           ApplyPipelineRetention, ApplyRunners, ApplyCompliance, BeginApply, PlanOn
  <1>2. CASE ChangeSettings \/ ListAgain \/ NextPhase \/ ApplyFails \/ UNCHANGED collectionsVars
    BY <1>2 DEF ChangeSettings, ListAgain, NextPhase, ApplyFails, collectionsVars
  <1>3. CASE Drift \/ MisreadFramework
    BY <1>3 DEF Drift, MisreadFramework
  <1>4. CASE \/ UpsertVariable \/ UpsertGroupVariable \/ UpsertHook \/ UpsertApprovalRule
             \/ UpsertPushRule \/ UpsertGroupPushRule \/ EditProjectSettings \/ SetPipelineRetention
    <2>1. Upsert /\ ~Is("target_branch_rule") /\ (Is("webhook") => UpsertHook) /\ ~Is("runner")
      BY <1>4 DEF UpsertVariable, UpsertGroupVariable, UpsertHook, UpsertApprovalRule, UpsertPushRule,
                  UpsertGroupPushRule, EditProjectSettings, SetPipelineRetention, Is
    <2>2. ~disturbed
      BY <2>1 DEF Upsert, Receive
    <2> QED BY <2>1, <2>2
  <1>5. CASE \/ UpdateRunner \/ SetFramework \/ RemoveFramework \/ PruneEntry
             \/ DestroyRule \/ RecreateRule
    <2>1. ~disturbed
      BY <1>5 DEF UpdateRunner, SetFramework, RemoveFramework, PruneEntry, DestroyRule, RecreateRule,
                  Receive, Skip
    <2>2. DestroyRule \/ RecreateRule => Is("target_branch_rule")
      BY DEF CollectionsInv, Path, DestroyRule, RecreateRule
    <2> QED BY <1>5, <2>1, <2>2
  <1> QED BY <1>1, <1>2, <1>3, <1>4, <1>5 DEF CollectionsNext, ApplyStep

(* A step of Apply that makes a copy took a fault, or the policy asks for  *)
(* the copy.                                                               *)
LEMMA StepMakesNoCopy ==
  ASSUME CollectionsInv, CollectionsInv', [CollectionsNext]_collectionsVars,
         pc # "idle", whole, ~disturbed', Copies(live') > Copies(live)
  PROVE  faults' > faults \/ IsDeclaredTwice(Last(live').key)
PROOF
  <1>1. Sound(live) /\ Copies(live) \in Nat
    BY CopiesType DEF CollectionsInv, Sound
  <1>2. PICK m : m = live'
    OBVIOUS
  <1>3. policy' = policy
    BY PolicyIsFixed
  <1>4. CASE ~SharesKeys
    <2>1. m \in Seq(Entry) /\ \A a, b \in DOMAIN m : m[a].key = m[b].key => a = b
      BY <1>2, <1>3, <1>4 DEF CollectionsInv, Sound, SharesKeys, Is, Entry
    <2>2. Copies(m) = 0
      BY <2>1, DistinctHasNoCopies
    <2> QED BY <1>1, <1>2, <2>2
  <1>5. CASE SharesKeys
    <2>1. live' # live
      BY <1>1
    <2>2. ~disturbed /\ (UpsertHook \/ UpdateRunner \/ PruneEntry)
      <3>1. ~Is("compliance") /\ ~Is("target_branch_rule")
        BY <1>5 DEF SharesKeys, Is
      <3>2. ~SetFramework /\ ~RemoveFramework
        BY <3>1 DEF SetFramework, RemoveFramework
      <3> QED BY <1>5, <2>1, <3>1, <3>2, StepsThatWrite DEF SharesKeys
    <2> QED BY <2>2, HookMakesNoCopy, RunnerMakesNoCopy, PruneMakesNoCopy
  <1> QED BY <1>4, <1>5

(* In every reachable state the lists are sound, and the list is what the  *)
(* loop that Apply is in has made of what it saw.                          *)
THEOREM ListIsKept == CollectionsSpec => []CollectionsInv
PROOF
  <1>1. CollectionsInit => CollectionsInv
    BY InitIsSound
  <1>2. CollectionsInv /\ [CollectionsNext]_collectionsVars => CollectionsInv'
    BY NextKeepsInv
  <1> QED BY <1>1, <1>2, PTL DEF CollectionsSpec

(* An Apply that saw the whole list and was not disturbed makes no second  *)
(* entry of a key: only the transport's retry of a lost answer does, or a  *)
(* policy that declares the key twice.                                     *)
THEOREM NoCopyIsMade == CollectionsSpec => NoNeedlessCopy
PROOF
  <1>1. CollectionsInv /\ CollectionsInv' /\ [CollectionsNext]_collectionsVars
          => [pc # "idle" /\ whole /\ ~disturbed' /\ Copies(live') > Copies(live)
                => faults' > faults \/ IsDeclaredTwice(Last(live').key)]_collectionsVars
    BY StepMakesNoCopy
  <1> QED BY <1>1, ListIsKept, PTL DEF CollectionsSpec, NoNeedlessCopy

(* A step of Apply leaves rules in the declared order. *)
LEMMA StepKeepsOrder ==
  ASSUME CollectionsInv, [CollectionsNext]_collectionsVars, Is("target_branch_rule"),
         pc # "idle", whole, ~disturbed', InDeclaredOrder(live)
  PROVE  InDeclaredOrder(live')
PROOF
  <1>1. CASE live' = live
    BY <1>1
  <1>2. CASE live' # live
    <2>1. ~disturbed /\ (DestroyRule \/ RecreateRule)
      <3>1. ~Is("runner") /\ ~Is("compliance")
        BY DEF Is
      <3>2. pc \in {"destroy", "recreate"}
        BY DEF CollectionsInv, Path
      <3>3. ~UpdateRunner /\ ~SetFramework /\ ~RemoveFramework /\ ~PruneEntry
        BY <3>1, <3>2 DEF UpdateRunner, SetFramework, RemoveFramework, PruneEntry
      <3> QED BY <1>2, <3>3, StepsThatWrite
    <2>2. Sound(live) /\ Sound(seen) /\ Agree(live) /\ i \in Nat \ {0} /\ policy \in Policies
      BY DEF CollectionsInv, ListTypes
    <2>3. CASE DestroyRule
      <3>1. Receive(DeleteCall(seen[i]))
        BY <1>2, <2>3 DEF DestroyRule, Skip
      <3>2. PICK answer \in DeleteCall(seen[i]) : live' = answer.live
        BY <3>1 DEF Receive
      <3>3. PICK j \in Addressed(seen[i]) : live' = RemoveAt(live, j)
        BY <1>2, <2>2, <3>2, DeleteAnswers
      <3>4. j \in DOMAIN live
        BY DEF Addressed
      <3>5. PICK m : m = RemoveAt(live, j)
        OBVIOUS
      <3>6. \A a, b \in DOMAIN m : a < b =>
              \E c, d \in DOMAIN live : c < d /\ m[a] = live[c] /\ m[b] = live[d]
        BY <2>2, <3>4, <3>5, RemovedEntries
      <3>7. InDeclaredOrder(m)
        <4> SUFFICES ASSUME NEW a \in DOMAIN m, NEW b \in DOMAIN m, NEW x \in DOMAIN policy.declared,
                            NEW y \in DOMAIN policy.declared, a < b,
                            m[a].key = policy.declared[x], m[b].key = policy.declared[y]
                     PROVE  x < y
          BY DEF InDeclaredOrder
        <4>1. PICK c \in DOMAIN live, d \in DOMAIN live : c < d /\ m[a] = live[c] /\ m[b] = live[d]
          BY <3>6
        <4> QED BY <4>1 DEF InDeclaredOrder
      <3> QED BY <3>3, <3>5, <3>7
    <2>4. CASE RecreateRule
      <3>1. pc = "recreate" /\ i <= Len(policy.declared)
        BY <2>4 DEF RecreateRule
      <3>2. PICK k, v : k = policy.declared[ReversePosition] /\ v = policy.values[ReversePosition]
        OBVIOUS
      <3>3. k \in policy.keys /\ v \in Nat /\ Len(policy.declared) \in Nat
        BY <2>2, <3>1, <3>2, PolicyFacts DEF ReversePosition
      <3>4. PICK answer \in CreateCall(k, v) : live' = answer.live
        BY <2>4, <3>2 DEF RecreateRule, Receive
      <3>5. PICK once : once = Insert(live, k, v)
        OBVIOUS
      <3>6. PICK e \in Entry : e.key = k /\ e.value = v /\ IsInserted(once, live, e) /\ Unlisted(e)
        BY <2>2, <3>3, <3>5, CreatedIs DEF Sound
      <3>7. live' = once
        <4>1. /\ answer.faults \in Nat /\ answer.ok \in BOOLEAN /\ answer.unheard = FALSE
              /\ Sound(answer.live) /\ Agree(answer.live)
              /\ \/ ~answer.ok /\ answer.live = live
                 \/ HasRoom(live, k) /\ answer.live = once
                 \/ /\ HasRoom(live, k) /\ HasRoom(once, k) /\ answer.live = Insert(once, k, v)
                    /\ answer.ok /\ answer.faults = 1
          <5>1. Sound(live) /\ Sound(seen) /\ Agree(live) /\ k \in policy.keys /\ v \in Nat
            BY <2>2, <3>3
          <5> QED BY <3>5, <5>1, CreateAnswers, ZenonT(60)
        <4>2. ~HasRoom(once, k)
          BY <2>2, <3>6, NoRoomForAnother
        <4> HIDE <3>5
        <4> QED BY <1>2, <3>4, <4>1, <4>2
      <3> HIDE <3>5
      <3> QED BY <2>1, <3>1, <3>2, <3>6, <3>7, CreatedOnTop
    <2> QED BY <2>1, <2>3, <2>4
  <1> QED BY <1>1, <1>2

(* While Apply destroys target branch rules and creates them again, those  *)
(* that stand in the declared order never come to stand in another.        *)
THEOREM OrderIsAlwaysKept == CollectionsSpec => OrderIsKept
PROOF
  <1>1. CollectionsInv /\ [CollectionsNext]_collectionsVars
          => [Is("target_branch_rule") /\ pc # "idle" /\ whole /\ ~disturbed' /\ InDeclaredOrder(live)
                => InDeclaredOrder(live')]_collectionsVars
    BY StepKeepsOrder
  <1> QED BY <1>1, ListIsKept, PTL DEF CollectionsSpec, OrderIsKept


(* Rules that stand in the declared order, none missing: each is in the    *)
(* place where it is declared.                                             *)
LEMMA PlaceIsDeclared ==
  ASSUME policy \in Policies, Is("target_branch_rule"), Sound(live), InDeclaredOrder(live),
         \A a, b \in DOMAIN live : live[a].key = live[b].key => a = b,
         \A n \in DOMAIN policy.declared : \E a \in DOMAIN live : live[a].key = policy.declared[n],
         NEW j \in Managed(live)
  PROVE  live[j].key = policy.declared[Place(live, j)]
PROOF
  <1>1. /\ DOMAIN policy.declared = 1..Len(policy.declared) /\ Len(policy.declared) \in Nat
        /\ \A x, y \in DOMAIN policy.declared : policy.declared[x] = policy.declared[y] => x = y
        /\ \A x \in DOMAIN policy.declared : policy.declared[x] \in Declared
        /\ \A k \in Declared : \E x \in DOMAIN policy.declared : policy.declared[x] = k
    BY PolicyFacts
  <1>2. DOMAIN live = 1..Len(live) /\ Len(live) \in Nat
    BY DEF Sound
  <1>3. \A h : h \in Managed(live) <=> h \in DOMAIN live /\ live[h].key \in Declared
    BY DEF Managed, IsDeclared
  <1>4. PICK x \in DOMAIN policy.declared : live[j].key = policy.declared[x]
    BY <1>1, <1>3
  <1>5. PICK S : S = {h \in Managed(live) : h <= j}
    OBVIOUS
  <1>6. PICK f : f = [n \in 1..x |-> CHOOSE a \in DOMAIN live : live[a].key = policy.declared[n]]
    OBVIOUS
  <1>7. PICK g : g = [h \in S |-> CHOOSE n \in DOMAIN policy.declared : live[h].key = policy.declared[n]]
    OBVIOUS
  <1>8. \A n \in 1..x : n \in DOMAIN policy.declared
    BY <1>1
  <1>9. \A n \in 1..x : f[n] \in DOMAIN live /\ live[f[n]].key = policy.declared[n]
    BY <1>6, <1>8
  <1>10. ASSUME NEW n \in 1..x
         PROVE  f[n] \in S
    <2>1. f[n] \in Managed(live)
      BY <1>1, <1>3, <1>8, <1>9
    <2>2. ~(j < f[n])
      <3>1. j < f[n] => x < n
        BY <1>3, <1>4, <1>8, <1>9 DEF InDeclaredOrder
      <3> QED BY <1>1, <3>1
    <2>3. f[n] \in Nat /\ j \in Nat
      BY <1>2, <1>3, <1>9
    <2> QED BY <1>5, <2>1, <2>2, <2>3
  <1>11. \A h \in S : h \in DOMAIN live /\ g[h] \in DOMAIN policy.declared /\ live[h].key = policy.declared[g[h]]
    BY <1>1, <1>3, <1>5, <1>7
  <1>12. ASSUME NEW h \in S
         PROVE  g[h] \in 1..x
    <2>1. CASE h = j
      BY <1>1, <1>4, <1>11, <2>1
    <2>2. CASE h # j
      <3>1. h < j
        BY <1>2, <1>3, <1>5, <2>2
      <3>2. g[h] < x
        BY <1>3, <1>4, <1>11, <3>1 DEF InDeclaredOrder
      <3> QED BY <1>1, <1>11, <3>2
    <2> QED BY <2>1, <2>2
  <1>13. S = {f[n] : n \in 1..x}
    <2>1. ASSUME NEW h \in S
          PROVE  f[g[h]] = h
      BY <1>9, <1>11, <1>12
    <2> QED BY <1>10, <1>12, <2>1
  <1>14. 1..x = {g[h] : h \in S}
    <2>1. ASSUME NEW n \in 1..x
          PROVE  g[f[n]] = n
      BY <1>1, <1>8, <1>9, <1>10, <1>11
    <2> QED BY <1>10, <1>12, <2>1
  <1>15. IsFiniteSet(1..x) /\ Cardinality(1..x) = x /\ x \in Nat
    <2>1. x \in Nat \ {0}
      BY <1>1
    <2>2. IsFiniteSet(1..x) /\ Cardinality(1..x) = x - 1 + 1
      BY <2>1, FS_Interval
    <2> QED BY <2>1, <2>2
  <1>16. IsFiniteSet(S) /\ Cardinality(S) <= Cardinality(1..x)
    BY <1>13, <1>15, ImageIsSmaller
  <1>17. Cardinality(1..x) <= Cardinality(S)
    <2>1. PICK T : T = 1..x
      OBVIOUS
    <2>2. T = {g[h] : h \in S}
      BY <1>14, <2>1
    <2>3. Cardinality(T) <= Cardinality(S)
      BY <1>16, <2>2, ImageIsSmaller
    <2> QED BY <2>1, <2>3
  <1>18. Cardinality(S) = x
    BY <1>15, <1>16, <1>17, FS_CardinalityType
  <1> QED BY <1>4, <1>5, <1>18 DEF Place

(* At the end of Apply every declared entry is there and as declared. *)
LEMMA DeclaredIsThere ==
  ASSUME CollectionsInv, ~disturbed, whole, ~Ambiguous(seen), ~Unassigned(seen), ~Contradictory,
         \/ pc = "prune"
         \/ pc = "recreate" /\ i > Len(policy.declared),
         NEW n \in DOMAIN policy.declared
  PROVE  \E a \in DOMAIN live : live[a].key = policy.declared[n] /\ live[a].value = policy.values[n]
PROOF
  <1>1. policy \in Policies /\ i \in Nat /\ Settlement /\ Framework /\ Recreating
    BY DEF CollectionsInv, ListTypes
  <1>2. CASE pc = "prune" /\ Is("compliance")
    <2>1. live = <<[id |-> 1, key |-> policy.declared[n], value |-> policy.values[n]]>>
      BY <1>1, <1>2 DEF Framework, Reached
    <2> QED BY <2>1
  <1>3. CASE pc = "prune" /\ ~Is("compliance")
    <2>1. Settled(policy.declared[n], policy.values[n])
      BY <1>1, <1>3 DEF Settlement, Looping, Reached
    <2> QED BY <2>1 DEF Settled
  <1>4. CASE pc = "recreate" /\ i > Len(policy.declared)
    <2>1. Recreated(n)
      BY <1>1, <1>4, PolicyFacts DEF Recreated, ReversePosition
    <2> QED BY <1>1, <1>4, <2>1 DEF Recreating
  <1> QED BY <1>2, <1>3, <1>4

(* And nothing is left that Plan would prune. *)
LEMMA NothingIsStale ==
  ASSUME CollectionsInv, ~disturbed, whole, ~Ambiguous(seen),
         \A a, b \in DOMAIN live : live[a].key = live[b].key => a = b,
         \/ pc = "prune" /\ i > Len(seen)
         \/ pc = "recreate" /\ i > Len(policy.declared),
         NEW j \in DOMAIN live, IsStale(live, j)
  PROVE  FALSE
PROOF
  <1>1. /\ policy \in Policies /\ i \in Nat \ {0} /\ Sound(live) /\ Sound(seen) /\ policy.prune
        /\ Known /\ Leftover /\ GroupLeftover /\ Framework /\ Recreating
    BY DEF CollectionsInv, ListTypes, IsStale
  <1>2. DOMAIN seen = 1..Len(seen) /\ Len(seen) \in Nat
    BY <1>1 DEF Sound
  <1>3. CASE Is("target_branch_rule")
    <2>1. live[j].key \notin Declared /\ pc = "recreate"
      BY <1>3 DEF IsStale, CollectionsInv, Path
    <2>2. PICK n \in DOMAIN policy.declared : live[j].key = policy.declared[n]
      BY <1>1, <2>1 DEF Recreating
    <2> QED BY <1>1, <2>1, <2>2, PolicyFacts
  <1>4. CASE ~Is("target_branch_rule")
    <2>1. pc = "prune" /\ i > Len(seen)
      BY <1>4 DEF CollectionsInv, Path
    <2>2. CASE Is("compliance")
      <3>1. Declared = {}
        BY <2>2 DEF IsStale
      <3>2. live = << >> \/ (live = seen /\ i = 1)
        BY <1>1, <2>1, <2>2, <3>1 DEF Framework
      <3> QED BY <1>2, <2>1, <3>2
    <2>3. CASE ~Is("compliance")
      <3>1. \A b \in DOMAIN seen : ~ToCome(b)
        BY <1>1, <1>2, <2>1 DEF ToCome
      <3>2. live[j].key \notin Declared
        <4>1. \A k \in Declared : Match(live, k) # j
          BY <1>4 DEF IsStale
        <4>2. ASSUME live[j].key \in Declared
              PROVE  FALSE
          <5>1. Match(live, live[j].key) \in DOMAIN live /\ live[Match(live, live[j].key)].key = live[j].key
            BY <1>1, MatchIs
          <5> QED BY <4>1, <4>2, <5>1
        <4> QED BY <4>2
      <3>3. Surplus(live[j])
        BY <1>1, <3>2 DEF Surplus, IsStale
      <3>4. CASE KeepsKeys
        BY <2>1, <2>3, <3>1, <3>3, <3>4, <1>1 DEF Leftover, Looping
      <3>5. CASE Is("group_variable")
        <4>1. PICK x : x = live[j].key
          OBVIOUS
        <4>2. x \in policy.keys /\ live \in Seq(Entry)
          <5>1. live \in Seq(Entry)
            BY <1>1 DEF Sound
          <5>2. PICK e \in Entry : e = live[j]
            BY <5>1
          <5> QED BY <4>1, <5>1, <5>2 DEF Entry
        <4>3. CASE \A k \in Declared : k.name # x.name
          <5>1. Cardinality(Named(KeysOf(live), x)) <= Cardinality(Named(Rest, x))
            BY <1>1, <2>1, <2>3, <3>5, <4>2, <4>3 DEF GroupLeftover, Looping
          <5>2. Named(Rest, x) = {}
            BY <3>1 DEF Named, Rest
          <5>3. x \in Named(KeysOf(live), x)
            BY <4>1 DEF Named, KeysOf
          <5>4. IsFiniteSet(Named(KeysOf(live), x))
            <6>1. Named(KeysOf(live), x) \in SUBSET KeysOf(live)
              BY DEF Named
            <6> QED BY <4>2, <6>1, KeysFacts, FS_Subset
          <5>5. Cardinality(Named(KeysOf(live), x)) = 0
            BY <5>1, <5>2, <5>4, FS_EmptySet, FS_CardinalityType
          <5> QED BY <5>3, <5>4, <5>5, FS_EmptySet
        <4>4. CASE \E k \in Declared : k.name = x.name
          <5>1. PICK k \in Declared : k.name = x.name
            BY <4>4
          <5>2. \A n \in DOMAIN policy.declared : policy.declared[n] \in Declared
            BY <1>1, PolicyFacts
          <5>3. PICK b \in DOMAIN seen : x = seen[b].key
            BY <1>1, <2>1, <2>3, <3>2, <4>1, <5>2 DEF Known, Looping
          <5>4. seen[b].key # k /\ seen[b].key.name = k.name
            BY <3>2, <4>1, <5>1, <5>3
          <5> QED BY <3>5, <5>1, <5>4 DEF Ambiguous
        <4> QED BY <4>3, <4>4
      <3> QED BY <2>3, <3>4, <3>5 DEF KeepsKeys, Is
    <2> QED BY <2>2, <2>3
  <1> QED BY <1>3, <1>4

(* An Apply that ends well leaves nothing for Plan to find. *)
LEMMA EndIsInLine ==
  ASSUME CollectionsInv, ~disturbed, whole, Fits, Copies(live) = 0, ~Ambiguous(seen), ~Unassigned(seen),
         ~Contradictory,
         \/ pc = "prune" /\ i > Len(seen)
         \/ pc = "recreate" /\ i > Len(policy.declared)
  PROVE  InLine
PROOF
  <1>1. policy \in Policies /\ Sound(live) /\ live \in Seq(Entry) /\ PageSize \in Nat
    BY CollectionsAssumption DEF CollectionsInv, ListTypes, Sound
  <1>2. Page(live) = live
    BY <1>1, PageIs DEF Fits
  <1>3. \A a, b \in DOMAIN live : live[a].key = live[b].key => a = b
    BY <1>1, KeysFacts
  <1>4. ~SettingsDiffer
    <2>1. CASE pc = "prune"
      BY <2>1 DEF CollectionsInv, Path, SettingsDiffer
    <2>2. CASE pc = "recreate"
      BY <2>2 DEF CollectionsInv, Path, SettingsDiffer, HasSettings, Is
    <2> QED BY <2>1, <2>2
  <1>5. \A n \in DOMAIN policy.declared : \E a \in DOMAIN live : live[a].key = policy.declared[n] /\ live[a].value = policy.values[n]
    BY DeclaredIsThere
  <1>6. ASSUME NEW n \in DOMAIN policy.declared, NEW k, k = policy.declared[n]
        PROVE  Match(live, k) # 0 /\ IsCompliant(live[Match(live, k)], n)
    <2>1. PICK a \in DOMAIN live : live[a].key = k /\ live[a].value = policy.values[n]
      BY <1>5, <1>6
    <2>2. Match(live, k) \in DOMAIN live /\ live[Match(live, k)].key = k
      BY <1>1, <2>1, MatchIs
    <2>3. Match(live, k) = a
      BY <1>3, <2>1, <2>2
    <2>4. a # 0
      BY <1>1
    <2> QED BY <2>1, <2>3, <2>4 DEF IsCompliant
  <1>7. \A j \in DOMAIN live : ~IsStale(live, j)
    BY <1>3, NothingIsStale
  <1>8. ~OrderDrift(live)
    <2> SUFFICES ASSUME Is("target_branch_rule"), NEW j \in Managed(live)
                 PROVE  live[j].key = policy.declared[Place(live, j)]
      BY DEF OrderDrift
    <2>1. InDeclaredOrder(live)
      BY DEF CollectionsInv, Path, Recreating
    <2> QED BY <1>1, <1>3, <1>5, <2>1, PlaceIsDeclared
  <1> QED BY <1>2, <1>4, <1>6, <1>7, <1>8 DEF InLine, HasChanges

(* Plan depends on the policy, the list and the settings alone. *)
LEMMA LineNext ==
  ASSUME policy' = policy, live' = live, settings' = settings, ~HasChanges(Page(live))
  PROVE  InLine'
PROOF
  <1>1. PICK l : l = Page(live)
    OBVIOUS
  <1>2. Page(live)' = l
    BY <1>1 DEF Page
  <1>3. \A k : Match(l, k)' = Match(l, k)
    BY DEF Match, Is
  <1>4. \A j : IsStale(l, j)' <=> IsStale(l, j)
    BY <1>3 DEF IsStale, Is, Declared
  <1>5. OrderDrift(l)' <=> OrderDrift(l)
    BY DEF OrderDrift, Managed, Place, IsDeclared, Declared, Is
  <1>6. HasChanges(l)' <=> HasChanges(l)
    BY <1>3, <1>4, <1>5 DEF HasChanges, SettingsDiffer, HasSettings, Is, Declared, IsCompliant
  <1>7. InLine' <=> ~HasChanges(l)'
    BY <1>2 DEF InLine, HasChanges, SettingsDiffer, HasSettings, Is, Declared, IsCompliant, IsStale,
                OrderDrift, Managed, Place, IsDeclared, Match
  <1> QED BY <1>1, <1>6, <1>7

(* Only the end of Apply, or a Plan without changes, reports success. *)
LEMMA StepKeepsConvergence ==
  ASSUME CollectionsInv, ListConverges, [CollectionsNext]_collectionsVars
  PROVE  ListConverges'
PROOF
  <1> SUFFICES ASSUME outcome' = "success", ~disturbed', whole', Fits', (Copies(live) = 0)',
                      ~Ambiguous(seen)', ~Unassigned(seen)', ~Contradictory'
               PROVE  InLine'
    BY DEF ListConverges
  <1>1. CASE \E where : BeginApply(where)
    <2>1. PICK where : BeginApply(where)
      BY <1>1
    <2>2. /\ policy' = policy /\ live' = live /\ settings' = settings /\ ~HasChanges(Page(live))
      BY <2>1 DEF BeginApply, PlanOn
    <2> QED BY <2>2, LineNext
  <1>2. CASE UNCHANGED <<policy, live, settings, seen, whole, disturbed>> /\ outcome' = outcome
    <2>1. /\ policy' = policy /\ live' = live /\ settings' = settings /\ seen' = seen
          /\ whole' = whole /\ disturbed' = disturbed /\ outcome' = outcome
      BY <1>2
    <2>2. Fits /\ Copies(live) = 0 /\ ~Ambiguous(seen) /\ ~Unassigned(seen) /\ ~Contradictory
      BY <2>1 DEF Fits, Copies, KeysOf, Ambiguous, Unassigned, Contradictory, Is, Declared
    <2>3. InLine
      BY <2>1, <2>2 DEF ListConverges
    <2> QED BY <2>1, <2>3, LineNext DEF InLine
  <1>3. CASE NextPhase
    <2>1. /\ policy' = policy /\ live' = live /\ settings' = settings /\ seen' = seen
          /\ whole' = whole /\ disturbed' = disturbed
      BY <1>3 DEF NextPhase
    <2>2. Fits /\ Copies(live) = 0 /\ ~Ambiguous(seen) /\ ~Unassigned(seen) /\ ~Contradictory
      BY <2>1 DEF Fits, Copies, KeysOf, Ambiguous, Unassigned, Contradictory, Is, Declared
    <2>3. \/ pc = "prune" /\ i > Len(seen)
          \/ pc = "recreate" /\ i > Len(policy.declared)
      BY <1>3 DEF NextPhase, GoTo, CollectionsInv, Path
    <2>4. InLine
      BY <2>1, <2>2, <2>3, EndIsInLine
    <2> QED BY <2>1, <2>4, LineNext DEF InLine
  <1>4. CASE Drift \/ ApplyFails \/ MisreadFramework
    BY <1>4 DEF Drift, ApplyFails, EndApply, MisreadFramework
  <1>5. CASE pc # "idle" /\ (outcome' = outcome \/ outcome' = "failed")
    BY <1>5 DEF CollectionsInv, Path
  <1>6. CASE ChangeSettings \/ ListAgain \/ Upsert \/ UpdateRunner \/ SetFramework \/ RemoveFramework
             \/ PruneEntry \/ DestroyRule \/ RecreateRule
    BY <1>5, <1>6 DEF ChangeSettings, ListAgain, Upsert, UpdateRunner, SetFramework, RemoveFramework,
             PruneEntry, DestroyRule, RecreateRule, Receive, Skip, GoTo, EndApply
  <1>7. CASE UNCHANGED collectionsVars
    BY <1>2, <1>7 DEF collectionsVars
  <1>8. \/ \E where : BeginApply(where)
        \/ NextPhase \/ Drift \/ ApplyFails \/ MisreadFramework
        \/ ChangeSettings \/ ListAgain \/ Upsert \/ UpdateRunner \/ SetFramework \/ RemoveFramework
        \/ PruneEntry \/ DestroyRule \/ RecreateRule
        \/ UNCHANGED collectionsVars
    BY DEF CollectionsNext, ApplyStep, ApplyVariables, ApplyGroupVariables, ApplyWebhooks,
           ApplyApprovalRules, ApplyTargetBranchRules, ApplyPushRules, ApplyGroupPushRules,
           ApplyProjectSettings, ApplyPipelineRetention, ApplyRunners, ApplyCompliance,
           UpsertVariable, UpsertGroupVariable, UpsertHook, UpsertApprovalRule, UpsertPushRule,
           UpsertGroupPushRule, EditProjectSettings, SetPipelineRetention
  <1> QED BY <1>1, <1>3, <1>4, <1>6, <1>7, <1>8

(* An Apply that reports success, saw the whole list and was not disturbed *)
(* leaves nothing for Plan to find on a list that fits its page, whatever  *)
(* runs before it left half done, unless the policy contradicts itself.    *)
THEOREM ListsConverge == CollectionsSpec => []ListConverges
PROOF
  <1>1. CollectionsInit => ListConverges
    BY DEF CollectionsInit, ListConverges
  <1>2. CollectionsInv /\ ListConverges /\ [CollectionsNext]_collectionsVars => ListConverges'
    BY StepKeepsConvergence
  <1> QED BY <1>1, <1>2, ListIsKept, PTL DEF CollectionsSpec
=============================================================================
