------------------------------ MODULE Invocation ------------------------------
(***************************************************************************)
(* How a run is begun and answered: the Lambda adapter (internal/lambda),  *)
(* the loading of the policy (internal/config), the run command and the    *)
(* license step.  A policy is kept in a bucket; editing it raises an S3    *)
(* event, a schedule raises others, and people send payloads, call the API *)
(* or use the command.  Invocations overlap, AWS delivers an event more    *)
(* than once and kills what takes too long.                                *)
(*                                                                         *)
(* A policy is its number, whether it is valid and its dry_run.  A payload *)
(* has an action, a dry_run and says where the policy is: in the payload   *)
(* as text ("inline") or as an object ("object"), or in the bucket, named  *)
(* by the payload or by the environment ("stored").                        *)
(***************************************************************************)
EXTENDS License, Sequences, FiniteSets

CONSTANTS Slots,       \* invocations that may overlap
          Targets,     \* what the selectors of the policies match
          Policies,    \* what may be put in the bucket
          Payloads,    \* what people send
          Scheduled,   \* what the schedule sends
          S3Records,   \* the records of an S3 event: "policy" or "other" files
          Licenses,    \* what the license step may meet: tokens, clocks, fleets
          Situations,  \* those of them that the runs are followed in
          MaxEdits, MaxManual, MaxFaults

(* What a payload may say (DirectInvocationPayload). *)
PayloadSet ==
  [action : {"none", "plan", "dry_run", "apply", "other"},
   dry : {"on", "off", "unset", "garbled"},
   from : {"inline", "object", "stored"}, own : {"on", "off", "unset"}, valid : BOOLEAN]

ASSUME InvocationAssumption ==
  /\ Targets # {} /\ MaxEdits \in Nat /\ MaxManual \in Nat /\ MaxFaults \in Nat
  /\ \A r \in S3Records : r \in Seq({"policy", "other"}) /\ Len(r) > 0
  /\ Payloads \subseteq PayloadSet /\ Scheduled \subseteq PayloadSet
  /\ Licenses \subseteq SituationSet /\ Situations \subseteq Licenses
  /\ Policies \subseteq [dry : {"on", "off", "unset"}, valid : BOOLEAN]

VARIABLES
  policies,  \* the versions of the policy in the bucket, the last one current
  pending,   \* S3 events that AWS has yet to deliver
  inv,       \* the state of each invocation
  fleet,     \* the policy that each target was last brought in line with
  situation, \* what the license step looks at
  manual,    \* payloads sent so far
  faults     \* failures so far

vars == <<policies, pending, inv, fleet, situation, manual, faults>>

Unset == "unset"
Inline == -1   \* the number of a policy that comes with the payload

Silent == [action |-> "none", dry |-> Unset, from |-> "stored", own |-> Unset, valid |-> TRUE]
Idle == [phase |-> "idle", kind |-> "none", payload |-> Silent, records |-> << >>, event |-> 0,
         version |-> 0, dry |-> TRUE, todo |-> {}, failed |-> {}, errors |-> FALSE,
         matched |-> FALSE, lastDry |-> FALSE, status |-> "none", said |-> FALSE,
         governed |-> {}, wrote |-> FALSE, expired |-> FALSE]

-----------------------------------------------------------------------------
(* SetDefaults and the three later places that read a policy without it. *)
DryDefault(dry) == IF dry = Unset THEN "on" ELSE dry

(* Mutation: an action that is not known is taken for apply. *)
OverrideAnyAction(p) == IF p.action \in {"plan", "dry_run"} THEN "on"
                        ELSE IF p.action # "none" THEN "off" ELSE p.dry
(* ResolveFromDirectPayload: an action says more than dry_run. *)
Override(p) == IF p.action \in {"plan", "dry_run"} THEN "on"
               ELSE IF p.action = "apply" THEN "off" ELSE p.dry

(* applyPayloadOverrides; the flag of the command works in the same way. *)
EffectiveDryRun(p, dry) ==
  (IF Override(p) # Unset THEN Override(p) ELSE DryDefault(dry)) = "on"

(* Mutation: a warm container keeps the first policy it read. *)
CurrentOfContainer == 1
(* Where the policy is read: from the payload or from the bucket, which    *)
(* holds what was put last and not what raised the event.                  *)
Current == Len(policies)
IsOwn(p) == p.from \in {"inline", "object"}
NumberOf(p) == IF IsOwn(p) THEN Inline ELSE Current
DryOf(p) == IF IsOwn(p) THEN p.own ELSE policies[Current].dry

(* LoadFromBytes and Load expand, parse, default and validate; an object   *)
(* in the payload is taken as it is.  A payload that cannot be parsed is   *)
(* refused.                                                                *)
IsLoadable(p) ==
  /\ p.dry # "garbled"
  /\ CASE p.from = "object" -> TRUE
       [] p.from = "inline" -> p.valid
       [] p.from = "stored" -> policies[Current].valid

(* Enforce is asked with the features of the policy; on Lambda also for    *)
(* runtime.lambda.                                                         *)
RequestIn(s, i) ==
  [s EXCEPT !.dryRun = inv[i].dry,
                    !.required = @ \cup IF inv[i].kind = "command" THEN {} ELSE {"runtime.lambda"}]
Request(i) == RequestIn(situation, i)

-----------------------------------------------------------------------------
Init ==
  /\ policies \in {<<p>> : p \in {q \in Policies : q.valid}}
  /\ pending = {}
  /\ inv = [i \in Slots |-> Idle]
  /\ fleet = [t \in Targets |-> 0]
  /\ situation \in Situations
  /\ manual = 0
  /\ faults = 0

Fault == faults < MaxFaults /\ faults' = faults + 1
NoFault == UNCHANGED faults

(* A call fails by itself, or since the context of the run is done. *)
CallFails(i) == Fault \/ (inv[i].expired /\ NoFault)

(* An operator puts another version; S3 raises an event for it. *)
EditPolicy ==
  /\ Len(policies) <= MaxEdits
  /\ \E p \in Policies : policies' = Append(policies, p)
  /\ pending' = pending \cup {Len(policies) + 1}
  /\ UNCHANGED <<inv, fleet, situation, manual, faults>>

(* DetectEventType and the four handlers; the loop over the records of an  *)
(* S3 event skips what is not a configuration.                             *)
IsAtRest(i) == inv[i].phase \in {"idle", "answered"}
Begin(i, kind, p, records, event) ==
  /\ IsAtRest(i)
  /\ inv' = [inv EXCEPT ![i] = [Idle EXCEPT !.phase = "load", !.kind = kind, !.payload = p,
                                            !.records = records, !.event = event]]

S3Event(i) ==
  /\ \E n \in pending, r \in S3Records :
       /\ Begin(i, "s3", Silent, r, n)
       /\ \/ pending' = pending \ {n} /\ NoFault
          \/ pending' = pending /\ Fault
  /\ UNCHANGED <<policies, fleet, situation, manual>>

(* What of the detail of a scheduled event cannot be parsed is ignored. *)
Decoded(p) == IF p.dry = "garbled" THEN [p EXCEPT !.dry = Unset] ELSE p

ScheduledEvent(i) ==
  /\ \E p \in Scheduled : Begin(i, "schedule", Decoded(p), << >>, 0)
  /\ UNCHANGED <<policies, pending, fleet, situation, manual, faults>>

(* A direct payload, one in the body of an API call, or the command. *)
ManualEvent(i) ==
  /\ manual < MaxManual /\ manual' = manual + 1
  /\ \E p \in Payloads, k \in {"direct", "command"} :
       /\ k = "command" => p.action = "none" /\ p.from = "stored"
       /\ Begin(i, k, p, << >>, 0)
  /\ UNCHANGED <<policies, pending, fleet, situation, faults>>

(* The answer: BuildErrorResponse, BuildLambdaResponse, the end of the S3  *)
(* handler, the exit code of the command.                                  *)
Answered(status, said) == [Idle EXCEPT !.phase = "answered", !.status = status, !.said = said]

(* S3: the next record, or the answer when it was the last. *)
StatusOfRecords(r) == IF ~r.errors THEN "SUCCESS"
                      ELSE IF r.matched THEN "PARTIAL_SUCCESS" ELSE "FAILED"
AfterRecord(r) ==
  IF Len(r.records) > 1 THEN [r EXCEPT !.phase = "load", !.records = Tail(@)]
  ELSE Answered(StatusOfRecords(r), r.lastDry)

(* What fails before a target is reached. *)
FailedEarly(i, said) ==
  IF inv[i].kind = "s3" THEN AfterRecord([inv[i] EXCEPT !.errors = TRUE])
  ELSE Answered("FAILED", said)

SkipRecord(i) ==
  /\ inv[i].phase = "load" /\ inv[i].records # << >> /\ Head(inv[i].records) = "other"
  /\ inv' = [inv EXCEPT ![i] = AfterRecord(inv[i])]
  /\ UNCHANGED <<policies, pending, fleet, situation, manual, faults>>

IsReading(i) == /\ inv[i].phase = "load"
                /\ inv[i].records # << >> => Head(inv[i].records) = "policy"

LoadPolicy(i) ==
  LET p == inv[i].payload
      dry == EffectiveDryRun(p, DryOf(p))
  IN /\ IsReading(i) /\ IsLoadable(p)
     /\ inv' = [inv EXCEPT ![i] = [@ EXCEPT !.phase = "engine", !.version = NumberOf(p),
                                            !.dry = dry, !.lastDry = dry]]
     /\ UNCHANGED <<policies, pending, fleet, situation, manual, faults>>

LoadFails(i) ==
  /\ IsReading(i)
  /\ \/ ~IsLoadable(inv[i].payload) /\ NoFault
     \/ inv[i].payload.from = "stored" /\ CallFails(i)
  /\ inv' = [inv EXCEPT ![i] = FailedEarly(i, FALSE)]
  /\ UNCHANGED <<policies, pending, fleet, situation, manual>>

(* executeEngine: the client, discovery and the license, then the targets. *)
BeginTargets(i) ==
  /\ inv[i].phase = "engine" /\ Enforce(Request(i))
  /\ inv' = [inv EXCEPT ![i].phase = "run", ![i].todo = Targets]
  /\ UNCHANGED <<policies, pending, fleet, situation, manual, faults>>

EngineFails(i) ==
  /\ inv[i].phase = "engine"
  /\ \/ ~Enforce(Request(i)) /\ NoFault
     \/ CallFails(i)
  /\ inv' = [inv EXCEPT ![i] = FailedEarly(i, inv[i].dry)]
  /\ UNCHANGED <<policies, pending, fleet, situation, manual>>

(* Plan reads; Apply writes.  A target may fail in both. *)
Govern(i, t) ==
  /\ inv[i].phase = "run" /\ t \in inv[i].todo
  /\ inv' = [inv EXCEPT ![i].todo = @ \ {t}, ![i].governed = @ \cup {t},
                        ![i].wrote = @ \/ ~inv[i].dry]
  /\ fleet' = IF inv[i].dry THEN fleet ELSE [fleet EXCEPT ![t] = inv[i].version]
  /\ UNCHANGED <<policies, pending, situation, manual, faults>>

GovernFails(i, t) ==
  /\ inv[i].phase = "run" /\ t \in inv[i].todo /\ CallFails(i)
  /\ inv' = [inv EXCEPT ![i].todo = @ \ {t}, ![i].failed = @ \cup {t}]
  /\ UNCHANGED <<policies, pending, fleet, situation, manual>>

(* Mutation: failed targets are forgotten as soon as one was matched. *)
StatusIfMatched(i) == "SUCCESS"
(* BuildLambdaResponse; executeRun returns an error when any target failed. *)
StatusOfRun(i) ==
  CASE inv[i].failed = {} -> "SUCCESS"
    [] inv[i].failed # {} /\ inv[i].kind # "command" -> "PARTIAL_SUCCESS"
    [] OTHER -> "FAILED"

(* The engine returns: every target is done, or the context is, and then   *)
(* the targets that no worker took are dropped without an error.           *)
(* mergeEngineResult adds up the numbers and leaves the errors of the      *)
(* targets behind; the other handlers answer with them.                    *)
EndRun(i) ==
  /\ inv[i].phase = "run" /\ (inv[i].todo = {} \/ inv[i].expired)
  /\ inv' = [inv EXCEPT ![i] = IF inv[i].kind = "s3"
                               THEN AfterRecord([inv[i] EXCEPT !.matched = TRUE])
                               ELSE Answered(StatusOfRun(i), inv[i].dry)]
  /\ UNCHANGED <<policies, pending, fleet, situation, manual, faults>>

(* HandleRequest recovers a panic; the command dies of it. *)
Panic(i) ==
  /\ inv[i].phase \in {"load", "engine", "run"} /\ inv[i].kind # "command" /\ Fault
  /\ inv' = [inv EXCEPT ![i] = Answered("FAILED", FALSE)]
  /\ UNCHANGED <<policies, pending, fleet, situation, manual>>

(* The context of the run is done: --timeout or a signal to the command,   *)
(* the deadline of the function.  Calls fail from then on, although what   *)
(* was asked before may still be answered.                                 *)
Expire(i) ==
  /\ inv[i].phase \in {"load", "engine", "run"} /\ ~inv[i].expired /\ Fault
  /\ inv' = [inv EXCEPT ![i].expired = TRUE]
  /\ UNCHANGED <<policies, pending, fleet, situation, manual>>

(* The process is ended at once.  AWS delivers an S3 event again that was  *)
(* not answered; an answer that says FAILED is an answer.                  *)
Kill(i) ==
  /\ inv[i].phase \in {"load", "engine", "run"} /\ Fault
  /\ inv' = [inv EXCEPT ![i] = Idle]
  /\ pending' = IF inv[i].kind = "s3" THEN pending \cup {inv[i].event} ELSE pending
  /\ UNCHANGED <<policies, fleet, situation, manual>>

Work(i) == \/ SkipRecord(i) \/ LoadPolicy(i) \/ LoadFails(i) \/ BeginTargets(i) \/ EngineFails(i)
           \/ EndRun(i) \/ \E t \in Targets : Govern(i, t) \/ GovernFails(i, t)

Next == \/ EditPolicy
        \/ \E i \in Slots : \/ S3Event(i) \/ ScheduledEvent(i) \/ ManualEvent(i)
                            \/ Work(i) \/ Panic(i) \/ Expire(i) \/ Kill(i)

(* An invocation goes on until it ends or is killed; the schedule goes on. *)
Fairness == \A i \in Slots : WF_vars(Work(i)) /\ WF_vars(ScheduledEvent(i))
Spec == Init /\ [][Next]_vars /\ Fairness

-----------------------------------------------------------------------------
(* GitLab is written only under a valid policy, when the last word on       *)
(* dry_run is that it is off: no action asks for a plan, and the action,    *)
(* or else dry_run of the payload, or else the policy that this invocation  *)
(* read (perhaps replaced since, and perhaps while others run under         *)
(* another) says so.  Nothing at all being said means a dry run.            *)
WritesAreAuthorized ==
  [][\A i \in Slots, t \in Targets :
       (t \in inv[i].todo \ inv'[i].todo /\ fleet'[t] # fleet[t]) =>
         LET p == inv[i].payload
             policy == IF inv[i].version = Inline THEN [dry |-> p.own, valid |-> p.valid]
                       ELSE policies[inv[i].version]
         IN /\ p.action \notin {"plan", "dry_run"}
            /\ \/ p.action = "apply"
               \/ p.dry = "off"
               \/ p.dry = Unset /\ policy.dry = "off"
            /\ p.from # "object" => policy.valid]_vars

(* An answer does not promise more than was done: SUCCESS means that no     *)
(* target failed, that no policy was unreadable and that every target was   *)
(* governed, unless the context of the run was done before (the engine then *)
(* drops targets and reports no error); PARTIAL_SUCCESS that some target    *)
(* failed, dry_run that nothing was written.  The answer to an S3 event is  *)
(* weaker, since the errors of targets are not merged and dry_run is that   *)
(* of the last record: its PARTIAL_SUCCESS means that every target was      *)
(* reached, with the same exception (BuildLambdaResponse, handleS3Event,    *)
(* executeRun).                                                             *)
AnswerIsTruthful ==
  [][\A i \in Slots : inv[i].phase # "answered" /\ inv'[i].phase = "answered" =>
       LET answer == inv'[i]
       IN /\ answer.status = "SUCCESS" => ~inv[i].errors
          /\ inv[i].kind # "s3" =>
               /\ answer.status = "SUCCESS" =>
                    inv[i].failed = {} /\ (inv[i].expired \/ inv[i].governed = Targets)
               /\ answer.status = "PARTIAL_SUCCESS" => inv[i].failed # {}
               /\ answer.said => ~inv[i].wrote
          /\ answer.status = "PARTIAL_SUCCESS" /\ inv[i].kind = "s3" =>
               inv[i].expired \/ inv[i].governed \cup inv[i].failed = Targets]_vars

(* Who may govern a fleet for real: anybody once the release is free by the *)
(* clock of GitLab, a small fleet with free features, and the holder of a   *)
(* license that covers all of it on the day, give or take an hour.          *)
Clock(s) == IF s.server = Unknown THEN s.local ELSE s.server
MayGovern(s) ==
  \/ IsApacheConverted(s, Clock(s))
  \/ ResolveToken(s) = NoToken /\ s.projects <= FreeTierMaxProjects
                              /\ s.required \subseteq CommunityFeatures
  \/ \E t \in Tokens \cap {s.key, s.file, s.found} :
       LET a == Attributes[t]
       IN /\ a.signed /\ ~a.revoked /\ a.until + 1 >= Clock(s)
          /\ a.maxProjects = 0 \/ s.projects <= a.maxProjects
          /\ a.hosts = {} \/ s.host \in a.hosts
          /\ a.namespaces = {} \/ s.paths \subseteq a.namespaces
          /\ \A f \in (s.required \cap EnterpriseFeatures) \ a.features : a.plan = "enterprise"
          /\ \A f \in (s.required \cap ProFeatures) \ a.features : a.plan \in {"pro", "enterprise"}

(* The license step lets a run change GitLab only if it may, whatever the   *)
(* local clock says, and refuses no simulation whose token can be read nor  *)
(* a free use (Enforce).                                                    *)
LicenseIsEnforced ==
  \A i \in Slots : inv[i].phase = "engine" => \A l \in Licenses :
    LET s == RequestIn(l, i)
    IN /\ Enforce(s) /\ ~s.dryRun => MayGovern(s)
       /\ s.dryRun /\ ResolveToken(s) # Unreadable => Enforce(s)
       /\ /\ ResolveToken(s) = NoToken
          /\ s.projects <= FreeTierMaxProjects /\ s.required \subseteq CommunityFeatures
          => Enforce(s)

(* Once the policy is no longer edited, the fleet comes to be governed by   *)
(* the last version, if that is valid, live and licensed: although events   *)
(* are delivered late, twice or never answered, invocations overlap and an  *)
(* older version may be written after a newer one, and a failed answer is   *)
(* not retried.  It is the schedule that repairs this.                      *)
LatestPolicyWins ==
  LET last == policies[Len(policies)]
      live == [situation EXCEPT !.dryRun = FALSE, !.required = @ \cup {"runtime.lambda"}]
  IN <>[](last.valid /\ last.dry = "off" /\ Enforce(live)
          => \A t \in Targets : fleet[t] = Len(policies))
=============================================================================
