------------------------------ MODULE Protection ------------------------------
(***************************************************************************)
(* The reconcilers of protected branches, tags and environments            *)
(* (internal/governance/protected*.go) on one project, run again and again *)
(* by a schedule, while administrators change protections by hand.         *)
(*                                                                         *)
(* The three share one shape.  Apply lists what is protected, and per rule *)
(* creates a missing protection, leaves a compliant one, and replaces a    *)
(* drifted one by Unprotect and then Protect; branches have a PATCH for    *)
(* the code-owner flag, tags and environments ignore an error of Unprotect *)
(* and can prune.  Rules of environments may have wildcards, which are     *)
(* expanded over the environments that exist.                              *)
(*                                                                         *)
(* A setting is its access levels and one more attribute: the flags of a   *)
(* branch, the approvals of an environment; tags have none.  The validator *)
(* refuses two rules for one tag or environment, but not for one branch:   *)
(* Apply takes the rules of a branch in their order and compares each with *)
(* what it was told at its beginning.  The order of rules for different    *)
(* names does not matter, and any is considered.  With no rule and no      *)
(* pruning Apply returns at once: the run below with nothing to do.        *)
(***************************************************************************)
EXTENDS Naturals, Sequences, FiniteSets

CONSTANTS Names,     \* the branches, tags or environments there can be
          Access,    \* the access levels a protection can have
          Policies,  \* the policies considered
          MaxFaults, \* failing calls, crashes and changes by hand, altogether
          Unset,     \* a rule does not set the attribute
          NoProt     \* not protected

Settings == [access : Access, flag : BOOLEAN]
Rules == [names : SUBSET Names, wild : BOOLEAN,
          access : Access \cup {Unset}, flag : BOOLEAN \cup {Unset}]

ASSUME ProtectionAssumption ==
  /\ IsFiniteSet(Names) /\ MaxFaults \in Nat /\ NoProt \notin Settings
  /\ \A p \in Policies :
       /\ p.kind \in {"branch", "tag", "env"} /\ p.prune \in BOOLEAN
       /\ p.rules \in Seq(Rules)
       /\ p.kind = "branch" => ~p.prune
       /\ \A i \in 1..Len(p.rules) :
            p.rules[i].wild \/ Cardinality(p.rules[i].names) = 1
       /\ p.kind # "env" => \A i \in 1..Len(p.rules) : ~p.rules[i].wild
       /\ p.kind = "tag" => \A i, j \in 1..Len(p.rules) :
                              p.rules[i].names = p.rules[j].names => i = j

VARIABLES
  policy,    \* the policy, an input
  exists,    \* the environments that exist, an input
  live,      \* what GitLab has for each name
  snap,      \* liveMap: what Apply was told
  todo,      \* the expanded rules Apply has still to look at
  current,   \* the rule between its Unprotect and its Protect
  pc,        \* "idle", "rules" or, between Unprotect and Protect, "recreate"
  outcome,   \* how the last Apply ended: "none", "success" or "failed"
  partial,   \* it did not see all environments
  clean,     \* it began with nothing to do
  disturbed, \* somebody changed a protection since it began
  faults     \* the number of faults so far

vars == <<policy, exists, live, snap, todo, current, pc, outcome, partial, clean,
          disturbed, faults>>
inputs == <<policy, exists>>
flags == <<partial, clean, disturbed>>

Protected(l) == {n \in Names : l[n] # NoProt}

-----------------------------------------------------------------------------
(* expandRules, for environments: a wildcard stands for the candidates it  *)
(* matches, and the first rule that names an environment has it.  Every    *)
(* rule of a branch or of a tag counts.                                    *)
Targets(rule, candidates) == IF rule.wild THEN rule.names \cap candidates ELSE rule.names

Counts(p, candidates, i, n) ==
  /\ n \in Targets(p.rules[i], candidates)
  /\ p.kind = "env" => \A j \in 1..(i - 1) : n \notin Targets(p.rules[j], candidates)

RuleFor(p, i, n) ==
  [name |-> n, at |-> i, access |-> p.rules[i].access, flag |-> p.rules[i].flag]

ExpandRules(p, candidates) ==
  UNION {{RuleFor(p, i, n) : n \in {m \in Names : Counts(p, candidates, i, m)}} :
           i \in 1..Len(p.rules)}

IsManaged(n) == \E i \in 1..Len(policy.rules) : n \in policy.rules[i].names

(* buildUpdateDiff: the attributes that the rule sets and that differ. *)
UpdateDiff(setting, c) ==
  {a \in {"access", "flag"} : c[a] # Unset /\ setting[a] # c[a]}

(* Mutation: the second attribute is not sent. *)
ProtectOptionsOnlyAccess(c) == {s \in Settings : c.access # Unset => s.access = c.access}
(* toProtectOptions: GitLab chooses a default for what the rule leaves out. *)
ProtectOptions(c) ==
  {s \in Settings : \A a \in {"access", "flag"} : c[a] # Unset => s[a] = c[a]}

(* Plan, on the protections l and the candidates for wildcards. *)
Plan(l, candidates) ==
  {c.name : c \in {c \in ExpandRules(policy, candidates) :
                     l[c.name] = NoProt \/ UpdateDiff(l[c.name], c) # {}}}
  \cup (IF policy.prune THEN {n \in Protected(l) : ~IsManaged(n)} ELSE {})

-----------------------------------------------------------------------------
(* GitLab's answers to a change of n to the setting s that it accepts: it  *)
(* is made, it is made and the answer is lost, or the call fails.  A       *)
(* second Protect, or the Unprotect of what is not protected, is refused.  *)
Done(l) == [live |-> l, ok |-> TRUE, faults |-> 0]
Refused == {[live |-> live, ok |-> FALSE, faults |-> 0]}
Failed(l) == [live |-> l, ok |-> FALSE, faults |-> 1]

Change(n, s) == LET l == [live EXCEPT ![n] = s] IN {Done(l), Failed(l), Failed(live)}

ProtectCall(c) ==
  IF live[c.name] # NoProt THEN Refused
  ELSE UNION {Change(c.name, s) : s \in ProtectOptions(c)}

UnprotectCall(n) == IF live[n] = NoProt THEN Refused ELSE Change(n, NoProt)

PatchCall(c) ==
  IF live[c.name] = NoProt THEN Refused
  ELSE Change(c.name, [live[c.name] EXCEPT !.flag = c.flag])

(* The call is made, with one of its answers. *)
Receive(answer) ==
  /\ live' = answer.live
  /\ faults' = faults + answer.faults /\ faults' <= MaxFaults

Fault == faults' = faults + 1 /\ faults' <= MaxFaults

-----------------------------------------------------------------------------
Init ==
  /\ policy \in Policies /\ exists \in SUBSET Names
  /\ live \in [Names -> Settings \cup {NoProt}]
  /\ snap = live /\ todo = {} /\ current = Unset
  /\ pc = "idle" /\ outcome = "none"
  /\ partial = FALSE /\ clean = FALSE /\ disturbed = FALSE /\ faults = 0

EndApply(how) ==
  /\ pc' = "idle" /\ outcome' = how
  /\ todo' = {} /\ current' = Unset

(* Apply begins: it lists the protections and expands the rules. *)
BeginApply(candidates) ==
  /\ pc = "idle"
  /\ pc' = "rules" /\ outcome' = "none"
  /\ snap' = live /\ todo' = ExpandRules(policy, candidates)
  /\ clean' = (Plan(live, candidates) = {}) /\ disturbed' = FALSE
  /\ UNCHANGED <<inputs, live, current>>

ApplyBranches ==
  /\ policy.kind = "branch" /\ BeginApply({}) /\ partial' = FALSE /\ UNCHANGED faults

ApplyTags ==
  /\ policy.kind = "tag" /\ BeginApply({}) /\ partial' = FALSE /\ UNCHANGED faults

(* The listing of the environments stops at its first error, and Apply     *)
(* goes on with what it has.                                               *)
ApplyEnvironments ==
  /\ policy.kind = "env"
  /\ \E seen \in SUBSET exists :
       /\ BeginApply(seen \cup Protected(live))
       /\ partial' = (seen # exists)
       /\ IF seen = exists THEN UNCHANGED faults ELSE Fault

(* The protections cannot be listed. *)
FetchFails ==
  /\ pc = "idle"
  /\ Fault /\ EndApply("failed")
  /\ UNCHANGED <<inputs, live, snap, flags>>

(* A user or a group that a rule names cannot be resolved. *)
ResolveFails ==
  /\ pc = "rules" /\ todo # {} /\ policy.kind # "branch"
  /\ Fault /\ EndApply("failed")
  /\ UNCHANGED <<inputs, live, snap, flags>>

(* The rule c is done, or its call failed and Apply returns the error. *)
FinishRule(c, ok) ==
  /\ IF ok THEN /\ pc' = "rules" /\ todo' = todo \ {c} /\ current' = Unset
                /\ UNCHANGED outcome
           ELSE EndApply("failed")
  /\ UNCHANGED <<inputs, snap, flags>>

(* No rule for the same name comes before c. *)
IsNext(c) == c \in todo /\ \A d \in todo : d.name = c.name => c.at <= d.at

LeaveCompliant(c) ==
  /\ pc = "rules" /\ IsNext(c)
  /\ snap[c.name] # NoProt /\ UpdateDiff(snap[c.name], c) = {}
  /\ FinishRule(c, TRUE)
  /\ UNCHANGED <<live, faults>>

CreateProtection(c) ==
  /\ pc = "rules" /\ IsNext(c)
  /\ snap[c.name] = NoProt
  /\ \E answer \in ProtectCall(c) : Receive(answer) /\ FinishRule(c, answer.ok)

HasDrifted(c) == snap[c.name] # NoProt /\ UpdateDiff(snap[c.name], c) # {}

(* Mutation: the code-owner flag differs, whatever else does. *)
CodeOwnerChanged(c) == policy.kind = "branch" /\ "flag" \in UpdateDiff(snap[c.name], c)
(* isOnlyCodeOwnerApprovalChanged *)
OnlyCodeOwnerChanged(c) == policy.kind = "branch" /\ UpdateDiff(snap[c.name], c) = {"flag"}

PatchBranch(c) ==
  /\ pc = "rules" /\ IsNext(c)
  /\ HasDrifted(c) /\ OnlyCodeOwnerChanged(c)
  /\ \E answer \in PatchCall(c) : Receive(answer) /\ FinishRule(c, answer.ok)

(* Recreate: on a branch an error of Unprotect ends Apply, on a tag or an  *)
(* environment it is ignored.                                              *)
UnprotectBranch(c) ==
  /\ pc = "rules" /\ IsNext(c) /\ policy.kind = "branch"
  /\ HasDrifted(c) /\ ~OnlyCodeOwnerChanged(c)
  /\ \E answer \in UnprotectCall(c.name) :
       /\ Receive(answer)
       /\ IF answer.ok THEN pc' = "recreate" /\ current' = c /\ UNCHANGED <<todo, outcome>>
                       ELSE EndApply("failed")
  /\ UNCHANGED <<inputs, snap, flags>>

UnprotectTagOrEnv(c) ==
  /\ pc = "rules" /\ IsNext(c) /\ policy.kind # "branch"
  /\ HasDrifted(c)
  /\ \E answer \in UnprotectCall(c.name) : Receive(answer)
  /\ pc' = "recreate" /\ current' = c
  /\ UNCHANGED <<inputs, snap, flags, todo, outcome>>

(* Mutation: the error of Protect is ignored as that of Unprotect is. *)
ReprotectIgnoresError ==
  /\ pc = "recreate"
  /\ \E answer \in ProtectCall(current) : Receive(answer) /\ FinishRule(current, TRUE)
Reprotect ==
  /\ pc = "recreate"
  /\ \E answer \in ProtectCall(current) : Receive(answer) /\ FinishRule(current, answer.ok)

(* Mutation: the rules that were expanded are not looked at. *)
StaleWithManaged == IF policy.prune THEN Protected(snap) ELSE {}
Stale == IF policy.prune THEN {n \in Protected(snap) : ~IsManaged(n)} ELSE {}

(* After the rules, the protections that no rule manages are pruned.  One  *)
(* that was pruned is taken out of snap, as the loop over liveEnvs moves on. *)
Prune(n) ==
  /\ pc = "rules" /\ todo = {} /\ n \in Stale
  /\ \E answer \in UnprotectCall(n) :
       /\ Receive(answer)
       /\ IF answer.ok THEN /\ snap' = [snap EXCEPT ![n] = NoProt]
                            /\ UNCHANGED <<pc, todo, current, outcome>>
                       ELSE EndApply("failed") /\ UNCHANGED snap
  /\ UNCHANGED <<inputs, flags>>

Succeed ==
  /\ pc = "rules" /\ todo = {} /\ Stale = {}
  /\ EndApply("success")
  /\ UNCHANGED <<inputs, live, snap, flags, faults>>

(* The process is killed: a Lambda that timed out, a job that was stopped. *)
Crash ==
  /\ pc # "idle"
  /\ Fault /\ EndApply("failed")
  /\ UNCHANGED <<inputs, live, snap, flags>>

(* An administrator changes a protection by hand. *)
Drift(n) ==
  /\ Fault
  /\ \E s \in (Settings \cup {NoProt}) \ {live[n]} : live' = [live EXCEPT ![n] = s]
  /\ disturbed' = TRUE
  /\ UNCHANGED <<inputs, snap, todo, current, pc, outcome, partial, clean>>

ApplyStep ==
  \/ ApplyBranches \/ ApplyTags \/ ApplyEnvironments
  \/ \E c \in todo : \/ LeaveCompliant(c) \/ CreateProtection(c) \/ PatchBranch(c)
                     \/ UnprotectBranch(c) \/ UnprotectTagOrEnv(c)
  \/ Reprotect \/ Succeed \/ \E n \in Names : Prune(n)

Next == \/ ApplyStep \/ FetchFails \/ ResolveFails \/ Crash
        \/ \E n \in Names : Drift(n)

Spec == Init /\ [][Next]_vars

(* The schedule starts Apply again and again, and Apply goes on. *)
FairSpec == Spec /\ WF_vars(ApplyStep)

-----------------------------------------------------------------------------
(* An environment that does not exist has an exact rule below a wildcard   *)
(* that matches it: the run that protects it follows the exact rule, and   *)
(* the next one finds it and follows the wildcard.                         *)
Shadowed ==
  \E i, j \in 1..Len(policy.rules) :
    /\ i < j /\ policy.rules[i].wild /\ ~policy.rules[j].wild
    /\ policy.rules[j].names \subseteq policy.rules[i].names \ exists

(* Two rules are for one branch.  The second one is compared with what the *)
(* first one has already replaced, and may undo it: Apply reports success, *)
(* and the next run does the same again.                                   *)
Repeated ==
  /\ policy.kind = "branch"
  /\ \E i, j \in 1..Len(policy.rules) :
       i # j /\ policy.rules[i].names = policy.rules[j].names

(* An Apply that reports success, saw the whole project and was not        *)
(* disturbed leaves nothing for Plan to find, if the policy has one rule   *)
(* for a branch: recreating, patching, creating and pruning together reach *)
(* exactly what Plan compares with, also when calls before it failed half  *)
(* way or an error was ignored.                                            *)
Converges ==
  outcome = "success" /\ ~disturbed /\ ~partial /\ ~Shadowed /\ ~Repeated
    => Plan(live, exists \cup Protected(live)) = {}

(* What was protected when a run began and is managed by the policy is     *)
(* never left open by a run that reports success: a recreation that lost   *)
(* its Protect is reported, even if the environments were listed in part   *)
(* or a branch has two rules.                                              *)
GapIsReported ==
  outcome = "success" /\ ~disturbed
    => \A n \in Protected(snap) : IsManaged(n) => live[n] # NoProt

(* A run that begins with nothing to do writes nothing: no protection is   *)
(* recreated, and so opened for a moment, without need.                    *)
CompliantIsLeftAlone ==
  [][pc # "idle" /\ clean /\ ~disturbed' => live' = live]_vars

(* Once calls succeed and nobody interferes, the schedule brings every     *)
(* project into line for good, unless a branch has two rules: no lost      *)
(* answer, gap or crash in the middle of a recreation leaves a state that  *)
(* the next runs do not repair.                                            *)
EventuallyGoverned == <>[](Repeated \/ Plan(live, exists \cup Protected(live)) = {})
=============================================================================
