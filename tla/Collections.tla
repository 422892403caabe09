------------------------------ MODULE Collections ------------------------------
(***************************************************************************)
(* The reconcilers of a project's collections and settings (variables.go,  *)
(* webhooks.go, approvalrules.go, targetbranchrules.go, pushrules.go,      *)
(* projectsettings.go, pipelineretention.go, runners.go and compliance.go  *)
(* of internal/governance), run again and again by a schedule while people *)
(* change entries by hand.                                                 *)
(*                                                                         *)
(* Variables, webhooks and approval rules share one shape: Plan lists and  *)
(* compares; if anything differs, Apply lists again, creates or updates    *)
(* every declared entry in turn and deletes what it matched with none.     *)
(* Target branch rules have no update and are matched from the top, where  *)
(* GitLab puts the newest: Apply destroys them and creates them in reverse. *)
(* Settings are a list of one entry, read once: push rules may be missing, *)
(* a project's own settings never are, a compliance framework is replaced  *)
(* as a whole.  Runners can only be updated.                               *)
(*                                                                         *)
(* All of them read only the first page of a listing.  An entry is its key *)
(* (a variable's name and scope, a hook's normalised URL, a rule's name)   *)
(* and one value for the attributes that Plan compares.  The validator     *)
(* refuses a variable or a target branch rule that is declared twice, but  *)
(* not a webhook, an approval rule or a runner.                            *)
(***************************************************************************)
EXTENDS Integers, FiniteSets, FiniteSetsExt, SequencesExt

CONSTANTS Policies,   \* the policies considered
          System,     \* names of approval rules that are not regular ones
          PageSize,   \* entries on the first page of a listing
          MaxEntries, \* GitLab's limit on the entries of a project
          MaxFaults   \* failing calls, crashes and changes by hand

Kinds == {"project_variable", "group_variable", "webhook", "approval_rule",
          "target_branch_rule", "push_rule", "group_push_rule", "project_setting",
          "pipeline_retention", "runner", "compliance"}
(* Those of one entry, and those that have nothing to prune. *)
Single == {"push_rule", "group_push_rule", "project_setting", "pipeline_retention",
           "compliance"}
Unpruned == (Single \ {"compliance"}) \cup {"runner"}
(* Those whose keys validateVariables, validateTargetBranchRules compare. *)
Validated == {"project_variable", "group_variable", "target_branch_rule"}

ASSUME CollectionsAssumption ==
  /\ PageSize \in Nat \ {0} /\ MaxEntries \in Nat /\ MaxFaults \in Nat
  /\ \A p \in Policies :
       /\ p.kind \in Kinds /\ p.prune \in BOOLEAN
       /\ IsFiniteSet(p.keys) /\ p.declared \in Seq(p.keys)
       /\ p.values \in [DOMAIN p.declared -> Nat \ {0}]
       /\ p.kind \in Validated => IsInjective(p.declared)
       /\ p.kind \in Single => Len(p.declared) <= 1
       /\ p.kind \in Unpruned => ~p.prune
       /\ p.kind \in Single \ {"compliance"} => p.keys = Range(p.declared)

VARIABLES
  policy,    \* the policy, an input: kind, declared keys in order with their
             \* values, prune, and the keys there can be
  live,      \* the entries GitLab has, in the order in which it lists them
  settings,  \* the project's approval or runner settings are as declared
  seen,      \* existingHooks, liveVars, liveRules: Apply's last listing
  whole,     \* its listings were not cut at the page
  i,         \* the position of the loop that Apply is in
  pc,        \* where Apply is
  outcome,   \* how the last Apply ended
  disturbed, \* something it was not told of: somebody changed an entry since
             \* it began, or GraphQL answered an error with status 200
  faults     \* the number of faults so far

collectionsVars ==
  <<policy, live, settings, seen, whole, i, pc, outcome, disturbed, faults>>

Is(kind) == policy.kind = kind
Declared == Range(policy.declared)
KeysOf(l) == {l[j].key : j \in DOMAIN l}
Page(l) == SubSeq(l, 1, IF Len(l) < PageSize THEN Len(l) ELSE PageSize)

-----------------------------------------------------------------------------
(* Mutation: a drifted entry is not recognised. *)
MatchCompliant(l, k) ==
  LET at == {j \in DOMAIN l : l[j].key = k /\ l[j].value # 0} IN IF at = {} THEN 0 ELSE Max(at)
(* existingMap: of several entries with one key the last one counts; of    *)
(* several runners with one description the first.                         *)
Match(l, k) ==
  LET at == {j \in DOMAIN l : l[j].key = k}
  IN IF at = {} THEN 0 ELSE IF Is("runner") THEN Min(at) ELSE Max(at)

(* What pruning deletes: what matched no declared entry.  Code-owner and   *)
(* report approval rules are left alone, and so is a compliance framework  *)
(* that is about to be replaced.                                           *)
IsStale(l, j) ==
  /\ policy.prune
  /\ IF Is("target_branch_rule") THEN l[j].key \notin Declared
                                 ELSE \A k \in Declared : Match(l, k) # j
  /\ Is("approval_rule") => l[j].key.name \notin System
  /\ Is("compliance") => Declared = {}

IsDeclared(e) == e.key \in Declared
(* liveSequence: the declared rules of a listing, and a rule's place there. *)
Managed(l) == {j \in DOMAIN l : IsDeclared(l[j])}
Place(l, j) == Cardinality({h \in Managed(l) : h <= j})

OrderDrift(l) ==
  /\ Is("target_branch_rule")
  /\ Cardinality(Managed(l)) = Len(policy.declared)
  /\ \E j \in Managed(l) : l[j].key # policy.declared[Place(l, j)]

(* diffProjectVariable, diffSingleRule: the attributes that the policy     *)
(* sets; a hook's secret token is write-only and not among them.  No       *)
(* declaration asks for the value 0.                                       *)
IsCompliant(e, n) == e.value = policy.values[n]
HasSettings == Is("approval_rule") \/ Is("runner")
(* diffApprovalSettings; the runner toggles of a project *)
SettingsDiffer == HasSettings /\ ~settings

(* Plan finds a difference in the listing l. *)
HasChanges(l) ==
  \/ SettingsDiffer
  \/ \E n \in DOMAIN policy.declared :
       LET at == Match(l, policy.declared[n]) IN at = 0 \/ ~IsCompliant(l[at], n)
  \/ \E j \in DOMAIN l : IsStale(l, j)
  \/ OrderDrift(l)

-----------------------------------------------------------------------------
(* GitLab's answers: what is live after the call, whether the caller is    *)
(* told it succeeded, and the faults it took.                              *)
Done(l) == [live |-> l, ok |-> TRUE, faults |-> 0, unheard |-> FALSE]
Failed(l) == [live |-> l, ok |-> FALSE, faults |-> 1, unheard |-> FALSE]
Refused == {[live |-> live, ok |-> FALSE, faults |-> 0, unheard |-> FALSE]}
Accepted(l) == {Done(l), Failed(l), Failed(live)}

Insert(l, k, v) ==
  LET used == {(l \o seen)[j].id : j \in DOMAIN (l \o seen)}
      e == [id |-> Min((1..(Len(l \o seen) + 1)) \ used), key |-> k, value |-> v]
  IN IF Is("target_branch_rule") THEN <<e>> \o l ELSE Append(l, e)

(* Hooks may share a URL and runners a description; a project has at most  *)
(* one compliance framework.                                               *)
HasRoom(l, k) ==
  /\ Len(l) < (IF Is("compliance") THEN 1 ELSE MaxEntries)
  /\ Is("webhook") \/ Is("runner") \/ k \notin KeysOf(l)

(* A create whose answer is lost is sent again by the transport: a second  *)
(* hook is made, anything else is refused because the name is taken.       *)
CreateCall(k, v) ==
  LET once == Insert(live, k, v)
  IN IF ~HasRoom(live, k) THEN Refused
     ELSE Accepted(once) \cup
          (IF HasRoom(once, k) THEN {[Done(Insert(once, k, v)) EXCEPT !.faults = 1]} ELSE {})

(* The live entries that a call about the listed entry e addresses: hooks  *)
(* and rules by ID, project variables by name and scope, and group         *)
(* variables by name alone.                                                *)
Addressed(e) ==
  {j \in DOMAIN live :
     CASE Is("project_variable") -> live[j].key = e.key
       [] Is("group_variable")   -> live[j].key.name = e.key.name
       [] OTHER                  -> live[j].id = e.id}

(* GitLab refuses a call that addresses several variables; the repository's *)
(* stand-in for it takes the scope of an update's body, and any one of them *)
(* to delete.                                                              *)
UpdateCall(e, v) ==
  LET at == Addressed(e)
      one == IF Cardinality(at) = 1 THEN at ELSE {j \in at : live[j].key = e.key}
  IN (UNION {Accepted([live EXCEPT ![j].key = e.key, ![j].value = v]) : j \in one})
       \cup (IF Cardinality(at) = 1 THEN {} ELSE Refused)

DeleteCall(e) ==
  (UNION {Accepted(RemoveAt(live, j)) : j \in Addressed(e)})
    \cup (IF Cardinality(Addressed(e)) = 1 THEN {} ELSE Refused)

(* Only the status is looked at, which a GraphQL error leaves at 200. *)
Mutation(l) == Accepted(l) \cup {[Done(live) EXCEPT !.faults = 1, !.unheard = TRUE]}

-----------------------------------------------------------------------------
(* What a project always has, and can only be edited. *)
IsFixed == Is("project_setting") \/ Is("pipeline_retention")

(* The entries there can be at first: each key at most once, as it is      *)
(* declared or not.                                                        *)
Lists(keys, values) ==
  {[j \in DOMAIN s |-> [id |-> j, key |-> s[j], value |-> f[s[j]]]] :
     s \in {t \in UNION {[1..n -> keys] : n \in 0..Cardinality(keys)} : IsInjective(t)},
     f \in [keys -> values \cup {0}]}

CollectionsInit ==
  /\ policy \in Policies
  /\ live \in {l \in Lists(policy.keys, Range(policy.values)) :
                 /\ Len(l) <= (IF Is("compliance") THEN 1 ELSE MaxEntries)
                 /\ \A j \in DOMAIN l : l[j].value # 0 =>
                      \E n \in DOMAIN policy.declared :
                        l[j].key = policy.declared[n] /\ IsCompliant(l[j], n)
                 /\ IsFixed => KeysOf(l) = Declared}
  /\ settings \in BOOLEAN /\ (~HasSettings => settings)
  /\ seen = << >> /\ whole = TRUE /\ i = 1 /\ pc = "idle"
  /\ outcome = "none" /\ disturbed = FALSE /\ faults = 0

Fault == faults' = faults + 1 /\ faults' <= MaxFaults

EndApply(how) == pc' = "idle" /\ outcome' = how /\ i' = 1
GoTo(where) == pc' = where /\ i' = 1 /\ UNCHANGED outcome

ListEntries == seen' = Page(live) /\ whole' = (whole /\ Len(live) <= PageSize)

(* Plan on a listing, and where Apply goes on if it finds something. *)
PlanOn(listing, where) ==
  /\ pc = "idle"
  /\ seen' = listing
  /\ IF HasChanges(listing) THEN pc' = where /\ outcome' = "none" /\ i' = 1
                            ELSE EndApply("success")
  /\ UNCHANGED <<policy, live, settings>>

BeginApply(where) ==
  /\ PlanOn(Page(live), where)
  /\ whole' = (Len(live) <= PageSize) /\ disturbed' = FALSE
  /\ UNCHANGED faults

ApplyVariables == Is("project_variable") /\ BeginApply("list")
ApplyGroupVariables == Is("group_variable") /\ BeginApply("list")
ApplyWebhooks == Is("webhook") /\ BeginApply("list")
ApplyApprovalRules == Is("approval_rule") /\ BeginApply("settings")
ApplyTargetBranchRules == Is("target_branch_rule") /\ BeginApply("destroy")
ApplyPushRules == Is("push_rule") /\ BeginApply("upsert")
ApplyGroupPushRules == Is("group_push_rule") /\ BeginApply("upsert")
ApplyProjectSettings == Is("project_setting") /\ BeginApply("upsert")
ApplyPipelineRetention == Is("pipeline_retention") /\ BeginApply("upsert")
ApplyRunners == Is("runner") /\ BeginApply("settings")
ApplyCompliance == Is("compliance") /\ BeginApply("upsert")

(* GetProjectComplianceFrameworks looks at the status alone: an error that *)
(* GraphQL answers with status 200 reads as a project without a framework. *)
MisreadFramework ==
  /\ Is("compliance") /\ PlanOn(<< >>, "upsert")
  /\ whole' = TRUE /\ disturbed' = TRUE /\ Fault

(* ChangeApprovalConfiguration, EditProject: sent whatever it was that     *)
(* differed.                                                               *)
ChangeSettings ==
  /\ pc = "settings"
  /\ \/ settings' = TRUE /\ GoTo("list") /\ UNCHANGED faults
     \/ settings' = TRUE /\ EndApply("failed") /\ Fault
  /\ UNCHANGED <<policy, live, seen, whole, disturbed>>

ListAgain ==
  /\ pc = "list"
  /\ ListEntries /\ GoTo("upsert")
  /\ UNCHANGED <<policy, live, settings, disturbed, faults>>

(* One of the answers arrives: the loop goes on, or Apply returns an error. *)
Receive(answers) ==
  /\ \E answer \in answers :
       /\ live' = answer.live
       /\ faults' = faults + answer.faults /\ faults' <= MaxFaults
       /\ IF answer.ok THEN i' = i + 1 /\ UNCHANGED <<pc, outcome>>
                       ELSE EndApply("failed")
       /\ disturbed' = (disturbed \/ answer.unheard)
  /\ UNCHANGED <<policy, settings, seen, whole>>

Skip == i' = i + 1 /\ UNCHANGED <<policy, live, settings, seen, whole, pc, outcome,
                                  disturbed, faults>>

(* Mutation: an entry that is there is left as it is. *)
CreateMissing ==
  /\ pc = "upsert" /\ i <= Len(policy.declared)
  /\ LET k == policy.declared[i]
     IN IF Match(seen, k) = 0 THEN Receive(CreateCall(k, policy.values[i])) ELSE Skip
(* The i-th declared entry is created, or updated whether it differs or    *)
(* not, by what the second listing has.                                    *)
Upsert ==
  /\ pc = "upsert" /\ i <= Len(policy.declared)
  /\ LET k == policy.declared[i]
         v == policy.values[i]
     IN Receive(IF Match(seen, k) = 0 THEN CreateCall(k, v)
                                      ELSE UpdateCall(seen[Match(seen, k)], v))

UpsertVariable == Is("project_variable") /\ Upsert
UpsertGroupVariable == Is("group_variable") /\ Upsert
UpsertHook == Is("webhook") /\ Upsert
(* Errors of resolving the approvers are ignored here, but there are none: *)
(* Plan has resolved the same names, or failed, and the resolver keeps     *)
(* every answer.                                                           *)
UpsertApprovalRule == Is("approval_rule") /\ Upsert

UpsertPushRule == Is("push_rule") /\ Upsert
UpsertGroupPushRule == Is("group_push_rule") /\ Upsert
EditProjectSettings == Is("project_setting") /\ Upsert
SetPipelineRetention == Is("pipeline_retention") /\ Upsert

(* A declared runner that the project does not have is passed over. *)
UpdateRunner ==
  /\ Is("runner") /\ pc = "upsert" /\ i <= Len(policy.declared)
  /\ LET at == Match(seen, policy.declared[i])
     IN IF at = 0 THEN Skip ELSE Receive(UpdateCall(seen[at], policy.values[i]))

(* The framework is set, whatever the project had, or none is. *)
SetFramework ==
  /\ Is("compliance") /\ pc = "upsert" /\ i <= Len(policy.declared)
  /\ Receive(Mutation(<<[id |-> 1, key |-> policy.declared[i], value |-> policy.values[i]]>>))
RemoveFramework ==
  /\ Is("compliance") /\ pc = "prune" /\ i <= Len(seen)
  /\ IF IsStale(seen, i) THEN Receive(Mutation(<< >>)) ELSE Skip

PruneEntry ==
  /\ ~Is("compliance") /\ pc = "prune" /\ i <= Len(seen)
  /\ IF IsStale(seen, i) THEN Receive(DeleteCall(seen[i])) ELSE Skip

(* Mutation: only the rules that pruning deletes are destroyed. *)
DestroyStale ==
  /\ pc = "destroy" /\ i <= Len(seen)
  /\ IF IsStale(seen, i) THEN Receive(DeleteCall(seen[i])) ELSE Skip
DestroyRule ==
  /\ pc = "destroy" /\ i <= Len(seen)
  /\ IF policy.prune \/ IsDeclared(seen[i]) THEN Receive(DeleteCall(seen[i])) ELSE Skip

(* Mutation: the rules are created in the order in which they are declared. *)
ForwardPosition == i
ReversePosition == Len(policy.declared) + 1 - i

RecreateRule ==
  /\ pc = "recreate" /\ i <= Len(policy.declared)
  /\ Receive(CreateCall(policy.declared[ReversePosition], policy.values[ReversePosition]))

(* A loop is over. *)
NextPhase ==
  /\ \/ pc = "upsert" /\ i > Len(policy.declared) /\ GoTo("prune")
     \/ pc = "prune" /\ i > Len(seen) /\ EndApply("success")
     \/ pc = "destroy" /\ i > Len(seen) /\ GoTo("recreate")
     \/ pc = "recreate" /\ i > Len(policy.declared) /\ EndApply("success")
  /\ UNCHANGED <<policy, live, settings, seen, whole, disturbed, faults>>

(* A call fails without effect, or the process is killed. *)
ApplyFails ==
  /\ Fault /\ EndApply("failed")
  /\ UNCHANGED <<policy, live, settings, seen, whole, disturbed>>

(* Somebody changes, removes or adds an entry, or changes the settings. *)
Drift ==
  /\ Fault /\ disturbed' = TRUE
  /\ \/ /\ \/ \E j \in DOMAIN live :
                \/ live[j].value # 0 /\ live' = [live EXCEPT ![j].value = 0]
                \/ ~IsFixed /\ live' = RemoveAt(live, j)
           \/ \E k \in policy.keys : HasRoom(live, k) /\ live' = Insert(live, k, 0)
        /\ UNCHANGED settings
     \/ HasSettings /\ settings /\ settings' = FALSE /\ UNCHANGED live
  /\ UNCHANGED <<policy, seen, whole, i, pc, outcome>>

ApplyStep ==
  \/ ApplyVariables \/ ApplyGroupVariables \/ ApplyWebhooks \/ ApplyApprovalRules
  \/ ApplyTargetBranchRules \/ ApplyPushRules \/ ApplyGroupPushRules \/ ApplyProjectSettings
  \/ ApplyPipelineRetention \/ ApplyRunners \/ ApplyCompliance
  \/ ChangeSettings \/ ListAgain \/ UpsertVariable \/ UpsertGroupVariable
  \/ UpsertHook \/ UpsertApprovalRule \/ UpsertPushRule \/ UpsertGroupPushRule
  \/ EditProjectSettings \/ SetPipelineRetention \/ UpdateRunner \/ SetFramework
  \/ RemoveFramework \/ PruneEntry \/ DestroyRule \/ RecreateRule \/ NextPhase

CollectionsNext == ApplyStep \/ MisreadFramework \/ ApplyFails \/ Drift

CollectionsSpec == CollectionsInit /\ [][CollectionsNext]_collectionsVars

(* The schedule starts Apply again and again, and Apply goes on. *)
FairCollectionsSpec == CollectionsSpec /\ WF_collectionsVars(ApplyStep)

-----------------------------------------------------------------------------
Copies(l) == Len(l) - Cardinality(KeysOf(l))
Fits == Len(live) <= PageSize
InLine == ~HasChanges(Page(live))
(* A group variable that only its scope tells from a declared one. *)
Ambiguous(l) ==
  /\ Is("group_variable")
  /\ \E j \in DOMAIN l, k \in Declared : l[j].key # k /\ l[j].key.name = k.name

(* A declared runner that the project does not have: Plan reports it, and  *)
(* Apply passes it over without a word.                                    *)
Unassigned(l) == Is("runner") /\ ~(Declared \subseteq KeysOf(l))

(* A key is declared twice: a hook that is missing is created for each     *)
(* declaration, as both are compared with one listing.                     *)
IsDeclaredTwice(k) ==
  \E m, n \in DOMAIN policy.declared :
    m # n /\ policy.declared[m] = k /\ policy.declared[n] = k

(* Two declarations of one key ask for different values: each run brings   *)
(* the entry in line with the last one, and Plan finds that it is not in   *)
(* line with the first.                                                    *)
Contradictory ==
  \E m, n \in DOMAIN policy.declared :
    policy.declared[m] = policy.declared[n] /\ policy.values[m] # policy.values[n]

(* An Apply that reports success, saw the whole list and was not disturbed *)
(* leaves nothing for Plan to find, whatever the runs before it left half  *)
(* done: create, update, delete and the order of creation together reach   *)
(* what Plan compares with, if it still fits the page that Plan reads.     *)
(* Runners that are not there and policies that contradict themselves are  *)
(* left out.                                                               *)
ListConverges ==
  outcome = "success" /\ ~disturbed /\ whole /\ Fits /\ Copies(live) = 0
    /\ ~Ambiguous(seen) /\ ~Unassigned(seen) /\ ~Contradictory
    => InLine

(* Apply never makes a second entry of a key by itself: only the retry of  *)
(* a lost answer does, a list cut at its page, a hook added meanwhile, or  *)
(* a policy that declares the URL twice.                                   *)
NoNeedlessCopy ==
  [][pc # "idle" /\ whole /\ ~disturbed' /\ Copies(live') > Copies(live)
       => faults' > faults \/ IsDeclaredTwice(Last(live').key)]_collectionsVars

(* Target branch rules are matched from the top.  While Apply replaces     *)
(* them, rules that stand in the declared order never come to stand in     *)
(* another: no catch-all rule is above a specific one for a moment, unless *)
(* the listing was cut and a declared rule was left standing below.        *)
InDeclaredOrder(l) ==
  \A a, b \in DOMAIN l : \A x, y \in DOMAIN policy.declared :
    a < b /\ l[a].key = policy.declared[x] /\ l[b].key = policy.declared[y] => x < y
OrderIsKept ==
  [][Is("target_branch_rule") /\ pc # "idle" /\ whole /\ ~disturbed' /\ InDeclaredOrder(live)
       => InDeclaredOrder(live')]_collectionsVars

(* Once calls succeed and nobody interferes, the schedule brings a list    *)
(* that fits its page into line for good; copies that retries made are     *)
(* pruned too.  Group variables with the name of a declared one, runners   *)
(* that are not there and policies that contradict themselves are left out. *)
EventuallyInLine ==
  <>[](Fits /\ ~Ambiguous(live) /\ ~Unassigned(live) /\ ~Contradictory) => <>[]InLine
=============================================================================
