-------------------------------- MODULE Audit --------------------------------
(***************************************************************************)
(* The fleet audit (internal/audit): Execute starts a goroutine for every  *)
(* project, at most `concurrency' at a time.  Each runs the six modules in *)
(* turn and then adds what they found to the report.  The goroutines share *)
(* the registry of users, which asks GitLab for a user it does not know    *)
(* without holding its lock.  The command fails when the report has a      *)
(* critical or a high finding.                                             *)
(*                                                                         *)
(* A project is described by what the modules read of it: its members, the *)
(* protected and the other branches, environments and tags, its pipelines  *)
(* and files, and whether it is still in use.                              *)
(***************************************************************************)
EXTENDS Integers, Sequences, FiniteSets

CONSTANTS Projects,      \* the fleet that discovery returned
          Users,         \* the users that projects name
          BotsByName,    \* those whose name says that they are bots
          BotsByEmail,   \* those whose address says so
          Emails,        \* where GitLab shows addresses: "members", "profiles"
          Scenarios,     \* what the projects may look like; the modules switched on
          Concurrencies, \* the values of --concurrency considered
          DirectPage,    \* members on the first page of the direct ones
          SampleMatches, \* other patterns that path.Match finds to match a sample tag
          MaxFaults,     \* failing calls
          None           \* not a user

Lifecycles == {"active", "inactive", "archived", "pending"}
Roles == [guest |-> 10, developer |-> 30, maintainer |-> 40, owner |-> 50]

(* The order in which auditSingleProject calls them.  The module of the    *)
(* environments makes two listings, the second in a part of its own.       *)
Modules == <<"user_access", "protected_branches", "protected_environments",
             "environments", "pipeline_retention", "repository_files",
             "protected_tags">>

ASSUME AuditAssumption ==
  /\ BotsByName \subseteq Users /\ BotsByEmail \subseteq Users /\ None \notin Users
  /\ Emails \subseteq {"members", "profiles"}
  /\ Concurrencies \subseteq Nat \ {0} /\ DirectPage \in Nat /\ MaxFaults \in Nat
  /\ \A s \in Scenarios : \A p \in Projects :
       /\ s.world[p].lifecycle \in Lifecycles
       /\ s.world[p].members \in Seq([user : Users, role : DOMAIN Roles, expires : BOOLEAN,
                                      direct : BOOLEAN])
       /\ s.world[p].environments \in Seq([name : STRING, production : BOOLEAN])
       /\ IsFiniteSet(s.world[p].branches) /\ IsFiniteSet(s.world[p].protected)
       /\ IsFiniteSet(s.world[p].files) /\ IsFiniteSet(s.world[p].tags)

VARIABLES
  world,       \* what every project looks like
  active,      \* activeModules
  concurrency, \* the size of the semaphore
  phase,       \* where executeAudit and Execute are
  step,        \* the module each goroutine is in; 0 before it starts
  gathered,    \* the findings each goroutine has so far
  asking,      \* the users that its module names and that it has to resolve
  fetching,    \* the user it asks GitLab for
  directory,   \* UserRegistry.users
  report,      \* what the goroutines added to the report, in order
  failed,      \* the modules that failed, listed in part or misread, with their projects
  cancelled,   \* the context is done
  faults       \* the number of failing calls so far

vars == <<world, active, concurrency, phase, step, gathered, asking, fetching, directory,
          report, failed, cancelled, faults>>

-----------------------------------------------------------------------------
(* EvaluateProjectLifecycle, AdjustSeverityForProject *)
IsArchived(d) == d.lifecycle \in {"archived", "pending"}
IsInactive(d) == d.lifecycle \in {"inactive", "pending"}

(* Mutation: what is inactive counts as archived. *)
AdjustSeverityTwice(base, d) ==
  CASE (IsArchived(d) \/ IsInactive(d)) /\ base = "critical" -> "medium"
    [] (IsArchived(d) \/ IsInactive(d)) /\ base \in {"high", "medium"} -> "low"
    [] OTHER -> base
AdjustSeverity(base, d) ==
  CASE IsArchived(d) /\ base = "critical" -> "medium"
    [] IsArchived(d) /\ base \in {"high", "medium"} -> "low"
    [] ~IsArchived(d) /\ IsInactive(d) /\ base = "critical" -> "high"
    [] ~IsArchived(d) /\ IsInactive(d) /\ base = "high" -> "medium"
    [] OTHER -> base

(* The worst of the violations found on one subject. *)
Worst(severities) ==
  IF "critical" \in severities THEN "critical"
  ELSE IF "high" \in severities THEN "high"
  ELSE IF "medium" \in severities THEN "medium"
  ELSE IF "low" \in severities THEN "low" ELSE "pass"

Flag(condition, severity) == IF condition THEN {severity} ELSE {}

(* IsBot, by what the listing or the profile at hand shows of the user. *)
IsBot(u, shownBy) == u \in BotsByName \/ (shownBy \in Emails /\ u \in BotsByEmail)

Finding(d, subject, severity) ==
  [subject |-> subject, severity |-> AdjustSeverity(severity, d), bot |-> FALSE,
   direct |-> FALSE]

-----------------------------------------------------------------------------
(* The modules: what AuditProject returns for a project. *)

(* Direct members beyond the first page pass for inherited ones. *)
DirectMembers(d) ==
  LET IsDirect(m) == m.direct
      direct == SelectSeq(d.members, IsDirect)
  IN {direct[j].user : j \in {n \in DOMAIN direct : n <= DirectPage}}

UserAccess(d) ==
  {LET m == d.members[j]
       risk == IF Roles[m.role] >= Roles.maintainer THEN "critical" ELSE "high"
       severity == IF Roles[m.role] < Roles.owner /\ ~m.expires THEN risk ELSE "pass"
   IN [Finding(d, m.user, severity) EXCEPT !.bot = IsBot(m.user, "members"),
                                           !.direct = m.user \in DirectMembers(d)]
   : j \in DOMAIN d.members}

ProtectedBranches(d) ==
  {Finding(d, b.name, Worst(Flag(b.force, "critical") \cup Flag(b.pushers # {}, "high")
                            \cup Flag(~b.owners, "high") \cup Flag(b.developers, "medium")))
   : b \in d.branches}

(* A branch named main or master counts as the default one. *)
UnprotectedDefault(d) ==
  {Finding(d, d.default, s)
   : s \in Flag(\A b \in d.branches : b.name \notin {d.default, "main", "master"}, "critical")}

ProtectedEnvironments(d) ==
  {Finding(d, e.name, Worst(Flag(e.production /\ ~e.approvals, "critical")
                            \cup Flag(e.deployers # {}, "high")))
   : e \in d.protected}

(* Of the n environments that the second listing brought. *)
UnprotectedEnvironments(d, n) ==
  {LET e == d.environments[j]
   IN Finding(d, e.name, IF e.production THEN "critical" ELSE "medium")
   : j \in {k \in 1..n : \A e \in d.protected : e.name # d.environments[k].name}}

(* Pipelines that the configured clean-up has left, for long or not. *)
StaleDespiteRetention(d) ==
  CASE d.stale = "none" -> "pass" [] d.stale = "recent" -> "medium" [] d.stale = "overdue" -> "high"

(* Pipelines older than 90 days, where nothing removes them. *)
StaleWithoutRetention(d) == IF d.stale = "none" THEN "pass" ELSE "low"

PipelineRetention(d) ==
  {Finding(d, "pipelines", IF d.retention THEN StaleDespiteRetention(d)
                           ELSE StaleWithoutRetention(d))}

(* A file lacks a required string or is not what is declared; as it is     *)
(* declared, it is no finding at all.                                      *)
DriftedFiles(d) == {f \in d.files : f.state \in {"partial", "drifted"}}
MissingFiles(d) == {f \in d.files : f.state = "missing"}

(* A file whose reading fails with an error that has "404" in its text (an *)
(* address, a number) counts as missing.                                   *)
FilesMisread(d, misread) ==
  {Finding(d, f.name, "high") : f \in MissingFiles(d) \cup misread}
  \cup {Finding(d, f.name, "medium") : f \in DriftedFiles(d) \ misread}

RepositoryFiles(d) == FilesMisread(d, {})

(* matchesReleasePattern: one of the usual patterns, or one that matches   *)
(* v1.0.0, v2.0.0, release-1.0.0 or 1.0.0.                                 *)
ReleasePatterns == {"*", "v*", "release-*", "*-release", "production-*", "prod-*"}
CoversReleases(pattern) == pattern \in ReleasePatterns \cup SampleMatches

ProtectedTags(d) ==
  {Finding(d, t.name, Worst(Flag(t.name = "*", "low") \cup Flag(t.creators # {}, "high")
                            \cup Flag(t.developers, "medium")))
   : t \in d.tags}

UnprotectedTags(d) ==
  IF d.tags = {} THEN {Finding(d, "(none)", "critical")}
  ELSE {Finding(d, "v*", s) : s \in Flag(\A t \in d.tags : ~CoversReleases(t.name), "high")}

(* What a module finds when its calls do not fail. *)
Findings(d, m) ==
  CASE m = "user_access" -> UserAccess(d)
    [] m = "protected_branches" -> ProtectedBranches(d) \cup UnprotectedDefault(d)
    [] m = "protected_environments" -> ProtectedEnvironments(d)
    [] m = "environments" -> UnprotectedEnvironments(d, Len(d.environments))
    [] m = "pipeline_retention" -> PipelineRetention(d)
    [] m = "repository_files" -> RepositoryFiles(d)
    [] m = "protected_tags" -> ProtectedTags(d) \cup UnprotectedTags(d)

(* The users that summarizeBranchAccessLevels, ...Env... and ...Tag... name. *)
Named(d, m) ==
  CASE m = "protected_branches" -> UNION {b.pushers \cup b.mergers : b \in d.branches}
    [] m = "protected_environments" -> UNION {e.deployers : e \in d.protected}
    [] m = "protected_tags" -> UNION {t.creators : t \in d.tags}
    [] OTHER -> {}

-----------------------------------------------------------------------------
(* Mutation: a user is kept with the first project only. *)
RegisterFirst(users, u, shownBy, paths) ==
  IF u \in DOMAIN users THEN users
  ELSE [v \in DOMAIN users \cup {u} |->
          IF v = u THEN [bot |-> IsBot(u, shownBy), paths |-> paths] ELSE users[v]]
(* Register: the first to know a user decides on the account type; the     *)
(* project is added to the user's own.                                     *)
Register(users, u, shownBy, paths) ==
  IF u \in DOMAIN users THEN [users EXCEPT ![u].paths = @ \cup paths]
  ELSE [v \in DOMAIN users \cup {u} |->
          IF v = u THEN [bot |-> IsBot(u, shownBy), paths |-> paths] ELSE users[v]]

(* The members of a project are registered one after the other.            *)
RegisterMembers(users, p) ==
  LET members == world[p].members
      after[n \in 0..Len(members)] ==
        IF n = 0 THEN users ELSE Register(after[n - 1], members[n].user, "members", {p})
  IN after[Len(members)]

-----------------------------------------------------------------------------
Init ==
  /\ \E s \in Scenarios : world = s.world /\ active = s.active
  /\ concurrency \in Concurrencies
  /\ phase = "config"
  /\ step = [p \in Projects |-> 0]
  /\ gathered = [p \in Projects |-> {}]
  /\ asking = [p \in Projects |-> {}]
  /\ fetching = [p \in Projects |-> None]
  /\ directory = << >>
  /\ report = << >>
  /\ failed = {}
  /\ cancelled = FALSE
  /\ faults = 0

Final == {"failed", "violations", "clean"}

goroutineVars == <<step, gathered, asking, fetching, directory, report, failed>>

(* A call to GitLab, a file or a mail server fails: by itself or because   *)
(* the context is done, as every call does from then on.                   *)
CallFails == \/ cancelled /\ UNCHANGED faults
             \/ ~cancelled /\ faults < MaxFaults /\ faults' = faults + 1

(* isModuleActive: the next module that is switched on. *)
IsActive(m) == IF m = "environments" THEN "protected_environments" \in active ELSE m \in active
After(k) == CHOOSE j \in (k + 1)..(Len(Modules) + 1) :
              /\ j <= Len(Modules) => IsActive(Modules[j])
              /\ \A i \in (k + 1)..(j - 1) : ~IsActive(Modules[i])

Auditing(p) == step[p] \in 1..Len(Modules)
(* Mutation: a goroutine whose project had errors returns at once. *)
DeliveringIfClean(p) == step[p] = Len(Modules) + 1 /\ \A x \in failed : x[1] # p
Delivering(p) == step[p] = Len(Modules) + 1
Finished(p) == step[p] = Len(Modules) + 2
Launched(p) == step[p] > 0
SlotsTaken == Cardinality({p \in Projects : Auditing(p) \/ Delivering(p)})

(* executeAudit: configuration, client, modules, formats; then Execute     *)
(* with discovery and the license.                                         *)
Prepare ==
  /\ phase \in {"config", "discovery", "license"}
  /\ phase = "discovery" => ~cancelled
  /\ phase' = CASE phase = "config" -> "discovery"
                [] phase = "discovery" -> "license"
                [] phase = "license" -> "launch"
  /\ UNCHANGED <<world, active, concurrency, goroutineVars, cancelled, faults>>

(* Execute, the report, the mail: what fails ends the command. *)
Fail ==
  /\ phase \in {"config", "discovery", "license", "write", "mail"}
  /\ CallFails
  /\ phase' = "failed"
  /\ UNCHANGED <<world, active, concurrency, goroutineVars, cancelled>>

Launch(p) ==
  /\ phase = "launch" /\ ~Launched(p) /\ SlotsTaken < concurrency
  /\ step' = [step EXCEPT ![p] = After(0)]
  /\ UNCHANGED <<world, active, concurrency, phase, gathered, asking, fetching, directory, report,
                 failed, cancelled, faults>>

(* The goroutines that are running are left alone. *)
LaunchCancelled ==
  /\ phase = "launch" /\ cancelled /\ \E p \in Projects : ~Launched(p)
  /\ phase' = "failed"
  /\ UNCHANGED <<world, active, concurrency, goroutineVars, cancelled, faults>>

LaunchedAll ==
  /\ phase = "launch" /\ \A p \in Projects : Launched(p)
  /\ phase' = "wait"
  /\ UNCHANGED <<world, active, concurrency, goroutineVars, cancelled, faults>>

(* A module whose call returns.  The second listing of the environments is *)
(* not made when the first failed.                                         *)
Module(p) == Modules[step[p]]
Idle(p) == Auditing(p) /\ asking[p] = {} /\ fetching[p] = None
IsSkipped(p) == Module(p) = "environments" /\ <<p, "protected_environments">> \in failed

Add(p, findings) == {[module |-> Module(p), finding |-> f] : f \in findings}

(* The module is over: the next one, or the users it names.                *)
Proceed(p) ==
  /\ asking' = [asking EXCEPT ![p] = Named(world[p], Module(p))]
  /\ step' = IF Named(world[p], Module(p)) = {} THEN [step EXCEPT ![p] = After(@)] ELSE step

RunModule(p) ==
  /\ Idle(p) /\ ~IsSkipped(p) /\ ~cancelled
  /\ gathered' = [gathered EXCEPT ![p] = @ \cup Add(p, Findings(world[p], Module(p)))]
  /\ directory' = IF Module(p) = "user_access" THEN RegisterMembers(directory, p)
                  ELSE directory
  /\ Proceed(p)
  /\ UNCHANGED <<world, active, concurrency, phase, fetching, report, failed, cancelled, faults>>

(* The findings of a module that fails are dropped, the others kept.  A    *)
(* page of the environments that fails only ends the listing, and a file   *)
(* that cannot be read may pass for a missing one.                         *)
FoundDespite(d, m) ==
  CASE m = "environments" -> {UnprotectedEnvironments(d, n) : n \in 0..Len(d.environments)}
    [] m = "repository_files" ->
         {{}} \cup {FilesMisread(d, S) : S \in SUBSET d.files \ {{}}}
    [] OTHER -> {{}}

FailModule(p) ==
  /\ Idle(p)
  /\ \/ IsSkipped(p) /\ UNCHANGED <<gathered, failed, faults>>
     \/ /\ ~IsSkipped(p) /\ CallFails
        /\ failed' = failed \cup {<<p, Module(p)>>}
        /\ \E findings \in FoundDespite(world[p], Module(p)) :
             gathered' = [gathered EXCEPT ![p] = @ \cup Add(p, findings)]
  /\ step' = [step EXCEPT ![p] = After(@)]
  /\ UNCHANGED <<world, active, concurrency, phase, asking, fetching, directory, report, cancelled>>

(* Resolve: a user who is known needs no call. *)
Look(p, u) ==
  /\ fetching[p] = None /\ u \in asking[p]
  /\ asking' = [asking EXCEPT ![p] = @ \ {u}]
  /\ fetching' = [fetching EXCEPT ![p] = IF u \in DOMAIN directory THEN None ELSE u]
  /\ step' = IF asking[p] = {u} /\ u \in DOMAIN directory
             THEN [step EXCEPT ![p] = After(@)] ELSE step
  /\ UNCHANGED <<world, active, concurrency, phase, gathered, directory, report, failed, cancelled,
                 faults>>

(* The profile arrives, perhaps after another goroutine registered the user, *)
(* or the call fails and the user is called by number.                       *)
Fetched(p) ==
  /\ fetching[p] # None
  /\ \/ /\ ~cancelled /\ UNCHANGED faults
        /\ directory' = Register(directory, fetching[p], "profiles", {})
     \/ CallFails /\ UNCHANGED directory
  /\ fetching' = [fetching EXCEPT ![p] = None]
  /\ step' = IF asking[p] = {} THEN [step EXCEPT ![p] = After(@)] ELSE step
  /\ UNCHANGED <<world, active, concurrency, phase, gathered, asking, report, failed, cancelled>>

(* Under the mutex; then the slot is free and the wait group counts down. *)
Deliver(p) ==
  /\ Delivering(p)
  /\ report' = Append(report, [project |-> p, findings |-> gathered[p]])
  /\ step' = [step EXCEPT ![p] = @ + 1]
  /\ UNCHANGED <<world, active, concurrency, phase, gathered, asking, fetching, directory, failed,
                 cancelled, faults>>

(* Mutation: nobody waits for the last goroutines. *)
WaitedForSlots == SlotsTaken < concurrency
WaitedForAll == \A p \in Projects : Finished(p)

Wait ==
  /\ phase = "wait" /\ WaitedForAll
  /\ phase' = "write"
  /\ UNCHANGED <<world, active, concurrency, goroutineVars, cancelled, faults>>

(* The findings: a set, since SortFindings orders them by project and      *)
(* subject.  ComputeSummary counts them by severity.                       *)
Reported == UNION {{[project |-> b.project, module |-> x.module, finding |-> x.finding]
                    : x \in b.findings} : b \in {report[j] : j \in DOMAIN report}}
SeverityCount(severity) == Cardinality({r \in Reported : r.finding.severity = severity})

(* The report is written and, when that is configured, mailed; the command *)
(* ends with an error when there are critical or high findings.            *)
Publish ==
  /\ \/ phase = "write" /\ phase' = "mail"
     \/ /\ phase = "mail"
        /\ phase' = IF SeverityCount("critical") > 0 \/ SeverityCount("high") > 0
                    THEN "violations" ELSE "clean"
  /\ UNCHANGED <<world, active, concurrency, goroutineVars, cancelled, faults>>

Cancel ==
  /\ ~cancelled /\ phase \notin Final
  /\ cancelled' = TRUE
  /\ UNCHANGED <<world, active, concurrency, phase, goroutineVars, faults>>

Main == Prepare \/ Fail \/ LaunchCancelled \/ LaunchedAll \/ Wait \/ Publish \/ \E p \in Projects : Launch(p)
Goroutine(p) == \/ RunModule(p) \/ FailModule(p) \/ Fetched(p) \/ Deliver(p)
                \/ \E u \in Users : Look(p, u)

Next == Main \/ Cancel \/ \E p \in Projects : Goroutine(p)

Spec == Init /\ [][Next]_vars

(* A call returns, with an answer or an error: the transport gives up in the *)
(* end.  The scheduler of Go lets every goroutine go on.                     *)
FairSpec == Spec /\ WF_vars(Main) /\ \A p \in Projects : WF_vars(Goroutine(p))

-----------------------------------------------------------------------------
(* A call of the module failed, or of the listing that the module of the   *)
(* environments goes by.                                                   *)
HasFailed(p, m) ==
  \/ <<p, m>> \in failed
  \/ m = "environments" /\ <<p, "protected_environments">> \in failed

(* The report holds, once for every project, exactly what each module that *)
(* did not fail finds there: whatever the order in which the goroutines    *)
(* end and whatever else failed in the project, none is missing, cut short *)
(* or there twice (Execute, auditSingleProject).                           *)
ReportIsExact ==
  phase \in {"write", "mail", "violations", "clean"} =>
    \A p \in Projects :
      /\ Cardinality({j \in DOMAIN report : report[j].project = p}) = 1
      /\ \A k \in DOMAIN Modules :
           IsActive(Modules[k]) /\ ~HasFailed(p, Modules[k])
           => {r.finding : r \in {x \in Reported : x.project = p /\ x.module = Modules[k]}}
              = Findings(world[p], Modules[k])

(* What makes a project unsafe, said of the project itself: somebody keeps *)
(* access for ever, the default branch is open or can be rewritten, an     *)
(* environment of production lets anybody deploy, a person holds a right   *)
(* of their own, releases are not protected, clean-up is far behind, a     *)
(* mandatory file is missing.                                              *)
HasMaintainerForEver(d) ==
  \E j \in DOMAIN d.members : d.members[j].role = "maintainer" /\ ~d.members[j].expires
Unprotected(d, e) == \A x \in d.protected : x.name # e.name
IsExposed(d, m) ==
  CASE m = "user_access" ->
         \E j \in DOMAIN d.members : ~d.members[j].expires /\ d.members[j].role # "owner"
    [] m = "protected_branches" ->
         \/ \E b \in d.branches : b.force \/ ~b.owners \/ b.pushers # {}
         \/ {d.default, "main", "master"} \cap {b.name : b \in d.branches} = {}
    [] m = "protected_environments" ->
         \E e \in d.protected : (e.production /\ ~e.approvals) \/ e.deployers # {}
    [] m = "environments" ->
         \E j \in DOMAIN d.environments :
           d.environments[j].production /\ Unprotected(d, d.environments[j])
    [] m = "pipeline_retention" -> d.retention /\ d.stale = "overdue"
    [] m = "repository_files" -> \E f \in d.files : f.state = "missing"
    [] m = "protected_tags" ->
         \/ \A t \in d.tags : ~CoversReleases(t.name)
         \/ \E t \in d.tags : t.creators # {}

(* The command ends without an error only if every project that is exposed *)
(* is one whose module is off or failed (auditErrors go to the log, and    *)
(* the report does not name them) or one that is archived or inactive,     *)
(* which lowers the severity; a branch open to force pushes, a maintainer  *)
(* without an end and an open production environment count in inactive     *)
(* projects too.                                                           *)
ExposureClosesGate ==
  phase = "clean" =>
    \A p \in Projects : \A k \in DOMAIN Modules :
      LET d == world[p]
          m == Modules[k]
          missed == ~IsActive(m) \/ HasFailed(p, m)
      IN /\ IsExposed(d, m) /\ d.lifecycle = "active" => missed
         /\ d.lifecycle = "inactive" =>
              /\ m = "protected_branches" /\ (\E b \in d.branches : b.force) => missed
              /\ m = "user_access" /\ HasMaintainerForEver(d) => missed
              /\ m = "environments" /\ IsExposed(d, m) => missed

(* The directory has every member of a project whose members were read,    *)
(* with exactly the projects they are members of, although goroutines      *)
(* register and fetch the same users at the same time; where members and   *)
(* profiles show the same of a user, so does the account type depend on    *)
(* the user alone (Register, Resolve).                                     *)
DirectoryComplete ==
  phase \in {"write", "mail", "violations", "clean"} =>
    LET Read == {p \in Projects : IsActive("user_access") /\ <<p, "user_access">> \notin failed}
        MembersOf(p) == {world[p].members[j].user : j \in DOMAIN world[p].members}
    IN /\ \A p \in Read : MembersOf(p) \subseteq DOMAIN directory
       /\ \A u \in DOMAIN directory :
            /\ directory[u].paths = {p \in Read : u \in MembersOf(p)}
            /\ ("members" \in Emails <=> "profiles" \in Emails)
               => directory[u].bot = IsBot(u, "members")

(* The audit ends, cancelled or not, and so do its goroutines: also those  *)
(* that a cancelled launch leaves behind (Execute).                        *)
AuditEnds == <>[](phase \in Final /\ \A p \in Projects : Finished(p) \/ ~Launched(p))
=============================================================================
