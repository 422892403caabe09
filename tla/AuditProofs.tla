----------------------------- MODULE AuditProofs -----------------------------
(***************************************************************************)
(* Proofs about the fleet audit, for any projects and users, any selection *)
(* of modules and any number of goroutines and of failing calls.           *)
(*                                                                         *)
(* The invariant follows a goroutine through its modules.  What a module   *)
(* was to find is with the goroutine as soon as the module ran (Column),   *)
(* and in the report, once, as soon as the goroutine is done (Delivered).  *)
(* The directory has the members of exactly the projects whose module of   *)
(* the users ran (Registry), whoever asked for a user in the meantime.     *)
(***************************************************************************)
EXTENDS Audit, FiniteSetTheorems, SequenceTheorems, WellFoundedInduction, TLAPS

(* The k-th module was called for project p; it may still ask for users. *)
Ran(p, k) == k < step[p] \/ (k = step[p] /\ (asking[p] # {} \/ fetching[p] # None))

FoundBy(p, m) == {x.finding : x \in {y \in gathered[p] : y.module = m}}

(* A goroutine is in a module that is switched on, and asks for users only *)
(* from within one.                                                        *)
Progress(p) ==
  /\ Auditing(p) => IsActive(Module(p))
  /\ asking[p] # {} \/ fetching[p] # None => Auditing(p)

(* What the goroutine has of the k-th module. *)
Gather(p, k) ==
  /\ ~Ran(p, k) => FoundBy(p, Modules[k]) = {} /\ <<p, Modules[k]>> \notin failed
  /\ Ran(p, k) /\ IsActive(Modules[k]) /\ ~HasFailed(p, Modules[k])
       => FoundBy(p, Modules[k]) = Findings(world[p], Modules[k])

Column(p) == Progress(p) /\ IsFiniteSet(gathered[p]) /\ \A k \in 1..7 : Gather(p, k)

Published == {"write", "mail", "violations", "clean"}

AuditTypes ==
  /\ \E s \in Scenarios : world = s.world /\ active = s.active
  /\ step \in [Projects -> 0..9]
  /\ DOMAIN gathered = Projects /\ DOMAIN asking = Projects /\ DOMAIN fetching = Projects
  /\ phase \in {"config", "discovery", "license", "launch", "wait", "failed"} \cup Published

Columns == \A p \in Projects : Column(p)

Delivered ==
  /\ \A j \in 1..Len(report) :
       \E p \in Projects : Finished(p) /\ report[j] = [project |-> p, findings |-> gathered[p]]
  /\ \A p \in Projects : Finished(p) => \E j \in 1..Len(report) : report[j].project = p
  /\ \A i, j \in 1..Len(report) : report[i].project = report[j].project => i = j

IsSequence == \E S : report \in Seq(S)

(* When the report is published everybody has delivered, and the command   *)
(* ends well only if no finding says otherwise.                            *)
Gate ==
  /\ phase \in Published => \A p \in Projects : Finished(p)
  /\ phase = "clean" => \A p \in Projects : \A x \in gathered[p] :
                          x.finding.severity \notin {"critical", "high"}

MembersOf(p) == {world[p].members[j].user : j \in DOMAIN world[p].members}
HasRead(p) == IsActive("user_access") /\ <<p, "user_access">> \notin failed /\ Ran(p, 1)

(* What is known of a user is an account type and projects. *)
IsDirectory(users) ==
  users = [u \in DOMAIN users |-> [bot |-> users[u].bot, paths |-> users[u].paths]]

Registry ==
  /\ IsDirectory(directory)
  /\ \A p \in Projects : HasRead(p) => MembersOf(p) \subseteq DOMAIN directory
  /\ \A u \in DOMAIN directory :
       /\ directory[u].paths = {p \in Projects : HasRead(p) /\ u \in MembersOf(p)}
       /\ ("members" \in Emails <=> "profiles" \in Emails)
          => directory[u].bot = IsBot(u, "members")

(* The inductive invariant of the audit. *)
AuditInv == AuditTypes /\ Columns /\ Delivered /\ IsSequence /\ Gate /\ Registry

-----------------------------------------------------------------------------
(* A set of numbers that is not empty has a least one. *)
LEMMA HasLeast ==
  ASSUME NEW S \in SUBSET Nat, S # {}
  PROVE  \E m \in S : \A k \in S : m <= k
<1>1. PICK m \in S : \A k \in S : ~(<<k, m>> \in OpToRel(<, Nat))
  BY NatLessThanWellFounded, WFMin, Zenon
<1>2. \A k \in S : ~(k < m)
  BY <1>1 DEF OpToRel
<1> QED BY <1>2

(* The image of a finite set is finite. *)
LEMMA FiniteImage ==
  ASSUME NEW S, IsFiniteSet(S), NEW f, DOMAIN f = S
  PROVE  IsFiniteSet({f[x] : x \in S})
<1>1. [x \in S |-> f[x]] \in Surjection(S, {f[x] : x \in S})
  BY DEF Surjection
<1> QED BY <1>1, FS_Surjection

(* The modules have different names. *)
LEMMA ModuleFacts ==
  /\ Len(Modules) = 7 /\ DOMAIN Modules = 1..7
  /\ \A i, j \in 1..7 : Modules[i] = Modules[j] => i = j
  /\ Modules[1] = "user_access" /\ Modules[2] = "protected_branches"
  /\ Modules[3] = "protected_environments" /\ Modules[4] = "environments"
  /\ Modules[5] = "pipeline_retention" /\ Modules[6] = "repository_files"
  /\ Modules[7] = "protected_tags"
<1>1. Len(Modules) = 7 /\ DOMAIN Modules = 1..7
  BY DEF Modules
<1>2. /\ Modules[1] = "user_access" /\ Modules[2] = "protected_branches"
      /\ Modules[3] = "protected_environments" /\ Modules[4] = "environments"
      /\ Modules[5] = "pipeline_retention" /\ Modules[6] = "repository_files"
      /\ Modules[7] = "protected_tags"
  BY DEF Modules
<1>3. ASSUME NEW i \in 1..7, NEW j \in 1..7, Modules[i] = Modules[j] PROVE i = j
  <2>1. \A n \in 1..7 : n = 1 \/ n = 2 \/ n = 3 \/ n = 4 \/ n = 5 \/ n = 6 \/ n = 7
    OBVIOUS
  <2> QED BY <1>2, <1>3, <2>1
<1> QED BY <1>1, <1>2, <1>3

(* After the k-th module comes the next one that is switched on, if any. *)
LEMMA AfterFacts ==
  ASSUME NEW k \in 0..7
  PROVE  /\ After(k) \in (k + 1)..8
         /\ After(k) <= 7 => IsActive(Modules[After(k)])
         /\ \A i \in (k + 1)..(After(k) - 1) : ~IsActive(Modules[i])
<1> DEFINE IsNext(j) == /\ j <= Len(Modules) => IsActive(Modules[j])
                        /\ \A i \in (k + 1)..(j - 1) : ~IsActive(Modules[i])
           S == {j \in (k + 1)..8 : j <= 7 => IsActive(Modules[j])}
<1>1. \E j \in (k + 1)..(Len(Modules) + 1) : IsNext(j)
  <2>1. S \in SUBSET Nat /\ 8 \in S
    OBVIOUS
  <2>2. PICK m \in S : \A j \in S : m <= j
    BY <2>1, HasLeast
  <2>3. \A i \in (k + 1)..(m - 1) : i \notin S /\ i \in (k + 1)..8 /\ i <= 7
    BY <2>2
  <2> QED BY <2>2, <2>3, ModuleFacts
<1>2. After(k) = CHOOSE j \in (k + 1)..(Len(Modules) + 1) : IsNext(j)
  BY DEF After
<1> HIDE DEF IsNext
<1>3. After(k) \in (k + 1)..(Len(Modules) + 1) /\ IsNext(After(k))
  BY <1>1, <1>2
<1> QED BY <1>3, ModuleFacts DEF IsNext

-----------------------------------------------------------------------------
(* What a goroutine has is none of another one's concern. *)
LEMMA ColumnFrame ==
  ASSUME NEW p \in Projects, UNCHANGED <<world, active>>,
         step'[p] = step[p], asking'[p] = asking[p], fetching'[p] = fetching[p],
         gathered'[p] = gathered[p], \A m : <<p, m>> \in failed' <=> <<p, m>> \in failed
  PROVE  /\ Column(p) => Column(p)'
         /\ HasRead(p)' <=> HasRead(p)
         /\ Finished(p)' <=> Finished(p)
<1>1. \A m : IsActive(m)' <=> IsActive(m)
  BY DEF IsActive
<1>2. \A k : Ran(p, k)' <=> Ran(p, k)
  BY DEF Ran
<1>3. \A m : FoundBy(p, m)' = FoundBy(p, m) /\ (HasFailed(p, m)' <=> HasFailed(p, m))
  BY DEF FoundBy, HasFailed
<1>4. \A m : Findings(world[p], m)' = Findings(world[p], m)
  OBVIOUS
<1>5. \A k : Gather(p, k)' <=> Gather(p, k)
  BY <1>1, <1>2, <1>3, <1>4 DEF Gather
<1>6. Progress(p)' <=> Progress(p)
  BY <1>1 DEF Progress, Auditing, Module
<1> QED BY <1>1, <1>2, <1>5, <1>6 DEF Column, HasRead, Finished

(* Where a goroutine may be after a step from its s-th module, or from     *)
(* none: in the next one, or in the same and about to ask for a user.      *)
MovesFrom(p, s) ==
  \/ step'[p] = After(s) /\ asking'[p] = {} /\ fetching'[p] = None
  \/ /\ step'[p] = s /\ s > 0 /\ IsActive(Modules[s])
     /\ asking'[p] # {} \/ fetching'[p] # None

(* A goroutine that moves on has run the modules up to the one it was in,  *)
(* and no other that is switched on.                                       *)
LEMMA Moves ==
  ASSUME NEW p \in Projects, UNCHANGED <<world, active>>, NEW s \in 0..7, step[p] = s, MovesFrom(p, s)
  PROVE  /\ Progress(p)' /\ step'[p] \in 1..8
         /\ \A k \in 1..7 : Ran(p, k) => k <= s
         /\ \A k \in 1..7 : k < s => Ran(p, k)
         /\ \A k \in 1..7 : Ran(p, k)' => k <= s \/ ~IsActive(Modules[k])
         /\ \A k \in 1..7 : k <= s => Ran(p, k)'
<1>1. \A m : IsActive(m)' <=> IsActive(m)
  BY DEF IsActive
<1>2. CASE step'[p] = After(s) /\ asking'[p] = {} /\ fetching'[p] = None
  <2>1. PICK a \in (s + 1)..8 : a = After(s)
    BY AfterFacts
  <2>2. (a <= 7 => IsActive(Modules[a])) /\ \A i \in (s + 1)..(a - 1) : ~IsActive(Modules[i])
    BY <2>1, AfterFacts
  <2>3. step'[p] = a
    BY <1>2, <2>1
  <2>4. Progress(p)'
    BY <1>1, <1>2, <2>2, <2>3, ModuleFacts DEF Progress, Auditing, Module
  <2>5. \A k \in 1..7 : Ran(p, k)' <=> k < a
    BY <1>2, <2>3 DEF Ran
  <2>6. \A k \in 1..7 : (Ran(p, k) => k <= s) /\ (k < s => Ran(p, k))
    BY DEF Ran
  <2> QED BY <2>2, <2>3, <2>4, <2>5, <2>6
<1>3. CASE /\ step'[p] = s /\ s > 0 /\ IsActive(Modules[s])
           /\ asking'[p] # {} \/ fetching'[p] # None
  <2>1. Progress(p)'
    BY <1>1, <1>3, ModuleFacts DEF Progress, Auditing, Module
  <2>2. \A k \in 1..7 : Ran(p, k)' <=> k <= s
    BY <1>3 DEF Ran
  <2>3. \A k \in 1..7 : (Ran(p, k) => k <= s) /\ (k < s => Ran(p, k))
    BY DEF Ran
  <2> QED BY <1>3, <2>1, <2>2, <2>3
<1> QED BY <1>2, <1>3 DEF MovesFrom

(* Where a goroutine that is no further than before has nothing new. *)
LEMMA GatherStays ==
  ASSUME NEW p \in Projects, NEW k \in 1..7, Gather(p, k), UNCHANGED <<world, active>>,
         FoundBy(p, Modules[k])' = FoundBy(p, Modules[k]),
         failed \subseteq failed', <<p, Modules[k]>> \in failed' => <<p, Modules[k]>> \in failed,
         Ran(p, k) => Ran(p, k)', Ran(p, k)' => Ran(p, k) \/ ~IsActive(Modules[k])
  PROVE  Gather(p, k)'
<1>1. IsActive(Modules[k])' <=> IsActive(Modules[k])
  BY DEF IsActive
<1>2. HasFailed(p, Modules[k]) => HasFailed(p, Modules[k])'
  BY DEF HasFailed
<1>3. Findings(world[p], Modules[k])' = Findings(world[p], Modules[k])
  OBVIOUS
<1> QED BY <1>1, <1>2, <1>3 DEF Gather

-----------------------------------------------------------------------------
(* What the scenarios say of a project. *)
IsProject(d) ==
  /\ d.lifecycle \in Lifecycles
  /\ d.members \in Seq([user : Users, role : DOMAIN Roles, expires : BOOLEAN, direct : BOOLEAN])
  /\ d.environments \in Seq([name : STRING, production : BOOLEAN])
  /\ IsFiniteSet(d.branches) /\ IsFiniteSet(d.protected)
  /\ IsFiniteSet(d.files) /\ IsFiniteSet(d.tags)

(* The projects are the scenario's from the beginning to the end. *)
LEMMA WorldFacts ==
  ASSUME AuditTypes, NEW p \in Projects
  PROVE  IsProject(world[p])
  BY AuditAssumption DEF AuditTypes, AuditAssumption, IsProject

(* A module finds finitely many things, also when its listing ends early. *)
LEMMA FindingsAreFinite ==
  ASSUME NEW d, IsProject(d)
  PROVE  /\ \A k \in 1..7 : IsFiniteSet(Findings(d, Modules[k]))
         /\ \A n \in 0..Len(d.environments) : IsFiniteSet(UnprotectedEnvironments(d, n))
         /\ \A S \in SUBSET d.files : IsFiniteSet(FilesMisread(d, S))
<1>1. IsFiniteSet(UserAccess(d))
  <2> DEFINE f == [j \in DOMAIN d.members |->
                     LET m == d.members[j]
                         risk == IF Roles[m.role] >= Roles.maintainer THEN "critical" ELSE "high"
                         severity == IF Roles[m.role] < Roles.owner /\ ~m.expires THEN risk ELSE "pass"
                     IN [Finding(d, m.user, severity) EXCEPT !.bot = IsBot(m.user, "members"),
                                                             !.direct = m.user \in DirectMembers(d)]]
  <2>1. UserAccess(d) = {f[j] : j \in DOMAIN d.members}
    BY DEF UserAccess
  <2>2. IsFiniteSet(DOMAIN d.members)
    BY LenProperties, FS_Interval DEF IsProject
  <2>3. DOMAIN f = DOMAIN d.members
    OBVIOUS
  <2> HIDE DEF f
  <2> QED BY <2>1, <2>2, <2>3, FiniteImage
<1>2. IsFiniteSet(ProtectedBranches(d))
  <2> DEFINE f == [b \in d.branches |->
                     Finding(d, b.name, Worst(Flag(b.force, "critical") \cup Flag(b.pushers # {}, "high")
                                 \cup Flag(~b.owners, "high") \cup Flag(b.developers, "medium")))]
  <2>1. ProtectedBranches(d) = {f[b] : b \in d.branches} /\ DOMAIN f = d.branches
    BY DEF ProtectedBranches
  <2> HIDE DEF f
  <2> QED BY <2>1, FiniteImage DEF IsProject
<1>3. IsFiniteSet(UnprotectedDefault(d))
  <2>1. UnprotectedDefault(d) \subseteq {Finding(d, d.default, "critical")}
    BY DEF UnprotectedDefault, Flag
  <2>2. IsFiniteSet({Finding(d, d.default, "critical")})
    BY FS_Singleton, Zenon
  <2> QED BY <2>1, <2>2, FS_Subset
<1>4. IsFiniteSet(ProtectedEnvironments(d))
  <2> DEFINE f == [e \in d.protected |->
                     Finding(d, e.name, Worst(Flag(e.production /\ ~e.approvals, "critical")
                                              \cup Flag(e.deployers # {}, "high")))]
  <2>1. ProtectedEnvironments(d) = {f[e] : e \in d.protected} /\ DOMAIN f = d.protected
    BY DEF ProtectedEnvironments
  <2> HIDE DEF f
  <2> QED BY <2>1, FiniteImage DEF IsProject
<1>5. ASSUME NEW n \in 0..Len(d.environments) PROVE IsFiniteSet(UnprotectedEnvironments(d, n))
  <2> DEFINE S == {k \in 1..n : \A e \in d.protected : e.name # d.environments[k].name}
             f == [j \in S |-> LET e == d.environments[j]
                               IN Finding(d, e.name, IF e.production THEN "critical" ELSE "medium")]
  <2>1. UnprotectedEnvironments(d, n) = {f[j] : j \in S} /\ DOMAIN f = S
    BY DEF UnprotectedEnvironments
  <2>2. S \subseteq 1..n /\ n \in Nat
    BY LenProperties DEF IsProject
  <2> HIDE DEF f, S
  <2>3. IsFiniteSet(1..n)
    BY <2>2, FS_Interval
  <2>4. IsFiniteSet(S)
    BY <2>2, <2>3, FS_Subset
  <2> QED BY <2>1, <2>4, FiniteImage
<1>6. IsFiniteSet(PipelineRetention(d))
  BY FS_Singleton DEF PipelineRetention
<1>7. ASSUME NEW S \in SUBSET d.files PROVE IsFiniteSet(FilesMisread(d, S))
  <2> DEFINE M == MissingFiles(d) \cup S
             D == DriftedFiles(d) \ S
             f == [x \in M |-> Finding(d, x.name, "high")]
             g == [x \in D |-> Finding(d, x.name, "medium")]
  <2>1. FilesMisread(d, S) = {f[x] : x \in M} \cup {g[x] : x \in D} /\ DOMAIN f = M /\ DOMAIN g = D
    BY DEF FilesMisread
  <2>2. IsFiniteSet(M) /\ IsFiniteSet(D)
    BY FS_Subset DEF IsProject, MissingFiles, DriftedFiles
  <2> HIDE DEF f, g, M, D
  <2>3. IsFiniteSet({f[x] : x \in M}) /\ IsFiniteSet({g[x] : x \in D})
    BY <2>1, <2>2, FiniteImage
  <2>4. IsFiniteSet({f[x] : x \in M} \cup {g[x] : x \in D})
    BY <2>3, FS_Union, Zenon
  <2> QED BY <2>1, <2>4
<1>8. IsFiniteSet(ProtectedTags(d))
  <2> DEFINE f == [t \in d.tags |->
                     Finding(d, t.name, Worst(Flag(t.name = "*", "low") \cup Flag(t.creators # {}, "high")
                                              \cup Flag(t.developers, "medium")))]
  <2>1. ProtectedTags(d) = {f[t] : t \in d.tags} /\ DOMAIN f = d.tags
    BY DEF ProtectedTags
  <2> HIDE DEF f
  <2> QED BY <2>1, FiniteImage DEF IsProject
<1>9. IsFiniteSet(UnprotectedTags(d))
  <2>1. UnprotectedTags(d) \subseteq {Finding(d, "(none)", "critical"), Finding(d, "v*", "high")}
    BY DEF UnprotectedTags, Flag
  <2>2. IsFiniteSet({Finding(d, "(none)", "critical")} \cup {Finding(d, "v*", "high")})
    BY FS_Singleton, FS_Union
  <2>3. {Finding(d, "(none)", "critical")} \cup {Finding(d, "v*", "high")}
          = {Finding(d, "(none)", "critical"), Finding(d, "v*", "high")}
    OBVIOUS
  <2> QED BY <2>1, <2>2, <2>3, FS_Subset
<1>10. IsFiniteSet(UnprotectedEnvironments(d, Len(d.environments)))
  <2>1. Len(d.environments) \in Nat
    BY LenProperties DEF IsProject
  <2>2. Len(d.environments) \in 0..Len(d.environments)
    BY <2>1
  <2> QED BY <1>5, <2>2
<1>11. IsFiniteSet(ProtectedBranches(d) \cup UnprotectedDefault(d))
       /\ IsFiniteSet(ProtectedTags(d) \cup UnprotectedTags(d))
  BY <1>2, <1>3, <1>8, <1>9, FS_Union
<1>12. ASSUME NEW k \in 1..7 PROVE IsFiniteSet(Findings(d, Modules[k]))
  <2>1. k = 1 \/ k = 2 \/ k = 3 \/ k = 4 \/ k = 5 \/ k = 6 \/ k = 7
    OBVIOUS
  <2>2. IsFiniteSet(RepositoryFiles(d))
    BY <1>7 DEF RepositoryFiles
  <2> QED BY <1>1, <1>4, <1>6, <1>10, <1>11, <2>1, <2>2, ModuleFacts DEF Findings
<1> QED BY <1>5, <1>7, <1>12

-----------------------------------------------------------------------------
Severe == {"critical", "high"}

(* A project in use keeps the severity of a finding; one that is inactive  *)
(* keeps a critical one severe.                                            *)
LEMMA SeverityKept ==
  ASSUME NEW d, NEW subject, NEW severity
  PROVE  /\ d.lifecycle = "active" => Finding(d, subject, severity).severity = severity
         /\ d.lifecycle = "inactive" => Finding(d, subject, "critical").severity = "high"
<1>1. d.lifecycle = "active" => AdjustSeverity(severity, d) = severity
  BY DEF AdjustSeverity, IsArchived, IsInactive
<1>2. d.lifecycle = "inactive" => AdjustSeverity("critical", d) = "high"
  BY DEF AdjustSeverity, IsArchived, IsInactive
<1> QED BY <1>1, <1>2 DEF Finding

(* The finding about one who keeps an access below that of an owner. *)
LEMMA AccessIsFound ==
  ASSUME NEW d, IsProject(d), NEW j \in DOMAIN d.members, ~d.members[j].expires,
         d.members[j].role # "owner",
         \/ d.lifecycle = "active"
         \/ d.lifecycle = "inactive" /\ d.members[j].role = "maintainer"
  PROVE  \E f \in UserAccess(d) : f.severity \in Severe
<1>1. PICK m \in [user : Users, role : DOMAIN Roles, expires : BOOLEAN, direct : BOOLEAN] :
        m = d.members[j]
  BY LenProperties, ElementOfSeq DEF IsProject
<1> DEFINE risk == IF Roles[m.role] >= Roles.maintainer THEN "critical" ELSE "high"
           severity == IF Roles[m.role] < Roles.owner /\ ~m.expires THEN risk ELSE "pass"
<1>2. m.role \in {"guest", "developer", "maintainer"} /\ ~m.expires
  BY <1>1 DEF Roles
<1>3. severity \in Severe /\ (m.role = "maintainer" => severity = "critical")
  BY <1>2 DEF Roles, Severe
<1>4. PICK s : s = severity
  OBVIOUS
<1>5. PICK f : f = [Finding(d, m.user, s) EXCEPT !.bot = IsBot(m.user, "members"),
                                                 !.direct = m.user \in DirectMembers(d)]
  OBVIOUS
<1>6. f \in UserAccess(d)
  BY <1>1, <1>4, <1>5 DEF UserAccess
<1> HIDE DEF severity
<1>7. f.severity = Finding(d, m.user, s).severity
  BY <1>5 DEF Finding
<1>8. f.severity \in Severe
  BY <1>1, <1>3, <1>4, <1>7, SeverityKept DEF Severe
<1> QED BY <1>6, <1>8

(* The finding about a protected branch, or one that should be. *)
LEMMA BranchIsFound ==
  ASSUME NEW d, IsProject(d),
         \/ d.lifecycle = "active" /\ IsExposed(d, "protected_branches")
         \/ d.lifecycle = "inactive" /\ \E b \in d.branches : b.force
  PROVE  \E f \in ProtectedBranches(d) \cup UnprotectedDefault(d) : f.severity \in Severe
<1> DEFINE Risk(b) == Worst(Flag(b.force, "critical") \cup Flag(b.pushers # {}, "high")
                            \cup Flag(~b.owners, "high") \cup Flag(b.developers, "medium"))
<1>1. ASSUME NEW b \in d.branches
      PROVE  /\ Finding(d, b.name, Risk(b)) \in ProtectedBranches(d)
             /\ b.force => Risk(b) = "critical"
             /\ b.force \/ ~b.owners \/ b.pushers # {} => Risk(b) \in Severe
  BY DEF ProtectedBranches, Worst, Flag, Severe
<1> HIDE DEF Risk
<1>2. CASE d.lifecycle = "inactive" /\ \E b \in d.branches : b.force
  <2>1. PICK b \in d.branches : b.force
    BY <1>2
  <2> QED BY <1>1, <1>2, <2>1, SeverityKept DEF Severe
<1>3. CASE d.lifecycle = "active" /\ \E b \in d.branches : b.force \/ ~b.owners \/ b.pushers # {}
  <2>1. PICK b \in d.branches : b.force \/ ~b.owners \/ b.pushers # {}
    BY <1>3
  <2> QED BY <1>1, <1>3, <2>1, SeverityKept
<1>4. CASE d.lifecycle = "active" /\ {d.default, "main", "master"} \cap {b.name : b \in d.branches} = {}
  <2>1. Finding(d, d.default, "critical") \in UnprotectedDefault(d)
    BY <1>4 DEF UnprotectedDefault, Flag
  <2> QED BY <1>4, <2>1, SeverityKept DEF Severe
<1> QED BY <1>2, <1>3, <1>4 DEF IsExposed

(* The finding about an environment. *)
LEMMA EnvironmentIsFound ==
  ASSUME NEW d, IsProject(d)
  PROVE  /\ d.lifecycle = "active" /\ IsExposed(d, "protected_environments")
            => \E f \in ProtectedEnvironments(d) : f.severity \in Severe
         /\ d.lifecycle \in {"active", "inactive"} /\ IsExposed(d, "environments")
            => \E f \in UnprotectedEnvironments(d, Len(d.environments)) : f.severity \in Severe
<1>1. ASSUME d.lifecycle = "active", IsExposed(d, "protected_environments")
      PROVE  \E f \in ProtectedEnvironments(d) : f.severity \in Severe
  <2> DEFINE Risk(e) == Worst(Flag(e.production /\ ~e.approvals, "critical")
                              \cup Flag(e.deployers # {}, "high"))
  <2>1. PICK e \in d.protected : (e.production /\ ~e.approvals) \/ e.deployers # {}
    BY <1>1 DEF IsExposed
  <2>2. Finding(d, e.name, Risk(e)) \in ProtectedEnvironments(d)
    BY DEF ProtectedEnvironments
  <2>3. Risk(e) \in Severe
    BY <2>1 DEF Worst, Flag, Severe
  <2> HIDE DEF Risk
  <2> QED BY <1>1, <2>2, <2>3, SeverityKept
<1>2. ASSUME d.lifecycle \in {"active", "inactive"}, IsExposed(d, "environments")
      PROVE  \E f \in UnprotectedEnvironments(d, Len(d.environments)) : f.severity \in Severe
  <2>1. PICK j \in DOMAIN d.environments :
          d.environments[j].production /\ Unprotected(d, d.environments[j])
    BY <1>2 DEF IsExposed
  <2>2. j \in 1..Len(d.environments)
    BY LenProperties DEF IsProject
  <2>3. Finding(d, d.environments[j].name, "critical")
          \in UnprotectedEnvironments(d, Len(d.environments))
    BY <2>1, <2>2 DEF UnprotectedEnvironments, Unprotected
  <2> QED BY <1>2, <2>3, SeverityKept DEF Severe
<1> QED BY <1>1, <1>2

(* The findings about pipelines, files and tags. *)
LEMMA RestIsFound ==
  ASSUME NEW d, IsProject(d), d.lifecycle = "active"
  PROVE  /\ IsExposed(d, "pipeline_retention") => \E f \in PipelineRetention(d) : f.severity \in Severe
         /\ IsExposed(d, "repository_files") => \E f \in RepositoryFiles(d) : f.severity \in Severe
         /\ IsExposed(d, "protected_tags")
            => \E f \in ProtectedTags(d) \cup UnprotectedTags(d) : f.severity \in Severe
<1>1. ASSUME IsExposed(d, "pipeline_retention")
      PROVE  \E f \in PipelineRetention(d) : f.severity \in Severe
  <2>1. Finding(d, "pipelines", "high") \in PipelineRetention(d)
    BY <1>1 DEF IsExposed, PipelineRetention, StaleDespiteRetention
  <2> QED BY <2>1, SeverityKept DEF Severe
<1>2. ASSUME IsExposed(d, "repository_files")
      PROVE  \E f \in RepositoryFiles(d) : f.severity \in Severe
  <2>1. PICK x \in d.files : x.state = "missing"
    BY <1>2 DEF IsExposed
  <2>2. Finding(d, x.name, "high") \in RepositoryFiles(d)
    BY <2>1 DEF RepositoryFiles, FilesMisread, MissingFiles
  <2> QED BY <2>2, SeverityKept DEF Severe
<1>3. ASSUME IsExposed(d, "protected_tags")
      PROVE  \E f \in ProtectedTags(d) \cup UnprotectedTags(d) : f.severity \in Severe
  <2>1. CASE \A t \in d.tags : ~CoversReleases(t.name)
    <3>1. \E s \in Severe : \E x : Finding(d, x, s) \in UnprotectedTags(d)
      BY <2>1 DEF UnprotectedTags, Flag, Severe
    <3> QED BY <3>1, SeverityKept
  <2>2. CASE \E t \in d.tags : t.creators # {}
    <3> DEFINE Risk(t) == Worst(Flag(t.name = "*", "low") \cup Flag(t.creators # {}, "high")
                                \cup Flag(t.developers, "medium"))
    <3>1. PICK t \in d.tags : t.creators # {}
      BY <2>2
    <3>2. Finding(d, t.name, Risk(t)) \in ProtectedTags(d)
      BY DEF ProtectedTags
    <3>3. Risk(t) \in Severe
      BY <3>1 DEF Worst, Flag, Severe
    <3> HIDE DEF Risk
    <3> QED BY <3>2, <3>3, SeverityKept
  <2> QED BY <1>3, <2>1, <2>2 DEF IsExposed
<1> QED BY <1>1, <1>2, <1>3

(* The exposures of which ExposureClosesGate speaks, of a project in use   *)
(* or not.                                                                 *)
Alarms(d, m) ==
  \/ d.lifecycle = "active" /\ IsExposed(d, m)
  \/ /\ d.lifecycle = "inactive"
     /\ \/ m = "protected_branches" /\ \E b \in d.branches : b.force
        \/ m = "user_access" /\ HasMaintainerForEver(d)
        \/ m = "environments" /\ IsExposed(d, m)

(* What is exposed is found, and is severe enough to close the gate. *)
LEMMA ExposedIsFound ==
  ASSUME NEW d, IsProject(d), NEW k \in 1..7, Alarms(d, Modules[k])
  PROVE  \E f \in Findings(d, Modules[k]) : f.severity \in Severe
<1>1. CASE k = 1
  <2>1. Modules[k] = "user_access"
    BY <1>1, ModuleFacts
  <2>2. \E j \in DOMAIN d.members :
          /\ ~d.members[j].expires /\ d.members[j].role # "owner"
          /\ \/ d.lifecycle = "active"
             \/ d.lifecycle = "inactive" /\ d.members[j].role = "maintainer"
    BY <2>1 DEF Alarms, IsExposed, HasMaintainerForEver
  <2> QED BY <2>1, <2>2, AccessIsFound DEF Findings
<1>2. CASE k = 2
  <2>1. Modules[k] = "protected_branches"
    BY <1>2, ModuleFacts
  <2> QED BY <2>1, BranchIsFound DEF Findings, Alarms
<1>3. CASE k = 3
  <2>1. Modules[k] = "protected_environments"
    BY <1>3, ModuleFacts
  <2> QED BY <2>1, EnvironmentIsFound DEF Findings, Alarms
<1>4. CASE k = 4
  <2>1. Modules[k] = "environments"
    BY <1>4, ModuleFacts
  <2> QED BY <2>1, EnvironmentIsFound DEF Findings, Alarms
<1>5. CASE k \in {5, 6, 7}
  <2>1. Modules[k] \in {"pipeline_retention", "repository_files", "protected_tags"}
    BY <1>5, ModuleFacts
  <2> QED BY <2>1, RestIsFound DEF Findings, Alarms
<1> QED BY <1>1, <1>2, <1>3, <1>4, <1>5

-----------------------------------------------------------------------------
BotOf(users, u, shownBy) == IF u \in DOMAIN users THEN users[u].bot ELSE IsBot(u, shownBy)
PathsOf(users, u) == IF u \in DOMAIN users THEN users[u].paths ELSE {}

(* Such a change to a directory leaves a directory. *)
LEMMA RegisteredIs ==
  ASSUME NEW users, IsDirectory(users), NEW u, NEW b, NEW q, NEW new,
         new = [v \in DOMAIN users \cup {u} |->
                  IF v = u THEN [bot |-> b, paths |-> q] ELSE users[v]]
  PROVE  /\ IsDirectory(new) /\ DOMAIN new = DOMAIN users \cup {u}
         /\ \A v \in DOMAIN users : v # u => new[v] = users[v]
         /\ new[u].bot = b /\ new[u].paths = q
<1>1. /\ DOMAIN new = DOMAIN users \cup {u} /\ new[u] = [bot |-> b, paths |-> q]
      /\ \A v \in DOMAIN users : v # u => new[v] = users[v]
  OBVIOUS
<1>2. new[u].bot = b /\ new[u].paths = q
  BY <1>1
<1>3. ASSUME NEW v \in DOMAIN new PROVE new[v] = [bot |-> new[v].bot, paths |-> new[v].paths]
  <2>1. CASE v = u
    BY <1>1, <1>2, <2>1
  <2>2. CASE v # u
    BY <1>1, <2>2 DEF IsDirectory
  <2> QED BY <2>1, <2>2
<1>4. IsDirectory(new)
  BY <1>3 DEF IsDirectory
<1> QED BY <1>1, <1>2, <1>4

(* A profile adds a user, and no project. *)
LEMMA RegisterProfile ==
  ASSUME NEW users, IsDirectory(users), NEW u, NEW new, new = Register(users, u, "profiles", {})
  PROVE  /\ IsDirectory(new) /\ DOMAIN new = DOMAIN users \cup {u}
         /\ \A v \in DOMAIN users : v # u => new[v] = users[v]
         /\ new[u].bot = BotOf(users, u, "profiles") /\ new[u].paths = PathsOf(users, u)
<1>1. PICK b, q : b = BotOf(users, u, "profiles") /\ q = PathsOf(users, u)
  OBVIOUS
<1>2. new = [v \in DOMAIN users \cup {u} |->
               IF v = u THEN [bot |-> b, paths |-> q] ELSE users[v]]
  <2>1. CASE u \in DOMAIN users
    <3>1. PICK c, r : c = users[u].bot /\ r = users[u].paths
      OBVIOUS
    <3>2. users[u] = [bot |-> c, paths |-> r]
      BY <2>1, <3>1 DEF IsDirectory
    <3>3. b = c /\ q = r
      BY <1>1, <2>1, <3>1 DEF BotOf, PathsOf
    <3>4. [users[u] EXCEPT !.paths = r \cup {}] = [bot |-> b, paths |-> q]
      BY <3>2, <3>3
    <3>5. Register(users, u, "profiles", {}) = [users EXCEPT ![u] = [bot |-> b, paths |-> q]]
      BY <2>1, <3>1, <3>4 DEF Register
    <3>6. DOMAIN users \cup {u} = DOMAIN users
      BY <2>1
    <3> QED BY <3>5, <3>6
  <2>2. CASE u \notin DOMAIN users
    <3>1. PICK c : c = IsBot(u, "profiles")
      OBVIOUS
    <3>2. b = c /\ q = {}
      BY <1>1, <2>2, <3>1 DEF BotOf, PathsOf
    <3> QED BY <2>2, <3>1, <3>2 DEF Register
  <2> QED BY <2>1, <2>2
<1> QED BY <1>1, <1>2, RegisteredIs

(* What the first n turns of the loop over the members of p make of a      *)
(* directory.                                                              *)
FirstMembers(p, n) == {world[p].members[j].user : j \in 1..n}
WithFirst(users, p, n) ==
  [v \in DOMAIN users \cup FirstMembers(p, n) |->
     [bot |-> BotOf(users, v, "members"),
      paths |-> PathsOf(users, v) \cup (IF v \in FirstMembers(p, n) THEN {p} ELSE {})]]

(* One more turn of the loop registers one more member. *)
LEMMA OneMoreMember ==
  ASSUME NEW users, NEW p, NEW n \in Nat
  PROVE  WithFirst(users, p, n + 1)
           = Register(WithFirst(users, p, n), world[p].members[n + 1].user, "members", {p})
<1>1. PICK u : u = world[p].members[n + 1].user
  OBVIOUS
<1>2. PICK old : old = WithFirst(users, p, n)
  OBVIOUS
<1>3. FirstMembers(p, n + 1) = FirstMembers(p, n) \cup {u}
  <2>1. 1..(n + 1) = 1..n \cup {n + 1}
    OBVIOUS
  <2> QED BY <1>1, <2>1 DEF FirstMembers
<1>4. PICK first : first = FirstMembers(p, n)
  OBVIOUS
<1>5. /\ DOMAIN old = DOMAIN users \cup first
      /\ \A v \in DOMAIN old :
           old[v] = [bot |-> BotOf(users, v, "members"),
                     paths |-> PathsOf(users, v) \cup (IF v \in first THEN {p} ELSE {})]
  BY <1>2, <1>4 DEF WithFirst
<1>6. IsDirectory(old)
  BY <1>2, <1>4, <1>5 DEF IsDirectory, WithFirst
<1>7. /\ BotOf(old, u, "members") = BotOf(users, u, "members")
      /\ PathsOf(old, u) \cup {p} = PathsOf(users, u) \cup {p}
  <2>1. CASE u \in DOMAIN old
    <3>1. PICK b, q : b = BotOf(users, u, "members") /\ q = PathsOf(users, u)
      OBVIOUS
    <3>2. old[u] = [bot |-> b, paths |-> q \cup (IF u \in first THEN {p} ELSE {})]
      BY <1>5, <2>1, <3>1
    <3>3. old[u].bot = b /\ old[u].paths \cup {p} = q \cup {p}
      BY <3>2
    <3>4. BotOf(old, u, "members") = old[u].bot /\ PathsOf(old, u) = old[u].paths
      BY <2>1 DEF BotOf, PathsOf
    <3> QED BY <3>1, <3>3, <3>4
  <2>2. CASE u \notin DOMAIN old
    BY <1>5, <2>2 DEF BotOf, PathsOf
  <2> QED BY <2>1, <2>2
<1>8. Register(old, u, "members", {p})
        = [v \in DOMAIN users \cup (first \cup {u}) |->
             IF v = u THEN [bot |-> BotOf(users, u, "members"), paths |-> PathsOf(users, u) \cup {p}]
             ELSE old[v]]
  <2>1. DOMAIN old \cup {u} = DOMAIN users \cup (first \cup {u})
    BY <1>5
  <2>2. PICK b, q : b = BotOf(old, u, "members") /\ q = PathsOf(old, u) \cup {p}
    OBVIOUS
  <2>3. Register(old, u, "members", {p})
          = [v \in DOMAIN old \cup {u} |-> IF v = u THEN [bot |-> b, paths |-> q] ELSE old[v]]
    <3>1. CASE u \in DOMAIN old
      <4>1. PICK c, r : c = old[u].bot /\ r = old[u].paths
        OBVIOUS
      <4>2. old[u] = [bot |-> c, paths |-> r]
        BY <1>6, <3>1, <4>1 DEF IsDirectory
      <4>3. b = c /\ q = r \cup {p}
        BY <2>2, <3>1, <4>1 DEF BotOf, PathsOf
      <4>4. [old[u] EXCEPT !.paths = r \cup {p}] = [bot |-> b, paths |-> q]
        BY <4>2, <4>3
      <4>5. Register(old, u, "members", {p}) = [old EXCEPT ![u] = [bot |-> b, paths |-> q]]
        BY <3>1, <4>1, <4>4 DEF Register
      <4>6. DOMAIN old \cup {u} = DOMAIN old
        BY <3>1
      <4> QED BY <4>5, <4>6
    <3>2. CASE u \notin DOMAIN old
      <4>1. PICK c : c = IsBot(u, "members")
        OBVIOUS
      <4>2. b = c /\ q = {p}
        BY <2>2, <3>2, <4>1 DEF BotOf, PathsOf
      <4> QED BY <3>2, <4>1, <4>2 DEF Register
    <3> QED BY <3>1, <3>2
  <2> QED BY <1>7, <2>1, <2>2, <2>3
<1>9. WithFirst(users, p, n + 1)
        = [v \in DOMAIN users \cup (first \cup {u}) |->
             [bot |-> BotOf(users, v, "members"),
              paths |-> PathsOf(users, v) \cup (IF v \in first \cup {u} THEN {p} ELSE {})]]
  BY <1>3, <1>4 DEF WithFirst
<1>10. ASSUME NEW v \in DOMAIN users \cup (first \cup {u})
       PROVE  (IF v = u THEN [bot |-> BotOf(users, u, "members"), paths |-> PathsOf(users, u) \cup {p}]
               ELSE old[v])
              = [bot |-> BotOf(users, v, "members"),
                 paths |-> PathsOf(users, v) \cup (IF v \in first \cup {u} THEN {p} ELSE {})]
  BY <1>5
<1> QED BY <1>1, <1>2, <1>8, <1>9, <1>10

(* RegisterMembers: the members are known, with the project, and nothing   *)
(* else has changed.                                                       *)
LEMMA RegisterMembersIs ==
  ASSUME NEW users, IsDirectory(users), NEW p, NEW n \in Nat, Len(world[p].members) = n
  PROVE  RegisterMembers(users, p) = WithFirst(users, p, n)
<1> DEFINE Turn(f) == [k \in 0..n |-> IF k = 0 THEN users
                       ELSE Register(f[k - 1], world[p].members[k].user, "members", {p})]
           F == [k \in 0..n |-> WithFirst(users, p, k)]
<1>1. WithFirst(users, p, 0) = users
  <2>1. FirstMembers(p, 0) = {}
    BY DEF FirstMembers
  <2>2. WithFirst(users, p, 0) = [v \in DOMAIN users |-> [bot |-> users[v].bot, paths |-> users[v].paths]]
    BY <2>1 DEF WithFirst, BotOf, PathsOf
  <2> QED BY <2>2 DEF IsDirectory
<1>2. F = Turn(F)
  <2>1. ASSUME NEW k \in 0..n
        PROVE  F[k] = IF k = 0 THEN users
                      ELSE Register(F[k - 1], world[p].members[k].user, "members", {p})
    <3>1. CASE k = 0
      BY <1>1, <3>1
    <3>2. CASE k # 0
      <4>1. k - 1 \in Nat /\ k - 1 \in 0..n /\ (k - 1) + 1 = k
        BY <3>2
      <4> QED BY <3>2, <4>1, OneMoreMember
    <3> QED BY <3>1, <3>2
  <2> QED BY <2>1
<1>3. PICK a : a = Turn(a) /\ RegisterMembers(users, p) = a[n]
  <2>1. RegisterMembers(users, p) = (CHOOSE a : a = Turn(a))[n]
    BY DEF RegisterMembers
  <2> HIDE DEF F, Turn
  <2> QED BY <1>2, <2>1
<1>4. \A k \in 0..n : a[k] = WithFirst(users, p, k)
  <2> DEFINE Bad == {k \in 0..n : a[k] # WithFirst(users, p, k)}
  <2> SUFFICES ASSUME Bad # {} PROVE FALSE
    OBVIOUS
  <2>1. PICK m \in Bad : \A k \in Bad : m <= k
    <3>1. Bad \in SUBSET Nat
      OBVIOUS
    <3> QED BY <3>1, HasLeast
  <2>2. a[0] = users
    BY <1>3
  <2>3. m # 0
    BY <1>1, <2>1, <2>2
  <2>4. m - 1 \in 0..n /\ m - 1 \in Nat /\ (m - 1) + 1 = m /\ m - 1 \notin Bad
    BY <2>1, <2>3
  <2>5. a[m] = Register(a[m - 1], world[p].members[m].user, "members", {p})
    BY <1>3, <2>3
  <2>6. a[m - 1] = WithFirst(users, p, m - 1)
    BY <2>4
  <2>7. a[m] = WithFirst(users, p, m)
    <3>1. PICK j \in Nat : j = m - 1
      BY <2>4
    <3>2. m = j + 1
      BY <2>4, <3>1
    <3> QED BY <2>5, <2>6, <3>1, <3>2, OneMoreMember
  <2> QED BY <2>1, <2>7
<1>5. n \in 0..n
  OBVIOUS
<1> QED BY <1>3, <1>4, <1>5

-----------------------------------------------------------------------------
(* No step changes the projects or the choice of modules. *)
LEMMA SameMembers ==
  ASSUME UNCHANGED <<world, active>>
  PROVE  \A p : MembersOf(p)' = MembersOf(p)
  BY DEF MembersOf

(* The directory is left alone, and so is what it should hold. *)
LEMMA RegistryFrame ==
  ASSUME Registry, UNCHANGED <<world, active, directory>>,
         \A p \in Projects : HasRead(p)' <=> HasRead(p)
  PROVE  Registry'
  BY SameMembers DEF Registry, IsDirectory

(* A profile arrives.  A user whom nobody registered is a member of no     *)
(* project that was read, and one who is known stays as they are.          *)
LEMMA RegistryFetched ==
  ASSUME Registry, UNCHANGED <<world, active>>, NEW u,
         directory' = Register(directory, u, "profiles", {}),
         \A p \in Projects : HasRead(p)' <=> HasRead(p)
  PROVE  Registry'
<1>1. PICK new : new = directory'
  OBVIOUS
<1>2. /\ IsDirectory(new) /\ DOMAIN new = DOMAIN directory \cup {u}
      /\ \A v \in DOMAIN directory : v # u => new[v] = directory[v]
      /\ new[u].bot = BotOf(directory, u, "profiles") /\ new[u].paths = PathsOf(directory, u)
  BY <1>1, RegisterProfile DEF Registry
<1>3. \A p \in Projects : HasRead(p) => MembersOf(p) \subseteq DOMAIN new
  BY <1>2 DEF Registry
<1>4. ASSUME NEW v \in DOMAIN new
      PROVE  /\ new[v].paths = {p \in Projects : HasRead(p) /\ v \in MembersOf(p)}
             /\ ("members" \in Emails <=> "profiles" \in Emails) => new[v].bot = IsBot(v, "members")
  <2>1. CASE v # u
    BY <1>2, <2>1 DEF Registry
  <2>2. CASE v = u /\ u \in DOMAIN directory
    BY <1>2, <2>2 DEF Registry, BotOf, PathsOf
  <2>3. CASE v = u /\ u \notin DOMAIN directory
    <3>1. {p \in Projects : HasRead(p) /\ u \in MembersOf(p)} = {}
      BY <2>3 DEF Registry
    <3>2. new[u].paths = {}
      BY <1>2, <2>3 DEF PathsOf
    <3>3. ("members" \in Emails <=> "profiles" \in Emails) => new[u].bot = IsBot(u, "members")
      BY <1>2, <2>3 DEF BotOf, IsBot
    <3> QED BY <2>3, <3>1, <3>2, <3>3
  <2> QED BY <2>1, <2>2, <2>3
<1> QED BY <1>1, <1>2, <1>3, <1>4, SameMembers DEF Registry, IsDirectory

(* The members of p are read: they are known from now on, with p. *)
LEMMA RegistryRead ==
  ASSUME Registry, UNCHANGED <<world, active>>, NEW p \in Projects, IsProject(world[p]),
         directory' = RegisterMembers(directory, p), HasRead(p)', ~HasRead(p),
         \A q \in Projects : q # p => (HasRead(q)' <=> HasRead(q))
  PROVE  Registry'
<1>1. PICK new : new = directory'
  OBVIOUS
<1>2. PICK n \in Nat : n = Len(world[p].members)
  BY LenProperties DEF IsProject
<1>3. FirstMembers(p, n) = MembersOf(p)
  <2>1. DOMAIN world[p].members = 1..n
    BY <1>2, LenProperties DEF IsProject
  <2> QED BY <2>1 DEF FirstMembers, MembersOf
<1>4. new = WithFirst(directory, p, n)
  BY <1>1, <1>2, RegisterMembersIs DEF Registry
<1>5. /\ DOMAIN new = DOMAIN directory \cup MembersOf(p) /\ IsDirectory(new)
      /\ \A v \in DOMAIN new :
           /\ new[v].bot = BotOf(directory, v, "members")
           /\ new[v].paths = PathsOf(directory, v) \cup (IF v \in MembersOf(p) THEN {p} ELSE {})
  <2>1. /\ DOMAIN new = DOMAIN directory \cup MembersOf(p) /\ new = [v \in DOMAIN new |-> new[v]]
        /\ \A v \in DOMAIN new :
             new[v] = [bot |-> BotOf(directory, v, "members"),
                       paths |-> PathsOf(directory, v) \cup (IF v \in MembersOf(p) THEN {p} ELSE {})]
    BY <1>3, <1>4 DEF WithFirst
  <2>2. \A v \in DOMAIN new :
           /\ new[v].bot = BotOf(directory, v, "members")
           /\ new[v].paths = PathsOf(directory, v) \cup (IF v \in MembersOf(p) THEN {p} ELSE {})
    <3> TAKE v \in DOMAIN new
    <3>1. PICK b, q : /\ b = BotOf(directory, v, "members")
                      /\ q = PathsOf(directory, v) \cup (IF v \in MembersOf(p) THEN {p} ELSE {})
      OBVIOUS
    <3>2. new[v] = [bot |-> b, paths |-> q]
      BY <2>1, <3>1
    <3> QED BY <3>1, <3>2
  <2>3. \A v \in DOMAIN new : new[v] = [bot |-> new[v].bot, paths |-> new[v].paths]
    BY <2>1, <2>2
  <2> QED BY <2>1, <2>2, <2>3 DEF IsDirectory
<1>6. \A q \in Projects : HasRead(q)' => MembersOf(q) \subseteq DOMAIN new
  BY <1>5 DEF Registry
<1>7. ASSUME NEW v \in DOMAIN new
      PROVE  /\ new[v].paths = {q \in Projects : HasRead(q)' /\ v \in MembersOf(q)}
             /\ ("members" \in Emails <=> "profiles" \in Emails) => new[v].bot = IsBot(v, "members")
  <2>1. PathsOf(directory, v) = {q \in Projects : HasRead(q) /\ v \in MembersOf(q)}
    <3>1. CASE v \in DOMAIN directory
      BY <3>1 DEF PathsOf, Registry
    <3>2. CASE v \notin DOMAIN directory
      BY <3>2 DEF PathsOf, Registry
    <3> QED BY <3>1, <3>2
  <2>2. new[v].paths = PathsOf(directory, v) \cup (IF v \in MembersOf(p) THEN {p} ELSE {})
    BY <1>5
  <2>3. {q \in Projects : HasRead(q)' /\ v \in MembersOf(q)}
          = {q \in Projects : HasRead(q) /\ v \in MembersOf(q)} \cup (IF v \in MembersOf(p) THEN {p} ELSE {})
    OBVIOUS
  <2>4. ("members" \in Emails <=> "profiles" \in Emails) => new[v].bot = IsBot(v, "members")
    BY <1>5 DEF BotOf, Registry
  <2> QED BY <2>1, <2>2, <2>3, <2>4
<1> QED BY <1>1, <1>5, <1>6, <1>7, SameMembers DEF Registry, IsDirectory


-----------------------------------------------------------------------------
(* What a module adds is found by that module, and by no other. *)
LEMMA AddFinds ==
  ASSUME NEW p \in Projects, NEW m, NEW F, IsFiniteSet(F), IsFiniteSet(gathered[p]),
         gathered'[p] = gathered[p] \cup {[module |-> m, finding |-> f] : f \in F}
  PROVE  /\ IsFiniteSet(gathered'[p]) /\ FoundBy(p, m)' = FoundBy(p, m) \cup F
         /\ \A n : n # m => FoundBy(p, n)' = FoundBy(p, n)
<1>1. PICK g : g = [f \in F |-> [module |-> m, finding |-> f]]
  OBVIOUS
<1>2. PICK A : A = {g[f] : f \in F}
  OBVIOUS
<1>3. gathered'[p] = gathered[p] \cup A
  BY <1>1, <1>2
<1>4. \A x : x \in A <=> \E f \in F : x = [module |-> m, finding |-> f]
  BY <1>1, <1>2
<1>5. IsFiniteSet(gathered'[p])
  <2>1. IsFiniteSet(A)
    BY <1>1, <1>2, FiniteImage
  <2> QED BY <1>3, <2>1, FS_Union
<1>6. FoundBy(p, m)' = FoundBy(p, m) \cup F
  <2>1. \A x \in A : x.module = m /\ x.finding \in F
    BY <1>4
  <2>2. ASSUME NEW f \in F PROVE \E x \in A : x.module = m /\ x.finding = f
    <3>1. PICK x : x = [module |-> m, finding |-> f]
      OBVIOUS
    <3>2. x \in A /\ x.module = m /\ x.finding = f
      BY <1>4, <3>1
    <3> QED BY <3>2
  <2> QED BY <1>3, <2>1, <2>2 DEF FoundBy
<1>7. ASSUME NEW n, n # m PROVE FoundBy(p, n)' = FoundBy(p, n)
  <2>1. \A x \in A : x.module # n
    BY <1>4, <1>7
  <2> QED BY <1>3, <2>1 DEF FoundBy
<1> QED BY <1>5, <1>6, <1>7

(* The members of a project were read before the step if they were after. *)
LEMMA ReadStays ==
  ASSUME NEW p \in Projects, UNCHANGED <<world, active>>,
         <<p, "user_access">> \in failed' <=> <<p, "user_access">> \in failed,
         Ran(p, 1) => Ran(p, 1)', Ran(p, 1)' => Ran(p, 1) \/ ~IsActive("user_access")
  PROVE  HasRead(p)' <=> HasRead(p)
  BY DEF HasRead, IsActive

(* A step of one goroutine, or of its launch, that the others do not see   *)
(* but for the directory.                                                  *)
OnlyOf(p) ==
  /\ UNCHANGED <<world, active, phase, report>>
  /\ step' = [q \in Projects |-> step'[q]] /\ DOMAIN gathered' = Projects
  /\ DOMAIN asking' = Projects /\ DOMAIN fetching' = Projects
  /\ \A q \in Projects : q # p =>
       /\ step'[q] = step[q] /\ gathered'[q] = gathered[q]
       /\ asking'[q] = asking[q] /\ fetching'[q] = fetching[q]
       /\ \A m : <<q, m>> \in failed' <=> <<q, m>> \in failed

(* Nothing changes for the others. *)
LEMMA OthersStay ==
  ASSUME AuditInv, NEW p \in Projects, OnlyOf(p), NEW q \in Projects, q # p
  PROVE  /\ Column(q)' /\ (HasRead(q)' <=> HasRead(q)) /\ (Finished(q)' <=> Finished(q))
         /\ gathered'[q] = gathered[q]
<1>1. Column(q)
  BY DEF AuditInv, Columns
<1>2. /\ step'[q] = step[q] /\ asking'[q] = asking[q] /\ fetching'[q] = fetching[q]
      /\ gathered'[q] = gathered[q] /\ \A m : <<q, m>> \in failed' <=> <<q, m>> \in failed
      /\ UNCHANGED <<world, active>>
  BY DEF OnlyOf
<1> QED BY <1>1, <1>2, ColumnFrame

(* A goroutine that has not finished goes on; what it has of its modules   *)
(* and the directory are left to the lemmas on the single steps.           *)
LEMMA ModuleStep ==
  ASSUME AuditInv, NEW p \in Projects, NEW s \in 0..7, step[p] = s, OnlyOf(p), MovesFrom(p, s),
         IsFiniteSet(gathered'[p]), \A k \in 1..7 : Gather(p, k)', Registry'
  PROVE  AuditInv'
<1>1. UNCHANGED <<world, active, phase, report>>
  BY DEF OnlyOf
<1>2. Progress(p)' /\ step'[p] \in 1..8
  BY <1>1, Moves
<1>3. Columns'
  <2>1. Column(p)'
    BY <1>2 DEF Column
  <2>2. \A q \in Projects : q # p => Column(q)'
    BY OthersStay
  <2>3. \A q \in Projects : Column(q)'
    BY <2>1, <2>2
  <2> QED BY <2>3 DEF Columns
<1>4. AuditTypes'
  <2>1. step' \in [Projects -> 0..9]
    BY <1>2 DEF AuditInv, AuditTypes, OnlyOf
  <2> QED BY <1>1, <2>1 DEF AuditInv, AuditTypes, OnlyOf
<1>5. ~Finished(p) /\ ~Finished(p)'
  BY <1>2, ModuleFacts DEF Finished
<1>6. Delivered'
  <2>1. Delivered
    BY DEF AuditInv
  <2>2. \A q \in Projects : (Finished(q)' <=> Finished(q)) /\ (Finished(q) => gathered'[q] = gathered[q])
    <3> TAKE q \in Projects
    <3> QED BY <1>5, OthersStay
  <2>3. report' = report
    BY <1>1
  <2>4. \A j \in 1..Len(report) :
          \E q \in Projects : Finished(q)' /\ report[j] = [project |-> q, findings |-> gathered'[q]]
    <3> TAKE j \in 1..Len(report)
    <3>1. PICK q \in Projects : Finished(q) /\ report[j] = [project |-> q, findings |-> gathered[q]]
      BY <2>1 DEF Delivered
    <3>2. gathered'[q] = gathered[q] /\ Finished(q)'
      BY <2>2, <3>1
    <3> QED BY <3>1, <3>2
  <2>5. \A q \in Projects : Finished(q)' => \E j \in 1..Len(report) : report[j].project = q
    BY <2>1, <2>2 DEF Delivered
  <2> QED BY <2>1, <2>3, <2>4, <2>5 DEF Delivered
<1>7. IsSequence'
  BY <1>1 DEF AuditInv, IsSequence
<1>8. Gate'
  BY <1>1, <1>5 DEF AuditInv, Gate, Published
<1> QED BY <1>3, <1>4, <1>6, <1>7, <1>8 DEF AuditInv

(* The launch of a goroutine, and its questions about users, find nothing. *)
LEMMA NothingNew ==
  ASSUME AuditInv, NEW p \in Projects, NEW s \in 0..7, step[p] = s, OnlyOf(p), MovesFrom(p, s),
         gathered'[p] = gathered[p], failed' = failed, \A k \in 1..7 : k <= s => Ran(p, k)
  PROVE  /\ IsFiniteSet(gathered'[p]) /\ \A k \in 1..7 : Gather(p, k)'
         /\ \A q \in Projects : HasRead(q)' <=> HasRead(q)
<1>1. UNCHANGED <<world, active>> /\ Column(p)
  BY DEF OnlyOf, AuditInv, Columns
<1>2. /\ \A k \in 1..7 : Ran(p, k) => k <= s
      /\ \A k \in 1..7 : Ran(p, k)' => k <= s \/ ~IsActive(Modules[k])
      /\ \A k \in 1..7 : k <= s => Ran(p, k)'
  BY <1>1, Moves
<1>3. ASSUME NEW k \in 1..7 PROVE Gather(p, k)'
  <2>1. FoundBy(p, Modules[k])' = FoundBy(p, Modules[k])
    BY DEF FoundBy
  <2>2. (Ran(p, k) => Ran(p, k)') /\ (Ran(p, k)' => Ran(p, k) \/ ~IsActive(Modules[k]))
    BY <1>2
  <2>3. Gather(p, k)
    BY <1>1 DEF Column
  <2> QED BY <1>1, <2>1, <2>2, <2>3, GatherStays
<1>4. HasRead(p)' <=> HasRead(p)
  <2>1. Modules[1] = "user_access" /\ 1 \in 1..7
    BY ModuleFacts
  <2>2. (Ran(p, 1) => Ran(p, 1)') /\ (Ran(p, 1)' => Ran(p, 1) \/ ~IsActive("user_access"))
    BY <1>2, <2>1
  <2> QED BY <1>1, <2>2, ReadStays
<1>5. \A q \in Projects : HasRead(q)' <=> HasRead(q)
  BY <1>4, OthersStay
<1> QED BY <1>1, <1>3, <1>5 DEF Column

(* A goroutine starts. *)
LEMMA LaunchKeeps ==
  ASSUME AuditInv, NEW p \in Projects, Launch(p)
  PROVE  AuditInv'
<1>1. step[p] = 0 /\ asking[p] = {} /\ fetching[p] = None
  <2>1. step[p] = 0
    BY DEF Launch, Launched, AuditInv, AuditTypes
  <2>2. ~Auditing(p)
    BY <2>1, ModuleFacts DEF Auditing
  <2> QED BY <2>1, <2>2 DEF AuditInv, Columns, Column, Progress
<1>2. OnlyOf(p)
  BY DEF Launch, OnlyOf, AuditInv, AuditTypes
<1>3. MovesFrom(p, 0)
  BY <1>1 DEF Launch, MovesFrom, AuditInv, AuditTypes
<1>4. \A k \in 1..7 : k <= 0 => Ran(p, k)
  OBVIOUS
<1>5. gathered'[p] = gathered[p] /\ failed' = failed /\ UNCHANGED <<world, active, directory>>
  BY DEF Launch
<1>6. /\ IsFiniteSet(gathered'[p]) /\ \A k \in 1..7 : Gather(p, k)'
      /\ \A q \in Projects : HasRead(q)' <=> HasRead(q)
  BY <1>1, <1>2, <1>3, <1>4, <1>5, NothingNew
<1>7. Registry'
  BY <1>5, <1>6, RegistryFrame DEF AuditInv
<1> QED BY <1>1, <1>2, <1>3, <1>6, <1>7, ModuleStep

(* Where a goroutine is that is in a module. *)
LEMMA InModule ==
  ASSUME AuditInv, NEW p \in Projects, Auditing(p)
  PROVE  \E s \in 1..7 : step[p] = s /\ IsActive(Modules[s])
  BY ModuleFacts DEF Auditing, AuditInv, Columns, Column, Progress, Module

(* A user who is known is ticked off; another one is asked for. *)
LEMMA LookKeeps ==
  ASSUME AuditInv, NEW p \in Projects, NEW u \in Users, Look(p, u)
  PROVE  AuditInv'
<1>1. PICK s \in 1..7 : step[p] = s /\ IsActive(Modules[s])
  <2>1. Auditing(p)
    BY DEF Look, AuditInv, Columns, Column, Progress
  <2> QED BY <2>1, InModule
<1>2. OnlyOf(p)
  BY DEF Look, OnlyOf, AuditInv, AuditTypes
<1>3. MovesFrom(p, s)
  <2>1. u # None
    BY AuditAssumption DEF AuditAssumption
  <2>2. CASE asking[p] = {u} /\ u \in DOMAIN directory
    BY <1>1, <2>2 DEF Look, MovesFrom, AuditInv, AuditTypes
  <2>3. CASE u \notin DOMAIN directory
    BY <1>1, <2>1, <2>3 DEF Look, MovesFrom, AuditInv, AuditTypes
  <2>4. CASE asking[p] # {u} /\ u \in DOMAIN directory
    <3>1. asking[p] \ {u} # {}
      BY <2>4 DEF Look
    <3> QED BY <1>1, <2>4, <3>1 DEF Look, MovesFrom, AuditInv, AuditTypes
  <2> QED BY <2>2, <2>3, <2>4
<1>4. \A k \in 1..7 : k <= s => Ran(p, k)
  BY <1>1 DEF Look, Ran
<1>5. gathered'[p] = gathered[p] /\ failed' = failed /\ UNCHANGED <<world, active, directory>>
  BY DEF Look
<1>6. s \in 0..7
  OBVIOUS
<1>7. /\ IsFiniteSet(gathered'[p]) /\ \A k \in 1..7 : Gather(p, k)'
      /\ \A q \in Projects : HasRead(q)' <=> HasRead(q)
  BY <1>1, <1>2, <1>3, <1>4, <1>5, <1>6, NothingNew
<1>8. Registry'
  BY <1>5, <1>7, RegistryFrame DEF AuditInv
<1> QED BY <1>1, <1>2, <1>3, <1>6, <1>7, <1>8, ModuleStep

(* The profile of a user arrives, or does not. *)
LEMMA FetchedKeeps ==
  ASSUME AuditInv, NEW p \in Projects, Fetched(p)
  PROVE  AuditInv'
<1>1. PICK s \in 1..7 : step[p] = s /\ IsActive(Modules[s])
  <2>1. Auditing(p)
    BY DEF Fetched, AuditInv, Columns, Column, Progress
  <2> QED BY <2>1, InModule
<1>2. OnlyOf(p)
  BY DEF Fetched, OnlyOf, AuditInv, AuditTypes
<1>3. MovesFrom(p, s)
  BY <1>1 DEF Fetched, MovesFrom, AuditInv, AuditTypes
<1>4. \A k \in 1..7 : k <= s => Ran(p, k)
  BY <1>1 DEF Fetched, Ran
<1>5. gathered'[p] = gathered[p] /\ failed' = failed /\ UNCHANGED <<world, active>>
  BY DEF Fetched
<1>6. s \in 0..7
  OBVIOUS
<1>7. /\ IsFiniteSet(gathered'[p]) /\ \A k \in 1..7 : Gather(p, k)'
      /\ \A q \in Projects : HasRead(q)' <=> HasRead(q)
  BY <1>1, <1>2, <1>3, <1>4, <1>5, <1>6, NothingNew
<1>8. Registry'
  <2>1. CASE directory' = directory
    BY <1>5, <1>7, <2>1, RegistryFrame DEF AuditInv
  <2>2. CASE directory' = Register(directory, fetching[p], "profiles", {})
    <3>1. PICK u : u = fetching[p]
      OBVIOUS
    <3>2. directory' = Register(directory, u, "profiles", {})
      BY <2>2, <3>1
    <3> QED BY <1>5, <1>7, <3>2, RegistryFetched DEF AuditInv
  <2> QED BY <2>1, <2>2 DEF Fetched
<1> QED BY <1>1, <1>2, <1>3, <1>6, <1>7, <1>8, ModuleStep

(* What holds when a goroutine is about to call its s-th module. *)
LEMMA BeforeModule ==
  ASSUME AuditInv, NEW p \in Projects, Idle(p)
  PROVE  /\ asking[p] = {} /\ fetching[p] = None /\ IsProject(world[p]) /\ IsFiniteSet(gathered[p])
         /\ \E s \in 1..7 : /\ step[p] = s /\ IsActive(Modules[s]) /\ Module(p) = Modules[s]
                            /\ \A k \in 1..7 : Ran(p, k) <=> k < s
                            /\ FoundBy(p, Modules[s]) = {} /\ <<p, Modules[s]>> \notin failed
<1>1. PICK s \in 1..7 : step[p] = s /\ IsActive(Modules[s])
  BY InModule DEF Idle
<1>2. asking[p] = {} /\ fetching[p] = None
  BY DEF Idle
<1>3. \A k \in 1..7 : Ran(p, k) <=> k < s
  BY <1>1, <1>2 DEF Ran
<1>4. Column(p)
  BY DEF AuditInv, Columns
<1>5. FoundBy(p, Modules[s]) = {} /\ <<p, Modules[s]>> \notin failed
  BY <1>3, <1>4 DEF Column, Gather
<1>6. IsProject(world[p])
  BY WorldFacts DEF AuditInv
<1> QED BY <1>1, <1>2, <1>3, <1>4, <1>5, <1>6 DEF Column, Module

(* A module leaves what the other modules found as it is. *)
LEMMA OtherModules ==
  ASSUME AuditInv, NEW p \in Projects, NEW s \in 1..7, step[p] = s, OnlyOf(p), MovesFrom(p, s),
         \A k \in 1..7 : Ran(p, k) <=> k < s,
         \A n : n # Modules[s] => FoundBy(p, n)' = FoundBy(p, n),
         failed' = failed \/ failed' = failed \cup {<<p, Modules[s]>>}
  PROVE  /\ \A k \in 1..7 : k # s => Gather(p, k)'
         /\ Ran(p, s)'
         /\ s # 1 => (HasRead(p)' <=> HasRead(p))
<1>1. UNCHANGED <<world, active>> /\ Column(p) /\ s \in 0..7
  BY DEF OnlyOf, AuditInv, Columns
<1>2. /\ \A k \in 1..7 : Ran(p, k)' => k <= s \/ ~IsActive(Modules[k])
      /\ \A k \in 1..7 : k <= s => Ran(p, k)'
  BY <1>1, Moves
<1>3. ASSUME NEW k \in 1..7, k # s
      PROVE  /\ Gather(p, k)' /\ (<<p, Modules[k]>> \in failed' => <<p, Modules[k]>> \in failed)
             /\ Ran(p, k) => Ran(p, k)' /\ (Ran(p, k)' => Ran(p, k) \/ ~IsActive(Modules[k]))
  <2>1. Modules[k] # Modules[s]
    BY <1>3, ModuleFacts
  <2>2. FoundBy(p, Modules[k])' = FoundBy(p, Modules[k])
    BY <2>1
  <2>3. (Ran(p, k) => Ran(p, k)') /\ (Ran(p, k)' => Ran(p, k) \/ ~IsActive(Modules[k]))
    BY <1>2, <1>3
  <2>4. failed \subseteq failed' /\ (<<p, Modules[k]>> \in failed' => <<p, Modules[k]>> \in failed)
    BY <2>1
  <2>5. Gather(p, k)
    BY <1>1 DEF Column
  <2> QED BY <1>1, <2>2, <2>3, <2>4, <2>5, GatherStays
<1>4. ASSUME s # 1 PROVE HasRead(p)' <=> HasRead(p)
  <2>1. Modules[1] = "user_access" /\ 1 \in 1..7
    BY ModuleFacts
  <2>2. failed \subseteq failed'
    OBVIOUS
  <2> QED BY <1>1, <1>3, <1>4, <2>1, <2>2, ReadStays
<1> QED BY <1>2, <1>3, <1>4

(* A module runs, and the goroutine has all that it is to find. *)
LEMMA RunModuleKeeps ==
  ASSUME AuditInv, NEW p \in Projects, RunModule(p)
  PROVE  AuditInv'
<1>1. asking[p] = {} /\ fetching[p] = None /\ IsProject(world[p]) /\ IsFiniteSet(gathered[p])
  BY BeforeModule DEF RunModule
<1>2. PICK s \in 1..7 : /\ step[p] = s /\ IsActive(Modules[s]) /\ Module(p) = Modules[s]
                        /\ \A k \in 1..7 : Ran(p, k) <=> k < s
                        /\ FoundBy(p, Modules[s]) = {} /\ <<p, Modules[s]>> \notin failed
  BY BeforeModule DEF RunModule
<1>3. OnlyOf(p)
  BY DEF RunModule, Proceed, OnlyOf, AuditInv, AuditTypes
<1>4. MovesFrom(p, s)
  <2>1. PICK named : named = Named(world[p], Module(p))
    OBVIOUS
  <2>2. /\ asking' = [asking EXCEPT ![p] = named] /\ fetching' = fetching
        /\ step' = IF named = {} THEN [step EXCEPT ![p] = After(@)] ELSE step
    BY <2>1 DEF RunModule, Proceed
  <2> QED BY <1>1, <1>2, <2>2 DEF MovesFrom, AuditInv, AuditTypes
<1>5. PICK F : F = Findings(world[p], Modules[s])
  OBVIOUS
<1>6. gathered'[p] = gathered[p] \cup {[module |-> Modules[s], finding |-> f] : f \in F}
  BY <1>2, <1>5 DEF RunModule, Add, AuditInv, AuditTypes
<1>7. IsFiniteSet(F)
  BY <1>1, <1>5, FindingsAreFinite
<1>8. /\ IsFiniteSet(gathered'[p]) /\ FoundBy(p, Modules[s])' = F
      /\ \A n : n # Modules[s] => FoundBy(p, n)' = FoundBy(p, n)
  <2>1. /\ IsFiniteSet(gathered'[p]) /\ FoundBy(p, Modules[s])' = FoundBy(p, Modules[s]) \cup F
        /\ \A n : n # Modules[s] => FoundBy(p, n)' = FoundBy(p, n)
    BY <1>1, <1>6, <1>7, AddFinds
  <2> QED BY <1>2, <2>1
<1>9. /\ \A k \in 1..7 : k # s => Gather(p, k)'
      /\ Ran(p, s)' /\ (s # 1 => (HasRead(p)' <=> HasRead(p)))
  <2>1. failed' = failed
    BY DEF RunModule
  <2> QED BY <1>2, <1>3, <1>4, <1>8, <2>1, OtherModules
<1>10. Gather(p, s)'
  <2>1. UNCHANGED <<world, active>>
    BY DEF RunModule
  <2>2. FoundBy(p, Modules[s])' = Findings(world[p], Modules[s])'
    BY <1>5, <1>8, <2>1
  <2> QED BY <1>9, <2>2 DEF Gather
<1>11. \A k \in 1..7 : Gather(p, k)'
  BY <1>9, <1>10
<1>12. Registry'
  <2>1. \A q \in Projects : q # p => (HasRead(q)' <=> HasRead(q))
    BY <1>3, OthersStay
  <2>2. UNCHANGED <<world, active>> /\ Registry /\ failed' = failed
    BY DEF RunModule, AuditInv
  <2>3. CASE s = 1
    <3>1. Modules[s] = "user_access"
      BY <2>3, ModuleFacts
    <3>2. directory' = RegisterMembers(directory, p)
      BY <1>2, <3>1 DEF RunModule
    <3>3. ~HasRead(p) /\ HasRead(p)'
      BY <1>2, <1>9, <2>2, <2>3, <3>1 DEF HasRead, IsActive
    <3> QED BY <1>1, <2>1, <2>2, <3>2, <3>3, RegistryRead
  <2>4. CASE s # 1
    <3>1. Module(p) # "user_access"
      BY <1>2, <2>4, ModuleFacts
    <3>2. directory' = directory
      BY <3>1 DEF RunModule
    <3> QED BY <1>9, <2>1, <2>2, <2>4, <3>2, RegistryFrame
  <2> QED BY <2>3, <2>4
<1>13. s \in 0..7
  OBVIOUS
<1> QED BY <1>2, <1>3, <1>4, <1>8, <1>11, <1>12, <1>13, ModuleStep

(* What a module that fails has found is finite. *)
LEMMA FoundIsFinite ==
  ASSUME NEW d, IsProject(d), NEW m, NEW F \in FoundDespite(d, m)
  PROVE  IsFiniteSet(F)
<1>1. CASE F = {}
  BY <1>1, FS_EmptySet
<1>2. CASE \E n \in 0..Len(d.environments) : F = UnprotectedEnvironments(d, n)
  BY <1>2, FindingsAreFinite
<1>3. CASE \E S \in SUBSET d.files : F = FilesMisread(d, S)
  BY <1>3, FindingsAreFinite
<1> QED BY <1>1, <1>2, <1>3 DEF FoundDespite

(* A module fails, or is skipped since the one before it failed. *)
LEMMA FailModuleKeeps ==
  ASSUME AuditInv, NEW p \in Projects, FailModule(p)
  PROVE  AuditInv'
<1>1. asking[p] = {} /\ fetching[p] = None /\ IsProject(world[p]) /\ IsFiniteSet(gathered[p])
  BY BeforeModule DEF FailModule
<1>2. PICK s \in 1..7 : /\ step[p] = s /\ IsActive(Modules[s]) /\ Module(p) = Modules[s]
                        /\ \A k \in 1..7 : Ran(p, k) <=> k < s
                        /\ FoundBy(p, Modules[s]) = {} /\ <<p, Modules[s]>> \notin failed
  BY BeforeModule DEF FailModule
<1>3. /\ UNCHANGED <<world, active, phase, report, asking, fetching, directory>>
      /\ step' = [step EXCEPT ![p] = After(@)]
  BY DEF FailModule
<1>4. failed' = failed \/ failed' = failed \cup {<<p, Modules[s]>>}
  BY <1>2 DEF FailModule
<1>5. HasFailed(p, Modules[s])'
  BY <1>2 DEF FailModule, IsSkipped, HasFailed
<1>6. /\ DOMAIN gathered' = Projects
      /\ \A q \in Projects : q # p => gathered'[q] = gathered[q]
  BY DEF FailModule, AuditInv, AuditTypes
<1>7. OnlyOf(p)
  <2>1. \A q \in Projects : q # p => \A m : <<q, m>> \in failed' <=> <<q, m>> \in failed
    BY <1>4
  <2> QED BY <1>3, <1>6, <2>1 DEF OnlyOf, AuditInv, AuditTypes
<1>8. MovesFrom(p, s)
  BY <1>1, <1>2, <1>3 DEF MovesFrom, AuditInv, AuditTypes
<1>9. IsFiniteSet(gathered'[p]) /\ \A n : n # Modules[s] => FoundBy(p, n)' = FoundBy(p, n)
  <2>1. CASE gathered' = gathered
    BY <1>1, <2>1 DEF FoundBy
  <2>2. CASE gathered' # gathered
    <3>1. PICK F \in FoundDespite(world[p], Module(p)) :
            gathered' = [gathered EXCEPT ![p] = @ \cup Add(p, F)]
      BY <2>2 DEF FailModule
    <3>2. gathered'[p] = gathered[p] \cup {[module |-> Modules[s], finding |-> f] : f \in F}
      BY <1>2, <3>1 DEF Add, AuditInv, AuditTypes
    <3>3. IsFiniteSet(F)
      BY <1>1, <3>1, FoundIsFinite
    <3> QED BY <1>1, <3>2, <3>3, AddFinds
  <2> QED BY <2>1, <2>2
<1>10. /\ \A k \in 1..7 : k # s => Gather(p, k)'
       /\ Ran(p, s)' /\ (s # 1 => (HasRead(p)' <=> HasRead(p)))
  BY <1>2, <1>4, <1>7, <1>8, <1>9, OtherModules
<1>11. \A k \in 1..7 : Gather(p, k)'
  BY <1>5, <1>10 DEF Gather
<1>12. HasRead(p)' <=> HasRead(p)
  <2>1. CASE s = 1
    <3>1. Modules[s] = "user_access" /\ Module(p) = "user_access"
      BY <1>2, <2>1, ModuleFacts
    <3>2. <<p, "user_access">> \in failed'
      BY <3>1 DEF FailModule, IsSkipped
    <3> QED BY <1>2, <2>1, <3>2 DEF HasRead
  <2> QED BY <1>10, <2>1
<1>13. Registry'
  <2>1. \A q \in Projects : HasRead(q)' <=> HasRead(q)
    BY <1>7, <1>12, OthersStay
  <2> QED BY <1>3, <2>1, RegistryFrame DEF AuditInv
<1>14. s \in 0..7
  OBVIOUS
<1> QED BY <1>2, <1>7, <1>8, <1>9, <1>11, <1>13, <1>14, ModuleStep

(* A goroutine delivers what it has, once, and is done. *)
LEMMA DeliverKeeps ==
  ASSUME AuditInv, NEW p \in Projects, Deliver(p)
  PROVE  AuditInv'
<1>1. step[p] = 8 /\ step'[p] = 9 /\ step' = [step EXCEPT ![p] = 9]
  BY ModuleFacts DEF Deliver, Delivering, AuditInv, AuditTypes
<1>2. UNCHANGED <<world, active, phase, gathered, asking, fetching, directory, failed>>
  BY DEF Deliver
<1>3. Column(p) /\ asking[p] = {} /\ fetching[p] = None
  <2>1. ~Auditing(p)
    BY <1>1, ModuleFacts DEF Auditing
  <2> QED BY <2>1 DEF AuditInv, Columns, Column, Progress
<1>4. \A k \in 1..7 : Ran(p, k) /\ Ran(p, k)'
  BY <1>1 DEF Ran
<1>5. Column(p)' /\ (HasRead(p)' <=> HasRead(p))
  <2>1. Progress(p)'
    BY <1>1, <1>2, <1>3, ModuleFacts DEF Progress, Auditing
  <2>2. ASSUME NEW k \in 1..7 PROVE Gather(p, k)'
    <3>1. FoundBy(p, Modules[k])' = FoundBy(p, Modules[k])
      BY <1>2 DEF FoundBy
    <3>2. Gather(p, k)
      BY <1>3 DEF Column
    <3> QED BY <1>2, <1>4, <3>1, <3>2, GatherStays
  <2>3. HasRead(p)' <=> HasRead(p)
    BY <1>2, <1>4, ReadStays
  <2> QED BY <1>2, <1>3, <2>1, <2>2, <2>3 DEF Column
<1>6. ASSUME NEW q \in Projects, q # p
      PROVE  Column(q)' /\ (HasRead(q)' <=> HasRead(q)) /\ (Finished(q)' <=> Finished(q))
  <2>1. step'[q] = step[q] /\ Column(q)
    BY <1>1, <1>6 DEF AuditInv, AuditTypes, Columns
  <2> QED BY <1>2, <2>1, ColumnFrame
<1>7. ~Finished(p) /\ Finished(p)'
  BY <1>1, ModuleFacts DEF Finished
<1>8. AuditTypes' /\ Columns'
  <2>1. AuditTypes'
    BY <1>1, <1>2 DEF AuditInv, AuditTypes
  <2>2. \A q \in Projects : Column(q)'
    BY <1>5, <1>6
  <2> QED BY <2>1, <2>2 DEF Columns
<1>9. Registry'
  <2>1. \A q \in Projects : HasRead(q)' <=> HasRead(q)
    BY <1>5, <1>6
  <2> QED BY <1>2, <2>1, RegistryFrame DEF AuditInv
<1>10. Gate'
  BY <1>2, <1>7 DEF AuditInv, Gate, Published
<1>11. PICK e : e = [project |-> p, findings |-> gathered[p]]
  OBVIOUS
<1>12. PICK n \in Nat :
         /\ n = Len(report) /\ Len(report') = n + 1 /\ report'[n + 1] = e
         /\ \A j \in 1..n : report'[j] = report[j]
         /\ IsSequence'
  <2>1. PICK S : report \in Seq(S)
    BY DEF AuditInv, IsSequence
  <2>2. PICK T : T = S \cup {e}
    OBVIOUS
  <2>3. report \in Seq(T) /\ e \in T
    BY <2>1, <2>2
  <2>4. report' = Append(report, e)
    BY <1>11 DEF Deliver
  <2>5. report' \in Seq(T)
    BY <2>3, <2>4, AppendProperties
  <2> QED BY <2>3, <2>4, <2>5, AppendProperties, LenProperties DEF IsSequence
<1>13. Delivered'
  <2>1. Delivered
    BY DEF AuditInv
  <2>2. \A q \in Projects : Finished(q) => Finished(q)'
    BY <1>6, <1>7
  <2>3. ASSUME NEW j \in 1..(n + 1)
        PROVE  \E q \in Projects : Finished(q)' /\ report'[j] = [project |-> q, findings |-> gathered'[q]]
    <3>1. CASE j = n + 1
      BY <1>2, <1>7, <1>11, <1>12, <3>1
    <3>2. CASE j # n + 1
      <4>1. j \in 1..n
        BY <3>2
      <4>2. PICK q \in Projects : Finished(q) /\ report[j] = [project |-> q, findings |-> gathered[q]]
        BY <1>12, <2>1, <4>1 DEF Delivered
      <4> QED BY <1>2, <1>12, <2>2, <4>1, <4>2
    <3> QED BY <3>1, <3>2
  <2>4. e.project = p
    BY <1>11
  <2>5. ASSUME NEW q \in Projects, Finished(q)'
        PROVE  \E j \in 1..(n + 1) : report'[j].project = q
    <3>1. CASE q = p
      BY <1>12, <2>4, <3>1
    <3>2. CASE q # p
      <4>1. PICK j \in 1..n : report[j].project = q
        BY <1>6, <1>12, <2>1, <2>5, <3>2 DEF Delivered
      <4> QED BY <1>12, <4>1
    <3> QED BY <3>1, <3>2
  <2>6. \A j \in 1..n : report[j].project # p
    <3> TAKE j \in 1..n
    <3>1. PICK q \in Projects : Finished(q) /\ report[j] = [project |-> q, findings |-> gathered[q]]
      BY <1>12, <2>1 DEF Delivered
    <3> QED BY <1>7, <3>1
  <2>7. ASSUME NEW i \in 1..(n + 1), NEW j \in 1..(n + 1), report'[i].project = report'[j].project
        PROVE  i = j
    <3>1. CASE i \in 1..n /\ j \in 1..n
      BY <1>12, <2>1, <2>7, <3>1 DEF Delivered
    <3>2. CASE i = n + 1 /\ j = n + 1
      BY <3>2
    <3>3. CASE i = n + 1 /\ j \in 1..n
      BY <1>12, <2>4, <2>6, <2>7, <3>3
    <3>4. CASE i \in 1..n /\ j = n + 1
      BY <1>12, <2>4, <2>6, <2>7, <3>4
    <3> QED BY <3>1, <3>2, <3>3, <3>4
  <2> QED BY <1>12, <2>3, <2>5, <2>7 DEF Delivered
<1> QED BY <1>8, <1>9, <1>10, <1>12, <1>13 DEF AuditInv

(* The report has the findings of those that delivered, and finitely many. *)
LEMMA ReportedIs ==
  ASSUME AuditInv
  PROVE  /\ IsFiniteSet(Reported)
         /\ \A p \in Projects : Finished(p) => \A x \in gathered[p] :
              [project |-> p, module |-> x.module, finding |-> x.finding] \in Reported
         /\ \A r \in Reported : \E p \in Projects : \E x \in gathered[p] :
              r = [project |-> p, module |-> x.module, finding |-> x.finding]
<1>1. PICK n \in Nat : n = Len(report) /\ DOMAIN report = 1..n
  BY LenProperties DEF AuditInv, IsSequence
<1> DEFINE Of(b) == {[project |-> b.project, module |-> x.module, finding |-> x.finding]
                     : x \in b.findings}
<1>2. \A r : r \in Reported <=> \E j \in 1..n : r \in Of(report[j])
  BY <1>1 DEF Reported
<1>3. \A j \in 1..n : \E p \in Projects : /\ Finished(p)
                                          /\ report[j].project = p /\ report[j].findings = gathered[p]
  <2> TAKE j \in 1..n
  <2>1. PICK p \in Projects : Finished(p) /\ report[j] = [project |-> p, findings |-> gathered[p]]
    BY <1>1 DEF AuditInv, Delivered
  <2> QED BY <2>1
<1>4. ASSUME NEW p \in Projects, Finished(p), NEW x \in gathered[p]
      PROVE  [project |-> p, module |-> x.module, finding |-> x.finding] \in Reported
  <2>1. PICK j \in 1..n : report[j].project = p
    BY <1>1, <1>4 DEF AuditInv, Delivered
  <2>2. report[j].findings = gathered[p]
    BY <1>3, <2>1
  <2> QED BY <1>2, <2>1, <2>2
<1>5. ASSUME NEW r \in Reported
      PROVE  \E p \in Projects : \E x \in gathered[p] :
               r = [project |-> p, module |-> x.module, finding |-> x.finding]
  <2>1. PICK j \in 1..n : r \in Of(report[j])
    BY <1>2
  <2>2. PICK p \in Projects : report[j].project = p /\ report[j].findings = gathered[p]
    BY <1>3
  <2> QED BY <2>1, <2>2
<1>6. IsFiniteSet(Reported)
  <2>1. PICK h : h = [j \in 1..n |-> Of(report[j])]
    OBVIOUS
  <2>2. IsFiniteSet({h[j] : j \in 1..n})
    <3>1. IsFiniteSet(1..n)
      BY FS_Interval
    <3>2. DOMAIN h = 1..n
      BY <2>1
    <3> QED BY <3>1, <3>2, FiniteImage
  <2>3. ASSUME NEW j \in 1..n PROVE IsFiniteSet(h[j])
    <3>1. PICK p \in Projects : report[j].project = p /\ report[j].findings = gathered[p]
      BY <1>3
    <3>2. PICK g : g = [x \in gathered[p] |-> [project |-> p, module |-> x.module, finding |-> x.finding]]
      OBVIOUS
    <3>3. IsFiniteSet(gathered[p])
      BY DEF AuditInv, Columns, Column
    <3>4. IsFiniteSet({g[x] : x \in gathered[p]})
      BY <3>2, <3>3, FiniteImage
    <3>5. h[j] = {g[x] : x \in gathered[p]}
      BY <2>1, <3>1, <3>2
    <3> QED BY <3>4, <3>5
  <2>4. PICK H : H = {h[j] : j \in 1..n}
    OBVIOUS
  <2>5. IsFiniteSet(UNION H)
    BY <2>2, <2>3, <2>4, FS_UNION
  <2>6. Reported = UNION H
    BY <1>2, <2>1, <2>4
  <2> QED BY <2>5, <2>6
<1> QED BY <1>4, <1>5, <1>6

-----------------------------------------------------------------------------
(* The command itself leaves the goroutines alone. *)
LEMMA PhaseStep ==
  ASSUME AuditInv, UNCHANGED <<world, active, goroutineVars>>, Gate',
         phase' \in {"config", "discovery", "license", "launch", "wait", "failed"} \cup Published
  PROVE  AuditInv'
<1>1. UNCHANGED <<world, active, step, gathered, asking, fetching, directory, report, failed>>
  BY DEF goroutineVars
<1>2. \A p \in Projects : Column(p)' /\ (HasRead(p)' <=> HasRead(p)) /\ (Finished(p)' <=> Finished(p))
  <2> TAKE p \in Projects
  <2>1. Column(p)
    BY DEF AuditInv, Columns
  <2> QED BY <1>1, <2>1, ColumnFrame
<1>3. Columns'
  BY <1>2 DEF Columns
<1>4. AuditTypes'
  BY <1>1 DEF AuditInv, AuditTypes
<1>5. Delivered' /\ IsSequence'
  <2>1. Delivered'
    BY <1>1 DEF AuditInv, Delivered, Finished
  <2> QED BY <1>1, <2>1 DEF AuditInv, IsSequence
<1>6. Registry'
  BY <1>1, <1>2, RegistryFrame DEF AuditInv
<1> QED BY <1>3, <1>4, <1>5, <1>6 DEF AuditInv

(* The count of the severe findings is not zero when there is one. *)
LEMMA SevereIsCounted ==
  ASSUME AuditInv, NEW p \in Projects, Finished(p), NEW x \in gathered[p],
         NEW severity, x.finding.severity = severity
  PROVE  SeverityCount(severity) > 0
<1>1. PICK r : r = [project |-> p, module |-> x.module, finding |-> x.finding]
  OBVIOUS
<1>2. PICK S : S = {y \in Reported : y.finding.severity = severity}
  OBVIOUS
<1>3. IsFiniteSet(Reported) /\ r \in Reported
  BY <1>1, ReportedIs
<1>4. r \in S
  BY <1>1, <1>2, <1>3
<1>5. IsFiniteSet(S)
  BY <1>2, <1>3, FS_Subset
<1>6. Cardinality(S) \in Nat /\ Cardinality(S) # 0
  BY <1>4, <1>5, FS_EmptySet, FS_CardinalityType
<1> QED BY <1>2, <1>6 DEF SeverityCount

(* The steps of the command. *)
LEMMA MainKeeps ==
  ASSUME AuditInv,
         Prepare \/ Fail \/ LaunchCancelled \/ LaunchedAll \/ Wait \/ Publish \/ Cancel
  PROVE  AuditInv'
<1>1. UNCHANGED <<world, active, goroutineVars>>
  BY DEF Prepare, Fail, LaunchCancelled, LaunchedAll, Wait, Publish, Cancel
<1>2. phase' \in {"config", "discovery", "license", "launch", "wait", "failed"} \cup Published
  BY DEF Prepare, Fail, LaunchCancelled, LaunchedAll, Wait, Publish, Cancel, Published,
         AuditInv, AuditTypes
<1>3. UNCHANGED <<step, gathered>>
  BY <1>1 DEF goroutineVars
<1>4. \A p \in Projects : Finished(p)' <=> Finished(p)
  BY <1>3 DEF Finished
<1>5. CASE Publish
  <2>1. \A p \in Projects : Finished(p)
    BY <1>5 DEF Publish, AuditInv, Gate, Published
  <2>2. ASSUME phase' = "clean", NEW p \in Projects, NEW x \in gathered[p],
               x.finding.severity \in {"critical", "high"}
        PROVE  FALSE
    <3>1. ~(SeverityCount("critical") > 0) /\ ~(SeverityCount("high") > 0)
      BY <1>5, <2>2 DEF Publish
    <3>2. PICK severity \in {"critical", "high"} : x.finding.severity = severity
      BY <2>2
    <3>3. SeverityCount(severity) > 0
      BY <2>1, <3>2, SevereIsCounted
    <3> QED BY <3>1, <3>2, <3>3
  <2>3. Gate'
    BY <1>3, <1>4, <2>1, <2>2 DEF Gate
  <2> QED BY <1>1, <1>2, <2>3, PhaseStep
<1>6. CASE Wait
  <2>1. Gate'
    BY <1>4, <1>6 DEF Wait, WaitedForAll, Gate
  <2> QED BY <1>1, <1>2, <2>1, PhaseStep
<1>7. CASE Prepare \/ Fail \/ LaunchCancelled \/ LaunchedAll
  <2>1. phase' \notin Published
    BY <1>7 DEF Prepare, Fail, LaunchCancelled, LaunchedAll, Published
  <2>2. Gate'
    BY <2>1 DEF Gate, Published
  <2> QED BY <1>1, <1>2, <2>2, PhaseStep
<1>8. CASE Cancel
  <2>1. phase' = phase
    BY <1>8 DEF Cancel
  <2>2. Gate'
    BY <1>3, <1>4, <2>1 DEF AuditInv, Gate
  <2> QED BY <1>1, <1>2, <2>2, PhaseStep
<1> QED BY <1>5, <1>6, <1>7, <1>8

(* Nobody has started, found or delivered anything. *)
LEMMA InitHolds ==
  ASSUME Init
  PROVE  AuditInv
<1>1. AuditTypes
  BY DEF Init, AuditTypes
<1>2. ASSUME NEW p \in Projects PROVE Column(p) /\ ~HasRead(p) /\ ~Finished(p)
  <2>1. step[p] = 0 /\ gathered[p] = {} /\ asking[p] = {} /\ fetching[p] = None /\ failed = {}
    BY DEF Init
  <2>2. \A k \in 1..7 : ~Ran(p, k)
    BY <2>1 DEF Ran
  <2>3. \A m : FoundBy(p, m) = {}
    BY <2>1 DEF FoundBy
  <2>4. IsFiniteSet(gathered[p])
    BY <2>1, FS_EmptySet
  <2>5. Progress(p)
    BY <2>1, ModuleFacts DEF Progress, Auditing
  <2>6. \A k \in 1..7 : Gather(p, k)
    BY <2>1, <2>2, <2>3 DEF Gather
  <2> QED BY <2>1, <2>2, <2>4, <2>5, <2>6, ModuleFacts DEF Column, HasRead, Finished
<1>3. Columns
  BY <1>2 DEF Columns
<1>4. Delivered /\ IsSequence
  <2>1. report = << >> /\ Len(report) = 0
    BY DEF Init
  <2>2. 1..Len(report) = {}
    BY <2>1
  <2>3. Delivered
    BY <1>2, <2>2 DEF Delivered
  <2>4. report \in Seq({})
    BY <2>1
  <2> QED BY <2>3, <2>4 DEF IsSequence
<1>5. Gate
  BY DEF Init, Gate, Published
<1>6. Registry
  <2>1. directory = << >> /\ DOMAIN directory = {}
    BY DEF Init
  <2>2. IsDirectory(directory)
    BY <2>1 DEF IsDirectory
  <2> QED BY <1>2, <2>1, <2>2 DEF Registry
<1> QED BY <1>1, <1>3, <1>4, <1>5, <1>6 DEF AuditInv

(* AuditInv is an invariant of the audit. *)
LEMMA AuditInvariance == Spec => []AuditInv
<1>1. Init => AuditInv
  BY InitHolds
<1>2. AuditInv /\ [Next]_vars => AuditInv'
  <2> SUFFICES ASSUME AuditInv, [Next]_vars PROVE AuditInv'
    OBVIOUS
  <2>1. CASE Main
    <3>1. CASE \E p \in Projects : Launch(p)
      BY <3>1, LaunchKeeps
    <3>2. CASE Prepare \/ Fail \/ LaunchCancelled \/ LaunchedAll \/ Wait \/ Publish
      BY <3>2, MainKeeps
    <3> QED BY <2>1, <3>1, <3>2 DEF Main
  <2>2. CASE Cancel
    BY <2>2, MainKeeps
  <2>3. ASSUME NEW p \in Projects, Goroutine(p) PROVE AuditInv'
    <3>1. CASE RunModule(p)
      BY <3>1, RunModuleKeeps
    <3>2. CASE FailModule(p)
      BY <3>2, FailModuleKeeps
    <3>3. CASE Fetched(p)
      BY <3>3, FetchedKeeps
    <3>4. CASE Deliver(p)
      BY <3>4, DeliverKeeps
    <3>5. CASE \E u \in Users : Look(p, u)
      BY <3>5, LookKeeps
    <3> QED BY <2>3, <3>1, <3>2, <3>3, <3>4, <3>5 DEF Goroutine
  <2>4. CASE UNCHANGED vars
    <3>1. UNCHANGED <<world, active, goroutineVars>> /\ phase' = phase
      BY <2>4 DEF vars, goroutineVars
    <3>2. Gate'
      BY <3>1 DEF AuditInv, Gate, Finished, goroutineVars
    <3>3. phase' \in {"config", "discovery", "license", "launch", "wait", "failed"} \cup Published
      BY <3>1 DEF AuditInv, AuditTypes
    <3> QED BY <3>1, <3>2, <3>3, PhaseStep
  <2> QED BY <2>1, <2>2, <2>3, <2>4 DEF Next
<1> QED BY <1>1, <1>2, PTL DEF Spec

-----------------------------------------------------------------------------
(* When the report is published, every module of every project has run,    *)
(* and the goroutine has what it was to find.                              *)
LEMMA PublishedFacts ==
  ASSUME AuditInv, phase \in Published, NEW p \in Projects
  PROVE  /\ Finished(p) /\ (HasRead(p) <=> IsActive("user_access") /\ <<p, "user_access">> \notin failed)
         /\ \A k \in 1..7 :
              IsActive(Modules[k]) /\ ~HasFailed(p, Modules[k])
              => FoundBy(p, Modules[k]) = Findings(world[p], Modules[k])
<1>1. Finished(p) /\ Column(p)
  BY DEF AuditInv, Gate, Columns
<1>2. \A k \in 1..7 : Ran(p, k)
  BY <1>1, ModuleFacts DEF Finished, Ran
<1> QED BY <1>1, <1>2 DEF Column, Gather, HasRead

(* Execute: the report is exact when it is published, whatever the order   *)
(* in which the goroutines ran, failed and ended.                          *)
THEOREM ReportAlwaysExact == Spec => []ReportIsExact
<1>1. AuditInv => ReportIsExact
  <2> SUFFICES ASSUME AuditInv, phase \in Published, NEW p \in Projects
               PROVE  /\ Cardinality({j \in DOMAIN report : report[j].project = p}) = 1
                      /\ \A k \in DOMAIN Modules :
                           IsActive(Modules[k]) /\ ~HasFailed(p, Modules[k])
                           => {r.finding : r \in {x \in Reported : x.project = p /\ x.module = Modules[k]}}
                              = Findings(world[p], Modules[k])
    BY DEF ReportIsExact, Published
  <2>1. PICK n \in Nat : n = Len(report) /\ DOMAIN report = 1..n
    BY LenProperties DEF AuditInv, IsSequence
  <2>2. Finished(p)
    BY PublishedFacts
  <2>3. PICK i \in 1..n : report[i].project = p
    BY <2>1, <2>2 DEF AuditInv, Delivered
  <2>4. {j \in DOMAIN report : report[j].project = p} = {i}
    BY <2>1, <2>3 DEF AuditInv, Delivered
  <2>5. Cardinality({j \in DOMAIN report : report[j].project = p}) = 1
    BY <2>4, FS_Singleton
  <2>6. ASSUME NEW m
        PROVE  {r.finding : r \in {x \in Reported : x.project = p /\ x.module = m}} = FoundBy(p, m)
    <3>1. ASSUME NEW r \in Reported, r.project = p, r.module = m
          PROVE  r.finding \in FoundBy(p, m)
      <4>1. PICK q \in Projects : \E y \in gathered[q] :
              r = [project |-> q, module |-> y.module, finding |-> y.finding]
        BY ReportedIs
      <4>2. PICK y \in gathered[q] : r = [project |-> q, module |-> y.module, finding |-> y.finding]
        BY <4>1
      <4>3. q = p /\ y.module = m /\ r.finding = y.finding
        BY <3>1, <4>2
      <4> QED BY <4>3 DEF FoundBy
    <3>2. ASSUME NEW f \in FoundBy(p, m)
          PROVE  \E r \in Reported : r.project = p /\ r.module = m /\ r.finding = f
      <4>1. PICK y \in gathered[p] : y.module = m /\ y.finding = f
        BY DEF FoundBy
      <4>2. PICK r : r = [project |-> p, module |-> y.module, finding |-> y.finding]
        OBVIOUS
      <4>3. r \in Reported
        BY <2>2, <4>2, ReportedIs
      <4> QED BY <4>1, <4>2, <4>3
    <3> QED BY <3>1, <3>2
  <2>7. DOMAIN Modules = 1..7
    BY ModuleFacts
  <2>8. ASSUME NEW k \in 1..7, IsActive(Modules[k]), ~HasFailed(p, Modules[k])
        PROVE  {r.finding : r \in {x \in Reported : x.project = p /\ x.module = Modules[k]}}
                 = Findings(world[p], Modules[k])
    BY <2>6, <2>8, PublishedFacts
  <2> QED BY <2>5, <2>7, <2>8
<1> QED BY <1>1, AuditInvariance, PTL

(* executeAudit: the command ends without an error only if no project that *)
(* is exposed was looked at by the module that would say so.               *)
THEOREM ExposureAlwaysClosesGate == Spec => []ExposureClosesGate
<1>1. AuditInv => ExposureClosesGate
  <2>1. ASSUME AuditInv, phase = "clean", NEW p \in Projects, NEW k \in 1..7,
               IsActive(Modules[k]), ~HasFailed(p, Modules[k]), Alarms(world[p], Modules[k])
        PROVE  FALSE
    <3>1. phase \in Published /\ IsProject(world[p])
      BY <2>1, WorldFacts DEF Published, AuditInv
    <3>2. FoundBy(p, Modules[k]) = Findings(world[p], Modules[k])
      BY <2>1, <3>1, PublishedFacts
    <3>3. PICK f \in Findings(world[p], Modules[k]) : f.severity \in Severe
      BY <2>1, <3>1, ExposedIsFound
    <3>4. PICK x \in gathered[p] : x.finding = f
      BY <3>2, <3>3 DEF FoundBy
    <3> QED BY <2>1, <3>3, <3>4 DEF AuditInv, Gate, Severe
  <2>2. ASSUME AuditInv, phase = "clean", NEW p \in Projects, NEW k \in 1..7,
               ~(~IsActive(Modules[k]) \/ HasFailed(p, Modules[k]))
        PROVE  ~Alarms(world[p], Modules[k])
    BY <2>1, <2>2
  <2>3. DOMAIN Modules = 1..7
    BY ModuleFacts
  <2> QED BY <2>2, <2>3 DEF ExposureClosesGate, Alarms
<1> QED BY <1>1, AuditInvariance, PTL

(* Register, Resolve: the directory is complete when it is published,      *)
(* although the goroutines look users up and add them without a common     *)
(* lock.                                                                   *)
THEOREM DirectoryAlwaysComplete == Spec => []DirectoryComplete
<1>1. AuditInv => DirectoryComplete
  <2> SUFFICES ASSUME AuditInv, phase \in Published PROVE DirectoryComplete
    BY DEF DirectoryComplete, Published
  <2>1. \A p \in Projects : HasRead(p) <=> IsActive("user_access") /\ <<p, "user_access">> \notin failed
    BY PublishedFacts
  <2> QED BY <2>1 DEF AuditInv, Registry, DirectoryComplete, MembersOf
<1> QED BY <1>1, AuditInvariance, PTL
=============================================================================
