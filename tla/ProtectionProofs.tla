--------------------------- MODULE ProtectionProofs ---------------------------
(***************************************************************************)
(* Proofs about the reconcilers of protections, for any set of branches,   *)
(* tags or environments, any policy of any length and any number of        *)
(* faults.                                                                 *)
(*                                                                         *)
(* An Apply works on what it was told at its beginning (snap).  While      *)
(* nobody interferes, the invariant relates what it was told to what       *)
(* GitLab has: nothing managed is open, but what is being recreated        *)
(* (NoGap); an Apply with nothing to do has nothing to do at any of its    *)
(* steps (Quiet); and, if no branch has two rules, what it has not come to *)
(* is as it was, what it has come to is as its rule asks (Progress).       *)
(***************************************************************************)
EXTENDS Protection, FiniteSetTheorems, SequenceTheorems, TLAPS

(* An expanded rule. *)
Expanded == [name : Names, at : Nat, access : Access \cup {Unset}, flag : BOOLEAN \cup {Unset}]

ProtectionTypes ==
  /\ policy \in Policies /\ exists \subseteq Names
  /\ live \in [Names -> Settings \cup {NoProt}] /\ snap \in [Names -> Settings \cup {NoProt}]
  /\ todo \subseteq Expanded /\ \A c \in todo : IsManaged(c.name)
  /\ pc \in {"idle", "rules", "recreate"}
  /\ pc = "recreate" => current \in todo
  /\ pc # "idle" => outcome = "none"
  /\ disturbed \in BOOLEAN /\ partial \in BOOLEAN /\ clean \in BOOLEAN

IsRecreated(n) == pc = "recreate" /\ current.name = n

NoGap ==
  pc # "idle" /\ ~disturbed
    => \A n \in Protected(snap) : IsManaged(n) /\ ~IsRecreated(n) => live[n] # NoProt

Meets(setting, c) == setting # NoProt /\ UpdateDiff(setting, c) = {}

Quiet ==
  pc # "idle" /\ clean /\ ~disturbed
    => pc = "rules" /\ Stale = {} /\ \A c \in todo : Meets(snap[c.name], c)

(* The rules that an Apply which saw all environments has expanded.        *)
RuleSet == ExpandRules(policy, exists \cup Protected(snap))
IsPassed(n) == \E c \in RuleSet \ todo : c.name = n

Progress ==
  pc # "idle" /\ ~disturbed /\ ~partial /\ ~Repeated
    => /\ todo \subseteq RuleSet
       /\ \A c \in RuleSet \ todo : Meets(live[c.name], c)
       /\ \A n \in Names : ~IsPassed(n) /\ ~IsRecreated(n) => live[n] = snap[n]

(* The inductive invariant of the reconcilers. *)
ProtectionInv == ProtectionTypes /\ NoGap /\ Quiet /\ Progress /\ GapIsReported /\ Converges

-----------------------------------------------------------------------------
(* The shape of a policy, as the assumption gives it. *)
LEMMA PolicyShape ==
  ASSUME policy \in Policies
  PROVE  /\ policy.rules \in Seq(Rules) /\ policy.prune \in BOOLEAN
         /\ policy.kind \in {"branch", "tag", "env"}
         /\ policy.kind = "branch" => ~policy.prune
         /\ \A i \in 1..Len(policy.rules) :
              policy.rules[i].wild \/ Cardinality(policy.rules[i].names) = 1
         /\ policy.kind # "env" => \A i \in 1..Len(policy.rules) : ~policy.rules[i].wild
         /\ policy.kind = "tag" => \A i, j \in 1..Len(policy.rules) :
              policy.rules[i].names = policy.rules[j].names => i = j
BY ProtectionAssumption

(* A rule without a wildcard is for one name. *)
LEMMA OneName ==
  ASSUME policy \in Policies, NEW i \in 1..Len(policy.rules), ~policy.rules[i].wild,
         NEW n \in policy.rules[i].names
  PROVE  policy.rules[i].names = {n}
<1>1. policy.rules[i] \in Rules /\ Cardinality(policy.rules[i].names) = 1
  BY PolicyShape
<1>2. IsFiniteSet(policy.rules[i].names)
  BY <1>1, FS_Subset, ProtectionAssumption DEF Rules
<1>3. PICK x : policy.rules[i].names = {x}
  BY <1>1, <1>2, FS_Singleton
<1> QED BY <1>3

(* What an expansion consists of: a rule of the policy for each name for   *)
(* which it counts.                                                        *)
LEMMA ExpandMember ==
  ASSUME NEW p, NEW C, NEW c
  PROVE  c \in ExpandRules(p, C)
           <=> \E i \in 1..Len(p.rules), n \in Names :
                 Counts(p, C, i, n) /\ c = RuleFor(p, i, n)
BY DEF ExpandRules

(* An expansion has rules for names, each of which a rule of the policy    *)
(* manages.                                                                *)
LEMMA ExpandType ==
  ASSUME policy \in Policies, NEW C, NEW c \in ExpandRules(policy, C)
  PROVE  c \in Expanded /\ IsManaged(c.name)
<1>1. PICK i \in 1..Len(policy.rules), n \in Names :
        Counts(policy, C, i, n) /\ c = RuleFor(policy, i, n)
  BY ExpandMember
<1>2. policy.rules[i] \in Rules
  BY PolicyShape
<1>3. n \in policy.rules[i].names
  BY <1>1 DEF Counts, Targets
<1> QED BY <1>1, <1>2, <1>3 DEF Expanded, Rules, RuleFor, IsManaged

(* At most one rule counts for a name, unless two rules are for a branch. *)
LEMMA OneCounts ==
  ASSUME policy \in Policies, ~Repeated, NEW C, NEW n,
         NEW i \in 1..Len(policy.rules), NEW j \in 1..Len(policy.rules),
         Counts(policy, C, i, n), Counts(policy, C, j, n)
  PROVE  i = j
<1>1. i \in Int /\ j \in Int /\ i >= 1 /\ j >= 1
  OBVIOUS
<1>2. CASE policy.kind = "env"
  <2>1. ~(i < j)
    <3> SUFFICES ASSUME i < j PROVE FALSE
      OBVIOUS
    <3>1. i \in 1..(j - 1)
      BY <1>1
    <3> QED BY <1>2, <3>1 DEF Counts
  <2>2. ~(j < i)
    <3> SUFFICES ASSUME j < i PROVE FALSE
      OBVIOUS
    <3>1. j \in 1..(i - 1)
      BY <1>1
    <3> QED BY <1>2, <3>1 DEF Counts
  <2> QED BY <1>1, <2>1, <2>2
<1>3. CASE policy.kind # "env"
  <2>1. ~policy.rules[i].wild /\ ~policy.rules[j].wild
    BY <1>3, PolicyShape
  <2>2. n \in policy.rules[i].names /\ n \in policy.rules[j].names
    BY <2>1 DEF Counts, Targets
  <2>3. policy.rules[i].names = policy.rules[j].names
    BY <2>1, <2>2, OneName
  <2> QED BY <1>3, <2>3, PolicyShape DEF Repeated
<1> QED BY <1>2, <1>3

(* An expansion has at most one rule for a name, unless two rules are for  *)
(* a branch.                                                               *)
LEMMA OneRuleEach ==
  ASSUME policy \in Policies, ~Repeated, NEW C,
         NEW c \in ExpandRules(policy, C), NEW d \in ExpandRules(policy, C),
         c.name = d.name
  PROVE  c = d
<1>1. PICK i \in 1..Len(policy.rules), n \in Names :
        Counts(policy, C, i, n) /\ c = RuleFor(policy, i, n)
  BY ExpandMember
<1>2. PICK j \in 1..Len(policy.rules), m \in Names :
        Counts(policy, C, j, m) /\ d = RuleFor(policy, j, m)
  BY ExpandMember
<1>3. n = m
  BY <1>1, <1>2 DEF RuleFor
<1>4. i = j
  BY <1>1, <1>2, <1>3, OneCounts
<1> QED BY <1>1, <1>2, <1>3, <1>4

(* Two sets of candidates give the same expansion when the same rules      *)
(* count for every name.                                                   *)
LEMMA SameCounts ==
  ASSUME NEW p, NEW C, NEW D,
         \A i \in 1..Len(p.rules), n \in Names : Counts(p, C, i, n) <=> Counts(p, D, i, n)
  PROVE  ExpandRules(p, C) = ExpandRules(p, D)
BY DEF ExpandRules

(* Candidates that no wildcard matches do not matter. *)
LEMMA SameExpansion ==
  ASSUME policy \in Policies, NEW C, NEW D,
         \A i \in 1..Len(policy.rules) : policy.rules[i].wild =>
           \A n \in policy.rules[i].names : n \in C <=> n \in D
  PROVE  ExpandRules(policy, C) = ExpandRules(policy, D)
<1>1. ASSUME NEW i \in 1..Len(policy.rules), NEW n \in Names
      PROVE  n \in Targets(policy.rules[i], C) <=> n \in Targets(policy.rules[i], D)
  BY DEF Targets
<1>2. ASSUME NEW i \in 1..Len(policy.rules), NEW n \in Names
      PROVE  Counts(policy, C, i, n) <=> Counts(policy, D, i, n)
  <2>1. \A j \in 1..(i - 1) : j \in 1..Len(policy.rules)
    <3>1. i \in Int /\ i <= Len(policy.rules) /\ Len(policy.rules) \in Int
      BY PolicyShape, LenProperties
    <3> QED BY <3>1
  <2> QED BY <1>1, <2>1 DEF Counts
<1> QED BY <1>2, SameCounts

(* What it means that a setting meets a rule. *)
LEMMA MeetsMeaning ==
  ASSUME NEW setting, NEW c
  PROVE  UpdateDiff(setting, c) = {}
           <=> /\ c.access # Unset => setting.access = c.access
               /\ c.flag # Unset => setting.flag = c.flag
BY DEF UpdateDiff

(* What Protect is asked for meets the rule. *)
LEMMA OptionsMeet ==
  ASSUME NEW c, NEW s \in ProtectOptions(c)
  PROVE  s \in Settings /\ s # NoProt /\ UpdateDiff(s, c) = {}
<1>1. s \in Settings /\ \A a \in {"access", "flag"} : c[a] # Unset => s[a] = c[a]
  BY DEF ProtectOptions
<1>2. UpdateDiff(s, c) = {}
  BY <1>1 DEF UpdateDiff
<1> QED BY <1>1, <1>2, ProtectionAssumption

-----------------------------------------------------------------------------
(* An answer of GitLab to a change of one name. *)
LEMMA ChangeAnswer ==
  ASSUME live \in [Names -> Settings \cup {NoProt}],
         NEW n \in Names, NEW s \in Settings \cup {NoProt}, NEW answer \in Change(n, s)
  PROVE  /\ answer.live \in [Names -> Settings \cup {NoProt}]
         /\ answer.ok \in BOOLEAN
         /\ \A m \in Names \ {n} : answer.live[m] = live[m]
         /\ answer.ok => answer.live[n] = s
<1> DEFINE l == [live EXCEPT ![n] = s]
<1>1. l \in [Names -> Settings \cup {NoProt}] /\ l[n] = s /\ \A m \in Names \ {n} : l[m] = live[m]
  OBVIOUS
<1>2. answer \in {Done(l), Failed(l), Failed(live)}
  BY DEF Change
<1> HIDE DEF l
<1>3. \/ answer.live = l /\ answer.ok = TRUE
      \/ answer.live \in {l, live} /\ answer.ok = FALSE
  BY <1>2 DEF Done, Failed
<1> QED BY <1>1, <1>3

(* An answer to Protect, to Unprotect and to the patch of the flag. *)
LEMMA ProtectAnswer ==
  ASSUME live \in [Names -> Settings \cup {NoProt}],
         NEW c, c.name \in Names, NEW answer \in ProtectCall(c)
  PROVE  /\ answer.live \in [Names -> Settings \cup {NoProt}]
         /\ answer.ok \in BOOLEAN
         /\ \A m \in Names \ {c.name} : answer.live[m] = live[m]
         /\ answer.ok => Meets(answer.live[c.name], c)
<1>1. CASE live[c.name] # NoProt
  <2>1. answer.live = live /\ answer.ok = FALSE
    BY <1>1 DEF ProtectCall, Refused
  <2> QED BY <2>1
<1>2. CASE live[c.name] = NoProt
  <2>1. PICK s \in ProtectOptions(c) : answer \in Change(c.name, s)
    BY <1>2 DEF ProtectCall
  <2>2. s \in Settings /\ s # NoProt /\ UpdateDiff(s, c) = {}
    BY OptionsMeet
  <2> QED BY <2>1, <2>2, ChangeAnswer DEF Meets
<1> QED BY <1>1, <1>2

(* Unprotect touches one name; answered with success, nothing protects it. *)
LEMMA UnprotectAnswer ==
  ASSUME live \in [Names -> Settings \cup {NoProt}],
         NEW n \in Names, NEW answer \in UnprotectCall(n)
  PROVE  /\ answer.live \in [Names -> Settings \cup {NoProt}]
         /\ answer.ok \in BOOLEAN
         /\ \A m \in Names \ {n} : answer.live[m] = live[m]
         /\ answer.ok => answer.live[n] = NoProt
<1>1. CASE live[n] = NoProt
  <2>1. answer.live = live /\ answer.ok = FALSE
    BY <1>1 DEF UnprotectCall, Refused
  <2> QED BY <2>1
<1>2. CASE live[n] # NoProt
  BY <1>2, ChangeAnswer DEF UnprotectCall
<1> QED BY <1>1, <1>2

(* The patch of a branch changes its flag and keeps its access levels. *)
LEMMA PatchAnswer ==
  ASSUME live \in [Names -> Settings \cup {NoProt}],
         NEW c, c.name \in Names, c.flag \in BOOLEAN, NEW answer \in PatchCall(c)
  PROVE  /\ answer.live \in [Names -> Settings \cup {NoProt}]
         /\ answer.ok \in BOOLEAN
         /\ \A m \in Names \ {c.name} : answer.live[m] = live[m]
         /\ answer.ok => /\ live[c.name] \in Settings
                         /\ answer.live[c.name] \in Settings
                         /\ answer.live[c.name].flag = c.flag
                         /\ answer.live[c.name].access = live[c.name].access
<1>1. CASE live[c.name] = NoProt
  <2>1. answer.live = live /\ answer.ok = FALSE
    BY <1>1 DEF PatchCall, Refused
  <2> QED BY <2>1
<1>2. CASE live[c.name] # NoProt
  <2> DEFINE s == [live[c.name] EXCEPT !.flag = c.flag]
  <2>1. live[c.name] \in Settings
    BY <1>2
  <2>2. s \in Settings /\ s.flag = c.flag /\ s.access = live[c.name].access
    BY <2>1 DEF Settings
  <2>3. answer \in Change(c.name, s)
    BY <1>2 DEF PatchCall
  <2> HIDE DEF s
  <2> QED BY <2>1, <2>2, <2>3, ChangeAnswer
<1> QED BY <1>1, <1>2

-----------------------------------------------------------------------------
(* The invariant holds initially. *)
LEMMA ProtectionInvInit ==
  ASSUME Init PROVE ProtectionInv
BY DEF Init, ProtectionInv, ProtectionTypes, NoGap, Quiet, Progress, GapIsReported, Converges

(* An Apply that ends with an error leaves nothing to be shown but types. *)
LEMMA FailingStep ==
  ASSUME ProtectionInv, EndApply("failed"), UNCHANGED <<inputs, flags>>,
         live' \in [Names -> Settings \cup {NoProt}], snap' = snap
  PROVE  ProtectionInv'
<1> USE DEF ProtectionInv, ProtectionTypes, EndApply, inputs, flags
<1>1. ProtectionTypes'
  OBVIOUS
<1>2. NoGap' /\ Quiet' /\ Progress'
  BY DEF NoGap, Quiet, Progress
<1>3. GapIsReported' /\ Converges'
  BY DEF GapIsReported, Converges
<1> QED BY <1>1, <1>2, <1>3

(* A rule c is done.  While nobody interferes, its name is protected, and  *)
(* as c asks when all environments were seen.                              *)
LEMMA RuleDone ==
  ASSUME ProtectionInv, pc # "idle", NEW c \in todo, pc = "recreate" => current = c,
         FinishRule(c, TRUE),
         live' \in [Names -> Settings \cup {NoProt}],
         \A m \in Names \ {c.name} : live'[m] = live[m],
         ~disturbed /\ snap[c.name] # NoProt => live'[c.name] # NoProt,
         ~disturbed /\ ~partial /\ ~Repeated => Meets(live'[c.name], c)
  PROVE  ProtectionInv'
<1>1. /\ policy' = policy /\ exists' = exists /\ snap' = snap
      /\ partial' = partial /\ clean' = clean /\ disturbed' = disturbed
      /\ pc' = "rules" /\ todo' = todo \ {c} /\ outcome' = outcome /\ current' = Unset
  BY DEF FinishRule, inputs, flags
<1>2. /\ policy \in Policies /\ c \in Expanded /\ c.name \in Names /\ outcome = "none"
      /\ IsManaged(c.name)
  BY DEF ProtectionInv, ProtectionTypes, Expanded
<1>3. ProtectionTypes'
  BY <1>1 DEF ProtectionInv, ProtectionTypes, IsManaged
<1>4. NoGap'
  <2> SUFFICES ASSUME ~disturbed, NEW n \in Names, snap[n] # NoProt, IsManaged(n)
               PROVE  live'[n] # NoProt
    BY <1>1 DEF NoGap, Protected, IsManaged
  <2>1. CASE n = c.name
    BY <2>1
  <2>2. CASE n # c.name
    <3>1. ~IsRecreated(n)
      BY <2>2 DEF IsRecreated
    <3> QED BY <2>2, <3>1 DEF ProtectionInv, NoGap, Protected
  <2> QED BY <2>1, <2>2
<1>5. Quiet'
  <2>1. Stale' = Stale
    BY <1>1 DEF Stale, IsManaged, Protected
  <2> QED BY <1>1, <2>1 DEF ProtectionInv, Quiet, Meets, UpdateDiff
<1>6. Progress'
  <2> SUFFICES ASSUME ~disturbed, ~partial, ~Repeated PROVE Progress'
    BY <1>1 DEF Progress, Repeated
  <2>1. /\ todo \subseteq RuleSet
        /\ \A d \in RuleSet \ todo : Meets(live[d.name], d)
        /\ \A n \in Names : ~IsPassed(n) /\ ~IsRecreated(n) => live[n] = snap[n]
    BY DEF ProtectionInv, Progress
  <2>2. RuleSet' = RuleSet
    BY <1>1 DEF RuleSet, Protected
  <2>3. \A d \in RuleSet : d \in Expanded /\ (d.name = c.name => d = c)
    BY <1>2, <2>1, ExpandType, OneRuleEach DEF RuleSet
  <2>4. ASSUME NEW d \in RuleSet \ todo' PROVE Meets(live'[d.name], d)
    <3>1. CASE d = c
      BY <3>1
    <3>2. CASE d # c
      BY <1>1, <2>1, <2>3, <3>2 DEF Expanded
    <3> QED BY <3>1, <3>2
  <2>5. ASSUME NEW n \in Names, ~IsPassed(n)' PROVE live'[n] = snap'[n]
    <3>1. n # c.name
      BY <1>1, <2>1, <2>2, <2>5 DEF IsPassed
    <3>2. ~IsPassed(n)
      BY <1>1, <2>2, <2>5 DEF IsPassed
    <3>3. ~IsRecreated(n)
      BY <3>1 DEF IsRecreated
    <3> QED BY <1>1, <2>1, <3>1, <3>2, <3>3
  <2> QED BY <1>1, <2>1, <2>2, <2>4, <2>5 DEF Progress, Meets, UpdateDiff
<1>7. GapIsReported' /\ Converges'
  BY <1>1, <1>2 DEF GapIsReported, Converges
<1> QED BY <1>3, <1>4, <1>5, <1>6, <1>7 DEF ProtectionInv

(* While nobody interferes, what Apply knows of a rule it has still to do  *)
(* is true.                                                                *)
LEMMA StillTrue ==
  ASSUME ProtectionInv, pc = "rules", ~disturbed, ~partial, ~Repeated, NEW c \in todo
  PROVE  live[c.name] = snap[c.name]
<1>1. policy \in Policies /\ todo \subseteq Expanded /\ c.name \in Names
  BY DEF ProtectionInv, ProtectionTypes, Expanded
<1>2. /\ todo \subseteq RuleSet
      /\ ~IsPassed(c.name) /\ ~IsRecreated(c.name) => live[c.name] = snap[c.name]
  BY <1>1 DEF ProtectionInv, Progress
<1>3. ~IsPassed(c.name)
  BY <1>1, <1>2, OneRuleEach DEF IsPassed, RuleSet
<1> QED BY <1>2, <1>3 DEF IsRecreated

-----------------------------------------------------------------------------
(* Apply begins with candidates that, unless the listing was partial, give *)
(* the expansion over all environments.                                    *)
LEMMA BeginStep ==
  ASSUME ProtectionInv, NEW candidates, BeginApply(candidates), partial' \in BOOLEAN,
         ~partial' => ExpandRules(policy, candidates)
                        = ExpandRules(policy, exists \cup Protected(live))
  PROVE  ProtectionInv'
<1>1. /\ policy' = policy /\ exists' = exists /\ live' = live /\ snap' = live
      /\ todo' = ExpandRules(policy, candidates)
      /\ pc' = "rules" /\ outcome' = "none" /\ disturbed' = FALSE
      /\ clean' = (Plan(live, candidates) = {})
  BY DEF BeginApply, inputs
<1>2. policy \in Policies /\ live \in [Names -> Settings \cup {NoProt}]
  BY DEF ProtectionInv, ProtectionTypes
<1>3. \A c \in todo' : c \in Expanded /\ c.name \in Names /\ IsManaged(c.name)
  BY <1>1, <1>2, ExpandType DEF IsManaged, Expanded
<1>4. ProtectionTypes'
  BY <1>1, <1>3 DEF ProtectionInv, ProtectionTypes, IsManaged
<1>5. NoGap'
  BY <1>1 DEF NoGap, Protected
<1>6. Quiet'
  <2> SUFFICES ASSUME Plan(live, candidates) = {} PROVE Quiet'
    BY <1>1 DEF Quiet
  <2>1. \A c \in todo' : live[c.name] # NoProt /\ UpdateDiff(live[c.name], c) = {}
    BY <1>1 DEF Plan
  <2>2. Stale' = {}
    BY <1>1 DEF Plan, Stale, IsManaged, Protected
  <2> QED BY <1>1, <2>1, <2>2 DEF Quiet, Meets, UpdateDiff
<1>7. Progress'
  <2> SUFFICES ASSUME ~partial' PROVE Progress'
    BY DEF Progress
  <2>1. RuleSet' = todo'
    BY <1>1 DEF RuleSet, Protected
  <2> QED BY <1>1, <2>1 DEF Progress
<1>8. GapIsReported' /\ Converges'
  BY <1>1 DEF GapIsReported, Converges
<1> QED BY <1>4, <1>5, <1>6, <1>7, <1>8 DEF ProtectionInv

(* Branches and tags have no wildcard: their rules expand the same         *)
(* whatever the candidates are.                                            *)
LEMMA NoWildcard ==
  ASSUME ProtectionInv, policy.kind # "env", NEW C, NEW D
  PROVE  ExpandRules(policy, C) = ExpandRules(policy, D)
<1>1. policy \in Policies
  BY DEF ProtectionInv, ProtectionTypes
<1> QED BY <1>1, PolicyShape, SameExpansion

(* Apply begins on branches, tags or environments, with a fresh listing. *)
LEMMA ApplyStepBegins ==
  ASSUME ProtectionInv, ApplyBranches \/ ApplyTags \/ ApplyEnvironments
  PROVE  ProtectionInv'
<1>1. CASE ApplyBranches
  <2>1. BeginApply({}) /\ partial' = FALSE /\ policy.kind # "env"
    BY <1>1 DEF ApplyBranches
  <2> QED BY <2>1, NoWildcard, BeginStep
<1>2. CASE ApplyTags
  <2>1. BeginApply({}) /\ partial' = FALSE /\ policy.kind # "env"
    BY <1>2 DEF ApplyTags
  <2> QED BY <2>1, NoWildcard, BeginStep
<1>3. CASE ApplyEnvironments
  <2>1. PICK seen \in SUBSET exists : /\ BeginApply(seen \cup Protected(live))
                                      /\ partial' = (seen # exists)
    BY <1>3 DEF ApplyEnvironments
  <2> QED BY <2>1, BeginStep
<1> QED BY <1>1, <1>2, <1>3

(* A protection that the listing shows in line is passed over. *)
LEMMA LeaveCompliantStep ==
  ASSUME ProtectionInv, NEW c \in todo, LeaveCompliant(c)
  PROVE  ProtectionInv'
<1>1. /\ pc = "rules" /\ snap[c.name] # NoProt /\ UpdateDiff(snap[c.name], c) = {}
      /\ FinishRule(c, TRUE) /\ live' = live
  BY DEF LeaveCompliant
<1>2. /\ live \in [Names -> Settings \cup {NoProt}] /\ c.name \in Names
      /\ IsManaged(c.name)
  BY DEF ProtectionInv, ProtectionTypes, Expanded
<1>3. ~disturbed => live[c.name] # NoProt
  BY <1>1, <1>2 DEF ProtectionInv, NoGap, Protected, IsRecreated
<1>4. ~disturbed /\ ~partial /\ ~Repeated => Meets(live[c.name], c)
  BY <1>1, StillTrue DEF Meets
<1> QED BY <1>1, <1>2, <1>3, <1>4, RuleDone

(* A name that the listing shows without protection gets one, or Apply fails. *)
LEMMA CreateProtectionStep ==
  ASSUME ProtectionInv, NEW c \in todo, CreateProtection(c)
  PROVE  ProtectionInv'
<1>1. pc = "rules"
  BY DEF CreateProtection
<1>2. PICK answer \in ProtectCall(c) : live' = answer.live /\ FinishRule(c, answer.ok)
  BY DEF CreateProtection, Receive
<1>3. live \in [Names -> Settings \cup {NoProt}] /\ c.name \in Names
  BY DEF ProtectionInv, ProtectionTypes, Expanded
<1>4. /\ live' \in [Names -> Settings \cup {NoProt}] /\ answer.ok \in BOOLEAN
      /\ \A m \in Names \ {c.name} : live'[m] = live[m]
      /\ answer.ok => Meets(live'[c.name], c)
  BY <1>2, <1>3, ProtectAnswer
<1>5. CASE answer.ok = TRUE
  <2>1. FinishRule(c, TRUE)
    BY <1>2, <1>5
  <2>2. live'[c.name] # NoProt
    BY <1>4, <1>5 DEF Meets
  <2> QED BY <1>1, <1>4, <1>5, <2>1, <2>2, RuleDone
<1>6. CASE answer.ok = FALSE
  BY <1>2, <1>4, <1>6, FailingStep DEF FinishRule
<1> QED BY <1>4, <1>5, <1>6

(* A branch of which only code owner approval differs is patched in place. *)
LEMMA PatchBranchStep ==
  ASSUME ProtectionInv, NEW c \in todo, PatchBranch(c)
  PROVE  ProtectionInv'
<1>1. /\ pc = "rules" /\ snap[c.name] # NoProt /\ UpdateDiff(snap[c.name], c) = {"flag"}
  BY DEF PatchBranch, HasDrifted, OnlyCodeOwnerChanged
<1>2. PICK answer \in PatchCall(c) : live' = answer.live /\ FinishRule(c, answer.ok)
  BY DEF PatchBranch, Receive
<1>3. live \in [Names -> Settings \cup {NoProt}] /\ c \in Expanded /\ c.name \in Names
  BY DEF ProtectionInv, ProtectionTypes, Expanded
<1>4. /\ c.flag # Unset
      /\ c.access # Unset => snap[c.name].access = c.access
  <2>1. "flag" \in UpdateDiff(snap[c.name], c) /\ "access" \notin UpdateDiff(snap[c.name], c)
    BY <1>1
  <2> QED BY <2>1 DEF UpdateDiff
<1>5. c.flag \in BOOLEAN
  BY <1>3, <1>4 DEF Expanded
<1>6. /\ live' \in [Names -> Settings \cup {NoProt}] /\ answer.ok \in BOOLEAN
      /\ \A m \in Names \ {c.name} : live'[m] = live[m]
      /\ answer.ok => /\ live'[c.name] \in Settings
                      /\ live'[c.name].flag = c.flag
                      /\ live'[c.name].access = live[c.name].access
  BY <1>2, <1>3, <1>5, PatchAnswer
<1>7. CASE answer.ok = TRUE
  <2>1. FinishRule(c, TRUE)
    BY <1>2, <1>7
  <2>2. live'[c.name] # NoProt
    BY <1>6, <1>7, ProtectionAssumption
  <2>3. ~disturbed /\ ~partial /\ ~Repeated => Meets(live'[c.name], c)
    BY <1>1, <1>4, <1>6, <1>7, <2>2, StillTrue, MeetsMeaning DEF Meets
  <2> QED BY <1>1, <1>6, <2>1, <2>2, <2>3, RuleDone
<1>8. CASE answer.ok = FALSE
  BY <1>2, <1>6, <1>8, FailingStep DEF FinishRule
<1> QED BY <1>6, <1>7, <1>8

(* Unprotect was called for the rule c, which is now being recreated. *)
LEMMA RecreateBegins ==
  ASSUME ProtectionInv, NEW c \in todo, pc = "rules", HasDrifted(c),
         pc' = "recreate", current' = c,
         UNCHANGED <<inputs, snap, flags, todo, outcome>>,
         live' \in [Names -> Settings \cup {NoProt}],
         \A m \in Names \ {c.name} : live'[m] = live[m]
  PROVE  ProtectionInv'
<1>1. /\ policy' = policy /\ exists' = exists /\ snap' = snap
      /\ partial' = partial /\ clean' = clean /\ disturbed' = disturbed
      /\ todo' = todo /\ outcome' = outcome
  BY DEF inputs, flags
<1>2. policy \in Policies /\ outcome = "none" /\ c \in Expanded /\ c.name \in Names
  BY DEF ProtectionInv, ProtectionTypes, Expanded
<1>3. ProtectionTypes'
  BY <1>1 DEF ProtectionInv, ProtectionTypes, IsManaged
<1>4. NoGap'
  BY <1>1 DEF ProtectionInv, NoGap, Protected, IsManaged, IsRecreated
<1>5. Quiet'
  BY <1>1 DEF ProtectionInv, Quiet, Meets, HasDrifted
<1>6. Progress'
  <2> SUFFICES ASSUME ~disturbed, ~partial, ~Repeated PROVE Progress'
    BY <1>1 DEF Progress, Repeated
  <2>1. /\ todo \subseteq RuleSet
        /\ \A d \in RuleSet \ todo : Meets(live[d.name], d)
        /\ \A n \in Names : ~IsPassed(n) /\ ~IsRecreated(n) => live[n] = snap[n]
    BY DEF ProtectionInv, Progress
  <2>2. RuleSet' = RuleSet
    BY <1>1 DEF RuleSet, Protected
  <2>3. \A d \in RuleSet : d.name \in Names /\ (d.name = c.name => d = c)
    BY <1>2, <2>1, ExpandType, OneRuleEach DEF RuleSet, Expanded
  <2>4. \A d \in RuleSet \ todo : Meets(live'[d.name], d)
    BY <2>1, <2>3
  <2>5. \A n \in Names : ~IsPassed(n)' /\ ~IsRecreated(n)' => live'[n] = snap'[n]
    BY <1>1, <2>1, <2>2 DEF IsPassed, IsRecreated
  <2> QED BY <1>1, <2>1, <2>2, <2>4, <2>5 DEF Progress, Meets, UpdateDiff
<1>7. GapIsReported' /\ Converges'
  BY <1>1, <1>2 DEF GapIsReported, Converges
<1> QED BY <1>3, <1>4, <1>5, <1>6, <1>7 DEF ProtectionInv

(* The old protection of a branch goes, or the error of Unprotect ends Apply. *)
LEMMA UnprotectBranchStep ==
  ASSUME ProtectionInv, NEW c \in todo, UnprotectBranch(c)
  PROVE  ProtectionInv'
<1>1. pc = "rules" /\ HasDrifted(c) /\ UNCHANGED <<inputs, snap, flags>>
  BY DEF UnprotectBranch
<1>2. PICK answer \in UnprotectCall(c.name) :
        /\ live' = answer.live
        /\ IF answer.ok THEN pc' = "recreate" /\ current' = c /\ UNCHANGED <<todo, outcome>>
                        ELSE EndApply("failed")
  BY DEF UnprotectBranch, Receive
<1>3. live \in [Names -> Settings \cup {NoProt}] /\ c.name \in Names
  BY DEF ProtectionInv, ProtectionTypes, Expanded
<1>4. /\ live' \in [Names -> Settings \cup {NoProt}] /\ answer.ok \in BOOLEAN
      /\ \A m \in Names \ {c.name} : live'[m] = live[m]
  BY <1>2, <1>3, UnprotectAnswer
<1>5. CASE answer.ok = TRUE
  BY <1>1, <1>2, <1>4, <1>5, RecreateBegins
<1>6. CASE answer.ok = FALSE
  BY <1>1, <1>2, <1>4, <1>6, FailingStep
<1> QED BY <1>4, <1>5, <1>6

(* That of a tag or an environment goes, and an error is not looked at. *)
LEMMA UnprotectTagOrEnvStep ==
  ASSUME ProtectionInv, NEW c \in todo, UnprotectTagOrEnv(c)
  PROVE  ProtectionInv'
<1>1. /\ pc = "rules" /\ HasDrifted(c) /\ pc' = "recreate" /\ current' = c
      /\ UNCHANGED <<inputs, snap, flags, todo, outcome>>
  BY DEF UnprotectTagOrEnv
<1>2. PICK answer \in UnprotectCall(c.name) : live' = answer.live
  BY DEF UnprotectTagOrEnv, Receive
<1>3. live \in [Names -> Settings \cup {NoProt}] /\ c.name \in Names
  BY DEF ProtectionInv, ProtectionTypes, Expanded
<1>4. /\ live' \in [Names -> Settings \cup {NoProt}]
      /\ \A m \in Names \ {c.name} : live'[m] = live[m]
  BY <1>2, <1>3, UnprotectAnswer
<1> QED BY <1>1, <1>4, RecreateBegins

(* The Protect that follows closes the gap, or Apply reports its failure. *)
LEMMA ReprotectStep ==
  ASSUME ProtectionInv, Reprotect
  PROVE  ProtectionInv'
<1>1. pc = "recreate" /\ current \in todo /\ current.name \in Names
  BY DEF Reprotect, ProtectionInv, ProtectionTypes, Expanded
<1>2. PICK answer \in ProtectCall(current) :
        live' = answer.live /\ FinishRule(current, answer.ok)
  BY DEF Reprotect, Receive
<1>3. live \in [Names -> Settings \cup {NoProt}]
  BY DEF ProtectionInv, ProtectionTypes
<1>4. /\ live' \in [Names -> Settings \cup {NoProt}] /\ answer.ok \in BOOLEAN
      /\ \A m \in Names \ {current.name} : live'[m] = live[m]
      /\ answer.ok => Meets(live'[current.name], current)
  BY <1>1, <1>2, <1>3, ProtectAnswer
<1>5. CASE answer.ok = TRUE
  <2>1. FinishRule(current, TRUE)
    BY <1>2, <1>5
  <2>2. live'[current.name] # NoProt
    BY <1>4, <1>5 DEF Meets
  <2> QED BY <1>1, <1>4, <1>5, <2>1, <2>2, RuleDone
<1>6. CASE answer.ok = FALSE
  BY <1>2, <1>4, <1>6, FailingStep DEF FinishRule
<1> QED BY <1>4, <1>5, <1>6

(* A protection that no rule names is removed once all rules are done. *)
LEMMA PruneStep ==
  ASSUME ProtectionInv, NEW n \in Names, Prune(n)
  PROVE  ProtectionInv'
<1>1. /\ pc = "rules" /\ todo = {} /\ n \in Stale
      /\ policy' = policy /\ exists' = exists
      /\ partial' = partial /\ clean' = clean /\ disturbed' = disturbed
  BY DEF Prune, inputs, flags
<1>2. PICK answer \in UnprotectCall(n) :
        /\ live' = answer.live
        /\ IF answer.ok THEN /\ snap' = [snap EXCEPT ![n] = NoProt]
                             /\ UNCHANGED <<pc, todo, current, outcome>>
                        ELSE EndApply("failed") /\ UNCHANGED snap
  BY DEF Prune, Receive
<1>3. /\ policy \in Policies /\ live \in [Names -> Settings \cup {NoProt}]
      /\ snap \in [Names -> Settings \cup {NoProt}] /\ outcome = "none"
  BY <1>1 DEF ProtectionInv, ProtectionTypes
<1>4. ~IsManaged(n)
  BY <1>1 DEF Stale
<1>5. /\ live' \in [Names -> Settings \cup {NoProt}] /\ answer.ok \in BOOLEAN
      /\ \A m \in Names \ {n} : live'[m] = live[m]
      /\ answer.ok => live'[n] = NoProt
  BY <1>2, <1>3, UnprotectAnswer
<1>6. CASE answer.ok = FALSE
  BY <1>1, <1>2, <1>5, <1>6, FailingStep DEF inputs, flags
<1>7. CASE answer.ok = TRUE
  <2>1. /\ pc' = "rules" /\ todo' = {} /\ current' = current /\ outcome' = "none"
        /\ snap' = [snap EXCEPT ![n] = NoProt]
    BY <1>1, <1>2, <1>3, <1>7
  <2>2. /\ snap' \in [Names -> Settings \cup {NoProt}] /\ snap'[n] = NoProt
        /\ \A m \in Names \ {n} : snap'[m] = snap[m]
    BY <1>3, <2>1
  <2>3. ProtectionTypes'
    BY <1>1, <1>5, <2>1, <2>2 DEF ProtectionInv, ProtectionTypes
  <2>4. NoGap'
    BY <1>1, <1>4, <1>5, <2>1, <2>2 DEF ProtectionInv, NoGap, Protected, IsManaged, IsRecreated
  <2>5. Quiet'
    BY <1>1 DEF ProtectionInv, Quiet
  <2>6. Progress'
    <3> SUFFICES ASSUME ~disturbed, ~partial, ~Repeated PROVE Progress'
      BY <1>1 DEF Progress, Repeated
    <3>1. RuleSet' = RuleSet
      <4>1. \A i \in 1..Len(policy.rules) : \A m \in policy.rules[i].names :
              m \in Protected(snap)' <=> m \in Protected(snap)
        BY <1>4, <2>2 DEF IsManaged, Protected
      <4>2. \A i \in 1..Len(policy.rules) : policy.rules[i].wild =>
              \A m \in policy.rules[i].names :
                m \in exists \cup Protected(snap)' <=> m \in exists \cup Protected(snap)
        BY <4>1
      <4>3. ExpandRules(policy, exists \cup Protected(snap)')
              = ExpandRules(policy, exists \cup Protected(snap))
        BY <1>3, <4>2, SameExpansion
      <4> QED BY <1>1, <4>3 DEF RuleSet
    <3>2. \A d \in RuleSet : d.name \in Names /\ IsManaged(d.name)
      BY <1>3, ExpandType DEF RuleSet, IsManaged, Expanded
    <3>3. \A d \in RuleSet : Meets(live'[d.name], d)
      BY <1>1, <1>4, <1>5, <3>2 DEF ProtectionInv, Progress
    <3>4. ASSUME NEW m \in Names, ~IsPassed(m)' PROVE live'[m] = snap'[m]
      <4>1. ~IsPassed(m) /\ ~IsRecreated(m)
        BY <1>1, <2>1, <3>1, <3>4 DEF IsPassed, IsRecreated
      <4> QED BY <1>1, <1>5, <1>7, <2>2, <4>1 DEF ProtectionInv, Progress
    <3> QED BY <2>1, <3>1, <3>3, <3>4 DEF Progress, Meets, UpdateDiff
  <2>7. GapIsReported' /\ Converges'
    BY <2>1 DEF GapIsReported, Converges
  <2> QED BY <2>3, <2>4, <2>5, <2>6, <2>7 DEF ProtectionInv
<1> QED BY <1>5, <1>6, <1>7

(* An Apply that was told of all environments leaves a project for which   *)
(* the rules expand as they did when it began: what it has protected       *)
(* itself is not taken over by a wildcard, unless the policy is Shadowed.  *)
LEMMA SameRulesAfter ==
  ASSUME ProtectionInv, pc = "rules", todo = {}, ~disturbed, ~partial, ~Shadowed, ~Repeated
  PROVE  ExpandRules(policy, exists \cup Protected(live)) = RuleSet
<1> DEFINE rules == policy.rules
           C == exists \cup Protected(snap)
           D == exists \cup Protected(live)
<1>1. policy \in Policies
  BY DEF ProtectionInv, ProtectionTypes
<1>2. rules \in Seq(Rules)
  BY <1>1, PolicyShape
<1>3. /\ \A d \in RuleSet : live[d.name] # NoProt
      /\ \A n \in Names : ~IsPassed(n) => live[n] = snap[n]
  BY DEF ProtectionInv, Progress, IsRecreated, Meets
<1>4. ASSUME NEW n \in Names, NEW k \in 1..Len(rules), Counts(policy, C, k, n)
      PROVE  n \in D
  <2>1. RuleFor(policy, k, n) \in RuleSet
    BY <1>4, ExpandMember DEF RuleSet
  <2>2. RuleFor(policy, k, n).name = n
    BY DEF RuleFor
  <2> QED BY <1>3, <2>1, <2>2 DEF Protected
<1>5. ASSUME NEW n \in Names, \A k \in 1..Len(rules) : ~Counts(policy, C, k, n)
      PROVE  n \in C <=> n \in D
  <2>1. ~IsPassed(n)
    <3> SUFFICES ASSUME NEW c \in RuleSet, c.name = n PROVE FALSE
      BY DEF IsPassed
    <3>1. PICK i \in 1..Len(rules), m \in Names :
            Counts(policy, C, i, m) /\ c = RuleFor(policy, i, m)
      BY ExpandMember DEF RuleSet
    <3> QED BY <1>5, <3>1 DEF RuleFor
  <2> QED BY <1>3, <2>1 DEF Protected
<1>6. ASSUME NEW n \in Names, NEW k \in 1..Len(rules), Counts(policy, C, k, n), n \notin C,
             NEW i \in 1..(k - 1)
      PROVE  ~(rules[i].wild /\ n \in rules[i].names)
  <2> SUFFICES ASSUME rules[i].wild, n \in rules[i].names PROVE FALSE
    OBVIOUS
  <2>1. ~rules[k].wild /\ n \in rules[k].names
    BY <1>6 DEF Counts, Targets
  <2>2. k \in Int /\ k <= Len(rules) /\ Len(rules) \in Int
    BY <1>2, LenProperties
  <2>3. i \in 1..Len(rules) /\ i < k
    BY <2>2
  <2>4. rules[k].names = {n}
    BY <1>1, <2>1, OneName
  <2>5. rules[k].names \subseteq rules[i].names \ exists
    BY <1>6, <2>4
  <2> QED BY <2>1, <2>3, <2>5 DEF Shadowed
<1>7. ASSUME NEW n \in Names, NEW k \in 1..Len(rules)
      PROVE  Counts(policy, C, k, n) <=> Counts(policy, D, k, n)
  <2>1. \A j \in 1..(k - 1) : j \in 1..Len(rules)
    <3>1. k \in Int /\ k <= Len(rules) /\ Len(rules) \in Int
      BY <1>2, LenProperties
    <3> QED BY <3>1
  <2>2. CASE n \in C <=> n \in D
    <3>1. \A j \in 1..Len(rules) : n \in Targets(rules[j], C) <=> n \in Targets(rules[j], D)
      BY <2>2 DEF Targets
    <3> QED BY <2>1, <3>1 DEF Counts
  <2>3. CASE ~(n \in C <=> n \in D)
    <3>1. PICK f \in 1..Len(rules) : Counts(policy, C, f, n)
      BY <1>5, <2>3
    <3>2. n \in D /\ n \notin C
      BY <1>4, <2>3, <3>1
    <3>3. n \in Targets(rules[f], D)
      BY <3>1, <3>2 DEF Counts, Targets
    <3>4. ASSUME policy.kind = "env", NEW j \in 1..(f - 1) PROVE n \notin Targets(rules[j], D)
      <4>1. n \notin Targets(rules[j], C)
        BY <3>1, <3>4 DEF Counts
      <4>2. ~(rules[j].wild /\ n \in rules[j].names)
        BY <1>6, <3>1, <3>2
      <4> QED BY <4>1, <4>2 DEF Targets
    <3>5. Counts(policy, D, f, n)
      BY <3>3, <3>4 DEF Counts
    <3> HIDE DEF C, D
    <3> QED BY <1>1, <3>1, <3>5, OneCounts
  <2> QED BY <2>2, <2>3
<1> HIDE DEF C, D
<1>8. ExpandRules(policy, C) = ExpandRules(policy, D)
  BY <1>7, SameCounts
<1> QED BY <1>8 DEF RuleSet, C, D

(* Apply ends with success: what it listed and changed has become the policy. *)
LEMMA SucceedStep ==
  ASSUME ProtectionInv, Succeed
  PROVE  ProtectionInv'
<1>1. /\ pc = "rules" /\ todo = {} /\ Stale = {}
      /\ pc' = "idle" /\ todo' = {}
      /\ policy' = policy /\ exists' = exists /\ live' = live /\ snap' = snap
      /\ partial' = partial /\ clean' = clean /\ disturbed' = disturbed
  BY DEF Succeed, EndApply, inputs, flags
<1>2. policy \in Policies /\ live \in [Names -> Settings \cup {NoProt}]
  BY DEF ProtectionInv, ProtectionTypes
<1>3. ProtectionTypes'
  BY <1>1 DEF ProtectionInv, ProtectionTypes
<1>4. NoGap' /\ Quiet' /\ Progress'
  BY <1>1 DEF NoGap, Quiet, Progress
<1>5. GapIsReported'
  BY <1>1 DEF ProtectionInv, NoGap, GapIsReported, Protected, IsManaged, IsRecreated
<1>6. Converges'
  <2> SUFFICES ASSUME ~disturbed, ~partial, ~Shadowed, ~Repeated
               PROVE  Plan(live, exists \cup Protected(live)) = {}
    BY <1>1 DEF Converges, Shadowed, Repeated, Plan, Protected, IsManaged
  <2>1. ExpandRules(policy, exists \cup Protected(live)) = RuleSet
    BY <1>1, SameRulesAfter
  <2>2. \A c \in RuleSet : live[c.name] # NoProt /\ UpdateDiff(live[c.name], c) = {}
    BY <1>1 DEF ProtectionInv, Progress, Meets
  <2>3. ASSUME policy.prune, NEW n \in Protected(live) PROVE IsManaged(n)
    <3> SUFFICES ASSUME ~IsManaged(n) PROVE FALSE
      OBVIOUS
    <3>1. \A c \in RuleSet : IsManaged(c.name)
      BY <1>2, ExpandType DEF RuleSet, IsManaged
    <3>2. ~IsPassed(n) /\ ~IsRecreated(n)
      BY <1>1, <3>1 DEF IsPassed, IsRecreated
    <3>3. n \in Names /\ live[n] # NoProt
      BY DEF Protected
    <3>4. live[n] = snap[n]
      BY <1>1, <3>2, <3>3 DEF ProtectionInv, Progress
    <3> QED BY <1>1, <2>3, <3>3, <3>4 DEF Stale, Protected
  <2> QED BY <2>1, <2>2, <2>3 DEF Plan
<1> QED BY <1>3, <1>4, <1>5, <1>6 DEF ProtectionInv

(* Changes by hand take what the invariant promises of an Apply with them, *)
(* as they set disturbed.                                                  *)
LEMMA DriftStep ==
  ASSUME ProtectionInv, NEW n \in Names, Drift(n)
  PROVE  ProtectionInv'
<1>1. /\ live' \in [Names -> Settings \cup {NoProt}] /\ disturbed' = TRUE
      /\ UNCHANGED <<inputs, snap, todo, current, pc, outcome, partial, clean>>
  BY DEF Drift, ProtectionInv, ProtectionTypes
<1>2. ProtectionTypes'
  BY <1>1 DEF ProtectionInv, ProtectionTypes, IsManaged, inputs
<1> QED BY <1>1, <1>2 DEF ProtectionInv, NoGap, Quiet, Progress, GapIsReported, Converges

(* A step that changes nothing keeps the invariant. *)
LEMMA ProtectionStutter ==
  ASSUME ProtectionInv, UNCHANGED vars
  PROVE  ProtectionInv'
<1>1. /\ UNCHANGED <<inputs, live, snap, todo, current, pc, outcome>>
      /\ UNCHANGED <<partial, clean, disturbed>> /\ policy' = policy /\ exists' = exists
  BY DEF vars, inputs
<1> USE <1>1 DEF ProtectionInv, IsManaged, Protected, IsRecreated, Meets, UpdateDiff
<1>2. ProtectionTypes' /\ NoGap'
  BY DEF ProtectionTypes, NoGap
<1>3. Quiet'
  BY DEF Quiet, Stale
<1>4. Progress'
  BY DEF Progress, RuleSet, IsPassed, Repeated
<1>5. GapIsReported' /\ Converges'
  BY DEF GapIsReported, Converges, Shadowed, Repeated, Plan
<1> QED BY <1>2, <1>3, <1>4, <1>5

(* Every step keeps the invariant. *)
LEMMA ProtectionInvStep ==
  ASSUME ProtectionInv, [Next]_vars
  PROVE  ProtectionInv'
<1>1. CASE ApplyStep
  BY <1>1, ApplyStepBegins, LeaveCompliantStep, CreateProtectionStep, PatchBranchStep,
     UnprotectBranchStep, UnprotectTagOrEnvStep, ReprotectStep, SucceedStep, PruneStep
     DEF ApplyStep
<1>2. CASE FetchFails \/ ResolveFails \/ Crash
  <2>1. EndApply("failed") /\ UNCHANGED <<inputs, flags>> /\ live' = live /\ snap' = snap
    BY <1>2 DEF FetchFails, ResolveFails, Crash
  <2>2. live' \in [Names -> Settings \cup {NoProt}]
    BY <2>1 DEF ProtectionInv, ProtectionTypes
  <2> QED BY <2>1, <2>2, FailingStep
<1>3. CASE \E n \in Names : Drift(n)
  BY <1>3, DriftStep
<1>4. CASE UNCHANGED vars
  BY <1>4, ProtectionStutter
<1> QED BY <1>1, <1>2, <1>3, <1>4 DEF Next

(* The invariant is an invariant of the specification. *)
LEMMA ProtectionInvAlways == Spec => []ProtectionInv
<1>1. Init => ProtectionInv
  BY ProtectionInvInit
<1>2. ProtectionInv /\ [Next]_vars => ProtectionInv'
  BY ProtectionInvStep
<1> QED BY <1>1, <1>2, PTL DEF Spec

-----------------------------------------------------------------------------
(* For any policy that has no two rules for one branch and shadows no      *)
(* exact rule: an Apply that reports success, saw the whole project and    *)
(* was not disturbed leaves nothing for Plan to find, whatever calls       *)
(* failed before it and whatever error of Unprotect it ignored             *)
(* (protectedbranches.go, protectedtags.go, protectedenvironments.go).     *)
THEOREM SuccessConverges == Spec => []Converges
<1>1. ProtectionInv => Converges
  BY DEF ProtectionInv
<1> QED BY <1>1, ProtectionInvAlways, PTL

(* For any policy: an Apply that reports success and was not disturbed     *)
(* leaves nothing open that was protected when it began and that the       *)
(* policy manages, even if it saw some of the environments only.           *)
THEOREM GapsAreReported == Spec => []GapIsReported
<1>1. ProtectionInv => GapIsReported
  BY DEF ProtectionInv
<1> QED BY <1>1, ProtectionInvAlways, PTL

(* For any policy: an Apply that begins with nothing to do writes nothing, *)
(* so that no compliant protection is opened, even for a moment.           *)
THEOREM NothingToDoIsLeftAlone == Spec => CompliantIsLeftAlone
<1>1. ASSUME ProtectionInv, [Next]_vars, pc # "idle", clean, ~disturbed'
      PROVE  live' = live
  <2>1. CASE UNCHANGED vars
    BY <2>1 DEF vars
  <2>2. CASE \E n \in Names : Drift(n)
    BY <1>1, <2>2 DEF Drift
  <2>3. CASE FetchFails \/ ResolveFails \/ Crash
    BY <2>3 DEF FetchFails, ResolveFails, Crash
  <2>4. CASE ApplyBranches \/ ApplyTags \/ ApplyEnvironments
    BY <1>1, <2>4 DEF ApplyBranches, ApplyTags, ApplyEnvironments, BeginApply
  <2>5. ASSUME ~disturbed
        PROVE  pc = "rules" /\ Stale = {} /\ \A c \in todo : Meets(snap[c.name], c)
    BY <1>1, <2>5 DEF ProtectionInv, Quiet
  <2>6. ASSUME NEW c \in todo, \/ LeaveCompliant(c) \/ CreateProtection(c) \/ PatchBranch(c)
                               \/ UnprotectBranch(c) \/ UnprotectTagOrEnv(c)
        PROVE  live' = live
    <3>1. disturbed' = disturbed
      BY <2>6 DEF LeaveCompliant, CreateProtection, PatchBranch, UnprotectBranch,
                  UnprotectTagOrEnv, FinishRule, flags
    <3>2. snap[c.name] # NoProt /\ UpdateDiff(snap[c.name], c) = {}
      BY <1>1, <2>5, <3>1 DEF Meets
    <3> QED BY <2>6, <3>2 DEF LeaveCompliant, CreateProtection, PatchBranch, UnprotectBranch,
                              UnprotectTagOrEnv, HasDrifted
  <2>7. CASE Reprotect
    BY <1>1, <2>5, <2>7 DEF Reprotect, FinishRule, flags
  <2>8. CASE Succeed
    BY <2>8 DEF Succeed
  <2>9. CASE \E n \in Names : Prune(n)
    BY <1>1, <2>5, <2>9 DEF Prune, flags
  <2> QED BY <1>1, <2>1, <2>2, <2>3, <2>4, <2>6, <2>7, <2>8, <2>9 DEF Next, ApplyStep
<1>2. ProtectionInv /\ [Next]_vars
        => [pc # "idle" /\ clean /\ ~disturbed' => live' = live]_vars
  BY <1>1
<1> QED BY <1>2, ProtectionInvAlways, PTL DEF Spec, CompliantIsLeftAlone
=============================================================================
