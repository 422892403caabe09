------------------------------- MODULE FileSync -------------------------------
(***************************************************************************)
(* The reconciler of repository files (internal/governance/                *)
(* repositoryfiles.go) for one file of one project, run by a schedule      *)
(* while developers edit, merge and close.  A file is compared with what   *)
(* the policy wants on the target branch and, by enforcement mode, is      *)
(* committed there, proposed in a merge request from a feature branch of   *)
(* its own, or only reported.                                              *)
(*                                                                         *)
(* The reconciler of branch merges (branchmerges.go, also behind the merge *)
(* command) is the fourth mode: there the feature branch is a long-lived   *)
(* source branch with changes of its own, whose merge request into the     *)
(* target branch is opened, looked at for conflicts and accepted.          *)
(*                                                                         *)
(* A content is a set of lines: the policy wants a whole content, or that  *)
(* the file contains a line (ensure_contains).  Line endings are           *)
(* normalised on both sides of every comparison and carry nothing.  The    *)
(* managed-by header of direct commits is part of the content wanted.      *)
(***************************************************************************)
EXTENDS Naturals, FiniteSets

CONSTANTS Want, Junk,  \* the line the policy is about, any other line
          MaxFaults,   \* failing calls, crashes and acts of developers
          Absent,      \* there is no such file
          NoBranch     \* there is no such branch

Contents == SUBSET {Want, Junk}

ASSUME FileAssumption ==
  /\ Want # Junk /\ MaxFaults \in Nat
  /\ Absent # NoBranch /\ \A c \in Contents : c # Absent /\ c # NoBranch

VARIABLES
  cfg,       \* the policy and the project's settings, an input
  target,    \* the file on the target branch
  feature,   \* the file on the feature branch
  base,      \* the file where the two branches met last
  mrs,       \* the number of open merge requests between them
  auto,      \* an open one is set to merge when its pipeline succeeds
  pc,        \* where Apply is
  existed,   \* whether Apply found the file on the target branch
  desired,   \* what it has decided the file should be
  seen,      \* what it found on the feature branch
  outcome,   \* how the last Apply ended
  disturbed, \* a developer acted since it began
  faults     \* the number of faults so far

vars == <<cfg, target, feature, base, mrs, auto, pc, existed, desired, seen,
          outcome, disturbed, faults>>
gitlab == <<target, feature, base, mrs, auto>>
locals == <<existed, desired, seen>>

(* calculateFileDrift *)
Desired(c) == IF ~cfg.ensure \/ c = Absent THEN {Want} ELSE c \cup {Want}
IsCompliant(c) == c = Desired(c)

(* Plan reports nothing: the file is as it should be, or an open merge     *)
(* request proposes just that.                                             *)
PlanIsEmpty ==
  \/ IsCompliant(target)
  \/ cfg.mode = "merge_request" /\ mrs > 0 /\ feature = Desired(target)

MergesBranches == cfg.mode = "branch_merge"

(* Git merges line by line: what the feature branch added and took away    *)
(* since the two branches met is added and taken away.                     *)
LinesOf(c) == IF c \in {Absent, NoBranch} THEN {} ELSE c
Merged == (LinesOf(target) \ (LinesOf(base) \ LinesOf(feature)))
            \cup (LinesOf(feature) \ LinesOf(base))
NothingToMerge == feature = NoBranch \/ Merged = LinesOf(target)

(* What Plan says of a branch merge. *)
MergePlan ==
  CASE feature = target \/ (mrs > 0 /\ ~cfg.autoMerge) -> "none"
    [] feature # target /\ mrs = 0                      -> "create"
    [] OTHER                                            -> "merge"

Init ==
  /\ cfg \in [mode : {"direct_commit", "merge_request", "audit_only", "branch_merge"},
              ensure : BOOLEAN, autoMerge : BOOLEAN, keepsBranch : BOOLEAN]
  /\ MergesBranches => ~cfg.ensure
  /\ target \in Contents \cup {Absent} /\ base = target
  /\ feature \in (IF MergesBranches THEN Contents \cup {NoBranch} ELSE {NoBranch})
  /\ mrs = 0 /\ auto = FALSE
  /\ pc = "idle" /\ existed = FALSE /\ desired = {} /\ seen = Absent
  /\ outcome = "none" /\ disturbed = FALSE /\ faults = 0

-----------------------------------------------------------------------------
(* A call is answered, its answer is lost, or it fails; only the first     *)
(* lets Apply go on.  Both others are faults.                              *)
Fault == faults' = faults + 1 /\ faults' <= MaxFaults

EndApply(how) == pc' = "idle" /\ outcome' = how
GoTo(where) == pc' = where /\ UNCHANGED outcome

(* The answer to a change: made, made and lost, or not made. *)
Called(made, next) ==
  \/ made /\ next /\ UNCHANGED faults
  \/ made /\ EndApply("failed") /\ Fault
  \/ UNCHANGED gitlab /\ EndApply("failed") /\ Fault
(* GitLab refuses it: the file or the branch is not as the caller thinks. *)
Refused == UNCHANGED <<gitlab, faults>> /\ EndApply("failed")

(* The file is read on the target branch and compared. *)
BeginApply ==
  /\ pc = "idle" /\ ~MergesBranches
  /\ existed' = (target # Absent) /\ desired' = Desired(target) /\ seen' = Absent
  /\ disturbed' = FALSE
  /\ IF IsCompliant(target) \/ cfg.mode = "audit_only"
       THEN EndApply("success")
       ELSE pc' = cfg.mode /\ outcome' = "none"
  /\ UNCHANGED <<cfg, gitlab, faults>>

(* Mutation: always UpdateFile. *)
AlwaysUpdates == target # Absent
(* CreateFile meets no file, or UpdateFile meets one. *)
IsAsFound == existed = (target # Absent)

(* CreateFile or UpdateFile, by what was found, on the target branch. *)
CommitDirect ==
  /\ pc = "direct_commit"
  /\ IF IsAsFound
       THEN Called(target' = desired /\ UNCHANGED <<feature, base, mrs, auto>>,
                   EndApply("success"))
       ELSE Refused
  /\ UNCHANGED <<cfg, locals, disturbed>>

(* Mutation: no look at the open merge requests. *)
GoToBranch == GoTo("branch")
GoToReviewOrBranch == GoTo(IF mrs > 0 THEN "review" ELSE "branch")

(* ListProjectMergeRequests *)
ListMergeRequests ==
  /\ pc = "merge_request"
  /\ GoToReviewOrBranch
  /\ UNCHANGED <<cfg, gitlab, locals, disturbed, faults>>

(* fetchFileContent on the feature branch: no branch reads as no file. *)
FileOnFeature == IF feature = NoBranch THEN Absent ELSE feature

(* A merge request is open: is what it proposes still what is wanted? *)
ReviewOpen ==
  /\ pc = "review"
  /\ seen' = FileOnFeature
  /\ IF seen' = desired THEN EndApply("success") ELSE GoTo("update")
  /\ UNCHANGED <<cfg, gitlab, existed, desired, disturbed, faults>>

(* GetBranch, and CreateBranch if that fails for any reason. *)
EnsureBranch ==
  /\ pc = "branch"
  /\ IF feature # NoBranch
       THEN \/ GoTo("read") /\ UNCHANGED <<gitlab, faults>>
            \/ Fault /\ EndApply("failed") /\ UNCHANGED gitlab
       ELSE Called(feature' = target /\ base' = target /\ UNCHANGED <<target, mrs, auto>>,
                   GoTo("read"))
  /\ UNCHANGED <<cfg, locals, disturbed>>

(* Mutation: a file that is there is taken for the right one. *)
IsProposedIfThere(c) == c # Absent
IsProposed(c) == c = desired

ReadFeature ==
  /\ pc = "read"
  /\ seen' = FileOnFeature
  /\ GoTo(IF IsProposed(seen') THEN "open" ELSE "commit")
  /\ UNCHANGED <<cfg, gitlab, existed, desired, disturbed, faults>>

(* CreateFile or UpdateFile, by what was seen, on the feature branch: of   *)
(* an open merge request ("update") or before one is opened ("commit").    *)
WriteFeature ==
  /\ pc \in {"update", "commit"}
  /\ IF feature # NoBranch /\ (seen = Absent) = (feature = Absent)
       THEN Called(feature' = desired /\ UNCHANGED <<target, base, mrs, auto>>,
                   IF pc = "update" THEN EndApply("success") ELSE GoTo("open"))
       ELSE Refused
  /\ UNCHANGED <<cfg, locals, disturbed>>

OpenMergeRequest ==
  /\ pc = "open"
  /\ Called(mrs' = mrs + 1 /\ UNCHANGED <<target, feature, base, auto>>,
            IF cfg.autoMerge THEN GoTo("accept") ELSE EndApply("success"))
  /\ UNCHANGED <<cfg, locals, disturbed>>

(* A branch merge reads the source branch, then the target branch. *)
InspectSource ==
  /\ pc = "idle" /\ MergesBranches
  /\ seen' = feature /\ disturbed' = FALSE
  /\ IF feature = NoBranch THEN EndApply("failed") ELSE pc' = "compare" /\ outcome' = "none"
  /\ UNCHANGED <<cfg, gitlab, existed, desired, faults>>

(* One commit is one content; one content can be two commits. *)
CompareCommits ==
  /\ pc = "compare"
  /\ \/ seen = target /\ EndApply("success")
     \/ GoTo("find")
  /\ UNCHANGED <<cfg, gitlab, locals, disturbed, faults>>

FindMergeRequest ==
  /\ pc = "find"
  /\ GoTo(IF mrs > 0 THEN "refresh" ELSE "propose")
  /\ UNCHANGED <<cfg, gitlab, locals, disturbed, faults>>

(* CreateMergeRequest; an answer of "no changes" counts as success.  One   *)
(* that is already open or has no source branch is refused.                *)
ProposeMerge ==
  /\ pc = "propose"
  /\ \/ /\ mrs = 0 /\ feature # NoBranch
        /\ Called(mrs' = mrs + 1 /\ UNCHANGED <<target, feature, base, auto>>, GoTo("refresh"))
     \/ feature # NoBranch /\ NothingToMerge /\ EndApply("success") /\ UNCHANGED <<gitlab, faults>>
     \/ (mrs > 0 \/ feature = NoBranch) /\ Refused
  /\ UNCHANGED <<cfg, locals, disturbed>>

(* Conflict detection on what GitLab, which computes it later, says of a   *)
(* merge request by now: one in conflict is left open for people.          *)
CheckConflicts ==
  /\ pc = "refresh"
  /\ \/ base \notin {target, feature} /\ EndApply("success")
     \/ IF cfg.autoMerge THEN GoTo("accept") ELSE EndApply("success")
  /\ UNCHANGED <<cfg, gitlab, locals, disturbed, faults>>

(* AcceptMergeRequest: an error is logged, and Apply succeeds all the same. *)
(* GitLab accepts one that is open and has changes.                        *)
AcceptMergeRequest ==
  /\ pc = "accept"
  /\ \/ auto' = (mrs > 0 /\ feature \notin {NoBranch, base}) /\ UNCHANGED faults
     \/ UNCHANGED auto /\ Fault
  /\ EndApply("success")
  /\ UNCHANGED <<cfg, target, feature, base, mrs, locals, disturbed>>

(* A read fails, or the process is killed. *)
ApplyFails ==
  /\ pc # "accept"
  /\ Fault /\ EndApply("failed")
  /\ UNCHANGED <<cfg, gitlab, locals, disturbed>>

-----------------------------------------------------------------------------
(* A reviewer, or GitLab for one set to, merges a merge request that has   *)
(* changes; the source branch is removed unless the project keeps it, and  *)
(* always after a file's merge request that Apply has accepted.            *)
Merge ==
  /\ mrs > 0 /\ feature \notin {NoBranch, base}
  /\ target' = Merged /\ base' = feature
  /\ mrs' = mrs - 1 /\ auto' = FALSE
  /\ feature' = IF cfg.keepsBranch /\ (~auto \/ MergesBranches) THEN feature ELSE NoBranch
  /\ disturbed' = TRUE
  /\ UNCHANGED <<cfg, pc, locals, outcome, faults>>

(* A reviewer closes one: always if it proposes no change. *)
Close ==
  /\ mrs > 0
  /\ mrs' = mrs - 1 /\ auto' = FALSE
  /\ feature' = IF cfg.keepsBranch \/ MergesBranches THEN feature ELSE NoBranch
  /\ disturbed' = TRUE
  /\ UNCHANGED <<cfg, target, base, pc, locals, outcome>>
CloseEmpty == feature \in {NoBranch, base} /\ Close /\ UNCHANGED faults
Reject == Close /\ Fault

(* A developer commits to one of the branches. *)
Edit ==
  /\ \E c \in Contents \cup {Absent} :
       \/ target' = c /\ c # target /\ UNCHANGED feature
       \/ feature # NoBranch /\ feature' = c /\ c # feature /\ UNCHANGED target
  /\ disturbed' = TRUE /\ Fault
  /\ UNCHANGED <<cfg, base, mrs, auto, pc, locals, outcome>>

ApplyStep ==
  \/ BeginApply \/ CommitDirect \/ ListMergeRequests \/ ReviewOpen \/ EnsureBranch
  \/ ReadFeature \/ WriteFeature \/ OpenMergeRequest \/ AcceptMergeRequest
  \/ InspectSource \/ CompareCommits \/ FindMergeRequest \/ ProposeMerge \/ CheckConflicts

Review == Merge \/ CloseEmpty

Next == ApplyStep \/ ApplyFails \/ Review \/ Reject \/ Edit

Spec == Init /\ [][Next]_vars

(* The schedule runs Apply again and again, and its merge requests are     *)
(* reviewed: those with changes merged, those without closed.              *)
FairSpec == Spec /\ WF_vars(ApplyStep) /\ WF_vars(Review)

-----------------------------------------------------------------------------
(* An undisturbed Apply that reports success leaves nothing for Plan to    *)
(* find: it has committed what the policy wants, or an open merge request  *)
(* proposes it, whatever earlier runs left behind, branches without a      *)
(* merge request or half-written files.  After a branch merge, Plan would  *)
(* open no merge request, unless there is nothing to merge.                *)
FileIsCovered ==
  outcome = "success" /\ ~disturbed /\ cfg.mode # "audit_only"
    => IF MergesBranches THEN MergePlan = "create" => NothingToMerge ELSE PlanIsEmpty

(* "commits updates without duplicate MRs": also when the answer to the    *)
(* call that opened the first one was lost.                                *)
OneMergeRequest == mrs <= 1

(* In a project that removes merged and closed branches, a file that the   *)
(* policy enforces is in line for good once calls succeed and developers   *)
(* only review.  In one that keeps them it need not be: a branch left over *)
(* from an earlier merge that already holds what is wanted is taken as it  *)
(* is, and the merge requests opened from it propose nothing.  Branches    *)
(* that are to be merged have nothing left to merge for good.              *)
BecomesCompliant ==
  /\ MergesBranches => <>[]NothingToMerge
  /\ ~MergesBranches /\ cfg.mode # "audit_only" /\ ~cfg.keepsBranch => <>[]IsCompliant(target)
=============================================================================
