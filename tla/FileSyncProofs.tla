---------------------------- MODULE FileSyncProofs ----------------------------
(***************************************************************************)
(* Proofs about the synchronisation of a file and the merging of branches, *)
(* for any number of faults.                                               *)
(*                                                                         *)
(* That there is one merge request at most, and that a reported success    *)
(* can be relied on, both rest on what Apply knows at each of its steps:   *)
(* which steps its mode takes it through (Path), that it saw no merge      *)
(* request on the way to opening one (NoneOpen), and, as long as nobody    *)
(* interferes, how what it read still relates to the branches (Knows).     *)
(***************************************************************************)
EXTENDS FileSync, TLAPS

CommitSteps == {"direct_commit"}
ReviewSteps == {"merge_request", "review", "update"}
OpenSteps   == {"branch", "read", "commit", "open"}
MergeSteps  == {"compare", "find", "refresh"}

(* The variables the argument is about have their types. *)
FileTypes ==
  /\ cfg \in [mode : {"direct_commit", "merge_request", "audit_only", "branch_merge"},
              ensure : BOOLEAN, autoMerge : BOOLEAN, keepsBranch : BOOLEAN]
  /\ mrs \in Nat /\ disturbed \in BOOLEAN
  /\ pc \in CommitSteps \cup ReviewSteps \cup OpenSteps \cup MergeSteps
              \cup {"propose", "accept", "idle"}
  /\ target \in Contents \cup {Absent}
  /\ feature \in Contents \cup {Absent, NoBranch}
  /\ desired \in Contents

(* The mode of the policy decides which steps Apply takes. *)
Path ==
  /\ pc \in CommitSteps => cfg.mode = "direct_commit"
  /\ pc \in ReviewSteps \cup OpenSteps => cfg.mode = "merge_request"
  /\ pc \in MergeSteps \cup {"propose"} => MergesBranches
  /\ pc = "accept" => MergesBranches \/ cfg.mode = "merge_request"
  /\ pc # "idle" => outcome = "none"

(* On the way to opening a merge request there is none: only Apply opens   *)
(* them, and it has looked.                                                *)
NoneOpen ==
  /\ mrs <= 1
  /\ pc \in OpenSteps \cup {"propose"} => mrs = 0

(* What Apply has read still holds while nobody interferes. *)
Knows ==
  ~disturbed =>
    /\ ~MergesBranches /\ pc # "idle" => desired = Desired(target)
    /\ MergesBranches /\ pc # "idle" => seen = feature /\ feature # NoBranch
    /\ pc \in {"review", "update", "refresh", "accept"} => mrs > 0
    /\ pc \in {"open", "accept"} /\ ~MergesBranches => feature = desired

(* The inductive invariant of the reconciler. *)
FileInv == FileTypes /\ Path /\ NoneOpen /\ Knows /\ FileIsCovered

-----------------------------------------------------------------------------
(* calculateFileDrift is idempotent: the content it asks for is compliant, *)
(* whichever way the policy asks, and it is always a content.              *)
LEMMA DesiredIsCompliant ==
  ASSUME NEW c \in Contents \cup {Absent}
  PROVE  Desired(c) \in Contents /\ Desired(Desired(c)) = Desired(c)
  BY FileAssumption DEF Desired, Contents, FileAssumption

(* The reconciler starts in the invariant. *)
LEMMA InitFileInv == Init => FileInv
  <1> SUFFICES ASSUME Init PROVE FileInv
    OBVIOUS
  <1>1. FileTypes
    BY DEF Init, FileTypes, Contents, MergesBranches
  <1>2. Path /\ NoneOpen /\ Knows /\ FileIsCovered
    BY DEF Init, Path, NoneOpen, Knows, FileIsCovered, CommitSteps, ReviewSteps, OpenSteps, MergeSteps
  <1> QED BY <1>1, <1>2 DEF FileInv

(* Reading and comparing the file keeps the invariant. *)
LEMMA StepBeginApply ==
  ASSUME FileInv, BeginApply
  PROVE  FileInv'
  <1> USE DEF FileInv, BeginApply, gitlab, locals, EndApply, GoTo, Fault
  <1>1. FileTypes'
    BY DesiredIsCompliant DEF FileTypes, CommitSteps, ReviewSteps, OpenSteps, MergeSteps, MergesBranches
  <1>2. Path'
    BY DEF FileTypes, Path, MergesBranches, CommitSteps, ReviewSteps, OpenSteps, MergeSteps
  <1>3. NoneOpen'
    BY DEF FileTypes, NoneOpen, CommitSteps, ReviewSteps, OpenSteps, MergeSteps
  <1>4. Knows'
    BY DesiredIsCompliant DEF FileTypes, Path, NoneOpen, Knows, MergesBranches, CommitSteps, ReviewSteps, OpenSteps, MergeSteps, Desired
  <1>5. FileIsCovered'
    BY DesiredIsCompliant DEF FileTypes, Path, Knows, FileIsCovered, MergesBranches, MergePlan, NothingToMerge, Merged, PlanIsEmpty, IsCompliant, Desired
  <1> QED BY <1>1, <1>2, <1>3, <1>4, <1>5

(* The commit on the target branch keeps the invariant. *)
LEMMA StepCommitDirect ==
  ASSUME FileInv, CommitDirect
  PROVE  FileInv'
  <1> USE DEF FileInv, CommitDirect, Called, Refused, IsAsFound, gitlab, locals, EndApply, GoTo, Fault
  <1>1. FileTypes'
    BY DesiredIsCompliant DEF FileTypes, CommitSteps, ReviewSteps, OpenSteps, MergeSteps, Contents
  <1>2. Path'
    BY DEF FileTypes, Path, MergesBranches, CommitSteps, ReviewSteps, OpenSteps, MergeSteps
  <1>3. NoneOpen'
    BY DEF FileTypes, NoneOpen, CommitSteps, ReviewSteps, OpenSteps, MergeSteps
  <1>4. Knows'
    BY DesiredIsCompliant DEF FileTypes, Path, NoneOpen, Knows, MergesBranches, CommitSteps, ReviewSteps, OpenSteps, MergeSteps, Desired
  <1>5. FileIsCovered'
    BY DesiredIsCompliant DEF FileTypes, Path, Knows, FileIsCovered, MergesBranches, MergePlan, NothingToMerge, Merged, PlanIsEmpty, IsCompliant, Desired, CommitSteps, ReviewSteps, OpenSteps, MergeSteps
  <1> QED BY <1>1, <1>2, <1>3, <1>4, <1>5

(* Looking for an open merge request keeps the invariant. *)
LEMMA StepListMergeRequests ==
  ASSUME FileInv, ListMergeRequests
  PROVE  FileInv'
  <1> USE DEF FileInv, ListMergeRequests, GoToReviewOrBranch, gitlab, locals, EndApply, GoTo, Fault
  <1>1. FileTypes'
    BY DesiredIsCompliant DEF FileTypes, CommitSteps, ReviewSteps, OpenSteps, MergeSteps, Contents
  <1>2. Path'
    BY DEF FileTypes, Path, MergesBranches, CommitSteps, ReviewSteps, OpenSteps, MergeSteps
  <1>3. NoneOpen'
    BY DEF FileTypes, NoneOpen, CommitSteps, ReviewSteps, OpenSteps, MergeSteps
  <1>4. Knows'
    BY DesiredIsCompliant DEF FileTypes, Path, NoneOpen, Knows, MergesBranches, CommitSteps, ReviewSteps, OpenSteps, MergeSteps, Desired
  <1>5. FileIsCovered'
    BY DesiredIsCompliant DEF FileTypes, Path, Knows, FileIsCovered, MergesBranches, MergePlan, NothingToMerge, Merged, PlanIsEmpty, IsCompliant, Desired
  <1> QED BY <1>1, <1>2, <1>3, <1>4, <1>5

(* Looking at what an open merge request proposes keeps the invariant. *)
LEMMA StepReviewOpen ==
  ASSUME FileInv, ReviewOpen
  PROVE  FileInv'
  <1> USE DEF FileInv, ReviewOpen, FileOnFeature, gitlab, locals, EndApply, GoTo, Fault
  <1>1. FileTypes'
    BY DesiredIsCompliant DEF FileTypes, CommitSteps, ReviewSteps, OpenSteps, MergeSteps, Contents
  <1>2. Path'
    BY DEF FileTypes, Path, MergesBranches, CommitSteps, ReviewSteps, OpenSteps, MergeSteps
  <1>3. NoneOpen'
    BY DEF FileTypes, NoneOpen, CommitSteps, ReviewSteps, OpenSteps, MergeSteps
  <1>4. Knows'
    BY FileAssumption DEF FileAssumption, FileTypes, Path, NoneOpen, Knows, MergesBranches, CommitSteps, ReviewSteps, OpenSteps, MergeSteps, Desired
  <1>5. FileIsCovered'
    BY FileAssumption DEF FileAssumption, FileTypes, Path, Knows, FileIsCovered, MergesBranches, MergePlan, NothingToMerge, Merged, PlanIsEmpty, IsCompliant, Desired, CommitSteps, ReviewSteps, OpenSteps, MergeSteps
  <1> QED BY <1>1, <1>2, <1>3, <1>4, <1>5

(* Finding or creating the feature branch keeps the invariant. *)
LEMMA StepEnsureBranch ==
  ASSUME FileInv, EnsureBranch
  PROVE  FileInv'
  <1> USE DEF FileInv, EnsureBranch, Called, gitlab, locals, EndApply, GoTo, Fault
  <1>1. FileTypes'
    BY DesiredIsCompliant DEF FileTypes, CommitSteps, ReviewSteps, OpenSteps, MergeSteps, Contents
  <1>2. Path'
    BY DEF FileTypes, Path, MergesBranches, CommitSteps, ReviewSteps, OpenSteps, MergeSteps
  <1>3. NoneOpen'
    BY DEF FileTypes, NoneOpen, CommitSteps, ReviewSteps, OpenSteps, MergeSteps
  <1>4. Knows'
    BY DesiredIsCompliant DEF FileTypes, Path, NoneOpen, Knows, MergesBranches, CommitSteps, ReviewSteps, OpenSteps, MergeSteps, Desired
  <1>5. FileIsCovered'
    BY DesiredIsCompliant DEF FileTypes, Path, Knows, FileIsCovered, MergesBranches, MergePlan, NothingToMerge, Merged, PlanIsEmpty, IsCompliant, Desired
  <1> QED BY <1>1, <1>2, <1>3, <1>4, <1>5

(* Reading the file on the feature branch keeps the invariant. *)
LEMMA StepReadFeature ==
  ASSUME FileInv, ReadFeature
  PROVE  FileInv'
  <1> USE DEF FileInv, ReadFeature, FileOnFeature, IsProposed, gitlab, locals, EndApply, GoTo, Fault
  <1>1. FileTypes'
    BY DesiredIsCompliant DEF FileTypes, CommitSteps, ReviewSteps, OpenSteps, MergeSteps, Contents
  <1>2. Path'
    BY DEF FileTypes, Path, MergesBranches, CommitSteps, ReviewSteps, OpenSteps, MergeSteps
  <1>3. NoneOpen'
    BY DEF FileTypes, NoneOpen, CommitSteps, ReviewSteps, OpenSteps, MergeSteps
  <1>4. Knows'
    BY FileAssumption DEF FileAssumption, FileTypes, Path, NoneOpen, Knows, MergesBranches, CommitSteps, ReviewSteps, OpenSteps, MergeSteps, Desired
  <1>5. FileIsCovered'
    BY FileAssumption DEF FileAssumption, FileTypes, Path, Knows, FileIsCovered, MergesBranches, MergePlan, NothingToMerge, Merged, PlanIsEmpty, IsCompliant, Desired
  <1> QED BY <1>1, <1>2, <1>3, <1>4, <1>5

(* The commit on the feature branch keeps the invariant. *)
LEMMA StepWriteFeature ==
  ASSUME FileInv, WriteFeature
  PROVE  FileInv'
  <1> USE DEF FileInv, WriteFeature, Called, Refused, gitlab, locals, EndApply, GoTo, Fault
  <1>1. FileTypes'
    BY DesiredIsCompliant DEF FileTypes, CommitSteps, ReviewSteps, OpenSteps, MergeSteps, Contents
  <1>2. Path'
    BY DEF FileTypes, Path, MergesBranches, CommitSteps, ReviewSteps, OpenSteps, MergeSteps
  <1>3. NoneOpen'
    BY DEF FileTypes, NoneOpen, CommitSteps, ReviewSteps, OpenSteps, MergeSteps
  <1>4. Knows'
    BY DesiredIsCompliant DEF FileTypes, Path, NoneOpen, Knows, MergesBranches, CommitSteps, ReviewSteps, OpenSteps, MergeSteps, Desired
  <1>5. FileIsCovered'
    BY DesiredIsCompliant DEF FileTypes, Path, Knows, FileIsCovered, MergesBranches, MergePlan, NothingToMerge, Merged, PlanIsEmpty, IsCompliant, Desired, CommitSteps, ReviewSteps, OpenSteps, MergeSteps
  <1> QED BY <1>1, <1>2, <1>3, <1>4, <1>5

(* Opening a merge request for a file keeps the invariant. *)
LEMMA StepOpenMergeRequest ==
  ASSUME FileInv, OpenMergeRequest
  PROVE  FileInv'
  <1> USE DEF FileInv, OpenMergeRequest, Called, gitlab, locals, EndApply, GoTo, Fault
  <1>1. FileTypes'
    BY DesiredIsCompliant DEF FileTypes, CommitSteps, ReviewSteps, OpenSteps, MergeSteps, Contents
  <1>2. Path'
    BY DEF FileTypes, Path, MergesBranches, CommitSteps, ReviewSteps, OpenSteps, MergeSteps
  <1>3. NoneOpen'
    BY DEF FileTypes, NoneOpen, CommitSteps, ReviewSteps, OpenSteps, MergeSteps
  <1>4. Knows'
    BY DesiredIsCompliant DEF FileTypes, Path, NoneOpen, Knows, MergesBranches, CommitSteps, ReviewSteps, OpenSteps, MergeSteps, Desired
  <1>5. FileIsCovered'
    BY DesiredIsCompliant DEF FileTypes, Path, Knows, FileIsCovered, MergesBranches, MergePlan, NothingToMerge, Merged, PlanIsEmpty, IsCompliant, Desired, CommitSteps, ReviewSteps, OpenSteps, MergeSteps
  <1> QED BY <1>1, <1>2, <1>3, <1>4, <1>5

(* Accepting a merge request, or failing to, keeps the invariant. *)
LEMMA StepAcceptMergeRequest ==
  ASSUME FileInv, AcceptMergeRequest
  PROVE  FileInv'
  <1> USE DEF FileInv, AcceptMergeRequest, gitlab, locals, EndApply, GoTo, Fault
  <1>1. FileTypes'
    BY DesiredIsCompliant DEF FileTypes, CommitSteps, ReviewSteps, OpenSteps, MergeSteps, Contents
  <1>2. Path'
    BY DEF FileTypes, Path, MergesBranches, CommitSteps, ReviewSteps, OpenSteps, MergeSteps
  <1>3. NoneOpen'
    BY DEF FileTypes, NoneOpen, CommitSteps, ReviewSteps, OpenSteps, MergeSteps
  <1>4. Knows'
    BY DesiredIsCompliant DEF FileTypes, Path, NoneOpen, Knows, MergesBranches, CommitSteps, ReviewSteps, OpenSteps, MergeSteps, Desired
  <1>5. FileIsCovered'
    BY DesiredIsCompliant DEF FileTypes, Path, Knows, FileIsCovered, MergesBranches, MergePlan, NothingToMerge, Merged, PlanIsEmpty, IsCompliant, Desired
  <1> QED BY <1>1, <1>2, <1>3, <1>4, <1>5

(* Reading the source branch of a merge keeps the invariant. *)
LEMMA StepInspectSource ==
  ASSUME FileInv, InspectSource
  PROVE  FileInv'
  <1> USE DEF FileInv, InspectSource, gitlab, locals, EndApply, GoTo, Fault
  <1>1. FileTypes'
    BY DesiredIsCompliant DEF FileTypes, CommitSteps, ReviewSteps, OpenSteps, MergeSteps, Contents
  <1>2. Path'
    BY DEF FileTypes, Path, MergesBranches, CommitSteps, ReviewSteps, OpenSteps, MergeSteps
  <1>3. NoneOpen'
    BY DEF FileTypes, NoneOpen, CommitSteps, ReviewSteps, OpenSteps, MergeSteps
  <1>4. Knows'
    BY DesiredIsCompliant DEF FileTypes, Path, NoneOpen, Knows, MergesBranches, CommitSteps, ReviewSteps, OpenSteps, MergeSteps, Desired
  <1>5. FileIsCovered'
    BY DesiredIsCompliant DEF FileTypes, Path, Knows, FileIsCovered, MergesBranches, MergePlan, NothingToMerge, Merged, PlanIsEmpty, IsCompliant, Desired
  <1> QED BY <1>1, <1>2, <1>3, <1>4, <1>5

(* Comparing the two branches keeps the invariant. *)
LEMMA StepCompareCommits ==
  ASSUME FileInv, CompareCommits
  PROVE  FileInv'
  <1> USE DEF FileInv, CompareCommits, gitlab, locals, EndApply, GoTo, Fault
  <1>1. FileTypes'
    BY DesiredIsCompliant DEF FileTypes, CommitSteps, ReviewSteps, OpenSteps, MergeSteps, Contents
  <1>2. Path'
    BY DEF FileTypes, Path, MergesBranches, CommitSteps, ReviewSteps, OpenSteps, MergeSteps
  <1>3. NoneOpen'
    BY DEF FileTypes, NoneOpen, CommitSteps, ReviewSteps, OpenSteps, MergeSteps
  <1>4. Knows'
    BY DesiredIsCompliant DEF FileTypes, Path, NoneOpen, Knows, MergesBranches, CommitSteps, ReviewSteps, OpenSteps, MergeSteps, Desired
  <1>5. FileIsCovered'
    BY DesiredIsCompliant DEF FileTypes, Path, Knows, FileIsCovered, MergesBranches, MergePlan, NothingToMerge, Merged, PlanIsEmpty, IsCompliant, Desired, CommitSteps, ReviewSteps, OpenSteps, MergeSteps
  <1> QED BY <1>1, <1>2, <1>3, <1>4, <1>5

(* Looking for the merge request of a branch merge keeps the invariant. *)
LEMMA StepFindMergeRequest ==
  ASSUME FileInv, FindMergeRequest
  PROVE  FileInv'
  <1> USE DEF FileInv, FindMergeRequest, gitlab, locals, EndApply, GoTo, Fault
  <1>1. FileTypes'
    BY DesiredIsCompliant DEF FileTypes, CommitSteps, ReviewSteps, OpenSteps, MergeSteps, Contents
  <1>2. Path'
    BY DEF FileTypes, Path, MergesBranches, CommitSteps, ReviewSteps, OpenSteps, MergeSteps
  <1>3. NoneOpen'
    BY DEF FileTypes, NoneOpen, CommitSteps, ReviewSteps, OpenSteps, MergeSteps
  <1>4. Knows'
    BY DesiredIsCompliant DEF FileTypes, Path, NoneOpen, Knows, MergesBranches, CommitSteps, ReviewSteps, OpenSteps, MergeSteps, Desired
  <1>5. FileIsCovered'
    BY DesiredIsCompliant DEF FileTypes, Path, Knows, FileIsCovered, MergesBranches, MergePlan, NothingToMerge, Merged, PlanIsEmpty, IsCompliant, Desired
  <1> QED BY <1>1, <1>2, <1>3, <1>4, <1>5

(* Opening the merge request of a branch merge keeps the invariant. *)
LEMMA StepProposeMerge ==
  ASSUME FileInv, ProposeMerge
  PROVE  FileInv'
  <1> USE DEF FileInv, ProposeMerge, Called, Refused, gitlab, locals, EndApply, GoTo, Fault
  <1>1. FileTypes'
    BY DesiredIsCompliant DEF FileTypes, CommitSteps, ReviewSteps, OpenSteps, MergeSteps, Contents
  <1>2. Path'
    BY DEF FileTypes, Path, MergesBranches, CommitSteps, ReviewSteps, OpenSteps, MergeSteps
  <1>3. NoneOpen'
    BY DEF FileTypes, NoneOpen, CommitSteps, ReviewSteps, OpenSteps, MergeSteps
  <1>4. Knows'
    BY DesiredIsCompliant DEF FileTypes, Path, NoneOpen, Knows, MergesBranches, CommitSteps, ReviewSteps, OpenSteps, MergeSteps, Desired
  <1>5. FileIsCovered'
    BY DesiredIsCompliant DEF FileTypes, Path, Knows, FileIsCovered, MergesBranches, MergePlan, NothingToMerge, Merged, PlanIsEmpty, IsCompliant, Desired
  <1> QED BY <1>1, <1>2, <1>3, <1>4, <1>5

(* The look at conflicts keeps the invariant. *)
LEMMA StepCheckConflicts ==
  ASSUME FileInv, CheckConflicts
  PROVE  FileInv'
  <1> USE DEF FileInv, CheckConflicts, gitlab, locals, EndApply, GoTo, Fault
  <1>1. FileTypes'
    BY DesiredIsCompliant DEF FileTypes, CommitSteps, ReviewSteps, OpenSteps, MergeSteps, Contents
  <1>2. Path'
    BY DEF FileTypes, Path, MergesBranches, CommitSteps, ReviewSteps, OpenSteps, MergeSteps
  <1>3. NoneOpen'
    BY DEF FileTypes, NoneOpen, CommitSteps, ReviewSteps, OpenSteps, MergeSteps
  <1>4. Knows'
    BY DesiredIsCompliant DEF FileTypes, Path, NoneOpen, Knows, MergesBranches, CommitSteps, ReviewSteps, OpenSteps, MergeSteps, Desired
  <1>5. FileIsCovered'
    BY DesiredIsCompliant DEF FileTypes, Path, Knows, FileIsCovered, MergesBranches, MergePlan, NothingToMerge, Merged, PlanIsEmpty, IsCompliant, Desired, CommitSteps, ReviewSteps, OpenSteps, MergeSteps
  <1> QED BY <1>1, <1>2, <1>3, <1>4, <1>5

(* A failing read, or a crash, keeps the invariant. *)
LEMMA StepApplyFails ==
  ASSUME FileInv, ApplyFails
  PROVE  FileInv'
  <1> USE DEF FileInv, ApplyFails, gitlab, locals, EndApply, GoTo, Fault
  <1>1. FileTypes'
    BY DesiredIsCompliant DEF FileTypes, CommitSteps, ReviewSteps, OpenSteps, MergeSteps, Contents
  <1>2. Path'
    BY DEF FileTypes, Path, MergesBranches, CommitSteps, ReviewSteps, OpenSteps, MergeSteps
  <1>3. NoneOpen'
    BY DEF FileTypes, NoneOpen, CommitSteps, ReviewSteps, OpenSteps, MergeSteps
  <1>4. Knows'
    BY DesiredIsCompliant DEF FileTypes, Path, NoneOpen, Knows, MergesBranches, CommitSteps, ReviewSteps, OpenSteps, MergeSteps, Desired
  <1>5. FileIsCovered'
    BY DesiredIsCompliant DEF FileTypes, Path, Knows, FileIsCovered, MergesBranches, MergePlan, NothingToMerge, Merged, PlanIsEmpty, IsCompliant, Desired
  <1> QED BY <1>1, <1>2, <1>3, <1>4, <1>5

(* A merge keeps the invariant. *)
LEMMA StepMerge ==
  ASSUME FileInv, Merge
  PROVE  FileInv'
  <1> USE DEF FileInv, Merge, Merged, LinesOf, gitlab, locals, EndApply, GoTo, Fault
  <1>1. FileTypes'
    BY DesiredIsCompliant DEF FileTypes, CommitSteps, ReviewSteps, OpenSteps, MergeSteps, Contents
  <1>2. Path'
    BY DEF FileTypes, Path, MergesBranches, CommitSteps, ReviewSteps, OpenSteps, MergeSteps
  <1>3. NoneOpen'
    BY DEF FileTypes, NoneOpen, CommitSteps, ReviewSteps, OpenSteps, MergeSteps
  <1>4. Knows'
    BY DesiredIsCompliant DEF FileTypes, Path, NoneOpen, Knows, MergesBranches, CommitSteps, ReviewSteps, OpenSteps, MergeSteps, Desired
  <1>5. FileIsCovered'
    BY DesiredIsCompliant DEF FileTypes, Path, Knows, FileIsCovered, MergesBranches, MergePlan, NothingToMerge, Merged, PlanIsEmpty, IsCompliant, Desired
  <1> QED BY <1>1, <1>2, <1>3, <1>4, <1>5

(* A closed merge request keeps the invariant. *)
LEMMA StepClose ==
  ASSUME FileInv, CloseEmpty \/ Reject
  PROVE  FileInv'
  <1> USE DEF FileInv, CloseEmpty, Reject, Close, gitlab, locals, EndApply, GoTo, Fault
  <1>1. FileTypes'
    <2>1. mrs' \in Nat
      BY DEF FileTypes
    <2>2. feature' \in Contents \cup {Absent, NoBranch}
      BY DEF FileTypes
    <2> QED BY <2>1, <2>2 DEF FileTypes
  <1>2. Path'
    BY DEF FileTypes, Path, MergesBranches, CommitSteps, ReviewSteps, OpenSteps, MergeSteps
  <1>3. NoneOpen'
    BY DEF FileTypes, NoneOpen, CommitSteps, ReviewSteps, OpenSteps, MergeSteps
  <1>4. Knows'
    BY DesiredIsCompliant DEF FileTypes, Path, NoneOpen, Knows, MergesBranches, CommitSteps, ReviewSteps, OpenSteps, MergeSteps, Desired
  <1>5. FileIsCovered'
    BY DesiredIsCompliant DEF FileTypes, Path, Knows, FileIsCovered, MergesBranches, MergePlan, NothingToMerge, Merged, PlanIsEmpty, IsCompliant, Desired
  <1> QED BY <1>1, <1>2, <1>3, <1>4, <1>5

(* A developer's commit keeps the invariant. *)
LEMMA StepEdit ==
  ASSUME FileInv, Edit
  PROVE  FileInv'
  <1> USE DEF FileInv, Edit, gitlab, locals, EndApply, GoTo, Fault
  <1>1. FileTypes'
    BY DesiredIsCompliant DEF FileTypes, CommitSteps, ReviewSteps, OpenSteps, MergeSteps, Contents
  <1>2. Path'
    BY DEF FileTypes, Path, MergesBranches, CommitSteps, ReviewSteps, OpenSteps, MergeSteps
  <1>3. NoneOpen'
    BY DEF FileTypes, NoneOpen, CommitSteps, ReviewSteps, OpenSteps, MergeSteps
  <1>4. Knows'
    BY DesiredIsCompliant DEF FileTypes, Path, NoneOpen, Knows, MergesBranches, CommitSteps, ReviewSteps, OpenSteps, MergeSteps, Desired
  <1>5. FileIsCovered'
    BY DesiredIsCompliant DEF FileTypes, Path, Knows, FileIsCovered, MergesBranches, MergePlan, NothingToMerge, Merged, PlanIsEmpty, IsCompliant, Desired
  <1> QED BY <1>1, <1>2, <1>3, <1>4, <1>5

(* Every step keeps the invariant. *)
LEMMA NextFileInv == FileInv /\ [Next]_vars => FileInv'
  <1> SUFFICES ASSUME FileInv, [Next]_vars PROVE FileInv'
    OBVIOUS
  <1>1. CASE ApplyStep
    BY <1>1, StepBeginApply, StepCommitDirect, StepListMergeRequests, StepReviewOpen,
       StepEnsureBranch, StepReadFeature, StepWriteFeature, StepOpenMergeRequest,
       StepAcceptMergeRequest, StepInspectSource, StepCompareCommits, StepFindMergeRequest,
       StepProposeMerge, StepCheckConflicts DEF ApplyStep
  <1>2. CASE ApplyFails
    BY <1>2, StepApplyFails
  <1>3. CASE Review \/ Reject
    BY <1>3, StepMerge, StepClose DEF Review
  <1>4. CASE Edit
    BY <1>4, StepEdit
  <1>5. CASE UNCHANGED vars
    BY <1>5 DEF vars, FileInv, FileTypes, Path, NoneOpen, Knows, FileIsCovered, MergesBranches,
                Desired, MergePlan, NothingToMerge, Merged, PlanIsEmpty, IsCompliant
  <1> QED BY <1>1, <1>2, <1>3, <1>4, <1>5 DEF Next

(* The reconciler never leaves its invariant. *)
LEMMA FileInvariance == Spec => []FileInv
  BY InitFileInv, NextFileInv, PTL DEF Spec

(* Runs that fail, crash or lose the answer to the call that opened a      *)
(* merge request never make Apply open a second one beside it, however     *)
(* often they happen: manageMergeRequest commits its updates "without      *)
(* duplicate MRs".                                                         *)
THEOREM OneMergeRequestAlways == Spec => []OneMergeRequest
  <1>1. FileInv => OneMergeRequest
    BY DEF FileInv, NoneOpen, OneMergeRequest
  <1> QED BY <1>1, FileInvariance, PTL

(* When Apply reports success and no developer interfered, Plan finds      *)
(* nothing more to do, in every mode and after any number of faults.       *)
THEOREM SuccessIsCovered == Spec => []FileIsCovered
  <1>1. FileInv => FileIsCovered
    BY DEF FileInv
  <1> QED BY <1>1, FileInvariance, PTL
=============================================================================
