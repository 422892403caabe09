------------------------------- MODULE GroupTree -------------------------------
(***************************************************************************)
(* BFSGroupTraverser (internal/discovery/grouptree.go): the groups that a  *)
(* run governs, found breadth first from the roots.  What the API reports  *)
(* as subgroups is any relation, with shared children and cycles.          *)
(*                                                                         *)
(* resolveRoots is the set of groups it returns (the included ones, or the *)
(* top-level groups): one API call per group, any of which may fail.       *)
(***************************************************************************)
EXTENDS Naturals, Sequences, FiniteSets

CONSTANTS Groups,    \* the groups of the GitLab instance
          MaxDepths, \* the inputs considered: depth limits,
          Trees,     \* subgroup relations,
          RootSets, ExcludedSets  \* sets of roots and of excluded groups

ASSUME TreeAssumption ==
  /\ IsFiniteSet(Groups) /\ MaxDepths \subseteq Nat
  /\ Trees \subseteq [Groups -> SUBSET Groups]
  /\ RootSets \subseteq SUBSET Groups /\ ExcludedSets \subseteq SUBSET Groups

VARIABLES
  subgroups,  \* what the API lists below each group
  roots,      \* what resolveRoots returns
  excluded,   \* the groups IsExcluded names
  recursive,  \* eval.recursive
  maxDepth,   \* t.maxDepth; 0 means none
  visited,    \* the set visited
  queue,      \* the queue from head on: groups with their depth
  matched,    \* matchedGroups, each with its depth
  pc          \* "resolving", "walking", or how Traverse returned: "ok", "error"

inputs == <<subgroups, roots, excluded, recursive, maxDepth>>
treeVars == <<inputs, visited, queue, matched, pc>>

(* The orders in which the API may list a set of groups. *)
Listings(S) == {s \in [1..Cardinality(S) -> S] : \A g \in S : \E i \in DOMAIN s : s[i] = g}

At(s, d) == [i \in DOMAIN s |-> [group |-> s[i], depth |-> d]]

TreeInit ==
  /\ subgroups \in Trees /\ roots \in RootSets /\ excluded \in ExcludedSets
  /\ recursive \in BOOLEAN /\ maxDepth \in MaxDepths
  /\ visited = {} /\ queue = <<>> /\ matched = {} /\ pc = "resolving"

(* resolveRoots, and the loop that queues the roots. *)
ResolveRoots ==
  /\ pc = "resolving"
  /\ visited' = roots
  /\ \E s \in Listings(roots) : queue' = At(s, 0)
  /\ pc' = "walking"
  /\ UNCHANGED <<inputs, matched>>

Current == Head(queue)
(* Mutation: one level too deep. *)
ExpandsTooDeep == recursive /\ (maxDepth = 0 \/ Current.depth <= maxDepth)
Expands == recursive /\ (maxDepth = 0 \/ Current.depth < maxDepth)

Unseen == subgroups[Current.group] \ visited

MarkQueued(new) == visited \cup new

(* Mutation: an excluded group is skipped before the head moves on. *)
RestUnlessExcluded == IF Current.group \in excluded THEN queue ELSE Tail(queue)
Rest == Tail(queue)

(* One turn of the loop: the group at the head is matched unless excluded, *)
(* and its subgroups that were not seen yet are queued.                    *)
VisitGroup ==
  /\ pc = "walking" /\ queue # <<>>
  /\ matched' = IF Current.group \in excluded THEN matched ELSE matched \cup {Current}
  /\ LET new == IF Expands THEN Unseen ELSE {}
     IN  /\ visited' = MarkQueued(new)
         /\ \E s \in Listings(new) : queue' = Rest \o At(s, Current.depth + 1)
  /\ UNCHANGED <<inputs, pc>>

Traversed ==
  /\ pc = "walking" /\ queue = <<>>
  /\ pc' = "ok"
  /\ UNCHANGED <<inputs, visited, queue, matched>>

(* A root cannot be had, the context is done, or a listing fails: Traverse *)
(* returns no groups.                                                      *)
TraverseFails ==
  /\ pc = "resolving" \/ (pc = "walking" /\ queue # <<>>)
  /\ pc' = "error"
  /\ UNCHANGED <<inputs, visited, queue, matched>>

TreeStep == ResolveRoots \/ VisitGroup \/ Traversed

-----------------------------------------------------------------------------
(* The groups at distance at most d from the roots. *)
Within[d \in Nat] ==
  IF d = 0 THEN roots
  ELSE Within[d - 1] \cup UNION {subgroups[g] : g \in Within[d - 1]}

DepthLimit == IF ~recursive THEN 0
              ELSE IF maxDepth = 0 THEN Cardinality(Groups) ELSE maxDepth

(* Traverse returns exactly the groups within reach that are not excluded  *)
(* (also those below an excluded one), each of them once, at its distance  *)
(* from the roots: neither a cycle nor a shared subgroup makes it miss,    *)
(* repeat or misplace a group.                                             *)
MatchedIsReach ==
  pc = "ok" =>
    /\ {m.group : m \in matched} = Within[DepthLimit] \ excluded
    /\ \A m \in matched : /\ m.group \in Within[m.depth]
                        /\ m.depth > 0 => m.group \notin Within[m.depth - 1]
=============================================================================
