------------------------------- MODULE Discovery -------------------------------
(***************************************************************************)
(* DiscoverFleet in group mode: discoveryCoordinator.Execute traverses the *)
(* groups (GroupTree) and then scans the projects of the ones it matched   *)
(* (FleetScan).  Both run under one context, which may end at any point.   *)
(* Instance-wide discovery has no groups; it is the reader "instance" of   *)
(* Stream.                                                                 *)
(***************************************************************************)
EXTENDS FleetScan

vars == <<treeVars, fleetVars>>

Init == TreeInit /\ ScanInit

-----------------------------------------------------------------------------
MatchedGroups == {m.group : m \in matched}

Traverse == TreeStep /\ UNCHANGED fleetVars
FailTraverse == TraverseFails /\ UNCHANGED fleetVars

(* Mutation: the groups seen by an unfinished traversal are scanned. *)
TraverseReturnedEarly == pc \in {"ok", "error"}
TraverseReturned == pc = "ok"

(* AddDiscoveredGroup for every group, then scanGroupProjects. *)
ScanMatched == TraverseReturned /\ BeginScan(MatchedGroups) /\ UNCHANGED treeVars

GiveUp == pc = "error" /\ NoScan /\ UNCHANGED treeVars

Execute == ScanMatched \/ GiveUp \/ (Main /\ UNCHANGED treeVars)
ScanGroup(g) == Scanner(g) /\ UNCHANGED treeVars
CancelDiscovery == Cancel /\ UNCHANGED treeVars

Next == \/ Traverse \/ FailTraverse \/ Execute \/ CancelDiscovery
        \/ \E g \in Found : ScanGroup(g)

Spec == Init /\ [][Next]_vars

(* The goroutines are scheduled, and API calls and streams end. *)
FairSpec ==
  /\ Spec
  /\ WF_vars(Traverse) /\ WF_vars(Execute)
  /\ \A g \in Groups : WF_vars(g \in Found /\ ScanGroup(g))

-----------------------------------------------------------------------------
(* A project that the selector is about: every criterion that is given is   *)
(* met, and neither it nor a namespace around it is excluded.               *)
Around(p) == {SubSeq(p.ns, 1, n) : n \in 1..Len(p.ns)}
InScope(f, p) ==
  /\ f.archived \in {NotSet, p.archived} /\ f.visibility \in {NotSet, p.visibility}
  /\ p.doomed => f.excludeMarked # "yes" /\ (f.archived = "no" => f.excludeMarked = "no")
  /\ p.id >= f.min /\ (f.max = 0 \/ p.id <= f.max)
  /\ Around(p) \cap f.nsExclude = {} /\ p.names \cap f.regexExclude = {}
  /\ ~\E t \in p.topics \ {""} : t \in f.topicsExclude
  /\ f.nsInclude \ {<< >>} # {} => Around(p) \cap f.nsInclude # {}
  /\ f.regexInclude # {} => p.names \cap f.regexInclude # {}
  /\ f.topicsInclude \ {""} # {} => \E t \in p.topics \ {""} : t \in f.topicsInclude

(* The fleet that is returned is the whole fleet: the groups within reach  *)
(* of the configured roots that are not excluded, and every matching       *)
(* project of theirs, whatever the order of the scanners; no failure of a  *)
(* listing or stream and no cancellation makes a smaller fleet pass for it. *)
FleetIsReach ==
  fleet # NoFleet =>
    /\ Found = Within[DepthLimit] \ excluded
    /\ fleet.projects = {p \in UNION {listing[g] : g \in Found} : InScope(filter, Info[p])}

(* DiscoverFleet returns although the subgroups may form a cycle, and no   *)
(* scanner is left, also after a cancellation that made Execute return     *)
(* before them.                                                            *)
DiscoveryEnds == <>(main \in {"ok", "error"} /\ Active = {})
=============================================================================
