------------------------------- MODULE FleetScan -------------------------------
(***************************************************************************)
(* scanGroupProjects (internal/discovery/discovery.go): one goroutine per  *)
(* discovered group, at most Concurrency at a time, streams the projects   *)
(* of its group into a shared accumulator.                                 *)
(*                                                                         *)
(* A stream is what Stream.tla promises: the projects of the group, in any *)
(* order, then the end or an error.  A project can be in the listing of    *)
(* several groups (it is shared with them).                                *)
(***************************************************************************)
EXTENDS GroupTree, ProjectFilter

CONSTANTS Projects,     \* the projects of the instance
          Info,         \* what the ProjectFilter sees of each of them
          Filters,      \* the project selectors considered
          Concurrency,  \* the capacity of the semaphore
          ProjectLists, \* the inputs considered: the projects of each group
          NoFleet       \* Execute has not returned a fleet

ASSUME ScanAssumption ==
  /\ IsFiniteSet(Projects) /\ DOMAIN Info = Projects
  /\ ProjectLists \subseteq [Groups -> SUBSET Projects]
  /\ Concurrency \in Nat \ {0}
  /\ \A p \in Projects :
       Info[p].id \in Nat /\ Info[p].doomed \in BOOLEAN /\ Info[p].ns \in Seq(STRING)
  /\ \A f \in Filters : /\ f.min \in Nat /\ f.max \in Nat /\ f.excludeMarked \in {NotSet, "yes", "no"}
                        /\ f.nsInclude \subseteq Seq(STRING) /\ f.nsExclude \subseteq Seq(STRING)

VARIABLES
  filter,     \* the project selector, an input
  listing,    \* the projects of each group, an input
  cancelled,  \* ctx is done
  main,       \* where Execute is
  scan,       \* where the goroutine of each group Traverse returned is
  todo,       \* the projects its stream has still to deliver
  projects,   \* acc.projects, as the set of its keys
  parents,    \* the group each accumulated project was first seen in
  scanned,    \* acc.scannedProjectsCount
  errs,       \* the number of errors in errChan
  fleet       \* the fleet Execute returned

scanVars == <<scan, todo, projects, parents, scanned, errs>>
fleetVars == <<filter, listing, cancelled, main, scanVars, fleet>>

ScanInit ==
  /\ listing \in ProjectLists /\ filter \in Filters
  /\ cancelled = FALSE /\ main = "traversing"
  /\ scan = <<>> /\ todo = <<>>
  /\ projects = {} /\ parents = {} /\ scanned = 0 /\ errs = 0
  /\ fleet = NoFleet

Found == DOMAIN scan

Active == {g \in Found : scan[g] = "streaming"}

-----------------------------------------------------------------------------
HasSlot == Cardinality(Active) < Concurrency

ErrCap == Cardinality(Found)

ScannersDone == Active = {}

Accepts(p) == Matches(filter, Info[p]) /\ p \notin projects

(* Traverse returned the groups gs, and the launch loop begins on them. *)
BeginScan(gs) ==
  /\ main = "traversing"
  /\ main' = "launching"
  /\ scan' = [g \in gs |-> "new"] /\ todo' = [g \in gs |-> listing[g]]
  /\ UNCHANGED <<filter, listing, cancelled, projects, parents, scanned, errs, fleet>>

(* Traverse returned an error, and Execute does. *)
NoScan ==
  /\ main = "traversing"
  /\ main' = "error"
  /\ UNCHANGED <<filter, listing, cancelled, scanVars, fleet>>

(* The select of the launch loop takes a slot of the semaphore. *)
Launch(g) ==
  /\ main = "launching" /\ scan[g] = "new" /\ HasSlot
  /\ scan' = [scan EXCEPT ![g] = "streaming"]
  /\ UNCHANGED <<filter, listing, cancelled, main, todo, projects, parents, scanned, errs, fleet>>

(* The select takes the ctx.Done() case: Execute returns the error at once, *)
(* and leaves its goroutines to themselves.                                *)
LaunchCancelled ==
  /\ main = "launching" /\ \E g \in Found : scan[g] = "new"
  /\ cancelled
  /\ main' = "error"
  /\ UNCHANGED <<filter, listing, cancelled, scanVars, fleet>>

LaunchedAll ==
  /\ main = "launching" /\ \A g \in Found : scan[g] # "new"
  /\ main' = "waiting"
  /\ UNCHANGED <<filter, listing, cancelled, scanVars, fleet>>

(* AddProjectIfMatches, under the lock of the accumulator. *)
AddProject(g, p) ==
  /\ scan[g] = "streaming" /\ p \in todo[g]
  /\ todo' = [todo EXCEPT ![g] = @ \ {p}]
  /\ scanned' = scanned + 1
  /\ IF Accepts(p)
       THEN projects' = projects \cup {p} /\ parents' = parents \cup {<<p, g>>}
       ELSE UNCHANGED <<projects, parents>>
  /\ UNCHANGED <<filter, listing, cancelled, main, scan, errs, fleet>>

EndScan(g) ==
  /\ scan[g] = "streaming" /\ todo[g] = {}
  /\ scan' = [scan EXCEPT ![g] = "done"]
  /\ UNCHANGED <<filter, listing, cancelled, main, todo, projects, parents, scanned, errs, fleet>>

(* The stream delivers an error: it is put in errChan, unless that is full. *)
FailScan(g) ==
  /\ scan[g] = "streaming"
  /\ scan' = [scan EXCEPT ![g] = "failed"]
  /\ errs' = IF errs < ErrCap THEN errs + 1 ELSE errs
  /\ UNCHANGED <<filter, listing, cancelled, main, todo, projects, parents, scanned, fleet>>

(* wg.Wait() returns; the first error, or the fleet, is returned. *)
ReturnFleet ==
  /\ main = "waiting" /\ ScannersDone
  /\ IF errs > 0
       THEN main' = "error" /\ UNCHANGED fleet
       ELSE main' = "ok" /\ fleet' = [projects |-> projects, scanned |-> scanned]
  /\ UNCHANGED <<filter, listing, cancelled, scanVars>>

Cancel ==
  /\ ~cancelled /\ cancelled' = TRUE
  /\ UNCHANGED <<filter, listing, main, scanVars, fleet>>

Scanner(g) == EndScan(g) \/ FailScan(g) \/ \E p \in Projects : AddProject(g, p)
Main == LaunchCancelled \/ LaunchedAll \/ ReturnFleet \/ \E g \in Found : Launch(g)
=============================================================================
