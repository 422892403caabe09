----------------------------- MODULE ProjectFilter -----------------------------
(***************************************************************************)
(* Which projects a policy is about (internal/discovery/projectfilter.go), *)
(* as a decision on a project p and a selector f.                          *)
(*   p.ns        the namespace, as the sequence of the names on its path   *)
(*   p.names     the spellings of its name and path that a regex is tried  *)
(*               on                                                        *)
(*   p.topics    its topics and tags                                       *)
(*   p.id, p.archived, p.doomed (it is marked for deletion), p.visibility  *)
(* A regex is the set of the names that it matches.  Names are compared in *)
(* lower case; << >> and "" stand for entries that are blank.  A criterion *)
(* that is not given is NotSet, 0 or an empty set.                         *)
(***************************************************************************)
EXTENDS Naturals, Sequences

NotSet == "any"

-----------------------------------------------------------------------------
(* NewProjectFilter drops what is blank. *)
Namespaces(nss) == nss \ {<< >>}
Topics(topics) == topics \ {""}

MatchNamespace(ns, target) == 
  Len(target) <= Len(ns) /\ target = SubSeq(ns, 1, Len(target))

MatchProjectRegex(regex, p) == regex \cap p.names # {}

(* Projects that are to be deleted go with the archived ones unless the     *)
(* selector says otherwise.                                                 *)
ShouldExcludeMarked(f) ==
  IF f.excludeMarked # NotSet THEN f.excludeMarked = "yes" ELSE f.archived = "no"

InIDRange(f, p) == (f.min > 0 => p.id >= f.min) /\ (f.max > 0 => p.id <= f.max)

(* Evaluate: the order of its steps only decides which reason it gives. *)
PassesStatus(f, p) ==
  /\ f.archived # NotSet => p.archived = f.archived
  /\ ShouldExcludeMarked(f) => ~p.doomed
  /\ f.visibility # NotSet => p.visibility = f.visibility
  /\ InIDRange(f, p)
IsExcluded(f, p) ==
  \/ \E ns \in Namespaces(f.nsExclude) : MatchNamespace(p.ns, ns)
  \/ MatchProjectRegex(f.regexExclude, p)
  \/ Topics(p.topics) \cap Topics(f.topicsExclude) # {}
IsIncluded(f, p) ==
  /\ \/ Namespaces(f.nsInclude) = {}
     \/ \E ns \in Namespaces(f.nsInclude) : MatchNamespace(p.ns, ns)
  /\ f.regexInclude = {} \/ MatchProjectRegex(f.regexInclude, p)
  /\ Topics(f.topicsInclude) = {} \/ Topics(p.topics) \cap Topics(f.topicsInclude) # {}

Matches(f, p) == PassesStatus(f, p) /\ ~IsExcluded(f, p) /\ IsIncluded(f, p)
=============================================================================
