------------------------------ MODULE MCDiscovery ------------------------------
(* Small instances of a discovery for TLC: group graphs with cycles, shared *)
(* children and unreachable groups.                                        *)
EXTENDS Discovery, TLC

CONSTANTS g1, g2, g3, p1, p2, p3

MCTrees == {f \in [Groups -> SUBSET Groups] :
              f[g1] \subseteq {g2, g3} /\ g2 \notin f[g2] /\ f[g3] \subseteq {g1}}
MCRootSets == {{g1}, {g1, g2}}
MCExcludedSets == {{}, {g2}}
MCProjectLists ==
  {(g1 :> {p1}) @@ (g2 :> {p1, p3}) @@ (g3 :> {p2}),
   (g1 :> {}) @@ (g2 :> {p1, p2}) @@ (g3 :> {p1})}

MCInfo ==
  (p1 :> [id |-> 1, archived |-> "no", doomed |-> FALSE, visibility |-> "private",
          ns |-> <<"a">>, names |-> {"One", "one"}, topics |-> {"x"}]) @@
  (p2 :> [id |-> 2, archived |-> "no", doomed |-> TRUE, visibility |-> "public",
          ns |-> <<"a", "b">>, names |-> {"two"}, topics |-> {"", "y"}]) @@
  (p3 :> [id |-> 3, archived |-> "yes", doomed |-> FALSE, visibility |-> "private",
          ns |-> <<"c">>, names |-> {"three"}, topics |-> {}])

NoCriteria == [archived |-> NotSet, excludeMarked |-> NotSet, visibility |-> NotSet, min |-> 0, max |-> 0,
               nsInclude |-> {}, nsExclude |-> {}, regexInclude |-> {}, regexExclude |-> {},
               topicsInclude |-> {}, topicsExclude |-> {}]
MCFilters ==
  {[NoCriteria EXCEPT !.nsInclude = {<<"a">>, << >>}, !.topicsExclude = {"", "z"}],
   [NoCriteria EXCEPT !.archived = "no", !.regexInclude = {"one", "two"}],
   [NoCriteria EXCEPT !.nsExclude = {<<"a">>}, !.topicsInclude = {""}, !.max = 3],
   [NoCriteria EXCEPT !.visibility = "private", !.min = 1, !.topicsInclude = {"x"},
                      !.regexExclude = {"three"}, !.excludeMarked = "no"]}
=============================================================================
