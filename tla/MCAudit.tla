------------------------------- MODULE MCAudit -------------------------------
(* Audits of two projects: one with an exposure, in every state of its      *)
(* life, and one as it should be; and all modules over two that are in      *)
(* order and share a user.                                                  *)
EXTENDS Audit

CONSTANTS u1, u2, p1, p2

Branch == [name |-> "main", force |-> FALSE, pushers |-> {}, mergers |-> {u2},
           owners |-> TRUE, developers |-> FALSE]
Production == [name |-> "production", production |-> TRUE, approvals |-> TRUE,
               deployers |-> {}]
Tag == [name |-> "v*", creators |-> {}, developers |-> FALSE]
TagNamed(pattern) == [Tag EXCEPT !.name = pattern]
Member(u, role, expires) == [user |-> u, role |-> role, expires |-> expires, direct |-> TRUE]

Clean ==
  [lifecycle |-> "active", members |-> <<Member(u1, "owner", FALSE)>>, default |-> "main",
   branches |-> {Branch}, protected |-> {Production},
   environments |-> <<[name |-> "staging", production |-> FALSE],
                      [name |-> "production", production |-> TRUE]>>,
   stale |-> "none", retention |-> TRUE,
   files |-> {[name |-> "LICENSE", state |-> "declared"]}, tags |-> {Tag}]

(* What can be wrong with a project, and the module that is to find it. *)
Exposures ==
  {[d |-> [Clean EXCEPT !.members = @ \o <<Member(u2, "maintainer", FALSE)>>],
    m |-> "protected_branches"],
   [d |-> [Clean EXCEPT !.members = <<Member(u2, "developer", FALSE)>> \o @],
    m |-> "protected_tags"],
   [d |-> [Clean EXCEPT !.branches = {[Branch EXCEPT !.force = TRUE]}],
    m |-> "protected_branches"],
   [d |-> [Clean EXCEPT !.branches = {}], m |-> "protected_branches"],
   [d |-> [Clean EXCEPT !.protected = {[Production EXCEPT !.approvals = FALSE]}],
    m |-> "protected_environments"],
   [d |-> [Clean EXCEPT !.protected = {}], m |-> "protected_environments"],
   [d |-> [Clean EXCEPT !.stale = "overdue"], m |-> "pipeline_retention"],
   [d |-> [Clean EXCEPT !.files = {[name |-> "LICENSE", state |-> "missing"]}],
    m |-> "repository_files"],
   [d |-> [Clean EXCEPT !.tags = {[Tag EXCEPT !.creators = {u2}]}], m |-> "protected_tags"],
   [d |-> [Clean EXCEPT !.tags = {}], m |-> "protected_tags"],
   [d |-> [Clean EXCEPT !.tags = {TagNamed("test-*")}], m |-> "protected_tags"]}

(* Projects in order, by the rarer rules of matchesReleasePattern. *)
Covered ==
  {[Clean EXCEPT !.tags = T] : T \in {{TagNamed("release-*")}, {TagNamed("test-*"), TagNamed("1.*")}}}

Fleet(first, second) == [p \in {p1, p2} |-> IF p = p1 THEN first ELSE second]
WithMember == [Clean EXCEPT !.members = <<Member(u2, "guest", TRUE)>>]

MCScenarios ==
  {[world |-> Fleet([x.d EXCEPT !.lifecycle = l], Clean), active |-> {"user_access", x.m}]
   : x \in Exposures, l \in Lifecycles}
  \cup {[world |-> Fleet(d, Clean), active |-> {"user_access", "protected_tags"}] : d \in Covered}
  \cup {[world |-> Fleet(WithMember, Clean),
         active |-> {Modules[k] : k \in DOMAIN Modules} \ off]
        : off \in {{}, {"user_access"}}}
==============================================================================
