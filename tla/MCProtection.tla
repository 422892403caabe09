----------------------------- MODULE MCProtection -----------------------------
(* Policies of each kind on two names for TLC: attributes set and left     *)
(* out, two rules for one branch that contradict or complete each other, a *)
(* wildcard over an exact rule and under it, pruning.                      *)
EXTENDS Protection

CONSTANTS prod, stage, dev, maint

Exact(n, a, f) == [names |-> {n}, wild |-> FALSE, access |-> a, flag |-> f]
Star(a, f) == [names |-> Names, wild |-> TRUE, access |-> a, flag |-> f]
Policy(k, p, rs) == [kind |-> k, prune |-> p, rules |-> rs]

MCPolicies ==
  {Policy("branch", FALSE, <<Exact(prod, maint, TRUE)>>),
   Policy("branch", FALSE, <<Exact(prod, Unset, TRUE), Exact(stage, dev, Unset)>>),
   Policy("branch", FALSE, <<Exact(prod, maint, TRUE), Exact(prod, dev, TRUE)>>),
   Policy("branch", FALSE, <<Exact(prod, maint, Unset), Exact(prod, Unset, TRUE)>>),
   Policy("tag", TRUE, <<Exact(prod, maint, Unset)>>),
   Policy("env", TRUE, <<Star(maint, Unset), Exact(prod, dev, TRUE)>>),
   Policy("env", FALSE, <<Exact(prod, dev, TRUE), Star(maint, Unset)>>)}
=============================================================================
