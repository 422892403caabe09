----------------------------- MODULE MCCollections -----------------------------
(* Policies of each kind for TLC: two keys are declared and one or two are  *)
(* not, of which one may have the name of a declared variable and another   *)
(* scope; with four keys a list exceeds the page, before or by an Apply.    *)
(* A webhook, an approval rule and a runner may be declared twice, to one   *)
(* effect or to two.  Settings have one key, a compliance framework is      *)
(* declared or is not.                                                      *)
EXTENDS Collections

Key(n, s) == [name |-> n, scope |-> s]
Declares(kind, prune, declared, values, others) ==
  [kind |-> kind, prune |-> prune, declared |-> declared, values |-> values,
   keys |-> Range(declared) \cup others]
Policy(kind, prune, others) ==
  Declares(kind, prune, <<Key("a", "*"), Key("b", "*")>>, <<1, 1>>, others)
Setting(kind, prune, declared, others) ==
  Declares(kind, prune, declared, [n \in DOMAIN declared |-> 1], others)
Twice(kind, prune, values) ==
  Declares(kind, prune, <<Key("a", "*"), Key("a", "*")>>, values, {Key("c", "*")})

MCPolicies ==
  {Policy("project_variable", FALSE, {Key("c", "*")}),
   Policy("project_variable", TRUE, {Key("a", "review")}),
   Policy("group_variable", TRUE, {Key("c", "*"), Key("c", "review")}),
   Policy("group_variable", TRUE, {Key("a", "review")}),
   Policy("webhook", FALSE, {Key("c", "*"), Key("d", "*")}),
   Policy("webhook", TRUE, {Key("c", "*")}),
   Policy("approval_rule", TRUE, {Key("c", "*")}),
   Policy("approval_rule", TRUE, {Key("owners", "*")}),
   Policy("target_branch_rule", TRUE, {Key("c", "*")}),
   Policy("target_branch_rule", FALSE, {Key("c", "*"), Key("d", "*")}),
   Policy("runner", FALSE, {Key("c", "*")}),
   Twice("webhook", TRUE, <<1, 1>>), Twice("webhook", FALSE, <<1, 2>>),
   Twice("approval_rule", TRUE, <<1, 1>>), Twice("approval_rule", TRUE, <<1, 2>>),
   Twice("runner", FALSE, <<1, 1>>), Twice("runner", FALSE, <<1, 2>>),
   Setting("compliance", TRUE, <<Key("a", "*")>>, {Key("c", "*")}),
   Setting("compliance", FALSE, <<Key("a", "*")>>, {Key("c", "*")}),
   Setting("compliance", TRUE, << >>, {Key("a", "*"), Key("c", "*")})}
    \cup {Setting(kind, FALSE, <<Key("a", "*")>>, {}) : kind \in Single \ {"compliance"}}
=============================================================================
