----------------------------- MODULE MCInvocation -----------------------------
(* Two invocations at a time, two targets, one edit of the policy, one       *)
(* payload sent by hand and one failure, under licenses of every kind.       *)
EXTENDS Invocation

Payload(action, dry, from, own) ==
  [action |-> action, dry |-> dry, from |-> from, own |-> own, valid |-> TRUE]

MCPayloads ==
  {Payload("plan", "off", "stored", Unset), Payload("apply", "on", "stored", Unset),
   Payload("other", Unset, "stored", Unset), Payload("none", "off", "object", Unset),
   Payload("none", "garbled", "stored", Unset), Payload("none", "on", "inline", "off"),
   [Payload("none", Unset, "inline", "off") EXCEPT !.valid = FALSE]}

MCPolicies == {[dry |-> "off", valid |-> TRUE], [dry |-> Unset, valid |-> TRUE],
               [dry |-> "off", valid |-> FALSE]}

MCScheduled == {Silent, Payload("none", "garbled", "stored", Unset)}
MCS3Records == {<<"policy", "other", "policy">>}

MCAttributes ==
  [t \in Tokens |->
     [signed |-> t # "forged", revoked |-> t = "revoked", until |-> IF t = "old" THEN 4 ELSE 90,
      maxProjects |-> IF t = "small" THEN 1 ELSE 0, hosts |-> IF t = "host" THEN {"h1"} ELSE {},
      namespaces |-> IF t = "group" THEN {"a"} ELSE {},
      plan |-> CASE t \in {"pro", "lambda"} -> "pro" [] t = "none" -> "community"
                 [] OTHER -> "enterprise",
      features |-> CASE t = "lambda" -> {"runtime.lambda"} [] t = "none" -> {"webhooks"}
                     [] OTHER -> {}]]

Licensed(token, local, server) ==
  [attested |-> TRUE, local |-> local, server |-> server, key |-> NoToken, file |-> token,
   found |-> NoToken, projects |-> 2, host |-> "h2", paths |-> {"a", "b"},
   required |-> {"push_rules", "webhooks"}, dryRun |-> TRUE]

Clocks == {<<5, 5>>, <<5, Unknown>>, <<11, Unknown>>, <<11, 10>>, <<10, 11>>, <<40, 5>>, <<5, 40>>,
           <<2, 9>>, <<9, 2>>}

MCLicenses ==
  {Licensed(t, 5, 5) : t \in Tokens \cup {Unreadable}}
  \cup {Licensed("old", c[1], c[2]) : c \in Clocks}
  \cup {[Licensed(NoToken, c[1], c[2]) EXCEPT !.required = {"push_rules"}, !.projects = n] :
           c \in Clocks, n \in 2..3}
  \cup {[Licensed(NoToken, 11, 11) EXCEPT !.attested = FALSE]}

MCSituations ==
  {Licensed("good", 5, 5), Licensed("revoked", 5, 5),
   [Licensed(NoToken, 5, Unknown) EXCEPT !.required = {"push_rules"}]}
==============================================================================
