------------------------------- MODULE License -------------------------------
(***************************************************************************)
(* License enforcement (internal/license), as Execute of the engine and of *)
(* the audit call it: a decision on a situation s, a record of             *)
(*   attested        the build is an attested release                      *)
(*   local, server   the clocks, in hours; server is Unknown when GitLab   *)
(*                   has not told the time                                 *)
(*   key, file       the token that is given as a key or in a file, or     *)
(*                   "" (not given) or "unreadable"                        *)
(*   found           the token of the environment, "" or "unreadable"      *)
(*   projects        the projects that discovery found                     *)
(*   host, paths     the server and the namespaces of the targets          *)
(*   required        the features that the policy needs                    *)
(*   dryRun          whether this run only simulates                       *)
(* A token t is a record of signed, revoked, until (the end of its grace   *)
(* period, in hours), maxProjects (0 is no limit), hosts and namespaces    *)
(* (empty is no limit), plan, and features (those that the claims grant    *)
(* whatever the plan).                                                     *)
(***************************************************************************)
EXTENDS Integers

CONSTANTS ChangeDate,          \* the hour at which the release becomes free
          FreeTierMaxProjects, \* 25 in the code
          Tokens,              \* tokens that can be read
          Attributes,          \* what each of them grants
          NoToken, Unreadable  \* no token is given; it cannot be read

Unknown == -1

(* DefaultTierFeatures, IsCommunityFeature *)
CommunityFeatures == {"push_rules", "branch_merges"}
ProFeatures == {"webhooks", "protected_tags"}
EnterpriseFeatures == {"runtime.lambda", "compliance_frameworks"}
Features == CommunityFeatures \cup ProFeatures \cup EnterpriseFeatures

(* What may be given as a token, and the situations (EnforcementOptions). *)
Given == Tokens \cup {NoToken, Unreadable}
SituationSet ==
  [attested : BOOLEAN, local : Int, server : Int, key : Given, file : Given, found : Given,
   projects : Nat, host : STRING, paths : SUBSET STRING, required : SUBSET Features,
   dryRun : BOOLEAN]

ASSUME LicenseAssumption ==
  /\ ChangeDate \in Nat /\ FreeTierMaxProjects \in Nat
  /\ NoToken \notin Tokens /\ Unreadable \notin Tokens
  /\ \A t \in Tokens : Attributes[t].until \in Int

-----------------------------------------------------------------------------
(* version.IsApacheConverted *)
IsApacheConverted(s, t) == s.attested /\ t > ChangeDate

(* Mutation: the local clock is believed. *)
EvaluationTimeLocal(s) == s.local
(* The clock that counts: the server's when the local one has passed the   *)
(* change date before it, or is more than an hour away.                    *)
EvaluationTime(s) ==
  IF /\ s.server # Unknown
     /\ \/ IsApacheConverted(s, s.local) /\ ~IsApacheConverted(s, s.server)
        \/ s.local - s.server \notin -1..1
  THEN s.server ELSE s.local

(* A key, a file and then the environment. *)
ResolveToken(s) == CASE s.key # NoToken -> s.key
                     [] s.key = NoToken /\ s.file # NoToken -> s.file
                     [] OTHER -> s.found

(* ParseAndVerifyAt: signature, revocation and the end of the grace period; *)
(* a scope that does not match is left to Enforce.                          *)
IsVerified(t, time) ==
  /\ Attributes[t].signed /\ ~Attributes[t].revoked
  /\ time <= Attributes[t].until

(* The features of the plan and those that the claims grant themselves. *)
TierFeatures(plan) == IF plan = "enterprise" THEN Features
                      ELSE IF plan = "pro" THEN {"push_rules"} \cup ProFeatures
                      ELSE {}
FeaturesOf(t) == TierFeatures(Attributes[t].plan) \cup Attributes[t].features

(* CheckLimit, isHostAllowed, isNamespaceAllowed, AssertFeature *)
HasCapacity(t, s) == Attributes[t].maxProjects = 0 \/ s.projects <= Attributes[t].maxProjects
IsHostAllowed(t, s) == Attributes[t].hosts = {} \/ s.host \in Attributes[t].hosts
IsNamespaceAllowed(t, s) ==
  Attributes[t].namespaces = {} \/ s.paths \subseteq Attributes[t].namespaces
IsEntitled(t, s) ==
  \A f \in s.required : f \in CommunityFeatures \/ f \in FeaturesOf(t)

(* EvaluateEntitlement of GetBSLPolicy: the free tier, in an environment    *)
(* that counts as production.                                               *)
IsFree(s) == s.projects <= FreeTierMaxProjects

(* Enforce: a run that only simulates is let through in each of the cases   *)
(* that are refused otherwise, except when the token cannot be read.        *)
Enforce(s) ==
  LET time == EvaluationTime(s)
      t == ResolveToken(s)
  IN \/ IsApacheConverted(s, time)
     \/ /\ t \in Tokens
        /\ \/ s.dryRun
           \/ /\ IsVerified(t, time)
              /\ HasCapacity(t, s) /\ IsHostAllowed(t, s) /\ IsNamespaceAllowed(t, s)
              /\ IsEntitled(t, s)
     \/ /\ t = NoToken
        /\ s.dryRun \/ (s.required \subseteq CommunityFeatures /\ IsFree(s))
==============================================================================
