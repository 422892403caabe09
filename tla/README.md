# TLA+ models of gitlab-fleet-governor

gitlab-fleet-governor brings a fleet of GitLab projects and groups into line with
a declarative policy. One run discovers the fleet, checks the license, and
reconciles every group and then every project with the policy, in a bounded pool
of workers, through a client that limits and retries its API calls. A schedule
(a CI job, a cron job or a Lambda function) starts runs again and again, while
people go on changing the same projects by hand.

The models cover the path of a run from the event that starts it to the write in
GitLab and the answer: the Lambda adapter, the license step, the worker pool and the
engine on top of it, the transport and the paginated streams below it, discovery with
the project filter, the reconcilers, and the concurrent audit of the fleet.

## 1. Inventory

| Component (source) | State | Operations | What makes it correct |
|---|---|---|---|
| Worker pool (`internal/engine/workerpool.go`) | closed flag, channel of tasks, error list, context | Submit, SubmitWithTimeout, Close, Stop, Wait, worker, executeTask | no task is lost or run twice, no failure is hidden, Close drains |
| ParallelMap, ExecuteTasks (same file) | results, indexed errors, error flag | one call | every item is answered, every failure reaches the caller, the call returns |
| Engine (`engine.go`, `metrics.go`) | fleet, results, metrics | Run, Plan, Apply | groups before projects, one failure stops one target, the result tells the truth |
| Operations registry (`registry.go`) | operations in dependency order | PlanProject, ApplyProject, PlanGroup, ApplyGroup | order, stop at the first error, look at the context |
| Transport (`internal/gitlab/ratelimit.go`) | token bucket, attempt, body, delay | RoundTrip | rate limit with retries counted, whole bodies, no leaked connection, an end |
| Streams (`pagination.go`) | options of the next page, channel | StreamAll, CollectAll | complete or visibly cut short |
| Group traversal (`internal/discovery/grouptree.go`) | queue, visited set, matched groups | Traverse, resolveRoots | exactly the groups within reach, in spite of cycles |
| Fleet discovery (`discovery.go`) | accumulator, semaphore, error channel | DiscoverFleet, Execute, scanGroupProjects | the whole fleet or an error |
| Protected branches, tags, environments (`internal/governance/protected*.go`) | protections in GitLab, the listing Apply works from | Plan, Apply, Recreate | converges, reports the gap it opens, leaves compliant ones alone |
| Repository files (`repositoryfiles.go`) | file, feature branch, merge requests | Plan, Apply | file committed or proposed once, in line in the end |
| Branch merges (`branchmerges.go`, `cli/merge.go`) | two branches, merge requests | Plan, Apply | merged or proposed once, nothing left to merge in the end |
| Variables, webhooks, approval rules, target branch rules (`variables.go`, `webhooks.go`, `approvalrules.go`, `targetbranchrules.go`) | list in GitLab, Apply's listing | Plan, Apply | converges, no copies, the order of rules |
| Project settings, push rules, retention, runners, compliance (`projectsettings.go`, `pushrules.go`, `pipelineretention.go`, `runners.go`, `compliance.go`) | one object per project or group, the project's runners | Plan, Apply | converges, whatever an earlier run left |
| Project filter (`projectfilter.go`) | none | Matches | a project is in the fleet exactly if the selector means it |
| Auditor (`internal/audit/`) | report, user registry, semaphore | Execute, six modules, Register, Resolve | the report is exact, an exposure fails the command, the audit ends |
| License (`internal/license/`, `pkg/version`) | none | Enforce | nobody changes a fleet that the license does not cover, no clock helps |
| Lambda adapter, loading of the policy, run command (`internal/lambda/`, `internal/config/`, `cli/run.go`) | the policies in the bucket, invocations under way | HandleRequest and its handlers, Resolve, executeRun | writes only when told to, truthful answers, the latest policy wins |
| Members (`members.go`), exporter, reports, mail, logging, policy editor | see PROJECT.json | | not modelled: section 6 |

How they interact. The engine calls discovery, then ParallelMap twice; the
closures of ParallelMap run on the workers of the pool, and each calls the
registry, which calls the reconcilers in order. Discovery and the reconcilers call
GitLab through the client, whose HTTP transport is shared by all goroutines.
Streams pass items from a producer goroutine to the loop of discovery through a
channel. One context goes through everything and may end at any point. The Lambda
adapter and the run command load a policy, decide whether this is a dry run, and call
the engine, which asks the license enforcer once discovery has counted the fleet. The
audit command uses discovery and the license step and then goroutines of its own, which
share a registry of users.

What is hard. Goroutines interleave at the flag and the channel of the pool, at the
semaphore and the accumulator of discovery, at the bucket of the limiter and at the
channel of a stream. The context ends anywhere. Calls fail, and their answers are
lost after they took effect. A change of a protection, a file or an ordered list
takes several calls, and the process may die between any two; nothing is stored on
the side of the program, so that the next run has to work from what it finds. People
change things between the listing and the write. Invocations overlap, events come twice
or late, and a failure is answered as a success of the function, so that nobody retries. `PROJECT.json` lists every such
hazard at its line, with the properties that would catch it going wrong.

## 2. Modules

| Module | Models | Uses |
|---|---|---|
| `WorkerPool` | the pool, any number of clients | |
| `BatchMap` | what ParallelMap promises (abstract) | |
| `ParallelMap` | ParallelMap on the pool; implements `BatchMap` | `WorkerPool`, `BatchMap` |
| `Engine` | a run; both of its maps are instances of `BatchMap` | `BatchMap` |
| `RetryTransport` | concurrent calls of RoundTrip | |
| `Stream` | producer and readers of a paginated listing | |
| `GroupTree`, `FleetScan` | the traversal, and the scan of the groups found | |
| `ProjectFilter` | the selector as a predicate on a project | |
| `Discovery` | the composition of the three: Execute | `FleetScan`, `GroupTree`, `ProjectFilter` |
| `Protection` | the three protection reconcilers | |
| `FileSync` | the repository files and branch merges reconcilers | |
| `Collections` | the reconcilers of lists and of settings, eleven kinds | |
| `Audit` | the audit command, its goroutines, modules and registry | |
| `License` | the decision of the license enforcer | |
| `Invocation` | events, policies, answers and the run command | `License` |
| `ParallelMapProofs` | theorems about the pool and ParallelMap | `ParallelMap` |
| `ClientProofs` | theorems about the API client: transport and streams | `RetryTransport`, `Stream` |
| `DiscoveryProofs` | theorems about the traversal, the filter and the scan | `Discovery` |
| `GovernanceProofs` | theorems about `Engine` and `Collections` | both |
| `ProtectionProofs`, `FileSyncProofs`, `AuditProofs`, `InvocationProofs` | theorems about the module each is named after | that module |
| `MC*` | the instances for TLC, one per module above that is run | |

A step of a model is what one goroutine does between two points at which another
one, GitLab or a person can interfere. In the pool that is each atomic operation and
each `select`: Submit is a load of the flag and then a send, Close a swap of the flag,
a close of the channel and a wait. In the reconcilers it is one API call with the
decisions up to the next one. Definitions keep the names of the functions they model;
the table "map" of `PROJECT.json` gives the lines of each. A definition whose comment
begins with "Mutation" is a plausible bug in the definition below it; it is not part
of any specification, and putting it in that place makes TLC report the property that
"mutants" names.

Abstractions that matter:

- A task, an item, a group or a project is a value without structure; an error is its
  kind and, for an error of a closure, its item. ParallelMap removes errors whose text
  it already has, so messages are compared by their text (`Message`).
- An operation on a target has one of four outcomes in `Engine` (nothing to do, changed,
  failed, panicked). The reconcilers have models of their own.
- Time in `RetryTransport` is a tick that refills the bucket and shortens the sleeps.
  `1 << attempt` keeps the width of the word (`WordBits`).
- GitLab is modelled from how the code uses it: a call takes effect and is answered,
  takes effect and its answer is lost, or fails; some are refused (a second Protect, an
  update of what is gone, a create of a name that is taken). In `Collections` a create
  whose answer was lost is sent again by the transport, as `ratelimit.go` does.
- A protection is its access levels and one more attribute; an entry of a list is its key
  and one value for the attributes Plan compares, 0 for any that is not declared; the content
  of a file is a set of lines. What a policy leaves out of a Protect call GitLab chooses freely.
- A setting (a push rule, the settings of a project, a retention, a framework) is a list of
  one entry in `Collections`; which of its attributes differ does not matter, since Apply
  sends every attribute the policy sets and Plan compares the same ones. A runner is known
  by its description. A GraphQL query or mutation may be refused with status 200,
  unheard: a refused mutation counts as done, a refused query as a project without framework
  (`MisreadFramework`).
- A project of `ProjectFilter` has a namespace, names, topics, an id, a visibility and two
  flags, and a regular expression is the set of names it matches. `FleetIsReach` states what
  a selector means in words of its own (`InScope`) and compares.
- A project of `Audit` is what the modules read of it; a finding is its subject and its
  severity, and the severity is adjusted by the state of the project's life as in the code.
- In `Invocation` a policy is its number, its dry_run and whether it is valid; a run of the
  engine is its effect on each target, since `Engine` has the rest. A license is what it
  grants, by its plan or feature by feature, and time is in hours. The context of a run may be
  done at any point (`Expire`: --timeout, a signal, the deadline of a function); the engine then
  returns, with an error or without one, whatever is left.
- In `FileSync` a branch merge has the same state as a file: target, source, the point where
  they met, the open merge requests. Whether GitLab sees a conflict is its choice when both
  sides have changed.
- In `FileSync` a merge is a line-by-line three-way merge with the point where the
  branches last met, and a merge request without changes cannot be merged but closed.

## 3. Runs

Every run is a line of "runs" in `PROJECT.json`. `tlc -config X.cfg M` repeats it; each
takes seconds to a few minutes.

| Run | Instance | Shows |
|---|---|---|
| `pool` | 2 clients, 2 workers, 3 tasks, channel of 2, symmetric | `CloseIsIdempotent`, `ErrorsComplete`, `GracefulClose`, `PanicTakesAnother` |
| `map` | 3 items, 2 workers | `NoSilentFailure`, `Returns`; implements `BatchMap` (`PromiseSpec`) |
| `engine` | 1 group, 3 projects of which one is marked for deletion, 2 operations | `GroupsBeforeProjects`, `FailureReported`, `FailuresAreIsolated`, `QuietAfterReturn`, `RunEnds` |
| `transport` | 2 requests, one with a body, 2 retries, bucket of 1 | `RateLimitHolds`, `BodyIsWhole`, `CallsReturn` |
| `stream` | 5 ids, pages of 2, channel of 2, 1 deletion, both readers, a server that repeats a page or gives a link that does not advance | `StreamComplete`, `NoSilentTruncation`, `StreamEnds` |
| `discovery` | 3 groups in graphs with cycles and shared children, 3 projects, 4 selectors, 2 scanners | `MatchedIsReach`, `FleetIsReach`, `DiscoveryEnds` |
| `protection` | 2 names, 7 policies, two of them with two rules for one branch, 2 faults | `Converges`, `GapIsReported`, `CompliantIsLeftAlone`, `EventuallyGoverned` |
| `files` | 4 modes, 2 lines, 3 faults | `FileIsCovered`, `OneMergeRequest`, `BecomesCompliant` |
| `collections` | 24 policies of 11 kinds on up to 4 keys, keys declared twice among them, page of 3, limit of 4, 2 faults | `ListConverges`, `NoNeedlessCopy`, `OrderIsKept`, `EventuallyInLine` |
| `audit` | 2 projects, 2 users who are both bots, 11 exposures in 4 states of a project's life, projects whose tags only a rarer pattern covers, 1 or 2 goroutines, 1 failing call, a cancellation | `ReportIsExact`, `ExposureClosesGate`, `DirectoryComplete`, `AuditEnds` |
| `invocation` | 2 invocations, 2 targets, 3 policies, 7 payloads, 10 tokens, 9 pairs of clocks, 1 edit, 1 failure or expiry of a context | `LicenseIsEnforced`, `AnswerIsTruthful`, `WritesAreAuthorized`, `LatestPolicyWins` |
| `engine_cancelled` | small | the finding of section 5 |

Why the bounds are enough for what they are for:

- Two workers and two clients give every pair of goroutines that can meet at the flag, the
  channel and the error list; with three tasks and a channel of two, the channel is empty,
  partly full and full, and a Submit blocks. The theorems remove these bounds.
- In the engine one group and two live projects are enough for "one fails, the other goes
  on" and "groups first"; two operations for an operation that is skipped after a failure,
  or cut off by the context.
- Two retries give a first, a middle and a last attempt. `MaxTicks` only stops the counting
  of sends and ticks: `RateLimitHolds` is checked for every sequence up to it.
- Five ids on pages of two give a first, a middle and a short last page, with gaps between
  the ids, and the keyset can be refused at each of them.
- `MaxFaults` bounds failing calls, lost answers, crashes and acts of people together. Two
  give "the process died half way, then somebody interfered with the repair"; the file
  reconciler has one call more in sequence and gets three. The bound is also what "once
  calls succeed and nobody interferes" means in the liveness properties: only finitely many
  faults happen, at any points.
- In the audit two goroutines meet at the registry, at the report and at the semaphore; each
  exposure is put in one project beside one that is as it should be.
- In `Invocation` two slots and one edit give a run under the old policy that overlaps one
  under the new, and an event delivered while its first delivery still runs. The runs are
  followed in three license situations; in every state in which a run is about to change
  something `LicenseIsEnforced` looks at all of them (`Licenses`), around both dates.
- With a page of three and a limit of four entries, lists both fit their page and do not.

`CHECK_DEADLOCK FALSE` is set for the models of something that ends (the pool, ParallelMap,
a run, a call, a stream, a discovery, an audit). The reconcilers and the invocations go on for
ever, and there deadlock is checked.

### Fairness

- Goroutines are scheduled (weak fairness of each worker, caller, producer, reader or
  scanner), and a closure, an API call or a page fetch ends. The transport justifies the
  latter: `CallsReturn` shows that it gives up, given that the HTTP client answers or times
  out.
- The schedule starts Apply again and again and Apply goes on (`WF_vars(ApplyStep)`). In
  `FileSync` merge requests are reviewed: one with changes is merged, an empty one closed.
- In `Audit` the main goroutine and each of the others go on. In `Invocation` an invocation
  goes on until it ends or AWS kills it, and the schedule starts one again and again.
- Nothing is assumed of cancellations, failures, crashes and changes by hand.

### Conditions of the properties

Some properties hold only under a condition that belongs to the behaviour of the code, and
state it:

- `Converges` leaves out runs that could list only a part of the environments (the error is
  swallowed, `protectedenvironments.go`) and policies in which a wildcard stands above an
  exact rule for an environment that does not exist yet (`Shadowed`): the run that creates
  the protection follows the exact rule, the next one the wildcard. `EventuallyGoverned`
  has neither condition.
- `Converges` and `EventuallyGoverned` leave out policies with two rules for one branch
  (`Repeated`). The validator refuses such rules for tags and environments and lets them pass
  for branches (`validator.go:336`); Apply compares each of them with one listing and applies
  both, so that the run succeeds and the next one finds the branch not in line with the first.
  `GapIsReported` and `CompliantIsLeftAlone` hold of these policies too.
- `BecomesCompliant` is about projects that remove merged and closed branches. In one that
  keeps them, a branch left over from an earlier merge that already holds what is wanted is
  used as it is, and merge requests from it propose nothing.
- `ListConverges`, `NoNeedlessCopy`, `OrderIsKept` and `EventuallyInLine` are about lists that
  fit one page of a listing. The reconcilers of lists read only the first page; beyond it a
  declared variable is created again and refused in every run, a hook is added in every run,
  and a declared rule stays below those that are created. For `ListConverges` it is not enough
  that the list fitted when Apply read it: what it creates may push a list beyond the page, and
  the next Plan misses an entry that this run had seen.
- `ListConverges` and `EventuallyInLine` leave out group variables that only their scope tells
  apart (`Ambiguous`): `docs/operations.md` says that variables are tracked by key and scope,
  and they are matched so, but removed by name alone, so that pruning may remove the declared
  one. They also leave out declared runners that the project does not have (`Unassigned`):
  Plan reports them in every run, and Apply passes them over and succeeds.
- They leave out lists that declare one key twice with different values (`Contradictory`). The
  validator compares the keys of variables and of target branch rules only; of hooks, approval
  rules and runners each declaration is compared with the same listing, and the last one wins.
  For the same reason `NoNeedlessCopy` leaves out a key that is declared twice: a hook that is
  missing is created for each of its declarations, in one run that nothing disturbs.
- `ListConverges` leaves out a run whose GraphQL mutation was refused with status 200, which
  the client takes for success, or whose query was, which it takes for a project without a
  framework (`client.go:642`); the next run finds the difference. Refusals count as faults and
  are bounded: a framework that GitLab refuses every time is never set, and every run succeeds.
- `FileIsCovered` asks less of a branch merge, where Plan goes on reporting a merge request
  that it would accept: it opens no other, unless there is nothing to merge.
- `ReportIsExact` and `ExposureClosesGate` leave out a module that failed in a project, and that
  module only; the module of the environments also goes by the listing of the protected ones and
  fails with it (`HasFailed`). Errors of modules are logged and appear neither in the report nor
  in the exit code. A module that failed may even report: an error with "404" in its text makes a
  file count as missing (`FilesMisread`). Which tag patterns cover releases is what
  `matchesReleasePattern` says: the six it lists and, as a constant, those that match a sample.
- `AnswerIsTruthful` asks less of the answer to an S3 event: errors of targets are not merged
  into it, and its dry_run is that of the last record. SUCCESS and exit code 0 mean that no target
  failed, and that all were governed unless the context was done: a run that it cuts short may
  drop targets without an error, which is the finding of section 5.
- `StreamComplete` leaves out a server that gives another page or link than it was asked for
  (`stalled`). A page number or id_after that does not advance, or a link that has none (the
  page_token of the group listings), ends the stream as if there were no more, with no error
  (`pagination.go:225-235`); `TestPagination_InfiniteLoopDefense` asks for this end, and
  `StreamEnds` shows that there is one.
- `LatestPolicyWins` needs the schedule: a failed event is not retried by AWS, and two
  overlapping invocations may write the older policy last. `WritesAreAuthorized` leaves out
  the validity of a policy that comes as an object of the payload, which is not validated.
- `StreamEnds` allows for one goroutine that stays behind: the producer of an instance-wide
  scan that was cancelled, blocked on the send of its error after the reader left.

## 4. Theorems

TLC looks at instances; the theorems hold for every instance: any number of workers,
items, targets, requests, ids, groups, projects, names, rules, list entries, findings,
invocations and faults. `tlapm M.tla` repeats the proofs of a module. The bounds of the models (`MaxFaults` and the like) are constants
too, so that a theorem holds whatever they are set to.

| Module | Theorem | States |
|---|---|---|
| `ParallelMapProofs` | `PoolTypeCorrect` | `TypeOK`; the channel keeps to its capacity |
| | `ClosesAreIdempotent` | `CloseIsIdempotent` |
| | `ErrorsAreComplete` | `ErrorsComplete` |
| | `CloseIsGraceful` | `GracefulClose` |
| | `EndedTasksStayEnded` | a task that ended never runs again |
| | `PanicsTakeAnother` | `PanicTakesAnother` |
| | `SingleOwnerNeverPanics` | with one client, no send on a closed channel |
| | `NoFailureIsSilent` | `NoSilentFailure` |
| | `ParallelMapRefines` | ParallelMap implements `BatchMap` (`PromiseSpec`) |
| `GovernanceProofs` | `GroupsComeFirst` | `GroupsBeforeProjects` |
| | `FailuresAreReported` | `FailureReported` |
| | `FailuresStayIsolated` | `FailuresAreIsolated` |
| | `QuietAfterward` | `QuietAfterReturn` (action property) |
| | `ListsConverge` | `ListConverges` |
| | `NoCopyIsMade` | `NoNeedlessCopy` (action property) |
| | `OrderIsAlwaysKept` | `OrderIsKept` (action property) |
| `ClientProofs` | `RateLimitAlwaysHolds` | `RateLimitHolds` |
| | `BodyIsAlwaysWhole` | `BodyIsWhole` |
| | `ResponsesAreClosed` | no response is left open but the one returned |
| | `RetriesAreBounded` | attempts and sleeps keep to their limits |
| | `TruncationIsNeverSilent` | `NoSilentTruncation` |
| | `StreamsAreComplete` | `StreamComplete` |
| `DiscoveryProofs` | `TraversalIsExact` | `MatchedIsReach` |
| | `FleetIsComplete` | `FleetIsReach` |
| `ProtectionProofs` | `SuccessConverges` | `Converges` |
| | `GapsAreReported` | `GapIsReported` |
| | `NothingToDoIsLeftAlone` | `CompliantIsLeftAlone` (action property) |
| `FileSyncProofs` | `OneMergeRequestAlways` | `OneMergeRequest` |
| | `SuccessIsCovered` | `FileIsCovered` |
| `AuditProofs` | `ReportAlwaysExact` | `ReportIsExact` |
| | `ExposureAlwaysClosesGate` | `ExposureClosesGate` |
| | `DirectoryAlwaysComplete` | `DirectoryComplete` |
| `InvocationProofs` | `WritesAreAlwaysAuthorized` | `WritesAreAuthorized` (action property) |
| | `AnswersAreTruthful` | `AnswerIsTruthful` (action property) |
| | `LicensesAreEnforced` | `LicenseIsEnforced` |

The theorems without the name of a property have no run: they came out of the proofs.

Each model has one inductive invariant, a conjunction of named parts (the traversal and the
scan of `Discovery` one each). `Init` implies it, one lemma per action shows that the action
keeps it, and the theorems follow from it. None of the properties is inductive by itself, and
what has to be added is where the argument lies.

**The pool** (`PoolInv == PlaceInv /\ ErrorsComplete`, `PlaceInv == TypeOK /\ TaskPlace /\
Holders /\ Shutdown`). That a task is queued once needs to be known before it is sent: a client
that is sending holds a task nobody else holds. That a failure is recorded for the right task
needs that a worker holds a task exactly while it is in executeTask. Both are `Holders`. That
Close leaves nothing behind needs the reason why each worker left: a cancellation, or a channel
closed and drained, which nothing is sent to afterwards. That is `Shutdown`.
`PanicsTakeAnother` needs `CloserInv`: whoever set the flag is in Close or done with it, so that
it is not the client that is sending. `ClosesAreIdempotent` needs it too: of all the callers of
Close and Stop one won the swap and has the channel to close, as long as it is open. The panic is real for goroutines that share a pool; the
program's own pools have one owner each, which is what `SingleOwnerNeverPanics` is about.
Assumed: there is a worker, and the channel has room for a task.

**ParallelMap** (`MapInv`). `PlaceInv` of the pool is reused as it is; `ErrorsComplete` is not,
since the submit loop adds errors of its own. `CallerAt` says where the loop is and that it is
through before the pool is closed; `Slots` says for every item what results, errs and the
errors of the pool hold of it. When Close returns, every item has ended or was left in the
channel by a cancellation, and the answer that is put together from the slots says so, messages
of equal text being one. For the refinement each step of a goroutine is shown to be a step
of `BatchMap`, or to change nothing a caller sees; `Engine` is built on `BatchMap`, so that its
theorems hold of the code that calls ParallelMap. That the pool is made for the call, with room for
every item and one client, is not assumed of the constants but part of `Init` (`OwnPool`), so
that the theorems about the pool and those about ParallelMap stand in one module. Assumed: there is
an item (for none ParallelMap returns at once).

**The engine** (`EngineInv`). What a run reports is put together from what the two maps
returned. `Loop` says how far the operations of a target are, `Ended` that the outcome the map
has of a target is the truth about its operations and that only a cancellation leaves one out,
`Phases` what the phase says of both maps. Assumed: groups and projects are finite and
disjoint.

**The transport** (`TransportInv`). `Budget` accounts for every token: in the bucket, spent,
or taken by a call that is about to send. Without the third part the rate limit is not
inductive. `Bodies`, `Closed` and `Bounds` say what a call knows at each place of its loop.
`DelayIsBounded` is about calculateDelay alone and for every width of the word, so that the
overflow of `1 << attempt` is covered: it can make a sleep short, never long.

**Streams** (`StreamInv`). `Coverage` follows an id from the server to its reader: what the
pages so far should have held is in the batch, in the channel, or with the reader. It rests on
what a page is: `KeysetPageIsDense` and `NumberPageIsDense` show that a page holds every id
between the last one and its own last one, the latter by counting the ids below.
`Truncation` follows the error in the same way. Coverage is claimed as long as the server has not
stalled, `Truncation` whatever it did. Assumed: finitely many ids above zero, pages and
a channel that are not empty.

**Discovery** (`TreeInv` and `Scanned`). The traversal visits a graph that may have cycles, and
`Within`, the reach it is compared with, is a recursive function of the distance. `Layers` is the
heart of breadth first: the queue is ordered by distance, spans at most two, and what is no
further away than its head has been seen. `Placed` says that what was seen has its own distance,
and that there are at least as many visited groups as that distance, so that the limit
`Cardinality(Groups)` for an unbounded depth cuts nothing. `Complete`: a visited group waits in
the queue or is dealt with. That the recursive `Within` exists at all, and is what it says, is shown by
giving it in closed form (groups at the end of a path of at most d steps) and by a least
counterexample (`PathsMakeLayers`, `HasLeast`); nothing here needs the induction theorems of the
library. For the scan, `Accounted` says for each group what its stream still has to deliver and
what of the rest is in the accumulator, `Stages` what Execute knows of its scanners, above all that
none failed unheard. `MatchesIsInScope` shows that the filter, with its early returns, is the
declarative `InScope`. Assumed: finitely many groups and projects, and the types of the selectors.

**Protections** (`ProtectionInv`). `NoGap`: of what is managed and was protected nothing is
open but the name being recreated. `Quiet`: an Apply with nothing to do has nothing to do at any
of its steps. `Progress`: what Apply has come to is as its rule asks, the rest as it was listed;
it needs that a name has one rule (`OneRuleEach`), which holds unless the policy is `Repeated`: of
environments the first rule of a name counts, and tags have one. At the end Plan expands the wildcards again,
over what is protected by then, and `SameRulesAfter` shows that the rules are the same, unless
the policy is `Shadowed`; that is where the condition of `Converges` is used. Assumed of a
policy is what the validator asks: a rule is a wildcard or names one thing, wildcards are for
environments, a tag has one rule, and branches are not pruned.

**Files and merges** (`FileInv`). `Path`: the mode decides which steps Apply takes. `NoneOpen`: on
the way to opening a merge request there is none. `Knows`: what Apply has read still holds
while nobody interferes. `DesiredIsCompliant` is the idempotence of calculateFileDrift.

**Collections** (`CollectionsInv`). Apply changes a live list with what it saw of it before, so
the first thing to know is what an id or a key of that listing still means: ids are unique, an
id that Apply has listed is not given to another entry, and it keeps its key (`Sound`, `Agree`;
a group variable does not, it may take the scope of an update's body). On that rest the loops.
`Known`: every live entry was listed or created by Apply, so that a hook which matched none is
none that exists; this is `NoCopyIsMade`. `Settlement`: each declared entry that the loop has
come to is there as declared, unless the policy is `Contradictory`, and pruning will not take it for another, which of two hooks with
one URL is the one that matters. `Leftover`: what is to be pruned is among the entries that the
loop has still to come to; for group variables, which are deleted by name whichever scope that
hits, it is a count (`GroupLeftover`). `Destroying` and `Recreating` say the same of the target
branch rules and that those created so far stand in the declared order below the next one.
At the end Plan compares ranks: `PlaceIsDeclared` shows by a bijection that a rule in the
declared order has the place where it is declared. Assumed of a policy: its declared keys are
from a finite set, those of variables and target branch rules are distinct, a setting has at most
one entry, and only lists are pruned.

**The audit** (`AuditInv`). `Columns` follows a goroutine through its seven modules: what a module
that ran and did not fail was to find is with the goroutine, and of a module that has not run
there is nothing yet, not even an error. `Delivered`: the report has one entry for each goroutine
that is done, and it is what that goroutine has. The report being exact is then a matter of
everybody being done before it is published (`Gate`). For `ExposureAlwaysClosesGate` it is shown of
each module that an exposure, as `IsExposed` states it of the project, leads to a finding that stays
severe after the adjustment (`ExposedIsFound`), and that the count of severe findings, a
cardinality, is not zero when there is one; this needs that modules find finitely many things.
`Registry` is about the shared directory: it has exactly the projects of which the members were
registered, whoever fetched a profile in between; the loop over the members is a recursive
function, shown to equal its closed form (`WithFirst`, `RegisterMembersIs`). Assumed: the types of
what a project lists, and that it lists finitely many branches, environments, tags and files.

**Invocations** (`InvocationInv`). Proved of each invocation by itself, since they share only the
policies, which are never changed once read: it runs as the policy it read and its payload say
(`Authorized`) and counts what becomes of its targets (`Counted`): each is still to do, governed
or failed, until the context is done. `EnforceIsRight` is about the
decision of the enforcer alone, for every token, clock and fleet.

What failed proofs showed. Several CASE expressions of the models had arms that overlap, with the
first one meant; the semantics of TLA+ leaves the choice open although TLC takes the first. They
are now disjoint, and the results of TLC did not change. `ErrorsComplete` was thought to hold of
the pool inside ParallelMap and does not, because of the errors the loop adds. `ListConverges`
and `OrderIsKept` were false as they stood, and held in TLC only because no instance had a
fourth key: creations may push a list beyond the page that Plan reads, and of a listing that was
cut a declared rule stays below the ones created above it. TLC shows both once the conditions
`Fits` and `whole` are taken out again; the run now has such lists.

Only model-checked:

- Liveness (`Returns`, `RunEnds`, `CallsReturn`, `StreamEnds`, `DiscoveryEnds`,
  `EventuallyGoverned`, `BecomesCompliant`, `EventuallyInLine`, `AuditEnds`,
  `LatestPolicyWins`): it needs fairness and ENABLED, which the prover does not reach.

## 5. Findings

- `engine_cancelled`: the tests of tier 5 expect a run whose context expired not to report
  success. When it expires while targets are still in the channel and no worker holds one, the
  workers leave without recording anything and the run reports success for a part of its
  fleet. `FailureReported` says what holds: an operation that failed is never hidden.

Seen while modelling, without a run of its own:

- `challenge_test.go` calls TotalTargeted == TotalChanged + TotalUnchanged + TotalFailed the
  fundamental invariant of the metrics. A target whose operation fails comes back from
  ParallelMap as an error without a result, is never recorded, and is missing from TotalFailed.
- Group variables are removed by name alone (`variables.go:481`); see `Ambiguous` above.
- Two rules for one branch, and hooks, approval rules or runners declared twice, pass the
  validator and never come to rest; see `Repeated` and `Contradictory` above.
- The conditions above on runners, GraphQL errors, stalled listings, S3 answers and audit errors.

## 6. What is not modelled

`PROJECT.json` lists every component with the reason. In short: parsing, substitution, the
single checks of the validator, formatting, mail and logging (sequential and local); the diff
of attributes (in the models an attribute differs or not); the members reconciler, which only
reads and reports what the user access module of the audit does; the exporter, which reads one
project in sequence and writes a text; the web editor and the test server (other programs);
drift and per-operation metrics; the cache of names of the approval rules (Apply drops the error of
resolving them, `approvalrules.go:324`, but Plan, which it has just called, resolved the same names
through the same cache and would have returned it; a name that was found is never dropped from the
cache, so that the second look-up cannot fail and the ids written are the declared ones); the signature of a
license token; what instance-wide discovery does beyond reading its stream.

## 7. Plan

The order follows the importance of what can go wrong. Done: the pool with its proofs,
ParallelMap and its promise, the engine, the transport, the streams, discovery with the project
filter, all reconcilers that write to GitLab, the audit, the license step and the invocations.

Left of the model, as far as it is worth one: the exporter against the reconcilers (a policy
exported from a project plans no change), and the merge of configuration files.

Proved: the safety properties of the pool, ParallelMap with its refinement, the engine, the
transport, the streams, discovery, all reconcilers, the audit and the invocations: every
invariant and every action property that a passing run checks. Left to TLC is liveness.
