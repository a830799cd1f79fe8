# Asika: a formal model of the merge manager

Asika watches pull requests on GitHub, GitLab, Gitea, Forgejo, Codeberg, Bitbucket and Gerrit, keeps a
record of each in a local database, merges approved ones through a queue, and syncs what was merged to
the other platforms of a repo group. This directory holds TLA+ models of the parts where goroutines,
database transactions and platform calls interleave, TLC configurations that check them on small
instances, and TLAPS proofs for every size.

    tlc -config MergeQueue_races.cfg MCMergeQueue     # one run; section 4 lists all
    tlapm MergeQueueProofs.tla                        # one module's proofs

## 1. Inventory

Paths are relative to the repository root. "State" is what outlives a call.

| component | code | state | operations | correct when |
|---|---|---|---|---|
| Merge queue | `daemon/queue/manager.go`, `handlers/queue*.go` | bucket `queue_items`; `checkMu` of each Manager | AddToQueue, CheckQueue, Recover, RemoveFromQueue, ClearQueue, SetQueuePriority | a queued PR ends merged, given up after exactly `maxRetryCount` failures, or withdrawn; runs exclude each other |
| Merge decision | `daemon/queue/checker.go`, `expr.go` | none | ShouldMerge, IsReadyToMerge, Eval | never says yes to a draft, a blocked or an unapproved PR; the test that queues and the test that merges agree |
| PR commands | `daemon/handlers/pr*`, `handlers/rebase.go`, `revert.go`; `daemon/platform/*/commands_pr.go`; `consumer/comment.go` | the PR records | approve, close, reopen, spam, draft, ready, rebase, cherry-pick, revert, batches | a record claims only what happened, and agrees with platform and queue in the end |
| Event bus | `common/events/bus.go` | one channel per subscriber | Publish, Subscribe, Unsubscribe | never blocks a publisher |
| Event consumer | `daemon/consumer/consumer.go`, `handlers.go` | subscription, debounce timers, pool, `lifecycleMu` | dispatch, debounce, Start, Stop, UpdateWorkerPoolConfig | what it received is handled; Stop ends and leaves nothing running |
| Worker pool | `daemon/consumer/pool.go` | task channel, workers, limits | Submit, adjust, UpdateConfig, Stop | at most `max_workers`, no task lost |
| Pending and serial queues | `daemon/queue/pending.go`, `serial*.go` | buckets of their own | AddPending, CheckAll, the serial worker | a PR that becomes ready reaches the merge queue |
| Webhook intake | `daemon/handlers/webhook/` | dedup table, stored deliveries | WebhookHandler, retry worker | a delivery is processed although processing fails or the daemon dies, and not twice |
| Poller | `daemon/polling/poller.go` | the PR records | pollPlatform | records follow the platform |
| Accounts | `common/auth/`, `daemon/handlers/auth.go` and others | users, sessions, keys, links, tokens | sign-in, refresh, reset, administration | a token is used once; a deleted user leaves nothing; a session left idle ends |
| Spaces, stacks, links | `handlers/cross_space.go`, `spaces.go`, `pr_stacks.go`, ... | records; a cache of spaces | create, change, delete | no change is lost but to a race; the cache is fresh |
| Storage | `common/db/` | buckets or collections, indexes, sync locks | transactions of two drivers | an index lists what is there; a lock has one holder and comes back |
| Syncer, spam detector | `daemon/syncer/` | sync locks, history, clones | SyncOnMerge, RetrySync, HandleSpam | every platform gets every commit, or the failure is told |
| Auto-merge | `daemon/automerge/` | the PR records | EvaluatePR | obeys its gates |
| Stale manager | `daemon/stale/` | labels on the platforms | checks, unmarking | nothing is closed sooner than announced; what nobody touches is closed |
| Labels and rules | `daemon/labeler/`, `handlers/rules.go` | labels on the platforms, rules | HandlePROpened, label commands | labels end as they were asked for; exclusive rules exclude |
| Notifications | `daemon/server/core/notifier*.go` | gathered entries, timers, digests | gather, dispatch, flush | what happened is told |
| Configuration | `common/config/`, `handlers/config.go`, `webhooks.go`, `wizard.go` | file, live copy, snapshots | update, rollback, watch, reload | secrets are stored sealed; concurrent updates add up; a rollback goes where it was meant to |
| Self-update | `common/selfupdate`, `handlers/selfupdate.go` | the binary's files | update, rollback | a whole binary remains |
| Platform clients | `common/platforms/` | none | approvals, CI, labels, merges, listings | an answer was true while the call ran |
| Server, hooks, rate limiter, CLI, feeds, reports, libraries | `daemon/server/`, `common/hooks/`, `lib/`, `cmd/`, ... | workers, configuration | routing, formatting, I/O | see section 6 |

**How they interact.** A webhook or the poller turns a change on a platform into a record in the
database and an event on the bus. The consumer takes events from its channel, waits a debounce time
per PR, and runs a handler in the pool. The handlers of an approval, a comment command or a CI result,
the REST handlers and the bots call `AddToQueue`. A ticker of the server and some of the handlers call
`CheckQueue`. It collects what is due, asks ShouldMerge, calls `MergePR` of the platform client, saves
the record and deletes the item; the merge comes back as an event, whose handler starts a sync.
Everything shares the database without transactions that span a read and the write that uses it, so that
*stale write-back* is the theme of the whole system. The server (`workers.go:44`) and the consumer
(`consumer.go:74`) construct a `queue.Manager` each, with a mutex of its own, over one bucket.

**What is hard.** Goroutines on copies of one record; a crash between a platform's call and the database
write that notes it; failures and lost answers of a platform; an answer put together from calls between
which people act; timers that fire while the consumer stops; a pool that shrinks while it works; webhook
deliveries repeated, failed and retried over a restart; indexes and records in separate transactions;
leases that expire under their holder. `PROJECT.json` lists each hazard at the line where it bites.

## 2. Modules

| module | models | composed of |
|---|---|---|
| `QueueLifecycle` | what the queue promises for one request: wait, fail at most `MaxRetryCount` times, end merged, given up or withdrawn | |
| `MergeQueue` | the queue and every writer of its bucket and of the PR records it reads | instantiates `QueueLifecycle` |
| `MergeDecision` | IsReadyToMerge, ShouldMerge and merge expressions, as operators on configuration, record and answers | |
| `ApprovalPipeline` | PRs between approval, pending queue and merge queue, and the lookups by ID that lead from an item to a record | extends `MergeDecision` |
| `WorkerPool` | the pool of goroutines: channel, workers, adjuster | |
| `EventConsumer` | bus, dispatch loop, debounce timers, Start and Stop, over the pool | extends `WorkerPool` |
| `WebhookEvents` | what the parsers of five platforms make of a payload, and the state that the handler of each event saves, as operators | |
| `WebhookIntake` | deliveries, dedup marks, stored records, retry worker, poller, and crashes | extends `WebhookEvents` |
| `PRSteps`, `RestCommands`, `ChatCommands`, `Housekeeping` | every command on a PR as the sequence of its reads, calls and writes: of the HTTP API, of four bots and of comments, of event handlers and chores | the last three extend `PRSteps` |
| `PRCommands` | these commands at once, with the poller, over record, platform and queue | extends the four |
| `StoreSteps`, `Storage` | the transactions of a handler; the storage interface as bbolt and MongoDB carry it out | the second extends the first |
| `Accounts`, `Collaboration` | the handlers of users, sessions, keys, tokens; of spaces, stacks, links, templates, digests | extend `Storage` |
| `Records` | such handlers at once, with the sweep of idle sessions, errors and crashes | extends `Accounts`, `Collaboration` |
| `Syncer` | SyncOnMerge across the platforms of a group, under the sync lock | |
| `Stale` | checks for idle PRs, their marks and closings | |
| `Labelling` | label rules and label commands over the clients' calls | |
| `Reviews` | GetApprovals of five clients while people review | |
| `Builds` | listing commits, asking for CI, merging, while people push and CI runs | |
| `Notices` | the gathering of notifications in a window | |
| `Config`, `SelfUpdate` | configuration, snapshots, rollback; the replacement of the binary | |
| `MC*` | instances for TLC; `MCPlatforms` composes `Stale`, `Labelling`, `Reviews`, `Builds` and `Notices`, `MCAdmin` composes `Config` and `SelfUpdate`: the parts share no state, and a behaviour is of one part | extend the module they are named for |
| `RecordsInvariants` | the inductive invariants of `Records`, and the shapes of its handlers | extends `Records` |
| `*Proofs` | theorems (section 5): of `PRCommands`, `WorkerPool` and `EventConsumer` in `HandlerProofs`; of `Records` in `RecordsProofs` (its types and indexes) and `StateProofs` (its other properties), with those of `Config` and `SelfUpdate`; the others are named for their module | extend that module; `PlatformsProofs` and `StateProofs` extend `MCPlatforms` and `MCAdmin`, `StateProofs` also `RecordsProofs` |

## 3. How the models correspond to the code

### MergeQueue

A goroutine `c` that calls `CheckQueue` goes through `pc[c]`:
`idle -TryLock-> scan -Scan-> loop -Begin-> checking -ApproveMerge-> merging -MergeSucceeds-> saving
-SaveMerged-> deleting -DeleteMerged-> loop`, with `KeepWaiting`, `CheckFails`, `MergeFails` and
`SaveFails` leading back to `loop`, and `Finish` to `idle`. Each arrow is one database transaction or
one platform call; whatever lies between two arrows can be interleaved with anything else.

| variable | code |
|---|---|
| `items[p]` | the value of the PR's key in `queue_items`: status, RetryCount, whether NextRetryAt and ScheduleAt are in the future, priority |
| `rec[p]`, `remote[p]` | the PR record in the database; the PR on the platform |
| `lock[m]` | `checkMu` of Manager `m` |
| `todo`, `dying`, `snap` | the slices built by the scan and the item pointers in them |
| `copy[c]` | the record ShouldMerge, then `merge`, has read |
| `adder`, `adding` | AddToQueue: the PR it was called with; past its look-up and not yet written |
| `editor`, `clearing` | SetQueuePriority and ClearQueue between read and write |
| `stage`, `held` | approve, close, spam, draft and ready handlers between their calls |
| `polled` | pollPlatform between listing and writing |
| `unsettled` | history: merged PRs whose item a run could not write back or delete |

`Restart` is a crash at any point followed by `Recover`, as `StartWorkers` runs it: locals and handlers
are gone, the buckets and the platform stay.

Abstractions: times are flags that a step of their own clears, for the stored item and for the copy of
an editor; the copies of a run keep theirs, as the code compares times in the scan only. AddedAt breaks ties of
priority and is left out, so any order of equal priorities is allowed. ShouldMerge is a free choice
except for its draft gate: `no` and `error` are each allowed by a member of `Faults`. With `putfails` among them any Put or
Delete of an item by a run may fail, which the code logs and no more (`Store`, `StoreFails`); `Budget` counts these with what users do. All PRs are of
one repo group. A merge succeeds on the platform only for an open PR. GitHub reports a merged PR as
`closed` in GetPR (`Reported`), and the code stores what it is told.

### MergeDecision and ApprovalPipeline

A gate is `pass`, `no`, or what a failed platform call makes of it: `wait` for an error whose text
`isTransientError` knows, `fail` for any other. `Answer` stops at the first gate that is not passed, as the functions
return there. `IsReadyToMerge` is one sequence of nine gates; `ShouldMerge` goes through `HardGates` and then either the
merge expression or the default gates. An expression is a sequence of `Tokens`, keywords and a few comparisons, one of which is an error; `Eval` splits
at operators as `evalExpr` does, with the same three outcomes true, false and error.

`ApprovalPipeline` keeps the records (`rec`) and what the platform would answer about each PR (`facts`), both of which go
on changing. An item is found by its key, `group#ID`. The PRs of webhooks carry no ID, and the handlers of closed,
labeled and other events write such a PR over the record (`Overwritten`), until the poller or an approval through the
server gives it an ID again: `named[p]` says whether the record has one. Key `p` is the one with the ID of PR `p`, key `g`
the one of group `g` with an empty ID. `Found` is getPRFromDB, which takes the first record without ID of the *group*
when it is given none, and `Taken` is FindPRByID, which takes the first of the *database*.
`event` and `check` are the approval handler and the pending worker between judging a PR and acting on the judgement;
`pending`, `item` and `tries` are the two buckets. `CheckItem` and `MergeItem` are a run of CheckQueue up to and from
the call of `merge`; how a run interleaves with other writers of the item is the matter of `MergeQueue`, where in turn
the answer of ShouldMerge is a choice.

Abstractions: the configuration does not change during a behaviour and all groups share it; spam counts as closed; back-off is
over when an item is judged; one approval handler per PR is at work at a time; a record that has an ID is found by it, and the
different IDs that one PR gets in turn (a random one, the platform's, its number) count as one; whether a path rule matches a
file, whether a PR is too big or lacks its description are facts; the labels that the size and template gates add on the
platform are left out.

### WorkerPool and EventConsumer

`wstate[w]` is a worker goroutine; a `select` with several ready cases takes any of them, so a stopped or
cancelled worker may still take a task. A cancelled worker that is busy ends only when its task is over.
The adjuster decides (`Decide`) in one step and acts (`ScaleUp`, `ScaleDown`) in a later one, as a Stop,
a Submit and a reconfiguration can come in between. The cooldown passes whatever is still running: calls of a handler may take minutes, and the cooldown
is 30 s by default. Goroutine identities are not reused within one pool: `Workers` bounds the number of spawns.

An event carries its place in `fate[e]`: on the bus, held by the loop, armed in a timer, in the callback
of that timer at one of its mutexes, submitting, queued, handled, superseded by a later event, dropped by
a full bus, or lost by Stop. `life` is the progress of `Stop`, which holds `lifecycleMu` throughout. A timer's
callback deletes the map entry of its key even when it is by now another timer's (`ForgetTimer`); `Stop` does not
find such a timer any more, and the model keeps it armed.

### WebhookEvents and WebhookIntake

A payload is what happened to a PR and the status it then has on its platform. `parseWebhookEvent` gives the event type
and the state that each parser takes from it: `merged` where a flag or word says so, and else the platform's own word.
`Saved` is the state that the consumer's handler of the event leaves in the record.

One PR of one platform is followed. Delivery `d` tells of its `d`-th change; `wire` holds deliveries on their way, in no
order. Each time a delivery is taken for new it gets a goroutine, a uuid and a record in `webhook_retries` of its own: an
*intake* `<<d, k>>`.

| variable | code |
|---|---|
| `seen` | bucket `webhook_dedup`; looked up and written under `dedupMu`, hence one step (`Accept`) |
| `handler[i]` | WebhookHandler: `marked -Store-> stored -ProcessEvent, ProcessOther-> done or failed -CleanUp, CountFailure-> over` |
| `record[i]` | the stored delivery: FailCount, and whether NextRetry is zero (`never`), in the future (`later`) or `due` |
| `todo`, `at`, `doing` | retry worker: the slice of its scan, the delivery it is finishing, and the call that comes next |
| `armed`, `running` | the debounce timer of the PR, handlers of it at work; the way over the bus takes no time, and the bus never overflows (`EventConsumer` has both) |
| `rec`, `remote` | the state in the PR's record; the PR's status on the platform |
| `poll` | pollPlatform: listed, compared and published, about to write |
| `up` | the order of `StartWorkers`: `booting` and `polled` before the consumer subscribes, then `up` |
| `hit`, `published[i]`, `notified` | history: intakes caught by a crash in a goroutine, events published, permanent failures notified |
| `unchecked`, `unstored`, `uncounted`, `kept[i]` | history of failing calls of the database: marks not looked up or not put, records not stored, failures not counted, records not deleted after a success |

`Crash` may come between any two steps; it ends every goroutine and timer, and the database stays. The same bytes parse
the same way for ever, so `parses` changes only with a new release, at a crash: only this makes a retry succeed.

Abstractions: an ignored event type stands for all filters; `errors` bounds the calls of the database that fail, of which the code logs some and ignores others; a GitHub review, a label and a
push count as one change of the PR each; the handler of an event saves the record in one step (two handlers of one PR
may run at once and save in either order); the hosts `forgejo` and `codeberg` are `gitea`. Which changes GitHub and the others
send is external, and so is what Bitbucket lists when asked for `ALL`: `RecordFollows` leaves it and Gerrit out, whose
client lists only the open changes.

### PRSteps, RestCommands, ChatCommands, Housekeeping and PRCommands

A command is the sequence of its steps that others can interleave with: `Read` (the record, which must have one of some
states), `Call` (a platform call whose error ends the command), `Try` (one whose error is logged), `Refresh`, `Save` (the
copy, changed), `Enqueue`, `Dequeue`, `Only` (a test that ends the command), `Count`. The modules of commands have one
definition per handler, so that the front ends can be compared: the same command of two bots often has its steps in
another order, or lacks one. `PRCommands` runs them: `run[a]` is a goroutine's copy of the record, the steps left and the PRs left of
a batch; one action per kind of step. `did`, `approvals` and `asked` are history. A command of its own tasks (a rebase by git, for instance)
counts as a call. Checks that end a command before its first step are left out, and so are comments, reviewers, labels and the audit log.

### StoreSteps, Storage, Accounts, Collaboration and Records

In the same way a handler of an account or of a team's records is the sequence of its transactions (`StoreSteps`), with what its
error does: end the handler, be logged, or leave a loop. `Storage` has the sequences behind each call of the storage interface:
in bbolt a record and its index are two transactions, in MongoDB two collections' commands, and the order differs
from call to call. A record's content is abstracted to the set of handlers whose changes it contains (`db[t][k]`), which is what a lost
update shows in. `Records` runs two users' handlers and the sweeper. Two handlers run at once only if the tables they use meet;
errors and crashes come while one handler runs. The two indexes of pull requests count as one, and so do the five of the audit
log. A goroutine keeps a copy of what it has read, which a later step can go
through again (`EachAgain`: NotifyCrossSpaceDeps lists the dependents before it asks for spaces, and an error with one dependent leaves the others).
Sessions listed from MongoDB have no ID (`mongo_sessions.go:18` stores `_id`, `models.go:95` decodes `id`), so that to delete what was listed deletes nothing; RevokeOtherSessions
does not recognise the session of its own request (`sessions.go:101`) and is RevokeAllSessions; the sign-in by LDAP cannot be reached (`auth.go:42`) and has no handler.
The content of passwords, codes and signatures, expiry of tokens, the token blacklist, read-only listings and the read transaction that bbolt's ListUserSessions opens inside
another (`bbolt_sessions.go:50-52`) are left out.

### Syncer

`sync[g]` is a goroutine of SyncOnMerge: `lock -> open -> checkout -> pick -> push -> refs -> prs -> release`. A branch is
the set of commits it contains; `clone` is the directory kept in `repo_clone_path`, with the commits it has fetched; `lock` is the row of the
sync lock, its holder by *name* (the consumer's Syncer and the one that retries on request), and whether its lease is over. `loose` marks a
sync that was let into a lock that was another's: the same name, or a lease that had run out. Pushes force. `config.deletes` has the commits that only
delete files: CherryPick returns without an error and without a commit (`Stages`), the old head is pushed, and `unpicked` (history) notes it. What is external is
git and the platforms; SyncBranchDeletion and the hooks of a sync are not modelled.

### Stale

`check[k]` is a run of the check, on the ticker or on request, with the listing it acts on; `pr[id]` a PR on a platform, with the days
since its last update, which labels and comments renew too. `since` is history: how long it has been open with the label;
and `promised`, the days that were left when it got it. `config.undated` has PRs for which the client gives no UpdatedAt (Gitea, Forgejo): to the code they are as old as their creation, so
that updates do not renew the days.
Days stop counting at the sum of both limits. Platforms outside `Shown` (Gerrit) list PRs without labels, those outside `takes`
(Bitbucket) take none. A check is taken to end within the day.

### Labelling, Reviews and Builds

These are operations of the platform clients that take several calls, between which others act.

* `Labelling`: `order` is the list of the rules matched as sort.Slice leaves it, in any order among equal priorities, since that sort is not stable; it is the same for both runs, as it depends on nothing but the list. `task[j]` is a run of the label rules (`HandlePROpened`, from the webhook's event and from the poller's) or a command. GitHub
  and GitLab create a label and take "exists" for success; Gitea's client looks for it first and creates it if needed; GitLab's client reads
  all labels and sets them all. `want` is history: the labels as asked for last. Bitbucket has no labels, and on Gerrit a label is a vote.
* `Reviews`: `reviews` is what people submitted, oldest first, `call` a call of GetApprovals. GitHub and Gitea list reviews page by page and
  replay them; GitHub then leaves out who is asked for another review, Gitea and GitLab who is assigned. GitLab, Bitbucket and Gerrit
  answer how people stand. `stood[p]` is history: every stance person `p` had during the call.
* `Builds`: `runs[c]` are the CI runs of commit `c`, `judge` the checkCI of ShouldMerge and the merge after it. Five operators make one word of
  the runs as the five clients do. `passed` is history: the commits that passed since the listing.

What people and CI do is external. The order in which a platform lists commits, and how it words a status, is taken from
the client's use of it and from the platform's documented order.

### Notices

One PR and one channel. `entry` is the record of `notification_dedup`, `timers` and `mapped` the running timers and the one in
`dedupTimers`, `waiting` the callbacks at `dedupMu`, `digest` the callback that holds it and is sending. Preferences, label subscriptions,
quiet hours and the failure tracker are left out: a message they turn away counts as a send that fails.

### Config and SelfUpdate

`file`, `live` and `history` are the configuration on disk, in memory and in the snapshots; of its content the credentials that the code seals and masks
(`creds`: `clear`, `sealed`, `masked`), those it does not (`others`: OIDC, LDAP, hooks, the AI summary, Feishu's verification token; clear everywhere), the notify hooks,
validity, three sections that stand for all that an update can change, and `rest`, the keys for which Load has defaults: absent in a file made by hand, `default` once
loaded, `zero` once an update has decoded and written them (`Decoded`). `temp` is what the one temporary file holds: SaveToFile opens and cuts it off, fills it and renames it, and who has it open when
another renames it writes on into the configuration itself (`Elsewhere`, `Mixed`). `job[a]` is a request between its
steps; `mutex` is `configReloadMu`, which only some of the writers take; `crossed` and `slipped` are history. Calls of the database may fail (`Slips`): the number of snapshots is then taken
for 0 or not advanced, and a snapshot is not put or not pruned. ASIKA_MASTER_KEY is set. The copy of the configuration that
label rules make and store is one step; encoding takes place where the code changes the maps it encodes. Nothing but tests calls `config_mask.go`. `SelfUpdate` has the
files of the binary, one rename, creation or copy per step, and a kill between any two.

## 4. Runs

| run | module, cfg | instance | shows |
|---|---|---|---|
| `mq_races` | MCMergeQueue, `MergeQueue_races` | 2 Managers, 1 PR, every operation, every failure, restarts, 3 operations; 2.7 million states | `RetryDiscipline`: whatever is written over, no item counts more than `maxRetryCount` failures, one that used them up is failed or dead-letter only, and nothing is dead-lettered early |
| `mq_orderly` | MCMergeQueue, `MergeQueue_orderly` | 1 Manager, 2 goroutines, 2 PRs, requests that do not interfere with a run, every failure, writes of the bucket included, 4 of both | `ImplementsLifecycle` (refinement: dead letters stay dead, nothing comes back), `NoSecondMergeCall` |
| `mq_live` | MCMergeQueue, `MergeQueue_live` | 2 Managers, fair, every failure but "not ready" | `Drains`: every queued item ends gone or dead-letter |
| `pipeline` | MCApprovalPipeline, `ApprovalPipeline_flow` | 1 PR, 8 configurations (3 with expressions, one of them erroneous), 26 first answers of the platform and 8 later ones, 3 changes; about 1300 expressions of up to 3 operators | `Agreement`, `ExprMeaning`, `OnlyMergeable`, `ApprovedIsMerged` |
| `pipeline_groups` | MCApprovalPipeline, `ApprovalPipeline_groups` | 2 groups of 1 PR, fixed answers | violation of `MergedIsApproved`, see findings |
| `consumer` | MCEventConsumer, `EventConsumer_flow` | 3 events of 1 PR, bus of 1, channel of 2, a pool of 1 to 2 workers, tasks of any length, a reconfiguration, Stop and Start | `QuietWhenStopped`, `ReceivedIsHandled`, `StopEnds` |
| `intake` | MCWebhookIntake, `WebhookIntake_flow` | 13 environments: one bad delivery, sent twice, with an expiry and a crash, or with two failing calls of the database and a crash; two bad ones with a crash; two changes of state, or one of another kind, on each of 5 platforms, with poller and webhooks at work | `PublishedOnce`, `NoneLost`, `AllSettled`, `RecordFollows` |
| `commands` | MCPRCommands, `PRCommands` | 1 PR and the one a revert opens; any command of the API or chore beside any chat command, and polls; failing calls | `ClaimsHaveGrounds`, `Alone`, `RecordsConverge` |
| `records` | MCRecords, `Records` | both drivers, any two handlers that meet, 2 keys, 3 starts, an error or a crash | `IndexesPoint`, `TokenUsedOnce`, `CacheFresh`, `LostOnlyToRaces`, `Cascade`, `DigestsSent`, `IdleSessionsEnd` |
| `sync` | MCSyncer, `Syncer_mirrors` | 2 syncs at once on a kept clone with mirrors' PRs; or one at a time with clones of their own, refs and all targets; 2 commits, one of which may be a deletion, a retry, a fault | `Alone`, `LockReturns`, `NothingLost`, `CodeFirst` |
| `platforms` | MCPlatforms, `Platforms` | one of five parts: `Stale` (2 platforms, a ticker and a request, 2 acts, a fault, a PR without a time), `Labelling` (3 kinds of platform, 3 sets of rules, ties in every order, 2 runs, 1 command, 1 act, 1 failure), `Reviews` (5 kinds, 2 people, 3 reviews, pages of 1 or 2, 2 turns of other things), `Builds` (5 kinds, 2 commits, 2 runs each), `Notices` (3 events, a mishap); 1 million states | `WarnedBeforeClose`, `IdleEnds`; `LabelsAddUp`, `RulesApplied`; `StanceHeld`; `LandedPassed`; `NotedIsTold` |
| `admin` | MCAdmin, `Admin` | configuration: a file made by hand or none, 2 requests (symmetric), 3 acts, a stop, a failing call of the database, 1 snapshot kept; or self-update: 3 updaters, 5 starts, 2 mishaps | `Sealed`, `UpdatesAddUp`, `SnapshotsStand`; `Recoverable` |

**Bounds, and why they suffice.** `Budget`, `Acts`, `Turns`, `Hands`, `MaxChanges` and the like count what users, platforms and faults do;
retries, scans, merges and time are not counted where the code bounds them. Two goroutines are enough for every pair of a stale copy and a
writer; with two PRs (`mq_orderly`) a run has an item to process while another of its items is out of date. `MaxRetryCount = 2`
tells "first failure", "last failure" and "no more" apart. Three events of one PR allow a timer that is
superseded, one that fired, and one that is armed, at once.
In `pipeline` three changes let a PR be approved, spoiled and mended, or approved, failed twice and mended, at any point of its
way; each answer differs from a good one in one thing, so that every gate decides somewhere.
`intake` puts several environments into one run, chosen in `Init`. `MaxAttempts = 3` has a first, a middle and a last attempt
(10 in the code). In `commands` every command meets every command of the other goroutine and a poll; longer chains of three
commands on one record are not covered. In `records` two keys let an index outlive one of two records, a loop have a second round, and a
space be listed while another changes. Of snapshots 1 is kept and not 20, so that pruning happens; 3 acts are an update with two others at any point of it, or an update, a rollback and a write without the mutex. Two pages of reviews, two runs of
a commit and two commits are the least that show an order. A kept clone of one sync is the start of the next: with two commits it is reused once.
Where a run does not check for deadlock the system may stop: nothing is left to do and nobody need act.

**`mq_orderly` and its limit.** The comment on the scan says a run works on a consistent view of the queue
(`manager.go:197-199`). That holds for additions and time; it does not for removals and edits, which a run writes
over (`mq_races` allows these and checks what remains true). `mq_orderly` therefore allows withdrawals only
between runs (`withdraw`) and asks for a merge only when the PR is not queued (`add`); failures, lost answers and
scheduled items are all allowed.

**`Deserted`.** A cancelled worker that is busy remains in the count until its task is over, and the adjuster may decide again before that: a pool
can cancel all its workers. It grows again only when enough tasks wait, so that with a minimum above its trigger some received tasks may never be
handled. `ReceivedIsHandled` holds of every behaviour but those in which the pool stays deserted while it has no reason to grow; the bound on spawns counts as such a reason.
The drop of an event at a full bus (`bus.go:101`) is modelled, and no property denies it.

**What properties excuse.** Several name what the code does not prevent, so that the rest can be checked: the delete or write of an item that failed after its merge (`NoSecondMergeCall`), calls of the database that
failed during an intake (`PublishedOnce`, `NoneLost`, `AllSettled`), commits that only delete (`NothingLost`, `CodeFirst`), races of two commands on one
record (`Alone` of PRCommands excuses a PR two commands had at once), an overlap of two resets (`TokenUsedOnce`), a sync let into a lock
that was another's (`Alone` of Syncer), a file, or the temporary file, written without the mutex (`UpdatesAddUp`), a number of snapshots that could not be read or written (`SnapshotsStand`), a file made by hand (`Sealed`), overlapping checks and,
for PRs without a time of update, days that their age had used up at the label (`WarnedBeforeClose`), what a
GitLab client has set back (`LabelsAddUp`), refused calls (`RulesApplied`), Gitea's dismissed reviews and short pages, a review
that comes or is dismissed between GitHub's calls while its author is asked for another, and Gerrit's one name per vote (`StanceHeld`), a push between the listing and the merge and the newest-first listings of GitLab and Bitbucket
(`LandedPassed`), and restarts, failed sends and entries replaced when their window was over (`NotedIsTold`). Each excuse is a limit of the code; the
comment at the property names it.

**Fairness.** `MergeQueue.Fairness`: the ticker calls CheckQueue again and again, every step of a run is
eventually taken (platform calls carry timeouts), NextRetryAt and ScheduleAt pass, and a handler that began
goes on. Nothing is assumed of the other goroutine's calls, of users or of crashes; `Faults` of the live run leaves
`notready` out, since a PR that is not ready may wait for ever. `EventConsumer.Fairness`: loop, timer callbacks,
workers, adjuster and Stop go on; a blocked Submit is strongly fair, as a blocked sender of a Go channel is in a queue
served first come, first served. Nobody is bound to call Stop or Start. `ApprovalPipeline.Fairness`: the tickers
of the pending queue (`pending.go:88`) and of the queue keep calling and handlers finish; users and the platform are not bound to
do anything. `WebhookIntake.Fairness`: handlers, the retry worker, timers and a poll that began go on, back-offs end, and the
poller's ticker ticks if `events.mode` is `polling`; a crashed daemon is started again. No platform is bound to deliver anything.
`PRCommands`: a goroutine goes on with its command; the poller comes to every PR again and again (strong fairness, since
it is one goroutine that polls one PR after another). `Records`: some goroutine goes on, the sweep is started again and again. `Syncer`:
goroutines go on, leases run out, a merge that waits for its sync is taken up. `MCPlatforms`: days pass, the ticker ticks, checks
and removals go on; windows end, timers fire, whoever waits for the mutex gets it, sends return.

### Findings

* `pipeline_groups`: `README.md:20` says PRs are only merged when approvals and CI checks are complete. The key of an
  approval by webhook has no ID. If the records of two groups lost theirs as well, by a label event for instance, ShouldMerge judges the first such
  record of the item's group, and `merge` takes the first of any group (`manager.go:415`): an approved PR of one group makes
  an unapproved one of another be merged. The tests of the consumer give their events an ID, which no webhook does.

**Noted while modelling, and not the subject of a run.** The models reproduce those marked with *.

Queue and pool. *`checker.go:199` says a draft is never merged, even if queued; `merge` reads the record a second time and does not look at the draft
flag, and the gap spans the CI and approval calls. *The comment on `Recover` (`manager.go:64`) promises a check against a double merge; it looks only at items
stored as merging or checking, which CheckQueue never stores, and asks the stored record and not the platform. *`PROJECT.md:446`
promises at least `min_workers`; a cancelled worker that is busy remains in the count that `adjust` compares with the minimum, so
that with long handlers one worker after another is cancelled (`Deserted`). Raising `min_workers` by a reload spawns nothing until
the channel fills. *An item in dead-letter makes AddToQueue do nothing, and the pending entry is deleted all the same. *While a record keeps its ID an approval by webhook
leads nowhere: its pending entry is deleted at the first check (`pending.go:57`) and its item fails until it is a dead letter, which then takes the key of the
group; `ApprovedIsMerged` is therefore about entries that lead to their PR. *IsReadyToMerge tells an expression that CI is `success`, ShouldMerge
tells it `none` when CI is not required (`checker.go:236`). `asika.toml.example:106` lets an expression override the CI gate only if
`allow_expression_override_ci` is set; nothing reads the option (`checker.go:251`). `author IN core_contributors`, an example of `asika.toml.example:104`, is always false. *An approval whose
PR cannot be judged because a call fails puts it in neither queue (`handlers.go:176`). *After a merge the record takes the state that GetPR reports, which on
GitHub is `closed` (`manager.go:376`). `db.Put` inside a callback of `db.ForEach` (`manager.go:232`) is a write transaction inside a read transaction.
Nothing calls the serial worker's Enqueue.

Intake. *`StartWorkers` polls before the consumer has subscribed, so that `pr_merged` of a PR merged while the daemon was down is told to nobody, and the poller
saves it as merged (`poller.go:260`, against `PROJECT.md:361`). *A crash between the mark and the first counted failure of a delivery leaves a record that is never
due, while redeliveries are refused for a day (hence `hit`); so does a failure that cannot be counted (`webhook.go:171`). *A record that cannot be deleted after a successful retry is processed again every minute (`retry.go:106`). `StartForced` (`poller.go:77`), which `PROJECT.md:357` needs, is not called. GitLab's `opened` and Bitbucket's `declined`
stay in a record until a poll puts them right. Debouncing is per PR and not per event type, so an approval can take the place of an opened event.

Commands. *Slack's, Discord's and Feishu's revert file the new record and item under a key without group. *Discord's batch approval does not queue. *Bots' close leaves the queue
item. *The spam count of an author is read and written in two transactions (`close.go:222`). *EvaluateAll evaluates PRs as listed, without their group, and so merges nothing.
*RevokeOtherSessions revokes the session it is asked in, too, and with MongoDB none. Nobody signs in by LDAP (`auth.go:42`).
UpdateStackMemberStateOnMerge compares IDs of two forms. CreateSpace writes over a space of the name. Batch cherry-pick answers that it is not implemented.

Sync. *`PROJECT.md:425` says that the merge commit is always synced. `cherryPickRegular` and `CherryPickMergeDiff` count the files they write and not those they remove, and
return without a commit when they counted none (`git_ops.go:137`, `:300`): the old head is pushed, the sync is recorded as a success, and a mirror's pull request is merged. *Conflicts of a cherry-pick are worded so that `isConflictError` never knows them: neither the retries nor the fallback of `PROJECT.md:429` are reached. *A fresh clone contains the merge
commit already. *pushRef names no remote, so that the sync of branches and tags fails (`PROJECT.md:426`). *A refused lock drops the sync without a word; a record `retrying` is never
settled; a later sync pushes over what an earlier one left on one platform only. *One name holds the lock twice and gives it back once.

Platforms. *GitLab's and Bitbucket's commits come newest first, so that the "last" one is the oldest (`checker.go:467`). *MergePR names no commit. *A stopped Bitbucket pipeline is a success. *Gitea's
reviews stay when dismissed, and a server that gives shorter pages than asked for ends the listing early; GitLab's and Bitbucket's blockers are not reported; assignees are left out of approvers. Bitbucket's approvers are display names, while permissions
are asked by user name. *Labels of a GitLab merge request are read and set whole (`gitlab.go:175`). *Of two runs on Gitea that create a label one is refused, and an exclusive rule then does not
stop it. *Overlapping checks comment twice; Gerrit PRs are marked again every period and never closed. *A PR without UpdatedAt is closed at the check after its label (`stale.go:377`). *Rules of equal priority have no order among more than twelve (`labeler.go:63`).

Notifications. *The first event of a window is sent at once and again by the timer (`README.md:625` says the first at once, the later ones together). *Timers are lost at a restart while the
entry stays and goes on taking events until its window ends. *An entry is saved as dispatched before it is sent. Timers ignore quiet hours. `skip_escalation` is read nowhere.

Configuration. *UpdateConfig is said to apply hot-reloadable items only (`handlers/config.go:71`, `:120`). It decodes the file into a configuration without Load's defaults and writes every field (`:198`): whatever section
is sent, keys left to their defaults become zero, `required_approvals` and `ci_check_required` among them. *`PROJECT.md:541` says that a failed health check after an update rolls back to the previous
snapshot; the version is read before the update's snapshot is taken (`handlers/config.go:107`): it is the one before that, and after the first update there is none. *The watch rolls back a minute after an update whatever later updates came. *Two writers of the temporary file mix what they write (`config.go:668`). *A number of snapshots that cannot be read counts as 0, so that a snapshot is overwritten (`config_snapshot.go:21`). *`README.md:662` promises encryption of platform tokens: the secrets of OIDC, LDAP, hooks,
the AI summary and Feishu's verification token are in clear in file and snapshots (`crypto.go:108-214`). *The spam worker's rewrite truncates the file, and a restart then begins set-up. *A section that is not valid is saved before it is validated. A hook's
secret is put back by its index.

## 5. Proofs

The theorems hold for every finite or infinite set of PRs, Managers, goroutines, platforms, commits, rules and updaters, every budget,
and every retry limit; those of `Records` for every set of goroutines, every choice of handlers for each of them and every finite set of keys. The right column says which inductive invariant carries the proof and why the property
alone is not enough.

| theorem | argument |
|---|---|
| `MergeQueueProofs!TypeCorrect` | the type invariant with `CurInv`: a goroutine that is past `Begin` has a current PR |
| `OneRunPerManagerHolds` | `LockInv`: whoever is not idle is the holder of its Manager's lock |
| `RetryDisciplineHolds` | `RetryInv`: the discipline holds of the stored items (`StoredGood`), **and** of every copy that may still be written back: the editor's, and the run's (`CopiesGood`), where an item in `todo` has failures left and one in `dying` has none. The property is not inductive without the copies: it is they that are stored later |
| `NoSecondMergeCallHolds` | under `Orderly` (below). `OrderInv`: no handler is between its steps (`HandlersQuiet`); the bucket and the platform hold only what orderly requests lead to (`Orderliness`); a PR on its way in is open, not in the bucket, and in no run (`Newcomers`); a merged PR with an item has counted a failure or is `unsettled`, unless the run that merged it has still to delete it (`MergedCounted`); and the copies of a run agree with the stored items in status and count (`CopiesFresh`), also after a write that failed, as the run then leaves the item alone, since by `LockInv` the other goroutines of the Manager are idle and nobody else touches the bucket |
| `LifecycleImplemented` | under `Orderly`. From the same invariant, each action is shown to be a step of `QueueLifecycle` or a stutter; only the freshness of the copies keeps a run from bringing back an item that was given up |
| `HandlerProofs!PoolMaxRespected` | `MaxInv`: at most the largest maximum are live, and *one less* while the adjuster has decided to spawn |
| `PoolTypeCorrect` | the channel's length never passes its capacity; `cancels` stays a sequence of workers |
| `TypeCorrect` (of the consumer), `MaxRespectedHolds` | each step of the consumer is a step of the pool, a new pool, an emptied channel or leaves the pool alone (`StepsOfPool`) |
| `QuietWhenStoppedHolds` | `LifeInv`: the loop has ended once Stop is past it, and the pool is closed and its goroutines gone once Stop has returned |
| `OnlyStopLosesHolds` | with `LifeInv`: a pool refuses a task only when closed, and it is closed only after a Stop has begun |
| `ApprovalPipelineProofs!PipelineTypes` | an item that is not failed or dead has a retry left; CheckQueue looks at the count before it judges |
| `TestsAgree`, `PipelineAgreement` | both tests are unfolded into the gates they pass (`AnswerYes`: an answer is yes exactly if every gate is passed) and compared one by one |
| `EveryExpression`, `ExprMeaningHolds` | the language of expressions is what every set closed under the `Grammar` has; what evaluates to its meaning is such a set (`Units`, `Terms`, `Sums`), by one lemma per production (`NotMeans`, `ParenMeans`, `AndMeans`, `OrMeans`). Each needs that parentheses are balanced in the parts (`Closed`), so that an operator outside them stays outside when parts are joined (`JoinClosed`) and the first such operator is the one between the parts (`JoinSplit`). That the recursion of `Eval` has a value at all, the one its text says (`EvalUnfolds`), is shown by induction on the length. `Written`, which TLC enumerates, is part of the language |
| `MergesAreSound` | `MergeableSound`: what ShouldMerge passes amounts to `MayMerge`, which is stated without gates; only CheckItem makes an item `merging` |
| `WebhookIntakeProofs!TypesHold` | with `Counts`: a handler or retry works only on a delivery that was sent, so that what it publishes is an event (`ParseTyped`: of every payload, every parser makes one) |
| `PublishedOnceHolds` | `Once`: an intake that may still be published (`Unpublished`: its handler is before that, or it has a record with a time that the worker is not finishing) has been published no more often than its record could not be deleted; `Apart`: the worker has to do with an intake only when its handler is through; `Marked` and `Counts`: a delivery is taken for new once more than its mark expired or was not checked or put |
| `NoneLostHolds` | `Earned`: a record is deleted only after its delivery was published, found to be nothing to publish, or given up, and then the worker holds it until it has told; and one is missing otherwise only if it was never put. The property alone does not say why a record may be deleted |
| `SyncerProofs!SyncTyped` | every record, branch and clone keeps its type; needed for the next |
| `SyncAlone` | mutual exclusion of the lease: of two syncs at work that were not let in loosely, both would have the lock by the name they go by, and the lock has one holder; the lock changes hands only from nobody, from its own name, or after the lease, and each of the last two makes those at work loose |
| `NothingLostHolds` | `PickInv`, which holds until two syncs have been at work at once (`mixed`): a commit done with is on every platform unless picking it committed nothing (`DoneEverywhere`); the kept clone has it too (`CloneKept`), so that a branch made from that clone does; and what the one sync at work has put together contains, platform by platform, all that is done with there (`WorkHolds`), so that a forced push takes nothing away. The property speaks of the platforms only, while a push takes what it writes from the clone |
| `CodeFirstHolds` | from `WorkHolds`, which says of a sync at its last stage that its commit, if it was picked, is on every target it was meant for; the order of the stages alone does not, as a later push overwrites what an earlier one left |
| `HandlerProofs!ClaimsHaveGroundsHolds` | `Inv` adds to the property that what the platform has become is accounted for by `did` (`Grounded`), and that the steps a goroutine has left are `UnderWay`: whatever one of them is going to claim has happened already, or an earlier one makes it happen or ends the command. That each command of each front end is under way from its first step is a lemma per handler, so that the proof reads every sequence once and every kind of step once, and not their products |
| `AloneHolds` | `AloneInv`: who is at work on a PR that is not excused is alone with it (`Apart`); a PR nobody has in hand is `Near` its platform (`Settled`); and the steps a goroutine has left have an `Outline`, which marks before each step what is then known of the record, the goroutine's copy and the platform, and which is near wherever the command may end (`Fits`). Each command but the `Silent` ones is shown to have one. Goroutines that share a PR keep an outline too, since the new PR that a revert opens is theirs alone |
| `PlatformsProofs!WarnedBeforeCloseHolds` | `StaleInv`: a PR has been untouched for no longer than it has been open with the label (`Counted`); a check's listing says no more than that (`SoundCheck`), or another check is marked to have overlapped (`AloneOrOver`) |
| `LabelsAddUpHolds`, `RulesAppliedHolds` | `LabelInv`: what a client has read of a GitLab merge request differs from its labels in noted changes only; the rules a run has left are the last of the order, whichever it is, and those before them were put on and not exclusive (`RunSound`) |
| `LandedPassedHolds` | `Judged`: the commit that is asked about is the head unless somebody pushed or the listing is newest first, and what an answer calls green has passed since the listing |
| `StanceHeldHolds` | `ReviewsInv`: down to the place read so far, who is in either list said so last (`LastSaid`), and the other way round (`ListRight`); and unless they stood so during the call, something is still to be read of them or they are asked once more. Between the two calls the latter is all that is left (`ReadRight`). What a page replayed amounts to is shown by induction on its length (`ReplayMeans`). The proof did not go through for the property as first stated, which held for two turns only: a review dismissed while GitHub waits for its author is reported once the author is no longer asked, though it was in force at no moment of the call |
| `StateProofs!ConfigTypeCorrect`, `SealedHolds` | `SecretsInv`: in which form credentials are in memory (clear), in the file and the temporary file (sealed, unless made by hand) and in snapshots (masked), the others clear in all of them, **and** in what every request carries between its steps, which is what is stored next |
| `UpdatesAddUpHolds` | `UpdatesInv`: who is between its read of the file and its write holds the mutex, and what it read is the file as it is, and the temporary file is its own, unless somebody wrote either without the mutex |
| `SnapshotsStandHolds` | with `ConfigTypeOK`: unless the number has slipped, the versions kept are no newer than the last one given, so that a new snapshot takes the place of none, and pruning spares the last `Keep` |
| `RecoverableHolds` | `UpdateInv`: at most one updater is between the rename that moves the binary away and the one that brings a binary back, because that rename fails when there is none; while it is, a whole binary is in the file that its stage left it in |
| `RecordsProofs!RecordsTyped` | `BaseInv`. No handler is looked at in its own right after it has begun: each one of `Accounts` and `Collaboration` is shown to be a chain of steps of known shapes (`Startable`, a lemma per handler), and what may stand before what in such a chain (`Link`) outlives every step, since a loop or a branch puts whole programs before the rest and an error takes whole laps away. What a loop over a set of keys puts there is a fold; it is reasoned about as "every set closed under concatenation that has one lap has all of them" (`LapsIn`). Besides types: which keys are used up (`KeyInv`: a key being made is known to nobody else), whose records do not exist yet (`PendInv`), and that no step is about no record (`ZeroInv`) |
| `IndexesHold` | `IndexInv`: who is next to write an entry has its record there already, and who is next to delete a session has its entry gone, or the entry's deletion failed. Every writer of an index does so next to its record, in this order, on both drivers |
| `StateProofs!TokensHold` | `TokenInv`: of those that read a token which nobody touched since, at most one finds it gone without having deleted it itself, and each one of them sets at most one password |
| `CacheHolds` | `CacheInv`: whoever has changed a space has nothing to do before it forgets the spaces in memory but to add a member (`Settling`); and what a handler read of the spaces, if nobody touched them since, is what they are (`Kept`) |
| `LostHolds` | `CoverInv`: whoever is going to write a record has read it, or will before, or was kept from it by an error. The handlers that create a user, and the first sign-in by OIDC, take a failed read for a free name and write all the same, which the property excuses |
| `DigestsHold` | `DigestInv`: between the listing and the deletion of digests the handler has what is in the table in its copy, and after the sending it is sent, or others have touched the table |
| `CascadeHolds` | `CascadeInv` (`Falling`): what the handler that deletes a user still has to do covers every API key, link and session there is, unless others changed the table meanwhile or an error came. Before the loop over a table this is the loop itself; after it, a step for each record it found (`Swept`, `Deletes`). The loops come before the steps of their laps (`LoopsFirst`), so that an error, which takes the rest of a lap away, takes no loop. bbolt's loop over sessions ends when it does not find one that the index lists: `Sought` says it finds each, which rests on `IndexInv` |

`TypeOK` of most of these modules, `OneRunPerManager`, `MaxRespected` and `OnlyStopLoses` are proved for every size and are not the subject of a run.

Assumptions: the named ASSUMEs on constants (`ConstantsAssumption`, `PoolAssumption`, `ConsumerAssumption`, `PipelineAssumption`, `IntakeAssumption`, `SyncerAssumption`,
`CommandsAssumption`, `StaleAssumption`, `LabellingAssumption`, `BuildsAssumption`, `ReviewsAssumption`, `ConfigAssumption`, `SelfUpdateAssumption`, `RecordsAssumption`), nothing else; `Workers` is finite. They say that bounds are natural numbers, that
the names for nobody and for the poller are not those of users, and, in `CommandsAssumption`, that a start is a state the daemon can be found in: its records claim what has happened and agree
with the platform. The first of these proofs showed that the instances had stated less of their starts than it needs, and
`CommandsAssumption` was completed; TLC evaluates it for the starts of the run.

**`Orderly`.** Two theorems of the queue are about requests that do not interfere with a run, as `mq_orderly` is (section 4): `Ops` has additions, withdrawals between runs, schedules and polls only, and all
goroutines use one Manager. Faults, lost answers and the number of PRs and goroutines are free. Without it both are false: TLC finds them
violated in the instance of `mq_races`, where a run writes back what others have edited or removed meanwhile.

Model-checked only:

* liveness (`Drains`, `ReceivedIsHandled`, `StopEnds`, `ApprovedIsMerged`, `AllSettled`, `RecordFollows`, `RecordsConverge`, `IdleSessionsEnd`, `LockReturns`,
  `IdleEnds`, `NotedIsTold`), which is beyond the prover.

## 6. Not modelled, and the plan

Next, in this order:

1. The dispatcher of shell hooks (`common/hooks/hooks.go:259`, `reload.go:27`), the second subscriber of the bus: a reload unsubscribes and subscribes again, so that
   events in between are not seen, and retries under way survive Stop.
2. Escalation (`server/core/escalation.go`), which notifies before it saves its level, and the failure tracker, which calls its alert under its mutex.
3. Migration between drivers, backup and restore.
4. `MergeQueue` with `MergeDecision` in place of its free choice of an answer, and `Reviews` and `Builds` as what it asks.

Left out, and why:

* The writer actor (`consumer/writer.go`) carries out the saves of the consumer's handlers one at a time, and each waits for its answer: it is the save of `Handle` in `WebhookIntake` and of the handlers in `Housekeeping`, and has no module of its own. Its restart after a panic is left out; it is stopped after the pool, when no handler is left to write (`consumer.go:186`).
* The serial worker is given no work, and `workflow` runs once as a command: the running program has no such behaviour.
* The rate limiter is a token bucket of a library per address under one mutex; middleware looks at one request at a time.
* Platform operations of one call and a conversion, HTTP and JSON, bots' listings and formatting, templates, reports, feeds and the output of the command line tools: I/O and wording.
* Matching of label rules, path rules, code owners, spam keywords and versions: functions of their arguments, with no state; the models take their outcome as a fact.
* Cryptography and signatures; what happens inside bbolt, MongoDB and git, of which a transaction, a command and a push are taken to be atomic.
