# Verification of Open Bases

TLA+ models of the control plane and execution nodes of this repository, the
TLC runs that check them, and TLAPS proofs about them.  Every definition is
translated from the source; `PROJECT.json` maps each one to the lines it stands
for.

    tlc -workers 2 -config DispatcherSafe.cfg MCDispatcher.tla
    tlapm DispatcherProofs.tla

## The system

A control plane (`cmd/control-api`, Postgres) keeps projects, beads (units of
work) and a queue.  It cannot call an execution node; a node's daemon
(`cmd/dispatcher`) polls it over HTTP, claims a job, runs an agent on it, runs
the repository's own check, puts the changed files on the bead's branch, asks
the control plane to open a pull request, and reports the outcome.  Around this
core are webhooks from GitHub and Google Workspace, tokens and approvals, the
monitor and the witness, and command-line clients.

| Part | State it keeps | Operations | Talks to |
|---|---|---|---|
| Work queue (`db/migrations` 0035, 0102, 0103) | `work_queue` rows | enqueue, claim, finish, heartbeat, plan | called by the control API |
| Control API (`cmd/control-api`) | none besides the database | dispatch, file a plan, claim, result, pull requests, projects, routes, MCP | database, GitHub, nodes |
| Dispatcher (`cmd/dispatcher`) | slot semaphore, wait group, one goroutine per run, file loop | pass, fileLoop, runClaimed, SIGTERM | control API, git, `bd`, the runner |
| Landing (`internal/landing`) | a git checkout, the bead's branch here and at the remote | Changes, Since, reclaim, restore, Land, landCommitted, Refresh | git |
| Check (`internal/check`) | none | Run | a shell |
| Filing (`internal/work`, `internal/beads`, `cmd/dispatcher/filing.go`) | the Beads graph | validate, create beads and edges, close | `bd` |
| Bead projection (`readBeads`, `POST /v1/node/work/project`, 0083, 0097) | `work_refs`, `work_links` | read, send, project, link | `bd`, database |
| Routing, budget (`internal/dispatchroute`, `internal/budget`) | rigs, repositories, spend | For, ForProject, Decide | database |
| Idempotency (`internal/idempotency`, `writes.go`) | recorded responses | Lookup, Record | database |
| Approvals (`internal/approvals`) | requests, decisions, digests | request, decide, use | database |
| Tokens, device flow (`internal/tokens`) | tokens, device grants, windows | mint, revoke, start, approve, redeem, limit | database |
| GitHub projection (`internal/reconcile`, `internal/githubapp`) | deliveries, projections | receive, park, replay, resync | GitHub, database |
| Workspace subscriptions (`internal/workspace`, `cmd/workspaced`) | subscription records, remote subscriptions | create, renew, replace, expire | Google |
| Monitor, witness (`internal/monitor`, `internal/witness`) | conditions, seen commits | collect, publish, ingest | everything |
| Runner (`internal/runner`, `cmd/runner`) | an agent process, its state directory | plan, start, tear down | agent harness |
| Domain, authn, authz, clients, publishing, inference | database rows or nothing | reads, single writes, formatting | -- |

**What is hard.**  The database is the only place the actors share, calls are
lost, and nothing takes a claimed row back, so every path from a claim to its
report matters.  The dispatcher is stopped by every deploy, at any point of any
run; some of its calls are cancelled by that and some are not.  Runs go on
concurrently in one rig.  A dispatch may be repeated, each run resets the bead's
branch, and each landing is a forced push.  `PROJECT.json` lists the hazards at
their lines, with the properties that cover them or the module that will.

**What makes the parts correct.**

* Queue: a row is handed out once, oldest first; an outcome is final.
* Dispatcher: a running row is in somebody's hands or lost for a known reason;
  the semaphore neither leaks nor is exceeded; "done" means an agent did it; a
  stop ends, starts no agent, and leaves outcomes recorded.
* Landing: what is pushed is the bead's work, all of it and nothing else;
  another person's commit survives; earlier deliveries survive; the last copy
  of a run's work is not destroyed.
* Filing: a plan becomes all of its beads, once, however often it is filed; what
  blocks what is drawn the right way round, and a cycle is reported.
* Projection of the beads: the pages show the beads and dependencies the graph
  holds, under the project each names, whatever moved on meanwhile.
* Control API: whoever is told "done" gets the answer of a run that took effect,
  under its own key, route and body; an approved request has its quorum; a grant
  yields one credential; the people accountable for a project can run it; a job
  goes to a rig of its project; the schema grows in order.
* Integrations: state converges whatever order events arrive in; nothing remote is
  left that nobody renews or deletes; one accepted statement is one work item; a
  credential reaches what was asked, and works; a withdrawn key is not accepted.
* The node's other programs: a run that ends leaves no secret behind; alerts
  follow the facts; work at risk is told to the people it belongs to, once.

## Modules

| Module | Models | Kind |
|---|---|---|
| `JobLifecycle` | what the queue promises: submitted, started at most once, settled for good | abstract specification |
| `WorkQueue` | the `work_queue` table and its SQL functions | component |
| `Dispatcher` | `cmd/dispatcher` on top of `WorkQueue` | composition |
| `Landing` | `prepareWorkdir`, `treeBefore`, `internal/landing`, `releaseWorkdir` over repeated dispatches of one bead | component |
| `BeadGraph` | a rig's Beads graph: `fileplan`, `internal/beads`, and the agents that write to it | component |
| `BeadProjection` | the dispatcher's projection pass and the handler behind it, on top of `BeadGraph` | composition |
| `Approvals` | `internal/approvals`, and the handler that decides | component |
| `Attention` | `internal/attention`: the inbox | component |
| `Requests` | a request from its credential to its answer: `internal/authn`, `enforced`, the limiter, `withIdempotency` | component |
| `DeviceFlow` | `internal/tokens/device.go`, its handlers, `wg login --device` | component |
| `Routing` | `internal/dispatchroute`, the claim's answer, rigs registered and added | component |
| `Projects` | `internal/domain/create.go`, `repositories.go`, and the project writes | component |
| `Migrate` | `cmd/migrate`, and the deployment that calls it | component |
| `Subscriptions` | `internal/workspace`: the reconciler of Google Workspace subscriptions | component |
| `Publishing` | `internal/publish`: candidates made beads and pull requests | component |
| `Deliveries` | webhooks from receipt to projection: the receiver, `internal/githubapp`, `internal/reconcile` | component |
| `AccessKeys` | `internal/authn/access.go` | component |
| `MintedTokens` | `internal/githubapp/tokens.go`, `internal/workspace/token.go` | component |
| `Monitor` | `internal/monitor`, `cmd/monitor` | component |
| `Witness` | `internal/witness`, `cmd/witness` | component |
| `Runner` | `cmd/runner`: the process of one run | component |
| `RunPlan` | `internal/runner`: what a run is to be, or why there is none | component |
| `MCDispatcher`, `MCLanding`, `MCBeads` | the instances TLC checks | model checking |
| `MCQueues`, `MCControlPlane`, `MCIntegrations`, `MCNode` | several components that share no state, each on an instance of its own | model checking |
| `WorkQueueProofs`, `DispatcherProofs`, `LandingProofs`, `BeadProofs`, `AuthorityProofs`, `ControlPlaneProofs`, `IntegrationProofs`, `NodeProofs` | theorems about them | proofs |

Refinement: `Dispatcher` implements `WorkQueue` (`ImplementsQueue`), and
`WorkQueue` implements `JobLifecycle` (`ImplementsLifecycle`, with `phase` the
status column and `starts` the number of committed claims).

The last four MC modules put components side by side: a variable says whose
behaviour this is, the others stand still.  A behaviour of the composition is a
behaviour of one component, so nothing is checked less than in a run per
component, and the states are added and not multiplied.

### WorkQueue

`row[j]` is the status column, `created[j]` created_at, `txn[p]` the row an open
claim transaction has locked.  `Enqueue` is the INSERT; `ClaimSelect` the
`SELECT ... ORDER BY created_at ... FOR UPDATE SKIP LOCKED LIMIT 1`;
`ClaimCommit` the unguarded UPDATE and the commit; `ClaimRollback` a request
context that ended in between; `Finish` the guarded UPDATE of
`system_finish_work`.  One cell is modelled: a claim names its cell, and cells
share nothing.  `created_at` is the order of the inserts, because an enqueue is
one statement; that a transaction may become visible after a younger one is
left out.

### Dispatcher

`alive` is the process (`stopping` once the signal context is cancelled).
`passPc`, `slots` are the main loop and its semaphore; `filePc`, `filing` the
file loop; `stage[j]` the goroutine of job `j`:

    claimed -> running -> checking -> (rerunning -> rechecking) -> landing -> proposing -> reporting -> over
    claimed -> refused -> over

`runOk`, `checked`, `delivery`, `body` and `noted` are `runErr == nil`, the
check's result, what happened to the branch, what the pull request says of the
check, and whether the outcome carries the interruption note.  `agents`,
`claims` and `stranded` are history variables: `stranded[j]` says why nobody
will ever report `j`.

`PassAsk` takes a slot token, `SelectForPass` is the control plane's half of the
claim, `PassLaunch`, `PassFindsNothing` and `PassFails` are the three replies.
A call whose caller went away leaves a transaction open, and
`ClaimOutlivesCaller` rolls it back or commits it.  `RunBegins` to `Report` are
the parts of `runClaimed`, split where another actor can come between: a call,
a child process, or the context being read.  `Sigterm` cancels the context;
`Exit` is main's return after `wg.Wait()`, which does not count the file loop;
`Crash` is anything else; `Restart` is systemd.  Calls made on the signal
context fail once it is cancelled (`CallFails`); the report is made on
`outcomeCtx`, and git has no context at all, nor a timeout (landing.go:43).

Abstracted: the stall limit and the deadline are reasons for `AgentEnds`; the
output, the transcript and the heartbeat change no state of the queue; labels,
projection and rig registration are in `BeadGraph`, `BeadProjection` and
`Routing`; the dependency cache is left out.  The
control plane is taken to be done with a poller's last claim when the poller
asks again ten seconds later.

### Landing

A tree is a function from paths to versions: absent, the base branch's, a
foreign commit's, a stray edit's, or the n-th run's.  `disk` is the bead's
worktree and the rig's shared checkout; `local`, `tracking` and `remote` are the
bead's branch here, as last seen, and at the remote.  `Prepare` is
`prepareWorkdir` and `treeBefore` with the fall-back to the shared checkout;
`LandWork` and `LandCommitted` are the two ways through `Land`; `Release` is
`releaseWorkdir`.  `Status`, `Tip`, `Mine`, `New`, `Reclaimed`, `Work`,
`Restored` and `Candidate` are what Changes, beadTip, Since, reclaim,
Interesting, restore and the staging compute, as sets of paths.

Abstracted: the base branch does not move; the agents of the runs in
`Committing` commit their own work, and only in worktrees; gastown's plumbing is
filtered wherever it appears and is left out; the assertion on staged build
output cannot fire when paths are staged one by one; errors of `git status`
itself are left out.  In `MCLanding` one path, the bundle, is both build output
and untracked scratch, so that both filters are met.

### BeadGraph and BeadProjection

A bead is a number, in the order bd hands ids out.  `key`, `labels`, `closed`
and `edges` are its external_ref, its project labels, its status and its
dependencies; `says` is the number of the filing that last wrote it.  `filePc`,
`plan`, `at`, `filed` are the locals of `fileplan`: `FilePlan` is the handler,
the claim and `Validate`; `FileItem` one turn of its first loop (`Revise` is
`UpdateIn`, `Create` is `Create`, `Found` is `ByExternalRef`); `WireEdges` the
second loop; `CheckCycles` the check that `--no-cycle-check` postpones.
`ItemFails` and `FilingDies` end a filing between any two calls, or after bd
wrote and before it answered.  `RunStarts` and `RunEnds` are the two listings of
`runClaimed` with `labelNewBeads` (`Labelled`); `JobProject` is what the
dispatch handler enqueues.  The agent's actions are what `bd` lets it do.  In
`Dispatcher` all of a filing is `FileEnds`.

`ReadBeads` is `readBeads` and the start of the request; `ProjectBead` is
`system_project_bead` for one bead (`Attribution`), `ProjectLinks`
`system_project_bead_blockers` for one (`Recorded`), each a transaction of its
own, in the order of the handler's two loops; `missed` are the beads whose links
could not be recorded.

Abstracted: what a bead says is one version, so fields left empty in an update
are not told apart; a dependency on an older bead by its id is left out, being
the same edge; looking an item up and writing it is one step, as only filings
write keys and they are serial; edges of one plan are added in one step or, if
calls fail, some of them, since nothing reads between two of them but an agent
whose own edge `CheckCycles` sees as well; both spellings of a project label are
one; which projects there are (`Known`) does not change, and a label may name
one that there is not (`Attributable`, `SendFails`); beads are not deleted;
there is one rig.  bd's order is not modelled: `Found` may be any of the matches.

### The control API's state: Approvals, Attention, Requests, DeviceFlow, Routing, Projects

`Approvals`: `request` is the row, `decisions` the committed decisions,
`deciding[u]` the open READ COMMITTED transaction of one person in three steps
(read, insert and update, commit).  `Seen` is what such a transaction counts:
what is committed and its own.  An UPDATE that matches takes the row lock
(`RowLocked`); one that matches nothing does not, which is why two transactions
can each count one short.

`Attention`: one row per item, who sees it (`Shown`), and the three ways to be
rid of it.  The functions that raise items are in `Monitor` and `Witness`.

`Requests`: `stage[c]` goes from the credential (`Authenticate`) over scopes,
the fixed window, cap and role (`EnforceToken`, `EnforceSession`) to
`withIdempotency`: `LookUp`, `Perform`, `Record` are three transactions.  A call
is its route, item, body and key.  What a handler writes is one effect per route
and item, refused the second time.  An answer goes with the call it was first
given to (`ran`, `replayed`), which may be a call for another item.

`DeviceFlow`: `grant[g]` is the row, `approving[u]` the SELECT of an approval
whose UPDATE is to come, `poll[c]` the three calls of one poll, `client[c]` the
loop of `wg`.  Client and server are one module because the hazards are between
them: an answer that is lost after the token was bound.

`Routing`: a job's three routing queries and the claim's fourth, each at its own
moment, while repositories are attached and detached, beads are projected and
the node registers rigs; `town` is the disk, `held` is `execution_rigs`.  Which
projects are closed (`Closed`) does not change: no rig is wanted for them, and
those they have are routed to.

`Projects`: a change of owners is two steps, the read of the outgoing owners and
the rest, as the row is locked only by the UPDATE; everything else is one.

### Migrate

`changed` is what the schema was changed by, `onRecord` is `schema_migrations`.
`Apply` and `RecordChange` are two steps, because every migration file ends with
a COMMIT of its own; `SkipSeed` is one statement per seed.  `Count` is the
Ansible task that decides on `-fresh`.  Deployments may overlap, as nothing
locks; releases add migrations; `Edit` is a migration edited after it shipped.

### The integrations: Subscriptions, Publishing, Deliveries, AccessKeys, MintedTokens

`Subscriptions`: `google` is what Google holds, `rec` what is recorded, `pass`
what the running pass has read.  Each call to Google and each write of its
result is a step; a call may be refused, or taken and not answered; a create
that was not answered may come true later.  A revived subscription is renewed at
once, and a renewal that fails is passed over.  `Reconcile` is the pure function
of that name.  An event belongs to the source of the subscription it names, or
else of the target (`SourceOf`).

`Publishing`: `graph` is a project's Beads graph (it is made on demand), `beads`
the beads with a candidate's label, `workRef` and `gitPath` the two columns that
say what is done.  Both passes are one automaton (`pub`), since the process runs
them one after the other and may die between any two calls.  Graphs are made by
the pass over tasks, so a decision waits for a task of its project.  `old` is the
file of what a decision supersedes: it is marked in the decision's own pull
request (`Retire`), and as long as it is not on the base branch that proposal
fails.  `Unpublishable` rows are passed over each time (`SkipBlocked`).  That a
knowledge repository is configured is taken for granted.

`Deliveries`: a delivery is an id GitHub sends again until it is acknowledged.
`receipt` is `github_deliveries`, `hands` the detached goroutine of each
delivery, `replay` the batch of whichever process holds the advisory lock,
`resync` what a resync has listed.  All three write `pull`, the row, by the guarded upsert
`PullRequestRow` and by `CheckSuiteRow`.  `reach` says whether a resync is told of
the pull request: not when fifty others were updated since, nor where the App is
not installed.  GitHub's updated_at has whole seconds, so two changes may have
the same.  A receipt that is given up has processed_at set in the code; here it is
`"discarded"`, so that it is not taken for one that was projected.

`AccessKeys`: a request reads the clock, then the cache, perhaps fetches, and
verifies.  Cloudflare's answer (`FetchAnswers`) and its storing (`StoreKeys`) are
two steps, so a slower fetch puts an older set over a newer one; the set is kept
under the time the request was made at.  `withdrawn[k]` is the last instant a key
was published.
`MintedTokens`: installation tokens, minted by whoever finds none, outside the
lock, and delegated tokens, minted under theirs.

### The node's other programs: Monitor, Witness, Runner, RunPlan

`Monitor`: what is wrong is a set of faults, what a stopped job leaves behind an
age; one operator per gather, one per class of trouble (`Evaluate...`), and
`Publish`, which files the verdicts one by one and stops at the first error.

`Witness`: `polecat` is what `gt` says of each agent; the ticker compares a
fingerprint of the events and sweeps every `Sweep` ticks; `Decide` is the whole
decision, condition by condition; `Ingest` and `Raise` are the control plane's
half.  The rigs are those with a repository: one without sends nothing.  A person
may resolve or snooze an item; delegating it takes it from the inbox as resolving
does.

`Runner`: one process per bead, from the count of the cell's directories over
its run directory, state directory, trust entry and settings file to the
teardown, which is deferred; SIGTERM and SIGKILL at any step.  A removal that
fails is logged and the next one tried (`LogsAndGoes`).

`RunPlan`: a function from a request and a catalogue to a plan or a refusal;
TLC checks it for every request under every catalogue that loads.  What a request
must have besides (a cell, a bead, a token, instructions) is one `complete`;
`AllowedTools`, which no program sets, is left out.

## Runs

| Run | Asks | Bounds |
|---|---|---|
| `Queues` | exclusive locks and the lifecycle of `work_queue`; of `github_deliveries`, that what is marked processed was projected, and that the row catches up | 3 rows, 3 pollers: two compete for the same kind, so a lock can be passed over; 1 pull request and 2 events, in one second or in two, with every order, loss and repetition of their deliveries: the guard compares one change with the state before it |
| `DispatcherSafe` | slots match runs, done means an agent did it | 2 work jobs, 1 filing, 2 slots, 1 stop: a run can be in any stage while another is in any stage and the stop arrives |
| `DispatcherLive` | nothing is lost without a reason; the node implements the queue; jobs settle, a stop ends, a filing does not wait | 1 work job, 1 filing, 1 slot; 1 stop, 1 crash, 1 lost call in any order, so a shutdown can be interrupted by a crash |
| `LandingSafe` | what a landing pushes and destroys | 3 paths (one in the base, one new, one build output), 3 dispatches of which the second's agent may commit, 1 foreign push, 1 stray edit; three dispatches, because what the second does to the branch shows in the third |
| `BeadsSafe` | a re-plan revises, done means filed, cycles are reported | 2 beads, 2 filings of 4 plans (a plan, its reverse, an invalid one, one by id), 2 edits by agents, 1 failure: the second filing meets what a broken or an edited first one left |
| `BeadsLive` | a pass records what it read, the control plane catches up | 3 beads, 1 filing, 1 edit, 1 failure: a bead needs two blockers for one to go and one to stay |
| `ControlPlane` | quorum, backed successes, one token per grant, owners' roles, routing, the schema's order | 4 approvers and a quorum of 2, so that two can be one short each; 3 calls under one key, with two bodies, two items and two credentials; 2 clients of 1 grant; 4 rigs, 2 repositories of two projects that want one rig name, and one of a closed project; 2 changes of owners among 3 people; 4 migrations, 2 of them seeds, 2 deployments, 2 upsets |
| `Integrations` | a source stays subscribed, one bead per candidate, candidates become work, tokens and keys | 1 source and 3 names, so that a stray, a replacement and the recorded one exist at once; 3 tasks of which one can never be published; 3 decisions, of which one supersedes another, one is in a project without a graph and one is blocked; a limit of 2 and 3 mishaps; 2 keys, 4 tokens, 2 logins, a fetch of one instant, 4 instants; 2 askers of each kind of token |
| `Node` | alerts follow the facts, runs are torn down, plans can run, the witness tells once and in the end | one unit, mount, gateway, stream, graph and source for each class of trouble, 2 admins, 2 mishaps; 2 runners of a cell for 2, each signalled once; 2 roles, 4 models of 3 providers and every catalogue; 1 polecat, 2 rigs, 2 recipients, 3 troubles |

The counters of stops, crashes, lost calls, dispatches, foreign pushes, stray
edits, beads, filings, edits, failures, guesses, tokens, mishaps, upsets,
troubles and instants are bounds of the models (`MaxStops` and so on).
`CHECK_DEADLOCK FALSE` in every run: when everything is settled and the bounds
are used up, nothing is left to happen.  Only `ControlPlane` and `Node` list a
type invariant.  Those of the queue and the dispatcher are theorems; the others
are stated in their modules and hold on the same instances.

### Where the code and its comments part

Three are runs of one property that the code violates; `PROJECT.json` quotes the
comment.

| Run | What happens |
|---|---|
| `FilingOnShutdown` | SIGTERM with a filing in hand and no live run: main returns, the filing's row stays running |
| `EarlierEditDropped` | an earlier run's edit of an existing file is dropped by a later run that leaves the file alone |
| `ChangeUnrecorded` | a migration command that dies after a file's own COMMIT leaves a change that is not recorded, and the next deployment makes it again |

More were met on the way.  Each is a formula at the end of its module, next to
the properties that hold; no run is kept for them.

The dispatcher and landing:

* `OneRunPerBead`: a bead dispatched twice runs twice at once, in one worktree
  directory.
* `PushedIsProposed`: a stop during a landing leaves a pushed branch whose pull
  request is never opened.
* `FailedTwiceRanTwice`: a failed run with a failed check is described as having
  run twice.
* `NoteMeansInterrupted`: a run that succeeded and is reported during a stop is
  recorded as done and as interrupted.
* `BeginningDestroysNothing`: a worktree kept because its landing failed is
  removed by the next dispatch.
* `NothingToLandMeansNothing`: a branch ahead of the base is reported as nothing
  to land.
* `RedispatchIsNoDeletion`: a re-dispatch whose agent commits its own work
  removes what was delivered (landing.go:787).

The beads:

* `ReplanNeverDuplicates`: a bead updated by its id gets the other plan's key, so
  filing its own plan again makes a second bead (work/filing.go:17).
* `RunBeadsAreLabelled`: the job of a dispatched run has no project, so the beads
  its agent makes are never labelled (dispatcher/main.go:354).
* `DeletedDependencyDisappears`: the last dependency of a bead, removed in Beads,
  stays in the control plane (migration 0097:69).

The control plane:

* `RejectionEndsIt`: a rejection and the approval that completes the quorum can
  both be under way, and the later commit decides (approvals.go:166).
* `ReplayAnswersItsRequest`: the key does not cover the item in the path, so a
  request for another item of one route is answered with a recorded response
  (idempotency.go:11).
* `UnresolvedIsSomebodys`: a delegated item is shown in nobody's inbox, as the
  listing takes open and snoozed ones (attention.go:66).
* `RunsInNoForeignCheckout`: a directory of the right name is taken for the rig,
  also when it holds another project's repository, or half a clone.
* `OnlyOwnersInherit`: two concurrent changes of owners leave the owners of the
  first their roles.
* `NeverSomebodyElsesRecords`: a fresh installation that dies while it sets the
  seeds aside is next time a database with migrations, and runs the other seeds
  (roles/control_api/tasks/main.yml:205).

The integrations:

* `OneSubscriptionPerTarget`: a kind that could not be listed, or a create that
  was not answered, and the next pass makes a second subscription
  (reconciler.go:196).
* `ProposalsNameTheirBead`: a link that fails after the bead is recorded is never
  tried again, since both columns are set (records.go:174).
* `EditsSurvive`: the file is read for its SHA right before it is written, so an
  edit made before is replaced (contents.go:127).

* `DecisionsBecomeWork`: a decision of a project without accepted tasks is proposed
  and never gets its bead, since only the pass over tasks makes graphs
  (records.go:66, records.go:371).
* `ResyncRecovers`: a merge in the second of a change already projected is dropped,
  from its delivery and from every resync (reconcile.go:207, 0013:83).

The node:

* `RefusedOnlyAtTheCeiling`: OpenCode's state directories lie beside the run
  directories and are counted with them (runner/plan.go:1141).
* `WarnedBeforeLapse`: `cmd/monitor` leaves `SubscriptionRenewalGrace` at zero, so
  there are no twelve hours of warning (monitor.go:255).
* `LiveWitnessIsHeard`: a witness with nothing to report says nothing and is
  reported silent; and one talking cell hides another's silence.

And some checked properties end where the code's care ends.
`NewFilesSurviveRedispatch` is about the landings that stage what they push
(`OwnPush`): what an agent commits itself is pushed as it is.
`EverythingWrittenIsPushed` is about worktrees: in the shared checkout a file
that was dirty before the run is taken for somebody else's, also when the run
edited it further.  `CatchesUp` holds while every bead's labels name at
most one project, and one the control plane has: `system_project_bead` raises for
two (0083:94) and for a slug no project has (0083:103), the request ends, and so
does every later one, at the same bead.  `RunsTornDown` excepts a signal where nothing catches
it (before the agent starts, or after it ended) and `os.Exit` when the state
directory cannot be made: then the settings file, with the gateway token in it,
stays.  A removal that fails leaves what it could not remove, with a line in the log.
`CandidateBecomesWork` needs fewer rows that stay pending than the pass's limit; a
decision needs a graph, and for its proposal that what it supersedes is merged.
`AlertsFollow` needs a database that answers: without one the monitor
writes to the journal and files nothing.  `ProjectionCatchesUp` is about a pull
request that a resync is told of, and leaves open which of several changes in one
second the row shows; a lost check suite is never asked for again.
`SuccessIsBackedByARun` says a success was some call's under the same key, route
and body: not that it was for the same item (`ReplayAnswersItsRequest` below the
module's properties), nor that it was the only one, as two calls under one key may
both miss the lookup and both run.

### Fairness

`LoopSpec` is `Spec` with `LoopFairness`: both loops run on tickers, a reply
comes back or the client's 60 s timeout does, a cancelled call returns, and once
the context is cancelled every run moves on, because the stop reaches the
agents' processes; main returns when it can and systemd restarts the unit.  It
says nothing of runs on a node that is up: an agent may go on for ever.
`StopIsBounded` and `FilingDoesNotWait` hold all the same.  `ClaimedIsSettled`
has `RunFairness` as a premise: an agent ends by itself, or by the stall limit
and the deadline of `dispatcher.run`; a check by its timeout; a call by its own.
That git returns is an assumption: `landing.Exec` gives it neither a context nor a
timeout (landing.go:43).

`PassFairness` (`BeadProjection`): the dispatcher passes on its ticker and a
request ends, one way or the other.  Agents and filings may stop at any point.

`IntegrationsFairness`: the timers of the reconciler of subscriptions and of the
publisher fire again and again and a unit's deadline ends its pass; Google settles,
one way or the other, an operation it accepted.  That anybody merges a pull request
is not assumed.

`QueuesFairness`: the resync of every quarter of an hour lists and projects.
Nothing is assumed of deliveries, of the goroutines that project them, or of the
replay: `ProjectionCatchesUp` rests on the resync alone.

`NodeFairness`: systemd's timer starts a monitor pass and its timeout ends it; a
runner that nobody killed goes on, and its deadline ends the agent (that `bd show`
returns is an assumption: cmd/runner/main.go:212 gives it no deadline); the witness's
ticker fires and each of its calls has a timeout.

Nothing is assumed anywhere of dispatches, stops, crashes, mishaps or losses.

## Proofs

Checked by TLAPS for all values of the constants, from the ASSUMEs in the
modules, which TLC evaluates on the instances.  The queue and the dispatcher:
`NoJob` is no job, `KindOf` and `Wants` have their types, the two pollers are the
main loop (work) and the file loop (file), the bounds are naturals,
`MaxConcurrent` at least one.  Plans: the items of a plan are a sequence,
and the projects on record and the fall-back are projects.
Approvals: the approvers are finitely many.  Requests: the calls are finitely
many, the rates are positive.  The device flow: a client redeems one grant.
Projects: none is called nobody, and the owners that are proposed are two members.
Routing: names, rigs, projects and the checkouts a cell was built with have their
types, and no repository belongs to the project called unknown.  Migrations: they
are numbered.  Tokens: the HTTP clients' timeout is shorter than the margins and
than a token's life.  Publishing: candidates are numbered, and what supersedes is
a decision.  Deliveries: GitHub
sends a bounded number, at least one.  The node: the default model is one of the
models, the rig of the code is a rig, the town's rigs have recipients, and the
bounds on agents, continuations, stops, mishaps and troubles are naturals.

`WorkQueueProofs`: `QTypeInvariant`, then the inductive invariant behind
`LocksInvariant` and `HandedOutInvariant`: the locks are exclusive, a locked row
is queued, and the claims of a row are determined by its status.  Each needs the
others: the commit's UPDATE is unguarded, so only the lock keeps it from handing
out a row twice.  `QueueImplementsLifecycle` follows step by step.

`DispatcherProofs`: `NodeInv` is `TypeOK`, the queue's invariant, and the facts
that tie the node to it: a filing in hand is a job, a process that is down holds
nothing, the set of live runs is finite, `RunningRowsAreAccountedFor` and
`SlotsMatchRuns`.  `NodeImplementsQueue` gives the queue's theorems to the
dispatcher; `TokenHeld` shows that a main loop asking for work holds a slot
token; `LaunchAdds`, `LiveStays` and `ReportEnds` say what each action does to
the set of live runs, and cardinality lemmas turn that into the token count.
The theorems are `TypeInvariant`, `NodeImplementsQueue`, `AccountedInvariant`
and `SlotInvariant`.  A second invariant, `OutcomeInv`, stands on the first and
gives `OutcomeInvariant`, that a job recorded as done was done by an agent:
`RunIsSound` says what the locals of a run amount to at each of its stages, and
besides it takes that each loop claims and holds only its own kind of row, that
an unclaimed row has no run, and that a settled row's run is over.

`LandingProofs`: `LandingTypes`, and five action properties, each from what the
earlier steps of a dispatch have left.  What a landing pushes has the
remote-tracking branch as its lease (`PushIsLeased`).
`LeaseProtects` needs `NoForeign`: the version of somebody else's commit has come
to no checkout, no local branch and no remote-tracking branch, so a lease that
holds is on a commit without it.  `LandsItsOwnWork` needs `UntouchedIsTheBases`:
what no run touched is the base's on the bead's branch and in its worktree; in the
shared checkout it may be anything, but then it was dirty before the run, and the
landing passes it over (`LandingLeavesUntouched`).  `RedispatchKeepsNewFiles` needs
no invariant besides the types, only the lease and what restore and reclaim do
with the remote-tracking branch (`DeliveredFilesAreCommitted`).
`PushDeliversTheRun` and `WorkIsNeverLost` need `WrittenIsKept`: nothing is dirty
in a worktree before its run, and what a run wrote is in its checkout until it is
landed, afterwards there or on the local branch.  So what is committed is what was
written (`WrittenIsCommitted`), and a worktree that git has nothing to say about
holds no last copy (`ReleaseDestroysNothing`).

`BeadProofs`: `ReplanRevises` from `KeyInv`.  That two beads never share a key
is not inductive: a lookup could miss the bead an earlier filing made.  What is
needed is that a bead's `external_ref` is what it was created for, unless it was
revised by id; then `CreateKeepsKeys` uses that the lookup found nothing, and
`ReviseKeepsKeys` that what was found has the key already.  `CyclesAreReported`
needs only that a failure is counted, and that fewer edges have no more cycles.
`DoneIsFiled` is about a filing that is over, but the invariant follows it from
item to item (`FilingInv`): the items before the next have beads, distinct ones,
that say what the plan says (`FiledUpTo`), and once edges are drawn, those that are
wanted are there (`Wired`).  `PassesRecord` follows a pass the same way (`PassInv`):
first the beads the request has been through exist, so that no blocker is without
a row when the links are looked at; then their links are those that were read
(`RecordedIsRead`).  It is why the handler may take one bead at a time.

`AuthorityProofs`, approvals: `StatusInvariant`.  The status of the row is not
inductive: an open transaction carries a count that is to become the status.
`SetsWhatItSaw` says that what it is going to set is borne out by what it has seen,
and that its own decision is not there yet; `SeenGrows` that decisions committed by
others do not make it wrong.

`AuthorityProofs`, the device flow: `OneTokenInvariant`.  Between the mint and the
bind a token exists that no grant points at; the invariant says what each poll
holds at each of its three calls: a token of its own, minted in the name of
somebody who approved the grant, although the grant may name another by now.
That a bound poll's token is the one the grant names (`BoundIsNamed`) then leaves
room for one of them only.

`AuthorityProofs`, projects: `OwnersInvariant` holds although a change may take
roles away in the name of owners read long before: they are of the one project
whose owners it replaces, and the new owners' roles are granted after.

`ControlPlaneProofs`: `SuccessInvariant` needs every recorded response to be that
of a call whose handler ran and took effect, and to bear that call's key, route
and body; `RoutedInvariant` is an action property, from what
the three queries have found at their own moments.

`ControlPlaneProofs`, migrations: `SchemaInvariant`.  The release is an initial
segment of the migrations; whatever a process knows was on record when it read it
and still is (`RecordGrows`); so the first that it does not know comes right after
those on record, or was changed by another deployment already.

`ControlPlaneProofs`, types: `ControlPlaneTypes` is of `CPSpec`, the composition,
and carries each part's invariant through it.  Three of the types are no types:
that the limiter's window counts no more calls than there are needs that each call
is counted at most once and none before it is known (`MeterInv`, `CountedOnce`);
that a token's owner is a signer needs that a poll goes on to mint only in the
name it read (`SignersOnly`); and that only an attached repository has a check
needs that detaching takes the check along (`HoldingsInv`).

`IntegrationProofs`: `KeyInvariant` ties each key of the cache, and of each answer
that is still to be stored, to the last instant it was published: none was withdrawn
before the instant the set is kept under, in whatever order sets arrive.
`ScopeInvariant` and `LiveInvariant` share an invariant: the shared cache holds only
tokens for no repository in particular, an asker is on the wire no longer than the
timeout, and a delegated token's reckoned expiry is later than its own by less than
the margin. `BeadInvariant`: whatever the pass is about to create, the graph was
asked for and does not have. `ReceiptInvariant` is from `DeliveriesInv`: whoever is
about to mark a delivery processed (the goroutine, or the replay at the head of its
batch), and whoever has, finds the row no older than what the delivery said
(`Covered`). That holds for all three writers because each only makes the row newer
(`RowOnlyGetsNewer`). The replay's batch is said as the sequence whose entries
arrived one `Before` the other, and not computed by a fold, which cannot be reasoned
about here.

`NodeProofs`: the theorems are of `NodeSpec`, the composition, and every program's
invariant is carried through it.  `PlanInvariant` follows `New` down each of its
refusals.  `InboxInvariant` is from `WitnessInv`: a row names one of four
situations, all names of unsafely stored work being one, and there is one live row
per person, polecat and situation.  A decision raises a row only where there is
none (`RaiseTypes`), and so a report, whole or cut off, keeps it so
(`IngestKeepsRows`); a report is a closed form, not a fold, since it is a union of
what its decisions raise.  `NodeTypes` has among its types that a runner resumes no
more than maxContinue times.

`QTypeInvariant`, `TypeInvariant`, `HandedOutInvariant`, `LandingTypes` and
`BeadTypes` state what no run lists; the others are the properties of the runs,
for all instances.

Every invariant, action property and refinement a passing run lists is a theorem.
Only model-checked: liveness, which is beyond the prover (`ClaimedIsSettled`,
`StopIsBounded`, `FilingDoesNotWait`, `CatchesUp`, `SourceStaysSubscribed`,
`CandidateBecomesWork`, `ProjectionCatchesUp`, `AlertsFollow`, `RunsTornDown`,
`WorkAtRiskIsTold`); and the violations.

## Not modelled

`components` in `PROJECT.json` has a line for each package.

* Stateless or single-statement code: HTTP adapters, rendering, prompt assembly,
  parsing, configuration, the API specification, the web interface, the MCP
  server and the command-line clients; the domain store, the registry, events
  and audit, whose rules are constraints of the database and row-level security;
  knowledge, ingest, inference and verification, which call a model and write
  what it says; the cost import, a batch whose repetition the database's keys
  absorb; the operations commands.
* Waiting and streaming (`waitforjob.go`, `stream.go`): reads of rows that
  `WorkQueue` moves, until they are settled or the 45 seconds are over.
* The dependency cache (`cmd/dispatcher/deps.go`).  Its hazards are real -- an
  agent that is killed in the middle of an install leaves half a tree, which is
  saved as it is (deps.go:92); two runs of one rig save through the same
  `.incoming` and `.old` (deps.go:103); a hard-linked file edited in place is
  edited for all (deps.go:59) -- but they are about trees of files copied one by
  one, and what a run makes of a broken tree is its install command's affair.
* In `Landing`: `Refresh` and the movement of the base branch, and a crash in the
  middle of `Land`, which leaves the shared checkout on the bead's branch.
* In the queue: the heartbeat and the plan, columns nothing reads back into a
  decision; the moment a transaction becomes visible, as against `created_at`.
* In `Requests`: `Limiter.Forget` and `Sweep`, which nothing calls.
* A monitor whose database is unreachable: it writes to the journal and changes
  nothing that is modelled.
* The trust file of a cell is read and written in two steps in `Runner`, so one
  runner drops another's entry there as in the code; what the agent then does
  about its question is not modelled.

## Plan

Done: the queue, the dispatcher, landing, filing and the bead projection; the
control plane's writes; the integrations; the node's other programs; the proofs
above.  Left, in this order:

1. Safety of `Subscriptions`, of which only liveness is stated: what a pass may
   delete at Google, and the types of the integrations, as theorems.
2. `Landing`: `Refresh`, a moving base and a crash inside `Land`.
3. The dependency cache, as far as what is saved can be told apart from what is
   restored.
