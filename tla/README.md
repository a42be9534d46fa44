# A verification development of secopsctl

secopsctl is a Go command line tool, SDK and MCP server for a hosted security
operations platform. It keeps the platform's configuration as files: `pull` writes what
is live into a directory, an operator edits and reviews it, `push` applies it. Nothing
stays in memory between two commands, other people change the same instance in its UI,
and calls fail, time out and lose their answers. What can go wrong is therefore a matter
of *sequences*: a pull that died half way, then an edit, then a push whose third call was
lost. The modules here model those sequences; TLC explores them on small instances and
TLAPS proves the main safety properties for every instance.

The core is modelled deeply and the rest broadly. The engine, the adapter, the rules, the
retry loop, the MCP server and each update of several calls have a module of their own. The
commands, of which there are some three hundred and fifty, are *programs*: data that two
interpreters run, one for those that change something and one for those that only read.

Paths below are relative to the repository; `PROJECT.json` maps each definition to its
source lines.

## 1. The system

| component | state it keeps | operations | hard behaviour |
|---|---|---|---|
| reconcile engine (`internal/mirror/reconcile`) | one directory of files per surface, `.pullstate.json`; live objects | `Pull` (with prune), `BuildPlan`, `Push` (create, update, delete, refresh) | per-item failures, crashes between a call and its file, UI edits after the plan |
| JSON surface adapter (`internal/mirror/jsonsurface.go`) | none; a snapshot of names and ids around a create | list, load, write, create with guards, resolve the new id by name, merge an edit over the live body | namesakes, a listing that lags, an id that cannot be resolved after a create that worked, masks in files |
| rules lifecycle (`pull_rules.go`, `push.go`, `push_rules_lifecycle.go`, `rulemeta.go`) | per rule `<slug>.yaral` and `<slug>.yaml` (id, etag, deployment); live text and deployment, changed by different calls | pull rules, rules-create, promote, rules-update, rules-deploy, rules-disable | two resources and two files per rule, etags on one resource only, 409s, masked patches |
| multi-call surfaces (`dashboards_surface*.go`, `datataps_surface.go`, `datatables_surface.go`, `parsers_surface.go`) | one file per object | pull, create, update, prune | a chart list replaced whole; a delete followed by a create; rows in batches; a version that must be validated before it is active |
| curated rules (`pull_curated.go`, `push_curated.go`) | `curated/deployments.yaml`; a tree of featured rules with an index | pull, push of the switches in one batch; pull of the featured rules | a listing that is partly unreadable, torn files, file names that collide |
| bespoke surfaces (other `*_surface.go`, `registry_*.go`) | none | closures List, Create, Update, Delete of one kind of object | a whole object sent back, etags that cannot be read, half a listing |
| HTTP retry and transports (`internal/httpretry`, `soar/internal/transport`, `chronicle/client.go`) | attempt, waits spent, limiter | send, classify, back off, honor `Retry-After` | a 5xx or a lost connection after the effect; late effects of abandoned requests |
| list calls (`chronicle/client_paginate.go`, `PaginateV1Alpha`) | a page token | walk, walk up to a limit, one page, page by number, stream | caps, objects that come and go between pages, two generations of an API |
| MCP server (`internal/cli/mcp*.go`) | loaded tools per group, stdout under a lock, spill directory, child processes | initialize, tools/list, tools/call (run, help, usage, focus, unfocus, typed tools) | a goroutine per call, shared map and directory, full disks, kills, other servers on the same directory |
| command guard and audit log (`readonly_audit.go`, `prefer.go`) | `audit.jsonl` | dry run, `--yes`, read-only mode, modern or legacy call | what is recorded if the process dies; a fallback after a call that did take effect |
| commands that change something | none | some 150: a guard, reads, calls | a step of several that fails, edits by others between the read and the call |
| commands that only read | none | some 200 | part of the whole shown as the whole |
| health check, wide searches, verification, batches | none | `doctor`, `search udm` over chunks, `dashboards verify --all`, `charts batch` | goroutines and channels under one deadline; a retry that hides or invents a failure |
| drift gate (`drift.go`) | none | a read-only fold over BuildPlan | what an incomplete listing proves |
| credentials, configuration, command line and output | a cached token; a config file | resolve, parse, print | few: no protocol of their own |

**Interactions.** A command of the CLI passes the guard, builds a *surface* (a record of
closures) and hands it to the engine, or calls a rules function, or calls the SDK itself.
All use SDK methods, and every SDK method is one or more calls of a transport's retry loop.
The MCP server runs the same commands as child processes. Shared state exists in four places
only: the live instance (with everybody), the directory (with the operator and with other
commands), the audit log and, in the server, the focused map, stdout and the spill directory.

**What makes each part correct.**

* Engine: prune never deletes what a pull merely failed to see, nor what a file tracks;
  one file never makes two objects; a report without failures means directory and
  instance agree; dry runs change nothing; every command ends.
* Adapter: a redaction marker never replaces a secret; a create overwrites nobody's object
  and its file gets the id of its own; after an undisturbed call file and object agree.
* Rules: no edit of a teammate is overwritten by an update made from an older text; a
  deploy changes only what its preview showed; an undisturbed pull or deploy converges.
* Multi-call surfaces: whatever a push leaves half done, the next one completes; a push
  that succeeds undisturbed leaves file and object equal; no chart is lost or changed that
  the plan did not show.
* Curated rules: no deployment is switched that nobody asked for; every featured rule is filed.
* Retry loop: a mutation takes effect at most once, and an error that says "refused" or
  "canceled" means not at all; waits respect the hint and the budget; calls return.
* MCP server: results are whole, whatever sweeps or fills the spill directory; nothing is
  orphaned; the client's list of tools ends up right; no accepted request goes unanswered.
* Commands: every effect was confirmed and is recorded; how a command ends says what it
  did; what it shows is whole or it says so; what it judges is so; what waits ends.

`PROJECT.json` lists the hazards behind these, each at its line, with the properties
that catch it.

## 2. The modules

| module | models | role |
|---|---|---|
| `GuardedSync` | what the tool promises about an instance | abstract |
| `Reconcile` | `Pull`, `BuildPlan`, `Push`, pull state, operator and UI | detailed; implements `GuardedSync` |
| `JsonSurface` | `createObject`, `updateObject`, `deleteObject` call by call | detailed |
| `RulesLifecycle` | the rules commands, call by call and file by file | detailed |
| `ServiceCall` | what a caller may rely on for one API call | abstract |
| `HttpRetry` | `do` / `doRequest` with `Policy` and a server | detailed; implements `ServiceCall` |
| `McpServer` | `runMCPServe`, its goroutines, client, spill directory | detailed |
| `DashboardPush`, `DataTaps`, `DataTables`, `CuratedDeployments`, `FeaturedRules` | one surface each, one file (of data taps the directory of one slug), call by call | detailed; composed in `MCUpdates` |
| `ParserVersions`, `Doctor`, `EventWindows`, `ChartVerify`, `ChartBatch` | commands that poll, race, chunk, retry, repeat | detailed; composed in `MCCommands` |
| `GuardedCommand`, `CommandTable` | any command that changes something; the programs it runs | interpreter and data; composed in `MCCommands` |
| `ReadCommand`, `ReadCalls`, `MirrorReads`, `ReadTable` | any command that only reads; how each list call pages; the programs | interpreter and data |
| `ReconcileProofs`, `JsonSurfaceProofs`, `RulesProofs`, `HttpRetryProofs`, `McpProofs`, `UpdatesProofs`, `CommandsProofs`, `GuardedProofs` | | theorems and proofs |
| `MCReconcile`, `MCSurface`, `MCRules`, `MCHttpRetry`, `MCMcp`, `MCUpdates`, `MCCommands`, `MCRead` | | constants and initial states for TLC, the two compositions, the list of programs |

`ServiceCall` is what justifies the faults of the other modules. Its outcomes "refused",
"canceled" and "local" (no effect) are `ApplyFails` in `Reconcile` and `CallFails` in
`RulesLifecycle`; "lost" and "failed" (perhaps an effect) are `ApplyLost` and `CallLost`;
the answered ones are the successful actions. `JsonSurface` looks inside the closures that
`Reconcile` takes at their contract; its answers "done", "refused" and "failed" are what
`ApplyCreate` and its neighbours, `ApplyFails` and `ApplyLost` assume of them. The two are
not composed: the adapter's state is empty whenever the engine takes a step of its own.

`MCUpdates` and `MCCommands` are disjoint unions: the variable `surface` or `command` chooses
the part that takes steps and the others are at rest. The parts share nothing in the code
either: one run of the tool pushes one file of one surface, or is one command. Whatever a
property says of the union it says of each part, and the theorems are about the parts alone.

### Reconcile

*State.* `live`, `files` and `pullState` outlive a command. The rest are the locals of
the running function: `listing` is the `ListResult`, `work`/`written`/`stale` are Pull's
loop and `liveFiles`, `todo` is what is left of the plan, `echo` what the server returned
for the mutation whose file is not refreshed yet, `sum` the `Summary`. `pc` says which
loop the command is in. `lastPull`, `hidden`, `maker` and `undisturbed` are history:
no guard reads them.

*Actions.* `PullList`, `PullWrite`, `PullState`, `PruneFile` and `PullDone` are Pull in
its order, one file per step; `PushLoad`, `PushPlan`, `ApplyCreate`, `ApplyUpdate`,
`ApplyDelete`, `Refresh` and `PushDone` are Push, one call or file per step. Each has the
failing alternatives the code distinguishes. `Crash` ends a command anywhere and may tear
the file being written; `UiChange` and `EditFile` are the others, between two commands or,
under a fault, during one.

*Abstraction.* A body is a member of `Contents`, which includes the display name; `SlugOf`
and `Suffixed` are the file name of a body and of a body among namesakes; `Overlay` is
`DeepMerge` (which never removes a live key: that a local removal cannot be expressed is
visible as an update that changes nothing). Canonical forms are the bodies themselves.
The surface's closures are taken at their contract, and what they report of a mutation is what
`Reported` says: an object with its identity, one without ("anonymous": the echo of
`createObject` when nothing in the listing could be told to be the new object,
`jsonsurface.go:321-326`), or the zero object ("mute", `surface.go:72-74`), upon which
`refreshLocal` leaves the file as it is and the mutation still counts. An object of `List` has
its `ServerID` (`surface.go:57`).

### JsonSurface

*State.* `live` and `indexed` (what the listing knows of) are the instance. `pc`, `op`,
`local`, `key` and `raw` are the running closure and its arguments, `taken` is
`beforeNameIDs`, `found` and `item` the list entry resolved, `answer` what was returned.
`made`, `sure` and `calm` are history: the object the create call made; whether the listing
before the create was whole and nobody made a namesake since; whether nobody interfered.

*Actions.* A create is `BeginCreate` (marker guard), `Snapshot` (id guard, names),
`CreateCall`, `Resolve` (or `ResolveIdless`, `NotFound`), `Fetch`; an update is
`BeginUpdate` (merge, marker guard), `UpdateCall`, `Reread`; a delete is one call. Each call
may be refused or lost and each read may fail. `UiChange` is the others, also between two
calls of a closure, and `Index` the listing catching up.

*Abstraction.* A body is a name, a secret in a scalar and a secret in an array: these are
the cases `DeepMerge` and `ContainsValue` tell apart. A kind of surface says whether bodies
are read by id (`getOne`), whether the file carries the id and the create call saves under
it (`keyed`, as connectors do), and whether the list has no ids (`idless`). With equal
names `Resolve` takes any fresh entry, the first in an order the server chooses.

### RulesLifecycle

*State.* `live` holds text, version and deployment of each rule; `yaral` and `meta` are
the two files. Etags are numbers that grow, and only UpdateRule compares them. `snap`,
`comps`, `texts`, `work` and `pend` are the locals of the running command. `base` is
history: the rule and version each `.yaral` was last written for.

*Actions.* A planning step per command (`PullList`, `CreatePlan`, `UpdatePlan`,
`DeployPlan`, `DisablePlan`) does the local reads and the first listing; from there on
each API call and each file write is a step: `PullDeps`, `PullText`, `PullMeta`;
`CreateCall`, `FirstDeploy`, `Redeploy`; `UpdateCall`, `DeployCall`, `DisableCall`,
`DeployAlready` (the 409 branch); `Record`. `CallFails` and `CallLost` stand for refused
and lost calls.

*Abstraction.* A companion that breaks off before its id is readable, which `trackedRules`
skips, is `Torn`. One that breaks off later still parses (`Cut`): its etag is empty, which is
written 0, and its deployment holds what had been written of it (`CutDeps`). A listing may leave
out a rule's text ("text") or its etag ("etag"); `PullText` then asks for the rule, and what that
does not give either stays out of the companion (`LeftOut`, `bare`). With an empty etag
UpdateRule sends no guard, and `UpdateCall` has none.
Which conflicts the server reports is taken from the comments beside the 409 branch,
since the server is external. Whether two live rules may share a name is the constant
`Namesakes`.

### HttpRetry

One call. `attempt`, `wait` and `spent` are the loop's variables; `open` holds the
attempts the server is still working on, including those the client gave up, and `effects`
the attempts that took effect. `ConnectionLost` and `ServerError` leave the server free to
act before or after. A 4xx or a 429 is refused before any effect: that is how the code
reads them (`retryStatuses5xx`). Durations are numbers; a jitter is any number in its
range; `ParseHint` is a choice from `Hints`; the limiter passes or fails. The shift that
doubles the base is computed without its overflow, which the code maps to `Max` as well.

### McpServer

The read loop is `pc` and `held` (the answer to tools/list it has computed and not yet
written); each request goes through `task`: queued, inline (answered by the loop), started,
notify, running, answer, done. Every read or change of the shared map under the mutex is
one step, and so is every frame written to stdout. A running child writes chunks of any
size into its `overflowWriter` (`Write`), whose spill may fail at any point; `Finish` is the
end of the child and the choice between inline text, pointer and error, with the sweep.
`Kill` and `Restart` start another server on the same directory, `Age` makes a file old.
The client is a program that sends when it likes, lists the tools again when told, and may
close stdin. "exec" stands for run, help and typed tools; "bad" for a call that is answered
with an error before it does anything; metadata methods other than tools/list, which
answer with constants, and the wording of results are left out. The bytes of an output are
numbered, so that "whole" and "prefix" can be told.

### DashboardPush, DataTaps, DataTables

*DashboardPush* is `dashboardsUpdate` and `dashboardsCreate`. `boards` and `bodies` are the
dashboards and the charts, two kinds of object of the platform; `file` is the mirror file,
whose tiles are references or inline charts (`dashboardWantsInline`). `want`, `have` and
`todo` are the push's locals. `PushBoard` loads, lists and plans; `DashStep` takes the
chart calls one by one, then the one PATCH that sends the whole list of charts, then the
reading that rewrites the file. "about" stands for name, description and filters; "look" for
the parts that are sent only when the file has a value; "place" for position, layout and
filter ids. Each call may be lost or fail, a chart may be unreadable (`degraded`), a
dashboard may be missing from the listing (`hidden`), and the UI may act meanwhile.

*DataTaps*: the directory of the taps of one slug. `TapPull` gives each live tap a file of its
own, named by the slug and, where several share it, by the tap's id too; it may end after any
file, and `tapPulled` is the record in `.pullstate.json` that it did not. `TapPush` is the plan:
files whose tap is not live are creates, files that differ from theirs are updates, and taps
without a file are deletes if `--prune` was given and a whole pull is on record. Otherwise the
engine skips the deletes and does the rest (`engine.go:364-379`); `tapPrune` says whether it may.
The platform has no update of a tap, so an update is `DeleteOld`, `CreateNew` and then
`WriteTap`; `PruneTap` deletes and ends the push. Each call may be refused, take effect without an
answer, or be the last step before the process dies (`TapGiveUp`). `tapSlips` (taps created whose
id reached no file), `tapOthers` (taps of others, files removed by hand) and `tapCalm` are history.

*DataTables*: `CreateTable` or `PatchTable`, then `ReplaceRows` and `AppendRows`, then the
file. One batch is one row. The display name of a table is its resource id.

### CuratedDeployments and FeaturedRules

One file holds every deployment of a curated rule set; a push sends those that differ in one
batch, which the platform applies as a whole. `PullCurated` leaves out what it cannot read;
`touched` is history: the switches that were edited, changed by others or cut off by a torn
write since the file was pulled. `FeaturedRules` writes the rules one after the other
(`WriteRule`), then the index (`WriteIndex`); the vendor changes its rules meanwhile.

### ParserVersions

Versions of a parser are immutable. A push is `CreateVersion`, `PollValidation` with growing
sleeps up to a limit, `ActivateVersion` with bounded attempts, `WriteParser`. The platform
validates and switches on its own time. Time is the seconds slept.

### Doctor, EventWindows, ChartVerify, ChartBatch

*Doctor*: each probe, the race, the two checks and the collector are goroutines: `LaneAnswers`
and `LaneSends`, `RaceStep`, `SiemAnswers` and `SiemSends`, `SoarDone`, `Collect`; `Tick` is
time up to the deadline. The channels have the capacity the code gives them.

*EventWindows*: a search over a window wider than a request accepts is a sequence of chunks.
Their bounds are rounded to whole seconds when sent, so that time is counted in
fractions; whether the platform counts the end of a window is not known, and both are tried.

*ChartVerify*: a chart goes from "wait" over "get", "query" and "execute" to "told", at most
`Concurrency` at a time, each call with its retries; `truth` is what the dashboard really is.
`asked` is how the verdicts are wanted: `verify --all --json` prints them and ends well whatever
they are (`FleetExit`, `dashboards_fleet.go:269-275`).

*ChartBatch*: `charts batch` reads the titles that are there, then adds the missing ones; the
history `made`, `misread` and `lostAdds` says which charts it made and what it could not know.

### GuardedCommand and CommandTable

A program is a lead, then routes (one for each generation of the API), each a sequence of
steps. A step reads or changes; it may be a guard of one of the kinds the code has; "fails"
says what the code does when its call fails: stop, fall back to the next route, tell and go
on, go on silently, undo. In the programs of `preferModern` the printing of a result is a step
too (`Output`), as it may fail after a confirmed change and what fails falls back (`Emit`;
`unprinted` is its history). `Guard` is `deriveGuard` with `auditMutation`: what
`--dry-run`, `--yes` and read-only mode decide, with the record that is written before the
first call and may fail. `ChangeStep` makes the call, which may be refused, or take effect
and yet answer with an error. `Kill` ends the process anywhere; `EditElsewhere` is another
user's change after the command has read what it will send back. A loop over objects is
unrolled twice. `CommandTable` is one definition for each command and for each closure of a
bespoke surface that changes something (`PushOne`, what the engine does around it).

### ReadCommand, ReadCalls, MirrorReads, ReadTable

A step of a program fetches rows (in one answer, page by page with a token, by number, up to a
limit, or a scan of the newest so many), reads something for each row, narrows or cuts, and says
what happens if it fails (stop, tell, tell in text only, drop the row, fall back). Objects come
and go between any two calls; the platform cuts its listing into pages as it likes. "facts" are
the fields of a row that come from calls of their own. `ReadCalls` has the list calls of the two
SDKs, each as it pages: `paginate` stops at its cap without an error, `PaginateV1Alpha` with one,
and `ListUserProfiles` counts pages by number and stops silently at its last. `MirrorReads` has
the listings of the surfaces and the pulls that do not use the engine.

## 3. What TLC checks

Passing runs (all with deadlock checking off, because commands, calls and the server stop
by themselves once the bounds are used up; that they stop *only* then is what the liveness
properties say):

| run | instance | shows |
|---|---|---|
| `reconcile_faults` | 2 identities, 3 bodies (two with one name), 3 commands, 1 outside change, all ten faults | `HiddenNeverPruned`, `NeverPrunesTracked`, `NoSilentDuplicate`; `KeepsPromise`: the engine implements `GuardedSync` |
| `reconcile_quiet` | the same, 2 outside changes between commands, refused and lost calls, echoes without an identity | `InSyncWhenDone`, `RoundTripClean`, `SummaryTruth`, `CommandEnds` |
| `json_surface` | 3 identities, 2 names, 2 secrets, 4 files, 3 kinds of surface, 2 closures, 1 outside change, all five faults | `NoMaskLive`, `EchoIsOwn`, `Settled` |
| `rules_faults` | 1 rule, 3 texts (one invalid), 4 deployments, 3 commands, 2 outside changes, all ten faults | `NoBlindRevert`, `DeployOnlyPlanned` |
| `rules_pairs` | 2 rules, 2 files, 3 commands, 2 outside changes, failing calls, UI edits during a command, listings without texts or etags | `DeployConverges` with several items, renames and one item failing of two; `PullFaithful` beside the files of renamed and deleted rules |
| `http_retry` | any method, 4 attempts, waits below and above the budget | `KeepsPromise` (implements `ServiceCall`), `CallReturns` |
| `mcp_server` | 3 requests of three mixes, inline limit 2, outputs of up to 3 bytes, full disk, overlong line, kills | `ResultsWhole`, `NoOrphans`, `ViewFresh`, `ExitComplete`, `RequestsEnd` |
| `surface_updates` | a dashboard of 2 charts with room for 2 more and for a second dashboard, 2 commands; 5 taps of one slug, 3 commands; a table of up to 3 rows, 2 commands; 2 switches, 3 commands; 3 featured rules, 2 pulls; an edit of the file and a change by others in each | `PushSettles`, `NoChartDropped`, `OnlyShownChanges` (dashboards), `TapHealed`, `TableSettles`, `NoBlindSwitch` (curated), `EveryRuleFiled` (featured) |
| `cli_checks` | 3 parser versions, 6 activation attempts, 300 s; a deadline of 6 ticks, hedge at 2; 3 events around chunk bounds; 2 charts, 2 tries, 2 dashboards; 3 charts, files of 2, 2 runs; every program of `CommandTable` | `ParserSettles`, `VerdictTruth`, `NeverSilentlyShort`, `VerdictsSound`, `BatchConverges`, `EffectsAccounted`, `OutcomeTrue`, `TwiceOnlyInDoubt`, `WaitsEnd` |
| `read_commands` | every program of `ReadTable`, 3 objects, a cap of 2 pages, pages of 1 | `ReadsWhole`, `ReadsEnd` |

Runs that end in a violation, each of a sentence the repository says of itself:

| run | what the code does |
|---|---|
| `reconcile_half_pull` | a pull that dies at a failed write leaves the `.pullstate.json` of an earlier pull, and a later `push --prune` trusts it |
| `rules_no_deployments` | a pull that could not list deployments writes companions that ask for disabled rules |

More configurations show the other findings; they are run by hand:

| configuration | of module | what TLC finds |
|---|---|---|
| `RulesClaims.cfg` (with `-continue`) | `MCRules` | a 409 about `enabled` is reported as "already in the desired state" while the other fields of the patch are dropped; two rules whose names have one slug share one pair of files after a pull; an update from a companion that broke off before its etag overwrites a teammate's edit |
| `SurfaceLag.cfg` | `MCSurface` | a namesake that the listing did not show before the create is taken for the object just created |
| `ReconcileClaims.cfg` (with `-continue`) | `MCReconcile` | an object named like a namesake of others with its id appended shares that one's file, and the pull does not round-trip; a create whose echo names no object counts as created, and the next push makes a second object |
| `UpdateClaims.cfg` (with `-continue`) | `MCUpdates` | a table whose rows were all removed keeps its rows and gets its file overwritten; a second pull of featured rules leaves the files of the first with old texts; a chart kept as a reference is edited by the next push, and its title emptied |
| `CommandClaims.cfg` (with `-continue`) | `MCCommands` | changes made twice (after a lost answer, or because the result could not be printed), dropped or overwritten; copies left over; `verify --all --json` ends well with broken dashboards |
| `ReadClaims.cfg` (with `-continue`) | `MCRead` | rows nobody asked for, more rows than `--limit`, a listing of users cut silently, `case aging --limit 0` that shows the scanned cases only |

**Bounds, and why they are enough.** `MaxCommands` and `MaxEdits` and their like bound a
history, the identities and bodies a state. The properties of the engine relate at most: one
pull, one change and one push (three commands with the pull before it); two objects with one
name, one of them renamed or hidden; one file that is refreshed while another waits. Two
identities and three bodies contain each of these, and `MCOverlay` contains an edit that
`DeepMerge` cannot express. Three identities in `JsonSurface` are an older namesake, the
object made and one others make; two closures let a file written by one be updated by the
next. For rules, a torn or half-written pair needs one rule and three commands, a failure of
one item of several needs two rules. In `HttpRetry` four attempts is the code's default;
three waits that each fit the budget and together do not are among the values. In `McpServer`
one byte more than the limit separates inline from spilled output, two commands suffice for
one sweep to meet another's file, and two lists, a load and an unload for a stale answer to
overtake a notification; `Quotas` says how many requests of each kind a client sends, because
all mixes at once would only repeat these.

The updates need a push that is cut off and the one after it, hence two commands; taps need a
third, as the plan of a push may follow a pull and a push that was cut off. One
tap is there at the start, one comes from others, one from a file written by hand, and two replace
others, hence five. A dashboard needs a chart with a query, one without,
one added by the file and one added by others. A table needs a batch that replaces and one
that appends, and a row that is neither. Two featured rules share a slug and the third has an
id that begins like another's.

Of the commands: the timeouts and attempts of a parser push are the code's own; 6 ticks hold a
hedge, a late answer and a deadline that passes between them; the events lie before, on
and after the bound of a chunk and in its last fraction of a second; two charts share a
concurrency of two, and two tries are one retry; a cap of two pages with three objects is a
listing that fits and one that does not. The theorems below do not depend on any bound.

Each property is also run against a changed definition that stands for a plausible bug (a
dropped guard, a recorded constant, a swapped source of an identity), and TLC finds the
violation; these are the operators marked "Mutant" in the modules, used by no action.

**Fairness.** `Reconcile` assumes `WF(PullStep)` and `WF(PushStep)`: the loops hold no lock
and wait for nothing but calls, which return. That calls return is `CallReturns` of
`HttpRetry`, under `WF(ClientStep)`: `http.Client.Timeout` (60 s by default from the CLI, 5 min
in the SDK) ends each request and the budget ends the waits. Nothing obliges the server to
answer, the operator to run a command or others to edit. `McpServer` assumes that the read
loop and each goroutine get their turns and that children end, which their requests' timeouts
give. The client is assumed to keep reading stdout; a client that stops reading blocks every
writer, as it would any program on a pipe. `ParserFairness` says that sleeps end and calls
return, not that the platform ever validates or accepts; `DoctorFairness` that time passes,
goroutines run and a call whose context is done returns, not that a probe answers;
`WindowsFairness`, `VerifyFairness` and `ReadFairness` that each call returns, again by its
timeout. `JsonSurface`, `RulesLifecycle` and the surfaces of `MCUpdates` are checked for
safety only: their steps are a sequence of calls without a loop that waits.

## 4. What is proved

Every theorem holds for every instance, directory, fault set and bound.

| theorem | what it says |
|---|---|
| `ReconcileProofs!TypeCorrect` | all variables are typed |
| `ReconcileProofs!HiddenSafe` | no delete is ever pending for an object the last recorded pull skipped |
| `ReconcileProofs!TrackedSafe` | no delete is ever pending for an object some file tracks |
| `ReconcileProofs!NoDuplicates` | a file whose object was made, every step reported as a success, and whose echo named it, never makes a second one while the first is live and listed |
| `ReconcileProofs!PromiseKept` | the engine implements `GuardedSync` |
| `ReconcileProofs!RoundTrip` | after an undisturbed whole pull nothing is planned, if `SuffixesApart` |
| `ReconcileProofs!PushConverges` | a push without failures that nobody disturbed, and whose echoes named their objects, leaves nothing to plan |
| `ReconcileProofs!SummaryTrue` | what such a push counts took effect, and what took effect is counted or failed |
| `JsonSurfaceProofs!SurfaceTypeCorrect` | types |
| `JsonSurfaceProofs!SecretsSurvive` | no redaction marker goes live |
| `JsonSurfaceProofs!CreateBindsOwn`, `CreateSparesOthers` | a create that saw the whole listing reports its own object and overwrites none |
| `JsonSurfaceProofs!FilesSettle` | an undisturbed create or update leaves file and object equal |
| `RulesProofs!RulesTypeCorrect` | types |
| `RulesProofs!NoEditLost` | no update with an etag overwrites a version its text was not written for, and none goes out without one unless a listing left it out or a companion broke off |
| `RulesProofs!DeploySendsPlan` | a deploy changes only the fields its preview showed, whatever others changed since |
| `RulesProofs!PullMirrors` | a pull without a mishap leaves each live rule its pair of files, of which nothing is to be pushed, if `~Namesakes` |
| `RulesProofs!DeploymentsConverge` | a deploy or disable without a failure leaves live and companions as was wanted |
| `HttpRetryProofs!RetryTypeCorrect`, `BudgetHolds`, `HintHonored` | attempts, waits and budget |
| `HttpRetryProofs!AtMostOnce` | `HttpRetry` implements `ServiceCall` |
| `McpProofs!McpTypeCorrect` | types, and memory per call is bounded by the limit |
| `McpProofs!SpillsSafe`, `HeadsAreStarts`, `NothingOrphaned` | results are whole, heads are prefixes, nothing is orphaned |
| `McpProofs!ViewsAgree` | a client that lists when told ends up with the loaded tools |
| `McpProofs!ExitAfterAnswers` | the process does not end before the answers |
| `UpdatesProofs!DashTypeCorrect`, `DashNoChartDropped`, `DashOnlyShown` | types; a push drops and changes only what its plan showed |
| `UpdatesProofs!DashPushSettles` | after a push that reports success and that nobody disturbed, file, dashboard and charts are as `PushSettles` says, whatever earlier pushes left half done |
| `UpdatesProofs!TapTypeCorrect`, `TapStraysCounted`, `TapsHeal` | types; taps without a file are no more than ids that reached none, taps of others and files removed; a clean push heals, and prunes if it may |
| `UpdatesProofs!TableTypeCorrect`, `TableRowsNeverMixed`, `TablePushSettles` | types; while nobody else writes, the rows are those there were or the first ones of the file; a clean push settles |
| `UpdatesProofs!CuratedTypeCorrect`, `CuratedSwitchesSeen`, `CuratedPushSettles` | types; only what was touched is switched; a clean push settles |
| `UpdatesProofs!FeaturedTypeCorrect`, `FeaturedAllFiled` | types; after a whole pull every rule has its file and record |
| `CommandsProofs!ParserTypeCorrect`, `ParserPushSettles` | types; a successful push means validated, active and named by the file |
| `CommandsProofs!BatchTypeCorrect`, `BatchRunsConverge` | types; a batch that is run again does not duplicate, but for what it could not read |
| `CommandsProofs!VerifyTypeCorrect`, `VerifyIsSound` | types; verdicts are what the charts are, and so is the end of the command but for `--all --json` |
| `CommandsProofs!DoctorTypeCorrect`, `DoctorTellsTheTruth` | types; the race and the report are true |
| `CommandsProofs!SearchTypeCorrect`, `SearchNeverSilentlyShort` | types; no event is missing in silence or counted twice |
| `GuardedProofs!GuardedTypeCorrect`, `EveryEffectAccounted`, `OutcomesTrue`, `NothingTwice` | for *every* program: effects are confirmed and recorded, endings are true, two generations change the same only after a lost answer or a result that could not be printed |
| `GuardedProofs!ReadTypeCorrect`, `WholeReads` | for every program: what promises the whole and says nothing shows the whole |

The theorems of `GuardedProofs` are about the interpreters with the set of programs as a constant:
they hold of commands that are not written yet, as long as these have the shape that
`ProgramsAssumption` and `ReadAssumption` ask for (a guard before each change and never passed
over, no confirmed change before a fallback but for what cannot be printed, one change to undo;
rows got once, before anything is done to them). TLC checks that every program of the tables has
it. The only assumptions of the modules are the named ones on the constants (types of the
functions, that the placeholders are no identities, bodies or files, bounds that are positive).
TLC evaluates them in each run. Two theorems have a hypothesis more, which the code does not see
to and without which the property is false:

* `RoundTrip` has `SuffixesApart`: no suffixed name is another object's name. `Pull` appends the
  id to names that several objects share and does not look whether the result is taken
  (`engine.go:59-67`); `ReconcileClaims.cfg` is the counterexample. The instances of the
  passing runs satisfy the hypothesis.
* `PullMirrors` has `~Namesakes`: no two live rules share a name. Else they share a pair of files,
  which `RulesClaims.cfg` shows.

**Arguments.** Each proof has the same frame: an invariant `IInv` that holds initially and
is kept by every action, one lemma per group of actions.

* *Engine.* `ShapeInv` says which locals mean something at which `pc`. `PruneInv` carries the
  argument: deletes are planned only while `.pullstate.json` says "complete", it says so only if
  nothing was hidden by the pull that wrote it, and a planned delete is of an identity that was
  *listed*, so no identity the server hands out later, which is what a refresh writes into files,
  can be one of them. `NeverPrunesTracked` alone is not inductive because of that refresh: the
  facts on `echo` and on identities not yet born are what is missing. `TieInv` carries
  `NoDuplicates`: an object that a file made is tied to that file, by its id in the file or by the
  refresh that is still to come, unless the tie was lost. For `PromiseKept` the mapping takes a
  step of the push at the call and everything else to a stutter, a step of others or a change of
  files; `ConfirmInv` gives what the promise asks of a call (confirmed, no dry run, deletes only
  with `--prune`), `PruneInv` that what is destroyed has no file. `MirrorInv` follows a pull: each
  object it is through with has its file, under the stem it alone has, and no file but those
  written is kept. `SettleInv` follows a push: a file that is not on the plan any more is in step
  with its object (`InStep`), one that still is will be by its item or its refresh, and each
  object not up for deletion is *filed*, has had or will have a file. An echo that names no object
  ends both arguments for its file: the tie is lost and the push no longer counts as undisturbed
  (`UnnamedSpoils`). `CountInv` ties each counter to the set it counts, short of the create whose
  refresh is pending; both sets grow by one element at a time, so that their cardinalities can be
  compared whatever the instance holds.
* *Adapter.* `SureInv`: while a create is sure, every live object of its name is one of
  `taken` or the one it made, so whatever the re-list shows, a fresh entry of that name can
  only be its own. Names others give and the lag of the listing are in `sure`, not in the
  snapshot, which is why `SurfaceLag.cfg` needs an object the snapshot missed. `MaskInv`:
  what is about to be sent was checked and nothing changes it between check and call.
  `CalmInv` follows the body from the call to the answer.
* *Rules.* `VersionInv`: versions only grow, every version the tool holds anywhere (files, loaded
  companions, the pending companion, a listing) was once reached (`Known`), and a companion never
  claims a later version than the text beside it was written for (`Fits`, which the empty etag, 0,
  satisfies). A listing of a running pull never trails a companion. An update sends the
  companion's etag, the server accepts only the live one, hence companion ≤ base ≤ live collapses
  to equality unless it is empty: the text was written for the version it replaces. That a pull
  writes the text before the companion is what keeps `Fits` over a crash. `MirrorInv` says of a
  pull that nothing went wrong with that it holds what is live, and that each rule it is through
  with has its two files, or one and the companion about to be written. `DeployInv` says of a
  deployment command with no failure and no mishap that an item whose turn is to come finds the
  deployment as it was listed, so that the patch of what differs leaves nothing that differs
  (`PatchReaches`) and a 409 cannot happen; and that an item done has live, and in its companion
  or the one about to be written, what was wanted. It needs that no two companions name one rule.
  A disable may keep in the companion a frequency that the instance does not have (`Says`).
* *Retry.* `CleanInv`: while a mutation may still be sent, none of its earlier attempts is
  open or took effect, because only a 429 is retried for it. This is the fact the
  refinement mapping needs for "at most once" and for "canceled means untouched".
* *MCP server.* `OrderInv` (at most one request is inline, all are done when the process
  exits), `SpillInv` (a call that has not run has no file; one that runs and is not broken
  has copied everything so far), and `ViewInv`: when no change is on its way to the client,
  then a request to list is queued, or the list the loop holds is up to date, or the last
  list in stdout is. `ViewFresh` speaks of an empty stdout only and would not survive the
  client's reading without it.
* *Dashboards.* `DashInv`: while a push runs, `want` is the file as it was loaded, what is
  still to be done are charts of it, and there is a dashboard to work on (`PushLoaded`).
  The PATCH takes the layout from the file only if the sets of charts of file and listing
  are the same and no chart was added (`SameMembership`), so that its list has every chart of
  `have`; otherwise it keeps the list there is. `PushSettles` needs `KnownInv` at all times: file,
  listing and dashboards have one entry for a chart and name no chart that is yet to be made, so
  that the id the server hands out next is a stranger to all three. While nobody disturbs,
  `UndisturbedPush` holds: the charts of the dashboard that the listing did not show are as many
  as the new charts the push is through with, each of which is one of them (`ChartsInStep`); any
  other chart is as listed until its turn (`AsListed`) and says what the file says after
  (`Agrees`); fields and places are as listed until the PATCH and the file's after
  (`FieldsInStep`). That a skipped chart clears `allMatched` and an added one sets `addedNew` is
  what makes the layout that is sent the layout of the charts there are (`SameCharts`).
* *Taps.* `KnownTaps`: no file and no plan names a tap not yet made (`BornTaps`), a file whose
  name is a tap's id tells of that tap while it lives (`NamedTaps`), and a planned delete is of no
  tap that has a file (`PlannedTaps`). From it the strays: a tap is left without a file only by a step
  that counts it, and a file that a pull writes over tells of no other live tap. `CalmTaps`
  follows an undisturbed push: what the plan is through with is live as its file says
  (`FilesDone`), what it is not yet through with is as it was planned (`OthersLeft`), and if it
  prunes, each live tap has a file, is the one just made, or is up for deletion (`TapsKept`). At
  an empty plan that is `TapHealed`.
* *Tables.* `RowsInv` (what is live is a prefix of the new rows, or all of the old) and
  `CalmTable` (live and sent rows are the file's rows).
* *Curated and featured rules.* `CuratedInv`: what stands in the file is live unless it was
  touched, and a push sends only what differs, hence only what was touched. `PullInv`: the
  rules listed and done have their files, and a file written by this pull is not written again.
* *Parser.* Only the version the push made is awaited and activated (`NewVersion`), and one
  version at most runs (`OneActive`): so a successful push leaves its own active.
* *Batch, verification, health check, search.* `BatchInv`: what was made is among the titles
  read, or was misread or lost. `VerifyInv`: the stage of a chart bounds what it can be, and the
  fleet is bad exactly if a chart was wrong, up to what could not be read. `DoctorInv`: every
  outcome that is in a channel was given by its goroutine, once. `SearchInv`: the chunks so far
  hold all events of their part of the window, unless it is told.
* *Interpreters.* `GInv` is `LiveInv` (whatever is live comes after a guard that allowed
  it), `GuardInv` (what a guard allowed is confirmed and recorded or its failure told) and
  `DoneInv` (the steps passed are live, told or dropped). `RInv` has `WalkInv`: every object that
  was there all along and lies before the mark of the walk is held. Objects that come and go
  move others between pages but not across the mark of a token; of pages by number that is not
  true, which is why a walk by number promises nothing.

**Only model-checked.** All liveness (`CommandEnds`, `CallReturns`, `RequestsEnd`, `WaitsEnd`,
`ReadsEnd`), as the prover has no rule for fairness; every safety property of the passing
runs has its theorem.

## 5. Observations from the modelling

The findings of `PROJECT.json` quote the sentence that the code departs from. Besides them,
by part:

**Engine, adapter, rules, retry, server**


* A plan is made from the listing even when the listing is incomplete (`engine.go:152-157`):
  a file whose object `List` skipped is planned as a create, although `object.go:44` says
  "ActionCreate means a local file has no matching live object". `createObject` refuses
  where the file carries the id; elsewhere a second object is made.
* An update overwrites an edit made in the UI after the listing: `Surface.Update` has no
  etag, while `docs/design/architecture.md:147-149` says "never silently overwrite a
  concurrent edit".
* If the get after a create fails, `fetchAndBuild` writes the list entry into the file; on a
  surface whose list has summaries the next plan shows an update nobody asked for.
* A pull that dies between the two files of a rule can leave its text beside the companion
  of another rule with the same stem; a later rules-update then puts one text over the
  other rule, with an etag that matches. `NoBlindRevert` speaks of one rule's files.
* `docs/tips/03-yara-l-rules.md` says that a `.yaral` without a companion has no id "yet, so it
  cannot already exist server-side". After a crash between CreateRule and the companion it
  does, and the next rules-create makes a second rule. The engine has the same window
  between a create and the refresh of its file (`GuardedSync` allows it, as no promise of the
  code forbids it). An update whose echo names no object takes the identity out of a file that
  had one, and the next push creates from it.
* No pull removes the files of a rule: those of a rule renamed or deleted in the UI stay tracked
  and are still planned. `rules-update` of a renamed rule's old files is refused while their etag
  is old; `rules-deploy` of them has no guard, and two pairs of one rule may ask for two
  deployments.
* `docs/design/architecture.md` says that idempotent *reads* are retried and never a
  mutation; the code retries PUT and DELETE. A DELETE that took effect without an answer
  is sent again and may be reported as a 404.
* When the platform leaves a new rule disabled, the companion records it as *wanted*
  disabled, so the `rules-deploy` the message advises changes nothing.
* The branch of the guard that would ask interactively cannot be reached: dry run is the
  default whenever `--yes` is missing.
* A tool loaded by `usage` is listed again when its group is loaded, and unloading the group
  reports success while the tool stays.
* After a rule that runs without a frequency was disabled by `rules-disable`, its companion keeps
  the frequency it had, and plan and instance differ until the next deploy (`push.go:469`).
* A torn `deployments.yaml` still parses, with the cut fields false (`NoBlindSwitch` excepts
  them), and a create or update that a surface does not support is "skipped": neither counted
  nor failed (`engine.go:303-306`).

**Surfaces**

* A dashboard that cannot be read is missing from the listing, and its file is planned as a
  create: a second dashboard. A chart added in the UI after the listing is dropped by the PATCH,
  since the whole list is replaced; `NoChartDropped` speaks of the charts the plan saw.
* While the charts of file and listing are not the same, layout, order and removals are
  deferred; the file is then rewritten from what is live, and the operator's layout and
  removals are lost. A push that fails after it added a chart leaves that chart without an id
  in the file, and the next one adds it again.
* The charts' "etag-guarded" edits fetch a fresh etag right before the edit. `AddChart` does
  not send filter ids. A dashboard without any titled chart or query is read as references
  and never settles when charts are added.
* A table that was created and whose rows failed leaves a file without a name: until a pull
  the next push creates again and gets a 409. A table whose rows cannot be read is written as
  an empty CSV, with a warning; pushed back, it is the case of `UpdateClaims.cfg`.
* A data tap whose file was not written is a stray that only `--prune` removes, once a whole pull
  is on record; a failed write of `refreshLocal` is only a warning.
* When a second tap takes a slug, the pull that follows writes the first under a suffixed name and
  leaves its old file. Both name one tap; if one is then edited, the push replaces the tap, the
  other file keeps the id that is gone, the push succeeds, and the next one makes another tap.
* A parser push makes another version whenever the active one is not the file's. The waits use
  `time.Sleep` and do not see a canceled context.
* A rule exclusion whose deployment call fails is live and has no id in its file; a
  scheduled report is updated without an etag if the read of it fails; feeds, forwarders and
  playbooks always are. `UpdateReferenceList` drops an emptied description: the push says
  updated and the plan never settles.
* `PullSOARCases` writes the first 100 open cases; `allRecordsSelector` reads one page of
  10000; `PullSOARPlaybooks` has no caller.

**Commands that change something**

* The audit log says "confirmed" although a check after the guard may stop before any call.
  AI generations outside read-only mode leave no record; commands that guard each generation
  write two.
* `playbooks duplicate` and the batch delete ignore `--legacy`; the cleanup after a failed
  duplicate may fail silently; the duplicate falls back from a 500 of the legacy copy.
* A parser extension update that fails after its delete leaves the log type without one, and a
  second run says there is nothing to update. `PlaybookSave` reports drift as an error though it
  saved. `dashboards fix` ends well with fixes that failed; `charts add` only notes a filter
  that was not bound. A repeated DELETE whose first answer was lost ends with a 404.
* `investigate` triggers again while an investigation runs; with `--json` one that ended in
  ERROR exits 0; the state is not read after the last poll.

**Commands that read**

* `paginate` stops silently at its 50 pages while `PaginateV1Alpha` fails. `streamArray` takes a
  stream that is cut between two elements for a whole one. `GetAlerts` keeps older alerts when
  a later fragment is empty.
* A count counts an event on a chunk's bound twice (`--count-only`, totals); the note of
  `--all` to raise `--limit` can be false; the last part of a second is not searched.
* A verification whose `GetQuery` fails skips the check of reserved names; a dashboard with
  transient verdicts only exits 0.
* Left out without a word: the failed parts of `info soar-system --json`; that `case list
  --json` filters one page; playbooks whose
  statistics failed (`playbooks health`); prevalence in `SummarizeEntity`. `dashboards lint`
  takes an unreadable chart for a clean one and `charts list` calls it a dangling reference.
* `playbook-errors` takes status "0" for none where it also means faulted, and skips faulted
  nested blocks. `marketplace list --installed` filters on a field that its comment says is not
  populated.

## 6. What is not modelled

* Drift's counts over surfaces and its exit codes: a fold over results of `BuildPlan`, whose
  plan and mark of an incomplete listing `Reconcile` has.
* How the bespoke surfaces build, overlay and redact a body, and their `LoadDir` and `Write`:
  conversions of one format to another, without a state; when and with what they are called is
  in `CommandTable`, `MirrorReads` and `Reconcile`.
* `DeepMerge` and `Canonicalize` on JSON trees: a constant in `Reconcile`, three fields in
  `JsonSurface`. Which key of a payload is the id or the name, and `decodeRawList`: formats.
* Paths, bodies and decoding of SDK methods of one request; credentials (a token source of an
  external library); configuration (read once at start); flags, the command tree, tables and
  JSON output; in the MCP server, how tools and argv are made from that tree.
* The raw `soar legacy call`, whose effect is whatever its caller names; the SOAR file writes
  of pulls that are no surface.

## 7. What is left

1. `DeepMerge` and `Canonicalize` as functions on small trees against a reference definition,
   and the overlays of feeds and forwarders with them.
2. The verdict of drift over several surfaces, one of them incomplete.
3. The disk of pulls outside the engine: a CSV or a YAML that a killed pull leaves.

## 8. Running

    tlc -config ReconcileFaults.cfg MCReconcile.tla      # and so on, see PROJECT.json "runs"
    tlc -continue -config CommandClaims.cfg MCCommands.tla
    tlapm ReconcileProofs.tla                            # and the other *Proofs modules

The longest runs (`reconcile_faults`, `reconcile_quiet`, `cli_checks`) take two to three
minutes with two workers. `UpdatesProofs` and `CommandsProofs` are the longest proofs.
