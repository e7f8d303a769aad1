# Sub2Proxy: specification, model checking and proofs

Sub2Proxy turns airport subscriptions and hand-added share links into local
proxy ports. One Go process keeps the configuration (`config.yaml`) and a
deduplicated node pool in memory, refreshes subscriptions in the background,
drives an embedded mihomo engine, and serves a REST API with a web console.
This directory holds TLA+ modules translated from the Go source under
`internal/` and `cmd/` and from the TypeScript source of the console under
`web/frontend/src/`, TLC configurations that check them on small instances,
and proofs checked by TLAPS.

## 1. Inventory

| Part | Source | State (lock) | Operations | What makes it correct |
|------|--------|--------------|------------|-----------------------|
| Node pool | `internal/pool/pool.go` | proxy list and refresh time per subscription id, manual proxies, derived node map, measurements (`Pool.mu`) | SetSubscriptionNodes, RemoveSubscription, SetManualNodes, SetLatency, reads | the node map and the measurements agree with the lists |
| Node cache | `internal/pool/cache.go` | `nodes.json` | SaveCache (copy, then rename), LoadCache | agrees with the pool; a deleted subscription does not come back |
| Subscriptions | `internal/core/subscriptions.go` | `cfg.Subscriptions` (`App.mu`), workers (`wmu`) | Add, Update, Delete, Refresh, refreshOne, worker loop | a delete removes the nodes and the worker for good |
| Manual nodes | `internal/core/nodes.go` | `cfg.ManualNodes` (`App.mu`) | AddManualNode, DeleteNode | the pool has exactly the links' nodes |
| App lifecycle | `internal/core/app.go`, `cmd/sub2proxy/main.go` | — | Start, Shutdown, kill | a stop loses a change only for a named reason |
| Config store | `internal/config/store.go`, `internal/fsutil` | dirty flag, timer (`Store.mu`), `config.yaml` | Schedule, writeNow, Flush | no mutation is forgotten; what the file holds was in memory |
| Config load, validation | `internal/config/config.go`, `validate.go` | — | Load, Validate | what memory holds loads again |
| Port mappings | `internal/core/mappings.go`, `internal/mapping` | `cfg.Mappings` (`App.mu`) | Create, Update, Delete, SetEnabled, AllocatePort, Resolve | one mapping per port; a handler touches one mapping |
| Config generation | `internal/engine/generate.go` | — | build | outbound names are unique and stand for the listed nodes |
| Engine | `internal/engine/engine.go` | reload channel, debounce timer, last plans, last error (`Engine.mu`), rate samples (`rateMu`) | Trigger, reloadLoop, applyNow, Status | mihomo serves the state or the status shows an error |
| Latency tester | `internal/pool/latency.go` | in-flight table (`Tester.mu`) | Test, TestSet, TestAll | one measurement of a node at a time; waiters are woken with its result |
| Authentication | `internal/api/auth.go` | sessions, failure counters (a mutex each) | login, logout, requireAuth | sessions end; locks begin and end when they should |
| Fetch and parse | `internal/subscribe` | — | Fetch, Parse | external input becomes a list or an error |
| REST handlers | `internal/api` | — | one per route | thin calls into `core` |
| List pages | `web/frontend/src/pages/{subscriptions,nodes,mappings}.tsx` | rows, spinners, the dialog and confirmation that are open (React state) | load, row button, save, delete, retry | a table at rest shows the server; no button runs twice; spinners end |
| Node sweep | `pages/nodes.tsx` | `pollRef`, `testingAll`, the counter of each interval | test all, tick, unmount | one poll at a time, and it ends |
| Status page | `pages/status.tsx` | the last answer, first load, error | poll every 2 s | shows what the server settles at |
| Mapping dialog | `components/mapping-dialog.tsx`, `node-multi-select.tsx` | form fields | open, edit, submit | an edit keeps what it does not touch; it refuses what the server refuses |
| Speed test of a row | `components/mapping-speedtest.tsx` | results per node | open, answers | a spinner has a test behind it |
| Router and API client | `App.tsx`, `lib/api.ts`, `pages/login.tsx`, `app-sidebar.tsx` | route, cookie | request, 401 redirect, login, logout | a valid session is not thrown out without need |

### How the parts interact

Handlers, the per-subscription workers, the boot-time refresh and latency sweeps
are goroutines that call `core.App`. A mutation changes the configuration under
`App.mu` or the pool under `Pool.mu`, then calls `persistAndReload`: the
store's `Schedule` (a timer whose callback copies the configuration and replaces
`config.yaml`) and the engine's `Trigger` (a channel of capacity one whose
consumer restarts a timer and then reads configuration and pool through
`engineSnapshot`). Pool changes that come from subscriptions are also saved to
`nodes.json` at once. Every component has its own lock and an operation takes
them one after the other, so between any two of its critical sections anything
else may run. That is where nearly all of the difficulty is:

- a decision taken under `App.mu` is carried out under `Pool.mu` later (refresh
  against delete, add against delete, two reloads of the manual links);
- a fetch of up to 15 s lies between a refresh's look at the configuration and
  its return to it;
- two files are written at different times, by different goroutines, and a kill
  may come between any two writes;
- requests coalesce twice, in a flag or channel and in a timer that is restarted;
- a debounced write is under way when the process is told to stop;
- mihomo may refuse a configuration, and the old one then serves on;
- nodes leave the pool while mappings, measurements and waiters refer to them.

The console is one thread, but every handler awaits the server, and between two
of its statements anything else may happen to the page:

- answers come in any order, are lost after the server did what was asked, or
  find the page gone and perhaps mounted anew;
- a handler acts on what it finds when its answer comes, a dialog or an interval
  that may not be the one it was started for;
- other tabs and the program itself change the server's rows meanwhile;
- a refused call sends the whole console to the login page, whichever session it
  was made with;
- the form and the server validate by rules of their own.

`PROJECT.json` lists each hazard at its line with the properties that cover it,
or the reason none does yet.

## 2. Modules

| Module | Models | Uses |
|--------|--------|------|
| `NodePool` | the pool: lists per source, the derived map, measurements | — |
| `AppCore` | subscriptions, manual nodes, workers, both files, boot, kill, shutdown | extends `NodePool` |
| `NodeSync` | what the two halves of an operation keep in agreement when operations overlap | extends `AppCore` |
| `DurableConfig` | what the store promises (abstract) | — |
| `ConfigStore` | `Schedule`, timer callbacks, `writeNow`, `Flush`, exit | implements `DurableConfig` |
| `PortMapping` | the mapping handlers, validation, port allocation | — |
| `EngineConfig` | `build()`: names, groups, listeners, and what mihomo accepts | — |
| `DataPlane` | mappings, pool, engine and mihomo together | extends `PortMapping`, `EngineConfig` |
| `ReloadPromise` | what the engine promises (abstract) | — |
| `Engine` | `Trigger`, `reloadLoop`, the debounce timer, `applyNow`, what `Status` reports | implements `ReloadPromise` |
| `LatencyTester` | `Test`, `TestSet`, the in-flight table, over a pool that changes | — |
| `ListPage` | what the three list pages share: load, row button, dialog, confirmation, calls under way | — |
| `SubscriptionsPage`, `NodesPage`, `MappingsPage` | the handlers and buttons of a page, and what its requests do on the server | extend `ListPage` |
| `Console` | one of the pages, its server and other clients | extends the three pages |
| `NodeSweep` | the polling of "test all" | — |
| `StatusPage` | polls and their answers | — |
| `Speedtest` | the popover of a mapping's row | — |
| `Session` | cookie, sessions, login, logout, the redirect of refused calls | — |
| `NodeSelect` | what a click makes of the list of selected nodes (operators) | — |
| `MappingForm` | the mapping dialog and the server's rules for its request | extends `NodeSelect` |
| `MCAppCore`, `MCNodeSync`, `MCDataPlane`, `MCBackground`, `MCViews` | instances for TLC; the last two put parts that share no state side by side, one per behaviour | |
| `AppCoreProofs`, `ConfigStoreProofs`, `DataPlaneProofs`, `EngineProofs`, `LatencyTesterProofs`, `ConsoleProofs`, `ViewsProofs`, `FormProofs` | theorems | each extends the module it is about |

Definitions that begin with "Mutation:" in their comment are deliberately wrong
variants of the definition after them; no specification uses them. They document
which mistake each property detects.

### How state and actions correspond to the code

**AppCore.** A thread is a goroutine with one operation in progress; `pc` names
the critical section it is about to enter. `AddSubscription` is the append
under `App.mu`, `StartWorker` the `Schedule` and `startWorker` after the
unlock, `BeginRefresh`, `CommitRefresh`/`AbandonRefresh` and `SetPool` the three
critical sections of `refreshOne`, `CacheSnapshot` and `CacheRename` the two
halves of `saveCache`, `Publish` is `persistAndReload`. `DeleteSubscription`
and `RemoveFromPool` are the two halves of a delete. `AddManualNode`,
`DeleteNode`, `DropLink`, `ReadLinks` and `SetManual` are the manual-node
handlers. A config write is `StartWrite` (the callback lowers the flag and copies) and
`EndWrite` (`AtomicWrite` lands or fails, and nothing is retried); several callbacks
may be between the two at once. `EngineApply` is the engine's reload, which reads the
pool while the flag goes down; `tried` is what it read, whether mihomo takes it or not.
`ConfigStore` and `Engine` have the timers behind the two flags. `Boot` is `Load`, `New`
and `Start`: subscriptions from `config.yaml`, nodes from `nodes.json` for every id in
it, workers for every subscription. `App.Shutdown` is run by a process of its own,
`Main`, while handlers, refreshes and callbacks may still be under way: `Flush`, then the
two halves of the last `saveCache`, then `Exit`; either write may fail and the stop goes
on. A subscription is its id, a link its fingerprint. The history variables `tainted`
and `leaked` name the two windows in which a delete is overtaken, and `unsaved` what may
keep the configuration out of its file; no action reads them.

**NodeSync.** Every step of `AppCore`, with three history variables that record what the
last step that installed manual nodes, saved `nodes.json` or stored a list left behind.

**ConfigStore.** A version of the configuration is the number of mutations it
contains. `writeNow` is `Clear` (drop the timer, lower the flag), `Copy`
(`configSnapshot`), `Replace` (`AtomicWrite`, which may fail). Timers are objects:
`Reset` starts the interval of a running one again and may arm one that has fired
already, so an armed timer can exist that the store no longer points to. Callbacks run
in goroutines of their own, and neither they nor `Flush` wait for one another, so any
number of writers may be in `writeNow` at once. `causes` is history: a failed write, one
that landed on a newer one, a handler that came to `Schedule` after `Flush` had looked.

**PortMapping, EngineConfig, DataPlane.** Mappings are a sequence, as in
`cfg.Mappings`. Create and update request the reload before they unlock, delete
and enable after (`owed`). `Resolve` keeps the places of the nodes that are
present. The engine's snapshot and the install of its result are two actions;
mihomo runs what was installed last (`served`) and refuses a configuration in
which two outbounds have one name. Names are sequences of a stem and the
numbers appended to it, so that a numbered name can meet a display name that
looks numbered. Requests name ports inside and outside the range, as validation has to
turn the latter away. `asked` is history: it flips with every request to reload, so that
requests that never cease can be told.

**Engine.** A version of the state is the number of changes it contains. `token`
is the channel of capacity one, `armed` and `left` the timer in ticks. `applyNow`
is `Tick` (snapshot), `Install` or `Refuse` (mihomo's answer), `Record` (under
`Engine.mu`).

**LatencyTester.** A test is a pair of who asked for it and the node; its stages
are `called`, then `measuring` and `measured` for the one that owns the
measurement, or `waiting` and `reading` for one that found it under way. A
channel is the test that made it. `outdated` is history: the tests for which the
result the pool has is older than their call.

**ListPage, the pages and Console.** The server's rows carry the time of their
last change, so that a table and the server can be compared without
modelling what a row says. A call is one of `Calls`: `Request` sends it, a `Serve`
action of the page is the handler of the API, and the action named for the code
after the `await` takes its answer. `Keep` is a request that changed the server
(the answer may be an error all the same), `Refuse` one that did not. A handler
whose change is followed by `await load()` keeps its slot, with `from` naming
the spinner that waits for the load. `Leave` and `Denied` unmount the page: its
calls go on and nobody waits for them (`live`). `why` is history: what first came
between the table and the server's rows.

**NodeSweep.** `BeginPoll` is `handleTestAll` after its answer, `Tick` an interval
that fires up to the `await`, `LoadDone` the rest of that callback, which reads
its own counter but stops what `pollRef` holds. `LeaveNodes` is the clean-up.

**StatusPage.** Each poll is a slot, so that three of them can be answered in any
order; `View` is what the page shows of its three states.

**Speedtest.** `tests` counts the tests of a node under way, of any opening;
`openedFor` is history, the rows there were at the last opening.

**Session.** Calls carry the cookie of the moment they are sent. `Visit` is the
address bar, after which everything in the browser but the cookie starts anew.

**MappingForm.** The fields are those of the dialog; what the browser lets through
is `Passes`, the payload `Request`, the rules of the server `Accepts` and its
result `Build`. Names and URLs are texts that may be empty, blank or padded, and `Trim`
and `UrlOf` are what submit makes of them; user names and passwords are told apart only
as far as the rules do, patterns by which engine takes them. One mapping is followed; `row` is
the page's copy, `stored` the server's. Whatever the server holds once passed its rules
(`Held`), at the start too: a configuration that does not is refused at the load.

## 3. What is checked

| Run | Instance | Shows |
|-----|----------|-------|
| `race` | two threads, one subscription, two callbacks that write, measurements, failing writes, kills, a SIGTERM at any moment, two restarts | nodes or workers of a deleted subscription survive only through the two named windows (`OrphanOnlyByRace`, `LeakOnlyByRace`); `NoLostReload`, `NoLostConfigWrite`; a persisted delete is final (`DeletedForGood`); a change is lost by a stop only for one of four named reasons (`ExitKeepsConfig`) |
| `served` | two threads, one subscription whose provider never answers, one manual link, failing writes, fairness | engine and file catch up unless requests never cease (`RequestsServed`) |
| `sync` | two threads, one subscription, two links, lists of one and two nodes, failing saves | pool, links, `nodes.json` and counts differ only by the step each invariant names (`ManualInSync`, `CacheInSync`, `CountInSync`) |
| `store` | two mutators, two timers, two callbacks that may overlap, failing writes, exits and kills, fairness | `NoLostMutation`, `ExitKeepsAll`, refinement of `DurableConfig`, `EventuallySaved` |
| `dataplane` | two ports, two nodes with the name of the group of port 1, seven inputs, fairness | `ConfigLoads`, `QuietServes`, `OthersUntouched`, `CatchesUp`, `DisabledCloses` |
| `background` | the engine, with two callers, four changes and two refused configurations; or the latency tests, with two sweeps of one slot each, a handler and two nodes that come and go; fairness | `NoLostTrigger`, `StatusTruthful`, refinement of `ReloadPromise`, `SettlesOrStarves`; `TableMatches`, `WaitersHaveOwner`, `NoOldResult`, `SweepsEnd` |
| `console` | each list page with two rows, two calls under way, one change on the server by anybody, lost and refused calls, fairness | `AtRestFresh`, `NoDoubleSubmit`, `SpinnersStop` |
| `views` | three intervals of two ticks with two callbacks each under way; three polls of a status with two values; a row's speed test over two nodes; two calls and two sessions; a mapping dialog with four stored mappings, five patterns, four intervals | `OnePoll`, `ButtonMatchesPoll`, `CutShortOnlyByLateCallback`, `PollingEnds`; `StatusCatchesUp`; `SpinnerHasTest`; `ThrownOutOnlyBy`; `RefusedOnlyFor`, `OthersKept` |
| `orphan` | two threads | violates `NoOrphanNodes` |
| `store_exit` | the instance of `store` without failing writes | violates `FlushedAtExit` |
| `names` | a node named like another's numbered name | violates `NoReloadFails` |
| `revive` | a mapping that loses its nodes and gets one back | violates `AutoDisabledStays` |

The runs that end in a violation show where the program departs from what its
documents and comments say:

- **orphan.** A refresh re-checks the id under `App.mu` and stores the nodes
  after the unlock; a delete in between removes the pool entry first, and the
  refresh puts it back for an id that no longer exists. No second
  delete can remove them, as the id is unknown, and a restart brings them back when
  the refresh has saved them to `nodes.json`.
- **names.** Nodes named `A`, `A` and `A #2` become `A`, `A #2`, `A #2`, which
  mihomo refuses: every reload fails until one of them leaves the pool.
- **revive.** Auto-disable is computed anew at each snapshot, so a mapping serves
  again as soon as a node is back, where the documents ask for a person to enable it
  (a unit test expects what the code does).

- **store_exit.** `Flush` finds the flag down while a callback is still writing, does
  not wait for it, and the process exits: the change is lost, with no failed write.
  `config-persistence/spec.md` (44, 54-56) says that on SIGTERM unwritten changes are
  flushed before the exit.

Four more places where the program departs from its documents have no run of their own;
the exceptions that the properties make name the first three:

- Of two adds of manual nodes that overlap, the one that copied the links before the
  other appended may install its nodes last (`core/app.go:184-197`): a link is then in
  `config.yaml` and its node is not in the pool until the next manual add or delete, or a
  restart, while `node-pool/spec.md:48-50` says that an added node enters the pool. It is
  `staleManual` in `ManualInSync`.
- Two config writes may be under way at once, and the one with the older copy may land
  last (`config/store.go:78-83`): the file lacks a change with nothing pending, until the
  next one, while `store.go:18-19` says that no stale copy is held. It is "overtaken" in
  `NoLostMutation`, and an abstract `Write` of an older version in `DurableConfig`.
- The comments at `core/subscriptions.go:33-34` and `pool/pool.go:45` speak of the
  deduplicated count; the code counts the list as it was parsed, and so does
  `CountInSync`, which claims nothing of what the count ought to be.
- Each sweep has a semaphore of its own (`pool/latency.go:78`), so two asked for in a row
  measure up to sixteen nodes at a time, while `node-pool/spec.md:35` limits testing all
  nodes to eight. `Spawn` has the limit of each sweep only.

Other behaviours the models show, for which no document says otherwise or which
are the same windows seen from elsewhere; each is a hazard in `PROJECT.json`:
two overlapping saves leave the older `nodes.json`; two overlapping refreshes
leave the count of one and the nodes of the other; a link added twice is deleted once;
a write that fails is logged and not retried, not by the flush at the stop either; an
operation that outlives the 5 s the stop waits for handlers may change the
configuration too late; requests that never cease put a reload or a write off for ever.

In the console: the late callback of an old sweep stops the newer one
(`CutShortOnlyByLateCallback` names it); an answer to a dialog that was closed and
opened again closes the new one, with what was typed into it; a table can show
older rows than it did when loads overtake each other (`why` = "crossed"), until
the next load; a row that joins an open speed test spins until the popover is opened
anew; the refusal of a call of an older session throws out a newer one; an
edit writes back the enabled flag of the copy the dialog was opened with, though
another client has changed it; an edit trims a name, a pattern and a URL nobody touched,
and replaces an empty URL by the default; an interval below 30 s passes the form when its
section is folded, and a pattern of RE2 that JavaScript does not know cannot be
saved.

### Bounds, and why they are enough

Two threads suffice for every window found: each consists of one operation
between two critical sections and another that runs in the gap; the theorems of
`AppCoreProofs` then cover any number, of subscriptions too: an operation touches one
subscription, and what two share, the two files, is written by both threads. Two
nodes let a list lose a member, and one answer suffices where the list is not the
point. `MaxBoots` = 2 covers a stop or a kill, what the next process makes of the
files, and what one after that makes of its own. `MaxLinks` = 2
lets two adds overlap. In `AppCore` one or two callbacks write beside `Main`: an older
copy can land on a newer one, and both can be under way when the process is stopped. In
`ConfigStore` two mutations give an old and a new version beside the loaded one, two
timers let one be armed that the store has lost beside one it points to, and with two
callbacks and the flusher three writes overlap. In `DataPlane` two ports make allocation, moves and exhaustion
happen (a third port lies outside the range), and two nodes with the name of a group make
both a numbered name and configurations that mihomo refuses; the runs `names` and
`revive` have three;
`MaxOwed` = 1 gives one handler between unlock and trigger while others run.
`Engine` needs a change before, during and after a reload, with a refused
version between accepted ones, and a debounce of two ticks so that a trigger can
arrive while the timer runs. In `LatencyTester` a limit of one slot makes a
sweep block on a test it does not own.

A list page meets its hazards with two rows, one that a dialog or confirmation was
opened for and one it is open for by the time of the answer; with two calls, which
cross; and with one change, which a table has or has not. `ButtonsRunOnce` is
proved for any number. `NodeSweep` needs three intervals for an old callback, the
poll it stops and one that replaces either, and two ticks stand for the fifteen: what
matters is before and at the end. Three polls of the status page let one overtake
two. In the form the user goes through at most `MaxTouched` = 2 groups of fields and
sends one request: a rule of the server relates at most two groups. `MCStored` holds a
single mapping with a padded name, a failover group with authentication and a padded
URL, and one as only another client would store it: no name, no URL, blanks around its
pattern and an interval of zero.

### Fairness, and why the code justifies it

- A fetch ends within its 15 s timeout, a measurement within 5 s: weak fairness of
  the thread's next step.
- A handler that has mutated goes on to `Schedule` and `Trigger` with nothing
  but a mutex in between.
- A debounce timer that is not started again fires and its goroutine is scheduled; a
  file write returns, with or without success.
- mihomo answers a configuration it is given.
- A call of the browser is answered or fails, and the handler that awaits it goes on;
  `setInterval` fires. Nothing is assumed of clicks.
- Nothing is assumed about how often users act. Each `Schedule` and each `Trigger`
  starts its debounce again (`store.go:42-44`, `engine.go:84-90`), so requests that never
  cease may put a write or a reload off for ever, and every liveness property about them
  names that case: `EventuallySaved`, `RequestsServed` (`EngineCatchesUp`,
  `ConfigCatchesUp`), `SettlesOrStarves`, and `CatchesUp` and `DisabledCloses` (`Starved`;
  `FairSpec` of `DataPlane` drops the fairness of the snapshot while requests keep
  coming). A write that fails is not retried, which they name too. `CatchesUp` also
  names the case in which mappings or nodes never stay as they are.

Deadlock is checked except in the runs of `AppCore`, where a thread without
a further id, link or restart stops at the bounds, and in `views`
and `console`, where a page that has been left, a deleted row or a form without a
further request rightly has nothing to do.

## 4. What is proved

All theorems hold for every value of the constants that satisfies the `ASSUME`s
of the module (finite or not, where nothing else is said). Every property of a
passing run that is not about fairness is the conclusion of one of them, and each
inductive invariant was first checked by TLC on the run's instance.

**AppCore.** `TypeCorrect` first. `PoolIsDerived`: each pool operation ends with a
rebuild. `OrphansOnlyByRace` and `LeaksOnlyByRace` are not inductive: whether a
late `SetPool` makes an orphan depends on what was known at the delete. `RaceInv`
adds that a thread at `setPool` with a deleted id (`LateSetKnown`), and one that
has yet to start a worker for a deleted id (`LateSpawnKnown`), is known to the history
variables already. `ReloadNeverLost` and `ConfigWriteNeverLost`: whenever the pool
differs from what the engine last read, or the file from memory, the request flag is up
or a thread is on its way to raise it, or, for the file, a writer holds the newest copy,
or the write of it failed or was overtaken (`unsaved`). With fairness these give the
catching up for any number of threads, which TLC checks for two. `DeletesAreForGood` is
an action property that follows from the actions and the type invariant: an id that is
in memory, in the file and in no copy on its way there has no way back.
`StopKeepsConfig` needs `StopInv`: until main begins to stop nothing was late; its copy
is the configuration as it is unless something was; and when it has flushed, the file is
right, or another writer holds the newest copy, or a reason has been recorded.

`ManualStaysInSync`, `CacheStaysInSync` and `CountsStayInSync` are about `NodeSync` and hold
for any number of threads that overlap and whatever fails. Two values agree, or a thread
is about to write the second one, or the last that did was overtaken by another
operation or failed; so what breaks the agreement is the race of two operations and
never the code of one. `CountsStayInSync` rests on `IdsInv`: an id is never issued
twice, so that a delete under way cannot be about a subscription that is there again.

**ConfigStore.** `TypeCorrect` and `FlagHasWriter` hold whatever overlaps or
fails. So do the others: `MutationsNotLost` is inductive, since whoever lowers the flag
has yet to copy; `StoreIsDurable` needs that the file and every copy are between the
version the process was started with and the one in memory (`CopyBetween`), and maps
`Replace` to the abstract `Write` and all else to a mutation, a restart or a stutter.
`DurableConfig` lets a write put any such version in place, also an older one, as
overlapping writes do. `ExitLosesNothing`, that a stop keeps the newest version unless
one of the named causes came in, needs that what the flusher copies is the newest unless a
handler was late (`FlushInv`).

**DataPlane.** `ConfigAlwaysLoads` from `DataInv`: mappings are validated
before they are stored, and cutting out or toggling an entry keeps them valid.
`ServesWhatIsWanted` needs that unless a reload is pending, what is installed or
about to be is what mappings and pool ask for (`FreshInv`), and that in an accepted
configuration a name leads back to its node (`NameLeadsBack`, `AcceptedIsWanted`).
`PortsNotShared` carries distinct ports from the mappings through a held
configuration into mihomo. `ReloadsSucceed` states when the numbering works: if
display names stay apart after numbering (`NamesApart`), no reload is ever
refused; the run `names` shows that the premise is needed.
`OthersStayUntouched` is an action property over sequences: a mapping of another
port is found again after the handler, at whatever position (`HandlerKeepsOthers`).

**Engine.** The invariant adds that between install and record mihomo runs what
was read (`Installed`). `TriggersNotLost`, `StatusIsTruthful`, and `PromiseKept`:
under the mapping in `Engine` every step is a step of `ReloadPromise` or a stutter.

**LatencyTester.** `OneMeasurement`, `WaitersAreWoken`, `ResultsAreNew`. The last
needs that while a test waits with an old result in the pool, the test it waits
for has yet to store the new one (`NewResultToCome`), and that the entry of a node is
a test of that node (`EntryOfNode`); a sweep's tests are started once each
(`TodoIdle`).

**ConsoleProofs.** `ButtonsRunOnce` is not inductive: that a second save cannot
start follows from the spinner, and the spinner stays only as long as a call it
stands for is alive. `Covered` says so: a live save has `saving`, a live call of a
delete has `deleteLoading`, a live row operation has its row in `busy`. `Named`
says which handler the first call of a run belongs to, and `Shapes` is what the
steps need of types. `SpinnersHaveCalls` is the converse of `Covered`: what spins has a
call under way whose end stops it. It is the safety half of `SpinnersStop`: a
handler without its `finally` breaks it.

`TableComesToRest` proves `AtRestFresh`, and is the longest argument here. `Snapshots` says
that an answer holds the rows of its time, and that a row it is not about any more has
gone or carries a later time. Unless a reason has been named (`why`), the table is the
server's, or a call is under way that will bring rows (`TableInv`), and an answer
not yet in the table is older than the table, or right, or will be superseded by a
call under way (`AnswersInv`); without the second an old list that comes last would
overwrite a fresh table. On the node page a row may lag as long as the answer of its own
test is still to come (`Measured`). `ConsoleTypeCorrect` gives the types and that no answer
is of a later time than the server has reached.

**FormProofs.** `FormTypeCorrect`, `RefusalsAreNamed` and `EditsKeepTheRest` follow from one
invariant: what server, page and dialog hold the server once accepted (`HeldInv`);
a single mapping never has two nodes chosen (`ChoiceInv`); a field the user
left alone holds what the dialog was opened with (`FieldsInv`); and a request differs from
the mapping it was made of only in what was touched and in what submit makes of any
field: it trims names, patterns and URLs and fills in an empty URL (`SentInv`). The picker takes a node out of a list with a recursive function;
what it returns for every list is shown without induction over data, by looking at the
least prefix that would not do (`LeastOf`, `WithoutType`).

**ViewsProofs.** `OnePoll` is inductive, since every action that gives `pollRef` up
also stops what it held, and `ButtonMatchesPoll` is inductive together with it.
`OnlyLateCallbacksCutShort` is an action property: what stops is what `pollRef`
holds, and only these actions move it.
`SpinnersHaveTests` needs that a result "loading" has a test under way, which holds
for rows at the opening and is not lost by answers of earlier openings.
`ValidSessionsStay` needs that a call that was denied with the cookie of now was
denied when that cookie was no longer valid, and that no session comes back to
life: sessions are numbered and issued once. `StatusSettles` is the safety half of
`StatusCatchesUp`: once the server is settled, answers out of date only become fewer,
and when none is left the page never shows another status.

Some properties are proved and not run, as they are what others rest on: type
correctness, `PoolDerived`, `DirtyHasWriter`, `OneListenerPerPort`, `SpinnerHasCall`,
`SettledForGood`, and `NoReloadFails` and `NoOrphanNodes` from their premises.

### Only model-checked

Liveness (`RequestsServed`, `EventuallySaved`, `CatchesUp`, `DisabledCloses`,
`SettlesOrStarves`, `SweepsEnd`, `SpinnersStop`, `PollingEnds`,
`StatusCatchesUp`): fairness and ENABLED are beyond the prover.
For most of them the safety half, that what is owed is never forgotten, is proved:
`ReloadNeverLost`, `ConfigWriteNeverLost`, `MutationsNotLost`, `ServesWhatIsWanted`,
`TriggersNotLost`, `WaitersAreWoken`, `SpinnersHaveCalls`, `PollIsOne`, `StatusSettles`.

## 5. What is not modelled

- `UpdateSubscription` and the fields of a subscription; the worker's timer.
- Parsing and defaulting of `config.yaml`, the first-run template, hand edits.
- Byte rates, connection counts and the active node of a group.
- The login limiter. Planned, see below. Bearer keys, which the console does not use.
- Fetching and parsing: a provider answers with a list from a set, or fails.
  Fingerprints are values; that equal connection parameters give equal
  fingerprints is taken for granted. Regions and names are display data except in
  `EngineConfig`.
- mihomo itself: whether it takes a configuration and what it then serves is
  modelled as the code relies on it; health checks and traffic are not.
- Of the console: layout, sidebar and theme, toasts, the ui primitives but for a
  button that spins and the confirmation, clipboard, and the lists that only label
  rows (subscription names, the names by port of the status page). The filters of
  the node page take rows out of sight and change no state a property is about. The
  fields of the subscription dialog are data of one request.
- Static files, build and deployment scripts.

## 6. Plan

Modelled first, because everything else rests on it: the sources of nodes and
their files (`NodePool`, `AppCore`), the store, the data plane, the engine, the
tester; then the console and its sessions. Next, in this order:

1. **SubscriptionTable**: Add, Update, Delete with URLs and the copy a refresh
   fetches with. URLs stay unique; a pool entry comes from the URL the
   subscription has or had while the refresh was under way.
2. **RefreshWorker**: the interval, the reset channel and `stop`. After a manual
   refresh the next automatic one is a full interval away; a stopped worker never
   refreshes; every worker refreshes again unless resets keep coming.
3. **Auth**: the limiter's three critical sections
   with overlapping attempts, each with the time it sampled at its start. An
   abstract limiter with one atomic attempt as specification.
4. **Rates**: `Status` against a reload and connections that end, several
   pollers on one baseline.
5. **ConfigLoad**: the first-run template and a kill.
6. **LockOrder**: which locks are held where (`App.mu`, `Store.mu`, `Pool.mu`,
   `Engine.mu`), freedom from deadlock.
7. Composition: `AppCore` with its two request flags replaced by the timers of
   `ConfigStore` and `Engine`, or a refinement that justifies the flags.

Further proofs: that the two requests of `AppCore` are served as `DurableConfig` and
`ReloadPromise` say, for which `AppCore` needs versions as history; and the invariants of the modules above.
