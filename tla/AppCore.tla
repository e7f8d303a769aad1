------------------------------ MODULE AppCore ------------------------------
(***************************************************************************)
(* The orchestrator's node sources: subscriptions and manual nodes         *)
(* (internal/core/subscriptions.go, nodes.go, app.go) over the node pool   *)
(* (NodePool) and its cache file (internal/pool/cache.go).                 *)
(*                                                                         *)
(* A thread is a goroutine that runs one operation at a time: an HTTP      *)
(* handler, a refresh worker, or the boot-time initialRefresh.  App.mu     *)
(* guards only the configuration and Pool.mu only the pool; an operation   *)
(* takes and releases them one after the other, so each critical section   *)
(* is one action and threads interleave between them.  The steps of an     *)
(* operation, in program order (pc):                                       *)
(*                                                                         *)
(*   AddSubscription     spawn, then as a refresh                          *)
(*   refreshOne          begin, fetching, setPool, snapshot, rename,       *)
(*                       publish                                           *)
(*   DeleteSubscription  removePool, snapshot, rename, publish             *)
(*   AddManualNode       readLinks, setManual, publish                     *)
(*   DeleteNode          dropLink, readLinks, setManual, publish           *)
(*                                                                         *)
(* Main, the goroutine of main, stops the process after http.Server.       *)
(* Shutdown has waited 5 s for handlers: flush, snapshot, rename, exit.    *)
(*                                                                         *)
(* Abstracted: a subscription is its id (its other fields steer no step    *)
(* here), a share link is the fingerprint it parses to, LastError,         *)
(* LastRefresh and Quota are display data.  The debounce timers are their  *)
(* request flags (ConfigStore and Engine have the timers): a config write  *)
(* is a copy that is taken while the flag goes down and lands or fails     *)
(* later; an engine reload reads the pool, and whether mihomo takes what   *)
(* it is given is up to Engine and EngineConfig.                           *)
(***************************************************************************)
EXTENDS NodePool, SequencesExt

CONSTANTS
  Threads,    \* goroutines
  Main,       \* the goroutine of main, which runs App.Shutdown
  Writers,    \* callbacks of the config store that may write at once
  Lists,      \* what a provider may answer: a non-empty list of proxies
  None,       \* no argument
  MaxLinks,   \* bound: manual links in the configuration
  MaxBoots,   \* bound: restarts
  Faults,     \* which of "crash", "shutdown", "saveFails" may happen
  Measured    \* fingerprints the latency tester measures

ASSUME CoreAssumption ==
  /\ Lists \subseteq Seq(Fps) \ {<<>>}
  /\ MaxLinks \in Nat
  /\ MaxBoots \in Nat
  /\ Main \notin Threads \cup Writers
  /\ Measured \subseteq Fps
  /\ None \notin [subs : SUBSET Subs, links : Seq(Fps)]

VARIABLES
  subs,       \* cfg.Subscriptions: the ids in the configuration
  issued,     \* ids genID has returned so far
  links,      \* cfg.ManualNodes, in order
  nodeCount,  \* Subscription.NodeCount, runtime only: 0 until a refresh
  workers,    \* ids with a refresh worker
  dirty,      \* a config write has been requested and not done
  reload,     \* an engine reload has been requested and not done
  tried,      \* the fingerprints the engine's last reload found in the pool
  cfgFile,    \* config.yaml
  copies,     \* the configuration each writer is about to put there
  cacheFile,  \* nodes.json: the entry of every id
  pc,         \* the step each thread, and main, is about to take
  arg,        \* the subscription id or fingerprint it works on
  got,        \* the proxy list it fetched, or its copy of the links
  snap,       \* its copy of the pool's subscription entries
  boots,      \* restarts so far
  tainted,    \* history: ids whose pool entry outlived their delete
  leaked,     \* history: ids deleted before their worker was started
  unsaved     \* history: what may keep the configuration out of config.yaml

cfgVars == <<subs, issued, links, nodeCount, workers>>
requestVars == <<dirty, reload, tried>>
fileVars == <<cfgFile, copies, cacheFile>>
threadVars == <<pc, arg, got, snap>>
historyVars == <<boots, tainted, leaked, unsaved>>
vars == <<poolVars, cfgVars, requestVars, fileVars, threadVars, historyVars>>

Procs == Threads \cup {Main}

Cfg == [subs |-> subs, links |-> links]

NoEntries == [s \in Subs |-> Absent]

-----------------------------------------------------------------------------
(* Moving a thread through its operation *)

Start(t, step, a) ==
  /\ pc[t] = "idle"
  /\ pc' = [pc EXCEPT ![t] = step]
  /\ arg' = [arg EXCEPT ![t] = a]
  /\ UNCHANGED <<got, snap>>

Step(t, from, to) ==
  /\ pc[t] = from
  /\ pc' = [pc EXCEPT ![t] = to]

Move(t, from, to) ==
  /\ Step(t, from, to)
  /\ UNCHANGED <<arg, got, snap>>

Return(t, from) ==
  /\ Step(t, from, "idle")
  /\ arg' = [arg EXCEPT ![t] = None]
  /\ got' = [got EXCEPT ![t] = <<>>]
  /\ snap' = [snap EXCEPT ![t] = NoEntries]

-----------------------------------------------------------------------------
(* Subscriptions *)

\* History: a change of the configuration is still to be saved; one that comes
\* after Flush is late.
ConfigChanges ==
  unsaved' = IF pc[Main] = "idle" THEN {} ELSE {"late"}

\* AddSubscription up to the unlock; genID gives an id never seen before.
AddSubscription(t, s) ==
  /\ s \in Subs \ issued
  /\ Start(t, "spawn", s)
  /\ subs' = subs \cup {s}
  /\ issued' = issued \cup {s}
  /\ ConfigChanges
  /\ UNCHANGED <<poolVars, links, nodeCount, workers, requestVars, fileVars,
                 boots, tainted, leaked>>

\* Mutation: the add does not ask for a config write.
StartWorkerOnly(t) ==
  /\ Move(t, "spawn", "begin")
  /\ workers' = workers \cup {arg[t]}
  /\ UNCHANGED <<poolVars, subs, issued, links, nodeCount, requestVars,
                 fileVars, historyVars>>

\* AddSubscription asks for a config write and starts the worker, unlocked.
StartWorker(t) ==
  /\ Move(t, "spawn", "begin")
  /\ dirty' = TRUE
  /\ workers' = workers \cup {arg[t]}
  /\ UNCHANGED <<poolVars, subs, issued, links, nodeCount, reload, tried,
                 fileVars, historyVars>>

\* The first look-up of AddSubscription's refreshOne.
BeginRefresh(t) ==
  /\ \/ arg[t] \in subs /\ Move(t, "begin", "fetching")
     \/ arg[t] \notin subs /\ Return(t, "begin")
  /\ UNCHANGED <<poolVars, cfgVars, requestVars, fileVars, historyVars>>

\* RefreshSubscription, a worker's timer or initialRefresh: refreshOne finds
\* the subscription and copies it.
RefreshSubscription(t, s) ==
  /\ s \in subs
  /\ Start(t, "fetching", s)
  /\ UNCHANGED <<poolVars, cfgVars, requestVars, fileVars, historyVars>>

\* Mutation: a failed fetch drops the nodes of the last good one.
AbandonRefreshDropsNodes(t) ==
  /\ Return(t, "fetching")
  /\ RemoveSubscription(arg[t])
  /\ UNCHANGED <<cfgVars, requestVars, fileVars, historyVars>>

\* The fetch failed (old nodes stay), or the id is gone when it is re-found.
AbandonRefresh(t) ==
  /\ Return(t, "fetching")
  /\ UNCHANGED <<poolVars, cfgVars, requestVars, fileVars, historyVars>>

\* Mutations: the outcome is recorded without looking the id up again; the
\* copy taken before the fetch is stored back even when it was deleted since.
CommitRefreshUnchecked(t, list) ==
  /\ Step(t, "fetching", "setPool")
  /\ got' = [got EXCEPT ![t] = list]
  /\ UNCHANGED <<poolVars, cfgVars, requestVars, fileVars, arg, snap, historyVars>>

CommitRefreshStoresCopy(t, list) ==
  /\ Step(t, "fetching", "setPool")
  /\ got' = [got EXCEPT ![t] = list]
  /\ subs' = subs \cup {arg[t]}
  /\ nodeCount' = [nodeCount EXCEPT ![arg[t]] = Len(list)]
  /\ UNCHANGED <<poolVars, issued, links, workers, requestVars, fileVars, arg,
                 snap, historyVars>>

\* The fetch succeeded and the id is still there: record the outcome.
CommitRefresh(t, list) ==
  /\ arg[t] \in subs
  /\ Step(t, "fetching", "setPool")
  /\ got' = [got EXCEPT ![t] = list]
  /\ nodeCount' = [nodeCount EXCEPT ![arg[t]] = Len(list)]
  /\ UNCHANGED <<poolVars, subs, issued, links, workers, requestVars, fileVars,
                 arg, snap, historyVars>>

\* pool.SetSubscriptionNodes, with App.mu released.
SetPool(t) ==
  /\ Step(t, "setPool", "snapshot")
  /\ SetSubscriptionNodes(arg[t], got[t])
  /\ got' = [got EXCEPT ![t] = <<>>]
  /\ UNCHANGED <<cfgVars, requestVars, fileVars, arg, snap, historyVars>>

\* A thread is at the given step with subscription s.
AtStep(s, step) == \E o \in Threads : pc[o] = step /\ arg[o] = s

\* DeleteSubscription up to the unlock.  History: the id is tainted when a
\* refresh has passed its re-check and is about to set the pool, and leaked
\* when its add has not started the worker yet.
DeleteSubscription(t, s) ==
  /\ s \in subs
  /\ Start(t, "removePool", s)
  /\ subs' = subs \ {s}
  /\ nodeCount' = [nodeCount EXCEPT ![s] = 0]
  /\ tainted' = tainted \cup {id \in {s} : AtStep(id, "setPool")}
  /\ leaked' = leaked \cup {id \in {s} : AtStep(id, "spawn")}
  /\ ConfigChanges
  /\ UNCHANGED <<poolVars, issued, links, workers, requestVars, fileVars, boots>>

\* Mutations: the delete forgets the worker, or the cache file.
RemoveFromPoolKeepsWorker(t) ==
  /\ Move(t, "removePool", "snapshot")
  /\ RemoveSubscription(arg[t])
  /\ UNCHANGED <<cfgVars, requestVars, fileVars, historyVars>>

RemoveFromPoolUnsaved(t) ==
  /\ Move(t, "removePool", "publish")
  /\ workers' = workers \ {arg[t]}
  /\ RemoveSubscription(arg[t])
  /\ UNCHANGED <<subs, issued, links, nodeCount, requestVars, fileVars,
                 historyVars>>

\* stopWorker and pool.RemoveSubscription: their locks guard disjoint state.
RemoveFromPool(t) ==
  /\ Move(t, "removePool", "snapshot")
  /\ workers' = workers \ {arg[t]}
  /\ RemoveSubscription(arg[t])
  /\ UNCHANGED <<subs, issued, links, nodeCount, requestVars, fileVars,
                 historyVars>>

-----------------------------------------------------------------------------
(* Saving nodes.json, and the end of every operation *)

\* SaveCache copies the subscription entries under the pool's read lock.
CacheSnapshot(t) ==
  /\ Step(t, "snapshot", "rename")
  /\ snap' = [snap EXCEPT ![t] = contrib]
  /\ UNCHANGED <<poolVars, cfgVars, requestVars, fileVars, arg, got, historyVars>>

\* AtomicWrite: the copy replaces the file, or the write fails and is logged.
CacheRename(t) ==
  /\ Step(t, "rename", IF t = Main THEN "exit" ELSE "publish")
  /\ \/ cacheFile' = snap[t]
     \/ "saveFails" \in Faults /\ UNCHANGED cacheFile
  /\ snap' = [snap EXCEPT ![t] = NoEntries]
  /\ UNCHANGED <<poolVars, cfgVars, requestVars, cfgFile, copies, arg, got,
                 historyVars>>

\* Mutations: only one of the two requests is made.
PublishNoReload(t) ==
  /\ Return(t, "publish")
  /\ dirty' = TRUE
  /\ UNCHANGED <<poolVars, cfgVars, reload, tried, fileVars, historyVars>>

PublishNoWrite(t) ==
  /\ Return(t, "publish")
  /\ reload' = TRUE
  /\ UNCHANGED <<poolVars, cfgVars, dirty, tried, fileVars, historyVars>>

\* persistAndReload, then the operation returns.
Publish(t) ==
  /\ Return(t, "publish")
  /\ dirty' = TRUE
  /\ reload' = TRUE
  /\ UNCHANGED <<poolVars, cfgVars, tried, fileVars, historyVars>>

-----------------------------------------------------------------------------
(* Manual nodes *)

\* AddManualNode up to the unlock; an equal link is appended again.
AddManualNode(t, fp) ==
  /\ Len(links) < MaxLinks
  /\ Start(t, "readLinks", None)
  /\ links' = Append(links, fp)
  /\ ConfigChanges
  /\ UNCHANGED <<poolVars, subs, issued, nodeCount, workers, requestVars,
                 fileVars, boots, tainted, leaked>>

\* DeleteNode's checks against the pool.
DeleteNode(t, fp) ==
  /\ OnlyManual(fp)
  /\ Start(t, "dropLink", fp)
  /\ UNCHANGED <<poolVars, cfgVars, requestVars, fileVars, historyVars>>

\* Mutation: the link is dropped and the manual nodes are not reloaded.
DropLinkNoReload(t) ==
  /\ \E i \in DOMAIN links : links[i] = arg[t] /\ links' = RemoveAt(links, i)
  /\ Move(t, "dropLink", "publish")
  /\ UNCHANGED <<poolVars, subs, issued, nodeCount, workers, requestVars,
                 fileVars, historyVars>>

\* DeleteNode drops the first link with the fingerprint, if there still is one.
DropLink(t) ==
  /\ \/ /\ \E i \in DOMAIN links :
             /\ links[i] = arg[t]
             /\ \A j \in 1 .. i - 1 : links[j] # arg[t]
             /\ links' = RemoveAt(links, i)
        /\ Move(t, "dropLink", "readLinks")
        /\ ConfigChanges
     \/ /\ arg[t] \notin Elems(links)
        /\ Return(t, "dropLink")
        /\ UNCHANGED <<links, unsaved>>
  /\ UNCHANGED <<poolVars, subs, issued, nodeCount, workers, requestVars,
                 fileVars, boots, tainted, leaked>>

\* reloadManualNodes copies the links under App.mu ...
ReadLinks(t) ==
  /\ Step(t, "readLinks", "setManual")
  /\ got' = [got EXCEPT ![t] = links]
  /\ UNCHANGED <<poolVars, cfgVars, requestVars, fileVars, arg, snap, historyVars>>

\* ... and installs what they parse to under Pool.mu.
SetManual(t) ==
  /\ Step(t, "setManual", "publish")
  /\ SetManualNodes(Elems(got[t]))
  /\ got' = [got EXCEPT ![t] = <<>>]
  /\ UNCHANGED <<cfgVars, requestVars, fileVars, arg, snap, historyVars>>

-----------------------------------------------------------------------------
(* Background steps *)

\* The config store's timer fires: writeNow lowers the flag and copies.
StartWrite(w) ==
  /\ dirty
  /\ copies[w] = None
  /\ dirty' = FALSE
  /\ copies' = [copies EXCEPT ![w] = Cfg]
  /\ UNCHANGED <<poolVars, cfgVars, reload, tried, cfgFile, cacheFile,
                 threadVars, historyVars>>

\* AtomicWrite of the copy: it replaces the file, whatever that holds by now, or
\* fails and is not tried again.  Main goes on with the node cache.
EndWrite(w) ==
  /\ copies[w] # None
  /\ copies' = [copies EXCEPT ![w] = None]
  /\ \/ /\ cfgFile' = copies[w]
        /\ unsaved' = IF copies[w] # Cfg /\ cfgFile = Cfg
                        THEN unsaved \cup {"write"} ELSE unsaved
     \/ /\ "saveFails" \in Faults
        /\ unsaved' = IF copies[w] = Cfg THEN unsaved \cup {"write"} ELSE unsaved
        /\ UNCHANGED cfgFile
  /\ IF w = Main THEN Move(Main, "flush", "snapshot") ELSE UNCHANGED threadVars
  /\ UNCHANGED <<poolVars, cfgVars, requestVars, cacheFile, boots, tainted, leaked>>

\* The engine's timer fires: applyNow reads the pool.
EngineApply ==
  /\ reload
  /\ tried' = Pooled
  /\ reload' = FALSE
  /\ UNCHANGED <<poolVars, cfgVars, dirty, fileVars, threadVars, historyVars>>

\* The latency tester records a measurement.
Measure(fp) ==
  /\ SetLatency(fp)
  /\ UNCHANGED <<cfgVars, requestVars, fileVars, threadVars, historyVars>>

-----------------------------------------------------------------------------
(* The end of a process and the start of the next *)

\* main and App.Start: everything in memory comes from the two files, the
\* cache is loaded for every id it holds, and the engine reads the result.
Boot(cfg, cache) ==
  /\ boots < MaxBoots
  /\ boots' = boots + 1
  /\ subs' = cfg.subs
  /\ links' = cfg.links
  /\ nodeCount' = [s \in Subs |-> 0]
  /\ workers' = cfg.subs
  /\ contrib' = cache
  /\ manual' = Elems(cfg.links)
  /\ nodes' = Merged(contrib', manual')
  /\ latency' = [fp \in Fps |-> FALSE]
  /\ tried' = {fp \in Fps : nodes'[fp] # {}}
  /\ dirty' = FALSE
  /\ reload' = FALSE
  /\ cfgFile' = cfg
  /\ copies' = [w \in Writers \cup {Main} |-> None]
  /\ cacheFile' = cache
  /\ pc' = [t \in Procs |-> "idle"]
  /\ arg' = [t \in Procs |-> None]
  /\ got' = [t \in Procs |-> <<>>]
  /\ snap' = [t \in Procs |-> NoEntries]
  /\ unsaved' = {}
  /\ tainted' = tainted \cup {s \in Subs \ cfg.subs : cache[s] # Absent}
  /\ UNCHANGED <<issued, leaked>>

\* The process is killed: whatever was not in the files is gone.
Crash == "crash" \in Faults /\ Boot(cfgFile, cacheFile)

\* Mutation: the flag is not looked at, and the pending write is not done.
FlushCancels ==
  /\ "shutdown" \in Faults
  /\ Move(Main, "idle", "snapshot")
  /\ UNCHANGED <<poolVars, cfgVars, requestVars, fileVars, historyVars>>

\* An operation that has changed the configuration and not yet scheduled a write.
WillSchedule(t) ==
  pc[t] \in {"spawn", "removePool", "readLinks", "setManual", "snapshot",
             "rename", "publish"}

\* SIGTERM: handlers and refreshes may still be under way.  Flush writes when
\* dirty and waits for no callback; main goes on to save the cache.
\* History: an operation that has not called Schedule by now is late.
Flush ==
  /\ "shutdown" \in Faults
  /\ \/ /\ dirty
        /\ Move(Main, "idle", "flush")
        /\ dirty' = FALSE
        /\ copies' = [copies EXCEPT ![Main] = Cfg]
     \/ /\ ~dirty
        /\ Move(Main, "idle", "snapshot")
        /\ UNCHANGED <<dirty, copies>>
  /\ unsaved' = IF \E t \in Threads : WillSchedule(t)
                  THEN unsaved \cup {"late"} ELSE unsaved
  /\ UNCHANGED <<poolVars, cfgVars, reload, tried, cfgFile, cacheFile, boots,
                 tainted, leaked>>

\* main returns; whatever is still under way dies with the process.
Exit == pc[Main] = "exit" /\ Boot(cfgFile, cacheFile)

-----------------------------------------------------------------------------
Init ==
  /\ PoolInit
  /\ subs = {} /\ issued = {} /\ links = <<>>
  /\ nodeCount = [s \in Subs |-> 0]
  /\ workers = {}
  /\ dirty = FALSE /\ reload = FALSE /\ tried = {}
  /\ cfgFile = Cfg
  /\ copies = [w \in Writers \cup {Main} |-> None]
  /\ cacheFile = NoEntries
  /\ pc = [t \in Procs |-> "idle"]
  /\ arg = [t \in Procs |-> None]
  /\ got = [t \in Procs |-> <<>>]
  /\ snap = [t \in Procs |-> NoEntries]
  /\ boots = 0 /\ tainted = {} /\ leaked = {} /\ unsaved = {}

\* A request, or a worker's timer, starts an operation on an idle thread.
Call(t) ==
  \/ \E s \in Subs : AddSubscription(t, s)
  \/ \E s \in Subs : RefreshSubscription(t, s)
  \/ \E s \in Subs : DeleteSubscription(t, s)
  \/ \E fp \in Fps : AddManualNode(t, fp)
  \/ \E fp \in Fps : DeleteNode(t, fp)

\* An operation under way goes on.
Continue(t) ==
  \/ StartWorker(t)
  \/ BeginRefresh(t)
  \/ AbandonRefresh(t)
  \/ \E list \in Lists : CommitRefresh(t, list)
  \/ SetPool(t)
  \/ RemoveFromPool(t)
  \/ CacheSnapshot(t)
  \/ CacheRename(t)
  \/ Publish(t)
  \/ DropLink(t)
  \/ ReadLinks(t)
  \/ SetManual(t)

WriteConfig == \E w \in Writers : StartWrite(w)

Background ==
  \/ WriteConfig
  \/ \E w \in Writers \cup {Main} : EndWrite(w)
  \/ EngineApply
  \/ \E fp \in Measured : Measure(fp)

\* App.Shutdown, and the end of main.
Stop == Flush \/ CacheSnapshot(Main) \/ CacheRename(Main) \/ Exit

Next ==
  \/ \E t \in Threads : Call(t) \/ Continue(t)
  \/ Background
  \/ Stop
  \/ Crash

Spec == Init /\ [][Next]_vars

\* Operations under way go on (a fetch ends within its 15 s timeout), writes
\* end, and a debounce timer fires; one that is started again for ever need not,
\* and the liveness properties except that.
Fairness ==
  /\ \A t \in Threads : WF_vars(Continue(t))
  /\ WF_vars(WriteConfig)
  /\ \A w \in Writers \cup {Main} : WF_vars(EndWrite(w))
  /\ WF_vars(EngineApply)

FairSpec == Spec /\ Fairness

-----------------------------------------------------------------------------
(* Properties *)

Steps == {"idle", "spawn", "begin", "fetching", "setPool", "snapshot", "rename",
          "publish", "removePool", "dropLink", "readLinks", "setManual", "flush", "exit"}

Quiet == \A t \in Threads : pc[t] = "idle"

\* The steps whose argument is a subscription id.
SubSteps == {"spawn", "begin", "fetching", "setPool", "removePool"}

Entries == [Subs -> Seq(Fps) \cup {Absent}]

Configs == [subs : SUBSET Subs, links : Seq(Fps)]

\* Every variable holds a value of its type, and a thread inside a
\* subscription step works on a subscription.
TypeOK ==
  /\ PoolTypeOK
  /\ subs \in SUBSET Subs
  /\ issued \in SUBSET Subs
  /\ links \in Seq(Fps)
  /\ nodeCount \in [Subs -> Nat]
  /\ workers \in SUBSET Subs
  /\ dirty \in BOOLEAN
  /\ reload \in BOOLEAN
  /\ tried \in SUBSET Fps
  /\ cfgFile \in Configs
  /\ copies \in [Writers \cup {Main} -> Configs \cup {None}]
  /\ cacheFile \in Entries
  /\ pc \in [Procs -> Steps]
  /\ arg \in [Procs -> Subs \cup Fps \cup {None}]
  /\ got \in [Procs -> Seq(Fps)]
  /\ snap \in [Procs -> Entries]
  /\ boots \in Nat
  /\ tainted \in SUBSET Subs
  /\ leaked \in SUBSET Subs
  /\ unsaved \in SUBSET {"write", "late"}
  /\ \A t \in Threads : pc[t] \in SubSteps => arg[t] \in Subs

\* The pool entries of ids the configuration does not know.
Orphans == {s \in Subs \ subs : contrib[s] # Absent}

\* Nodes of a deleted subscription stay in the pool only while its delete is
\* under way, or after one of two windows the code leaves open: a refresh
\* that passed its re-check sets the pool after the delete (core/
\* subscriptions.go:157-159), or a restart finds the id in nodes.json and not
\* in config.yaml (pool/cache.go:63-66).  No other interleaving of refreshes,
\* deletes, saves, restarts and failed writes leaves an orphan.
OrphanOnlyByRace ==
  \A s \in Orphans :
    s \in tainted \/ AtStep(s, "removePool")

\* A worker of a deleted subscription keeps running only while the delete is
\* under way, or when the delete came between the add's commit and its
\* startWorker (core/subscriptions.go:52-55, 99): stopWorker found none.
LeakOnlyByRace ==
  \A s \in workers \ subs : s \in leaked \/ AtStep(s, "removePool")

\* An operation that has changed the pool and not yet called persistAndReload.
WillPublish(t) == pc[t] \in {"snapshot", "rename", "publish"}

\* The engine is never left with an outdated node set: whenever the pool differs
\* from what its last reload read, a reload is requested or a thread is on its
\* way to persistAndReload (core/app.go:163-170), whatever interleaves.
NoLostReload ==
  Pooled # tried => reload \/ \E t \in Threads : WillPublish(t)

\* A writer holds the configuration as it is.
Writing == \E w \in Writers \cup {Main} : copies[w] = Cfg

\* While config.yaml differs from memory a write is pending or under way, or a
\* thread is about to request one, whatever interleaves.  A change is left out
\* for two reasons only: its own write failed, which is logged and not tried
\* again, or an older copy landed on it (config/store.go:47-49, 71-84).
NoLostConfigWrite ==
  cfgFile # Cfg => \/ dirty
                   \/ \E t \in Threads : WillSchedule(t)
                   \/ Writing
                   \/ "write" \in unsaved

\* A stop by SIGTERM, whatever is under way, loses a change of subscriptions or
\* links only if its write failed or was overtaken, its operation had not called
\* Schedule when Flush looked, or a callback is still writing it
\* (core/app.go:104-113, main.go:62-67).
ExitKeepsConfig ==
  [][Exit => \/ cfgFile = Cfg
             \/ unsaved # {}
             \/ \E w \in Writers : copies[w] = Cfg]_vars

\* The ids in memory, in config.yaml, or on their way there.
Known ==
  subs \cup cfgFile.subs
    \cup UNION {copies[w].subs : w \in {v \in Writers \cup {Main} : copies[v] # None}}

\* Once a delete has reached config.yaml, and no older copy is on its way there,
\* the subscription never comes back, neither by a late refresh nor from
\* nodes.json after a restart.
DeletedForGood == [][\A s \in issued \ Known : s \notin Known']_vars

\* openspec/specs/subscription-management/spec.md:31: deleting a subscription
\* removes the nodes only it contributes.  With nothing in flight the pool
\* holds nodes of configured subscriptions only.
NoOrphanNodes == Quiet => Orphans = {}

\* Unless requests keep coming, each starting the debounce again, every one is
\* served: the engine reads the pool as it is, and config.yaml holds the
\* configuration, or its write failed or was overtaken (core/app.go:163-170,
\* engine/engine.go:84-93, config/store.go:36-50).
EngineCatchesUp ==
  \/ []<><<\E t \in Threads : Publish(t)>>_vars
  \/ (Pooled # tried) ~> (Pooled = tried)
ConfigCatchesUp ==
  \/ []<><<\E t \in Threads : StartWorker(t) \/ Publish(t)>>_vars
  \/ (cfgFile # Cfg) ~> (cfgFile = Cfg \/ "write" \in unsaved)
RequestsServed == EngineCatchesUp /\ ConfigCatchesUp
=============================================================================
