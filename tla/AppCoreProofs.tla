--------------------------- MODULE AppCoreProofs ---------------------------
(***************************************************************************)
(* Machine-checked facts about AppCore and NodeSync, for every set of      *)
(* threads, writers, subscription ids, fingerprints and answers, any       *)
(* number of restarts and any set of faults.                               *)
(***************************************************************************)
EXTENDS NodeSync, TLAPS, SequenceTheorems

\* The fingerprints of a list are fingerprints.
LEMMA ElemsType ==
  ASSUME NEW S, NEW list \in Seq(S)
  PROVE  Elems(list) \in SUBSET S
BY DEF Elems

\* What a pool entry contributes is a set of fingerprints.
LEMMA ProxiesType ==
  ASSUME NEW entry \in Seq(Fps) \cup {Absent}
  PROVE  Proxies(entry) \in SUBSET Fps
BY ElemsType DEF Proxies

\* The derived map gives every fingerprint a set of sources.
LEMMA MergedType ==
  ASSUME NEW c, NEW m
  PROVE  Merged(c, m) \in [Fps -> SUBSET Sources]
BY DEF Merged, Sources

\* Removing one element of a sequence leaves a sequence over the same set.
LEMMA RemoveAtType ==
  ASSUME NEW S, NEW s \in Seq(S), NEW i \in DOMAIN s
  PROVE  RemoveAt(s, i) \in Seq(S)
<1>1. i \in 1 .. Len(s) /\ Len(s) \in Nat
  OBVIOUS
<1>2. SubSeq(s, 1, i - 1) \in Seq(S)
  BY <1>1, SubSeqProperties
<1>3. SubSeq(s, i + 1, Len(s)) \in Seq(S)
  BY <1>1, SubSeqProperties
<1>. QED
  BY <1>2, <1>3, ConcatProperties DEF RemoveAt

\* rebuild() keeps the pool well typed, whatever entries were written.
LEMMA RebuildType ==
  ASSUME PoolTypeOK, contrib' \in Entries, manual' \in SUBSET Fps, Rebuild
  PROVE  PoolTypeOK'
BY MergedType DEF PoolTypeOK, Rebuild, Entries

LEMMA SetSubscriptionNodesType ==
  ASSUME PoolTypeOK, NEW s \in Subs, NEW list \in Seq(Fps),
         SetSubscriptionNodes(s, list)
  PROVE  PoolTypeOK'
<1>1. contrib' \in Entries /\ manual' \in SUBSET Fps
  BY DEF SetSubscriptionNodes, Entries, PoolTypeOK
<1>. QED
  BY <1>1, RebuildType DEF SetSubscriptionNodes

LEMMA RemoveSubscriptionType ==
  ASSUME PoolTypeOK, NEW s \in Subs, RemoveSubscription(s)
  PROVE  PoolTypeOK'
<1>1. contrib' \in Entries /\ manual' \in SUBSET Fps
  BY DEF RemoveSubscription, Entries, PoolTypeOK
<1>. QED
  BY <1>1, RebuildType DEF RemoveSubscription

LEMMA SetManualNodesType ==
  ASSUME PoolTypeOK, NEW fps \in SUBSET Fps, SetManualNodes(fps)
  PROVE  PoolTypeOK'
<1>1. contrib' \in Entries /\ manual' \in SUBSET Fps
  BY DEF SetManualNodes, Entries, PoolTypeOK
<1>. QED
  BY <1>1, RebuildType DEF SetManualNodes

-----------------------------------------------------------------------------
LEMMA InitTypeOK == Init => TypeOK
<1>. SUFFICES ASSUME Init PROVE TypeOK
  OBVIOUS
<1>1. PoolTypeOK
  BY DEF Init, PoolInit, PoolTypeOK
<1>2. <<>> \in Seq(Fps)
  BY EmptySeq
<1>. QED
  BY <1>1, <1>2 DEF Init, TypeOK, Cfg, Configs, Entries, NoEntries, Steps, SubSteps, Procs

\* One action at a time.
LEMMA NextTypeOK == TypeOK /\ [Next]_vars => TypeOK'
<1>. SUFFICES ASSUME TypeOK, [Next]_vars
              PROVE  TypeOK'
  OBVIOUS
<1>. USE DEF TypeOK, Configs, Entries, NoEntries, Steps, SubSteps, Start, Step, Move,
             Return, Procs, poolVars, cfgVars, requestVars, fileVars, threadVars, historyVars
<1>a. <<>> \in Seq(Fps) /\ PoolTypeOK
  BY EmptySeq
<1>b. ASSUME UNCHANGED poolVars PROVE PoolTypeOK'
  BY <1>a, <1>b DEF PoolTypeOK, poolVars
<1>c. Cfg \in Configs
  BY DEF Cfg
<1>0. CASE UNCHANGED vars
  BY <1>0, <1>a, <1>b DEF vars
<1>1. ASSUME NEW t \in Threads, NEW s \in Subs, AddSubscription(t, s)
     PROVE  TypeOK'
  BY <1>1, <1>a, <1>b DEF AddSubscription, ConfigChanges
<1>2. ASSUME NEW t \in Threads, StartWorker(t)
     PROVE  TypeOK'
  BY <1>2, <1>a, <1>b DEF StartWorker
<1>3. ASSUME NEW t \in Threads, BeginRefresh(t)
     PROVE  TypeOK'
  <2>1. CASE arg[t] \in subs /\ Move(t, "begin", "fetching")
    BY <1>3, <2>1, <1>b DEF BeginRefresh
  <2>2. CASE arg[t] \notin subs /\ Return(t, "begin")
    BY <1>3, <2>2, <1>a, <1>b DEF BeginRefresh
  <2>. QED
    BY <1>3, <2>1, <2>2 DEF BeginRefresh
<1>4. ASSUME NEW t \in Threads, NEW s \in Subs, RefreshSubscription(t, s)
     PROVE  TypeOK'
  BY <1>4, <1>a, <1>b DEF RefreshSubscription
<1>5. ASSUME NEW t \in Threads, AbandonRefresh(t)
     PROVE  TypeOK'
  BY <1>5, <1>a, <1>b DEF AbandonRefresh
<1>6. ASSUME NEW t \in Threads, NEW list \in Lists, CommitRefresh(t, list)
     PROVE  TypeOK'
  <2>1. list \in Seq(Fps)
    BY CoreAssumption
  <2>2. Len(list) \in Nat
    BY <2>1, LenProperties
  <2>. QED
    BY <1>6, <1>a, <1>b, <2>1, <2>2 DEF CommitRefresh
<1>7. ASSUME NEW t \in Threads, SetPool(t)
     PROVE  TypeOK'
  <2>1. arg[t] \in Subs /\ got[t] \in Seq(Fps)
    BY <1>7 DEF SetPool
  <2>2. PoolTypeOK'
    BY <1>7, <1>a, <2>1, SetSubscriptionNodesType DEF SetPool
  <2>. QED
    BY <1>7, <1>a, <2>2 DEF SetPool
<1>8. ASSUME NEW t \in Threads, NEW s \in Subs, DeleteSubscription(t, s)
     PROVE  TypeOK'
  BY <1>8, <1>a, <1>b DEF DeleteSubscription, ConfigChanges, AtStep
<1>9. ASSUME NEW t \in Threads, RemoveFromPool(t)
     PROVE  TypeOK'
  <2>1. arg[t] \in Subs
    BY <1>9 DEF RemoveFromPool
  <2>2. PoolTypeOK'
    BY <1>9, <1>a, <2>1, RemoveSubscriptionType DEF RemoveFromPool
  <2>. QED
    BY <1>9, <2>2 DEF RemoveFromPool
<1>10. ASSUME NEW t \in Procs, CacheSnapshot(t)
     PROVE  TypeOK'
  BY <1>10, <1>a, <1>b DEF CacheSnapshot, PoolTypeOK
<1>11. ASSUME NEW t \in Procs, CacheRename(t)
     PROVE  TypeOK'
  BY <1>11, <1>a, <1>b DEF CacheRename
<1>12. ASSUME NEW t \in Threads, Publish(t)
     PROVE  TypeOK'
  BY <1>12, <1>a, <1>b DEF Publish
<1>13. ASSUME NEW t \in Threads, NEW fp \in Fps, AddManualNode(t, fp)
     PROVE  TypeOK'
  <2>1. Append(links, fp) \in Seq(Fps)
    BY AppendProperties
  <2>. QED
    BY <1>13, <1>b, <2>1 DEF AddManualNode, ConfigChanges
<1>14. ASSUME NEW t \in Threads, NEW fp \in Fps, DeleteNode(t, fp)
     PROVE  TypeOK'
  BY <1>14, <1>a, <1>b DEF DeleteNode
<1>15. ASSUME NEW t \in Threads, DropLink(t)
     PROVE  TypeOK'
  <2>1. links' \in Seq(Fps) /\ unsaved' \in SUBSET {"write", "late"}
    BY <1>15, RemoveAtType DEF DropLink, ConfigChanges
  <2>2. CASE Move(t, "dropLink", "readLinks")
    BY <1>15, <1>b, <2>1, <2>2 DEF DropLink
  <2>3. CASE Return(t, "dropLink")
    BY <1>15, <1>a, <1>b, <2>1, <2>3 DEF DropLink
  <2>. QED
    BY <1>15, <2>2, <2>3 DEF DropLink
<1>16. ASSUME NEW t \in Threads, ReadLinks(t)
     PROVE  TypeOK'
  BY <1>16, <1>a, <1>b DEF ReadLinks
<1>17. ASSUME NEW t \in Threads, SetManual(t)
     PROVE  TypeOK'
  <2>1. Elems(got[t]) \in SUBSET Fps
    BY ElemsType
  <2>2. PoolTypeOK'
    BY <1>17, <1>a, <2>1, SetManualNodesType DEF SetManual
  <2>. QED
    BY <1>17, <1>a, <2>2 DEF SetManual
<1>18. ASSUME NEW w \in Writers, StartWrite(w)
     PROVE  TypeOK'
  BY <1>18, <1>b, <1>c DEF StartWrite
<1>19. ASSUME NEW w \in Writers \cup {Main}, EndWrite(w)
     PROVE  TypeOK'
  <2>1. /\ cfgFile' \in Configs /\ unsaved' \in SUBSET {"write", "late"}
        /\ copies' \in [Writers \cup {Main} -> Configs \cup {None}]
    BY <1>19 DEF EndWrite
  <2>2. /\ pc' \in [Procs -> Steps] /\ UNCHANGED <<arg, got, snap>>
        /\ \A t \in Threads : pc'[t] = pc[t]
    BY <1>19, CoreAssumption DEF EndWrite
  <2>. QED
    BY <1>19, <1>b, <2>1, <2>2 DEF EndWrite
<1>20. CASE EngineApply
  BY <1>20, <1>b DEF EngineApply, Pooled
<1>21. ASSUME NEW fp \in Fps, Measure(fp)
     PROVE  TypeOK'
  <2>1. PoolTypeOK'
    BY <1>21 DEF Measure, SetLatency, InPool, PoolTypeOK
  <2>. QED
    BY <1>21, <2>1 DEF Measure
<1>22. CASE Flush
  <2>1. /\ unsaved' \in SUBSET {"write", "late"} /\ dirty' \in BOOLEAN
        /\ copies' \in [Writers \cup {Main} -> Configs \cup {None}]
    <3>1. unsaved \in SUBSET {"write", "late"} /\ dirty \in BOOLEAN
          /\ copies \in [Writers \cup {Main} -> Configs \cup {None}]
      OBVIOUS
    <3>2. unsaved' = unsaved \/ unsaved' = unsaved \cup {"late"}
      BY <1>22 DEF Flush
    <3>3. \/ dirty' = FALSE /\ copies' = [copies EXCEPT ![Main] = Cfg]
          \/ UNCHANGED <<dirty, copies>>
      BY <1>22 DEF Flush
    <3>4. unsaved' \in SUBSET {"write", "late"}
      BY <3>1, <3>2
    <3>5. dirty' \in BOOLEAN
      BY <3>1, <3>3
    <3>6. copies' \in [Writers \cup {Main} -> Configs \cup {None}]
      BY <1>c, <3>1, <3>3
    <3>. QED
      BY <3>4, <3>5, <3>6
  <2>2. /\ pc' \in [Procs -> Steps] /\ UNCHANGED <<arg, got, snap>>
        /\ \A t \in Threads : pc'[t] = pc[t]
    BY <1>22, CoreAssumption DEF Flush
  <2>. QED
    BY <1>22, <1>b, <2>1, <2>2 DEF Flush
<1>23. ASSUME NEW cfg \in Configs, NEW cache \in Entries, Boot(cfg, cache)
     PROVE  TypeOK'
  <2>1. PoolTypeOK'
    BY <1>23, ElemsType, MergedType DEF Boot, PoolTypeOK
  <2>2. /\ subs' \in SUBSET Subs /\ links' \in Seq(Fps) /\ workers' \in SUBSET Subs
        /\ cfgFile' \in Configs /\ cacheFile' \in Entries
        /\ tried' \in SUBSET Fps /\ boots' \in Nat
        /\ issued' \in SUBSET Subs /\ leaked' \in SUBSET Subs
    BY <1>23 DEF Boot
  <2>3. tainted' \in SUBSET Subs /\ nodeCount' \in [Subs -> Nat] /\ unsaved' = {}
    BY <1>23 DEF Boot
  <2>4. /\ pc' = [t \in Procs |-> "idle"] /\ arg' = [t \in Procs |-> None]
        /\ got' = [t \in Procs |-> <<>>]
        /\ snap' = [t \in Procs |-> [s \in Subs |-> Absent]]
        /\ copies' = [w \in Writers \cup {Main} |-> None]
        /\ dirty' = FALSE /\ reload' = FALSE
    BY <1>23 DEF Boot
  <2>. QED
    BY <1>a, <2>1, <2>2, <2>3, <2>4
<1>. QED
  BY <1>0, <1>1, <1>2, <1>3, <1>4, <1>5, <1>6, <1>7,
     <1>8, <1>9, <1>10, <1>11, <1>12, <1>13, <1>14, <1>15,
     <1>16, <1>17, <1>18, <1>19, <1>20, <1>21, <1>22, <1>23, CoreAssumption
  DEF Next, Call, Continue, Background, WriteConfig, Stop, Exit, Crash, Procs

\* The type invariant.
THEOREM TypeCorrect == Spec => []TypeOK
  BY InitTypeOK, NextTypeOK, PTL DEF Spec

-----------------------------------------------------------------------------
(* The derived map *)

\* A step leaves the pool alone, rebuilds it, records a measurement or boots.
LEMMA PoolSteps ==
  ASSUME [Next]_vars
  PROVE  \/ UNCHANGED poolVars
         \/ Rebuild
         \/ \E fp \in Fps : SetLatency(fp)
         \/ /\ nodes' = Merged(contrib', manual')
            /\ latency' = [fp \in Fps |-> FALSE]
<1>. USE DEF poolVars
<1>1. CASE UNCHANGED vars
  BY <1>1 DEF vars
<1>2. ASSUME NEW t \in Threads, Call(t)
     PROVE  UNCHANGED poolVars
  BY <1>2 DEF Call, AddSubscription, RefreshSubscription, DeleteSubscription,
              AddManualNode, DeleteNode
<1>3. ASSUME NEW t \in Threads, Continue(t)
     PROVE  UNCHANGED poolVars \/ Rebuild
  BY <1>3 DEF Continue, StartWorker, BeginRefresh, AbandonRefresh, CommitRefresh,
              SetPool, SetSubscriptionNodes, RemoveFromPool, RemoveSubscription,
              CacheSnapshot, CacheRename, Publish, DropLink, ReadLinks, SetManual,
              SetManualNodes
<1>4. CASE Background
  BY <1>4, CoreAssumption DEF Background, WriteConfig, StartWrite, EndWrite, EngineApply, Measure
<1>5. ASSUME NEW cfg, NEW cache, Boot(cfg, cache)
     PROVE  /\ nodes' = Merged(contrib', manual')
            /\ latency' = [fp \in Fps |-> FALSE]
  BY <1>5 DEF Boot
<1>6. CASE Crash \/ Exit
  BY <1>5, <1>6 DEF Crash, Exit
<1>7. CASE Flush \/ CacheSnapshot(Main) \/ CacheRename(Main)
  BY <1>7 DEF Flush, CacheSnapshot, CacheRename
<1>. QED
  BY <1>1, <1>2, <1>3, <1>4, <1>6, <1>7 DEF Next, Stop

LEMMA NextPoolDerived == TypeOK /\ PoolDerived /\ [Next]_vars => PoolDerived'
<1>. SUFFICES ASSUME TypeOK, PoolDerived, [Next]_vars
              PROVE  PoolDerived'
  OBVIOUS
<1>. USE DEF PoolDerived, InPool
<1>1. CASE UNCHANGED poolVars
  BY <1>1 DEF poolVars, Merged
<1>2. CASE Rebuild
  BY <1>2 DEF Rebuild, Merged
<1>3. ASSUME NEW fp \in Fps, SetLatency(fp)
     PROVE  PoolDerived'
  <2>1. nodes' = Merged(contrib', manual')
    BY <1>3 DEF SetLatency, Merged
  <2>2. ASSUME NEW other \in Fps, latency'[other]
       PROVE  nodes[other] # {}
    <3>1. latency \in [Fps -> BOOLEAN]
      BY DEF TypeOK, PoolTypeOK
    <3>2. latency' = [latency EXCEPT ![fp] = @ \/ (nodes[fp] # {})]
      BY <1>3 DEF SetLatency
    <3>3. CASE other = fp
      BY <2>2, <3>1, <3>2, <3>3
    <3>4. CASE other # fp
      BY <2>2, <3>1, <3>2, <3>4
    <3>. QED
      BY <3>3, <3>4
  <2>3. nodes' = nodes
    BY <1>3 DEF SetLatency
  <2>. QED
    BY <2>1, <2>2, <2>3
<1>4. CASE /\ nodes' = Merged(contrib', manual')
           /\ latency' = [fp \in Fps |-> FALSE]
  BY <1>4 DEF Merged
<1>. QED
  BY <1>1, <1>2, <1>3, <1>4, PoolSteps

\* The derived node map always agrees with the lists it is derived from, and
\* no measurement outlives its node (pool.go rebuild, SetLatency).
THEOREM PoolIsDerived == Spec => []PoolDerived
<1>1. Init => PoolDerived
  <2>. SUFFICES ASSUME Init PROVE PoolDerived
    OBVIOUS
  <2>1. \A s \in Subs : Proxies(contrib[s]) = {}
    BY DEF Init, PoolInit, Proxies
  <2>2. manual = {} /\ nodes = [fp \in Fps |-> {}] /\ latency = [fp \in Fps |-> FALSE]
    BY DEF Init, PoolInit
  <2>3. Merged(contrib, manual) = [fp \in Fps |-> {}]
    BY <2>1, <2>2 DEF Merged
  <2>. QED
    BY <2>2, <2>3 DEF PoolDerived
<1>. QED
  BY <1>1, NextPoolDerived, TypeCorrect, PTL DEF Spec

-----------------------------------------------------------------------------
(* Orphans and leaked workers *)

\* A refresh about to set the pool works on a configured id, or on one that
\* was deleted after its re-check.
LateSetKnown ==
  \A t \in Threads : pc[t] = "setPool" => arg[t] \in subs \cup tainted

\* An add about to start its worker works on a configured id, or on one that
\* was deleted first.
LateSpawnKnown ==
  \A t \in Threads : pc[t] = "spawn" => arg[t] \in subs \cup leaked

RaceInv ==
  /\ OrphanOnlyByRace
  /\ LateSetKnown
  /\ LeakOnlyByRace
  /\ LateSpawnKnown

LEMMA InitRaceInv == Init => RaceInv
BY DEF Init, PoolInit, RaceInv, OrphanOnlyByRace, Orphans, LateSetKnown,
       LeakOnlyByRace, LateSpawnKnown, Procs

LEMMA NextRaceInv == TypeOK /\ RaceInv /\ [Next]_vars => RaceInv'
<1>. SUFFICES ASSUME TypeOK, RaceInv, [Next]_vars
              PROVE  RaceInv'
  OBVIOUS
<1>. USE DEF RaceInv, OrphanOnlyByRace, Orphans, LateSetKnown, LeakOnlyByRace,
             LateSpawnKnown, AtStep, Start, Step, Move, Return, Procs, poolVars, cfgVars,
             requestVars, fileVars, threadVars, historyVars
<1>a. /\ pc \in [Procs -> Steps] /\ arg \in [Procs -> Subs \cup Fps \cup {None}]
      /\ contrib \in [Subs -> Seq(Fps) \cup {Absent}]
      /\ \A t \in Threads : pc[t] \in SubSteps => arg[t] \in Subs
  BY DEF TypeOK, PoolTypeOK
<1>b. \A step \in {"spawn", "begin", "fetching", "setPool", "removePool"} :
        step \in SubSteps
  BY DEF SubSteps
<1>c. Main \notin Threads
  BY CoreAssumption
<1>0. CASE UNCHANGED vars
  BY <1>0, <1>a, <1>b DEF vars
<1>1. ASSUME NEW t \in Threads, NEW s \in Subs, AddSubscription(t, s)
     PROVE  RaceInv'
  BY <1>1, <1>a, <1>b DEF AddSubscription, ConfigChanges
<1>2. ASSUME NEW t \in Threads, StartWorker(t)
     PROVE  RaceInv'
  BY <1>2, <1>a, <1>b DEF StartWorker
<1>3. ASSUME NEW t \in Threads, BeginRefresh(t)
     PROVE  RaceInv'
  BY <1>3, <1>a, <1>b DEF BeginRefresh
<1>4. ASSUME NEW t \in Threads, NEW s \in Subs, RefreshSubscription(t, s)
     PROVE  RaceInv'
  BY <1>4, <1>a, <1>b DEF RefreshSubscription
<1>5. ASSUME NEW t \in Threads, AbandonRefresh(t)
     PROVE  RaceInv'
  BY <1>5, <1>a, <1>b DEF AbandonRefresh
<1>6. ASSUME NEW t \in Threads, NEW list \in Lists, CommitRefresh(t, list)
     PROVE  RaceInv'
  BY <1>6, <1>a, <1>b DEF CommitRefresh
<1>7. ASSUME NEW t \in Threads, SetPool(t)
     PROVE  RaceInv'
  BY <1>7, <1>a, <1>b DEF SetPool, SetSubscriptionNodes
<1>8. ASSUME NEW t \in Threads, NEW s \in Subs, DeleteSubscription(t, s)
     PROVE  RaceInv'
  BY <1>8, <1>a, <1>b DEF DeleteSubscription, ConfigChanges
<1>9. ASSUME NEW t \in Threads, RemoveFromPool(t)
     PROVE  RaceInv'
  BY <1>9, <1>a, <1>b DEF RemoveFromPool, RemoveSubscription
<1>10. ASSUME NEW t \in Procs, CacheSnapshot(t)
     PROVE  RaceInv'
  BY <1>10, <1>a, <1>b DEF CacheSnapshot
<1>11. ASSUME NEW t \in Procs, CacheRename(t)
     PROVE  RaceInv'
  BY <1>11, <1>a, <1>b DEF CacheRename
<1>12. ASSUME NEW t \in Threads, Publish(t)
     PROVE  RaceInv'
  BY <1>12, <1>a, <1>b DEF Publish
<1>13. ASSUME NEW t \in Threads, NEW fp \in Fps, AddManualNode(t, fp)
     PROVE  RaceInv'
  BY <1>13, <1>a, <1>b DEF AddManualNode, ConfigChanges
<1>14. ASSUME NEW t \in Threads, NEW fp \in Fps, DeleteNode(t, fp)
     PROVE  RaceInv'
  BY <1>14, <1>a, <1>b DEF DeleteNode
<1>15. ASSUME NEW t \in Threads, DropLink(t)
     PROVE  RaceInv'
  BY <1>15, <1>a, <1>b DEF DropLink, ConfigChanges
<1>16. ASSUME NEW t \in Threads, ReadLinks(t)
     PROVE  RaceInv'
  BY <1>16, <1>a, <1>b DEF ReadLinks
<1>17. ASSUME NEW t \in Threads, SetManual(t)
     PROVE  RaceInv'
  BY <1>17, <1>a, <1>b DEF SetManual, SetManualNodes
<1>18. ASSUME NEW w \in Writers, StartWrite(w)
     PROVE  RaceInv'
  BY <1>18, <1>a, <1>b DEF StartWrite
<1>19. ASSUME NEW w \in Writers \cup {Main}, EndWrite(w)
     PROVE  RaceInv'
  BY <1>19, <1>a, <1>c DEF EndWrite
<1>20. CASE EngineApply
  BY <1>20, <1>a, <1>b DEF EngineApply
<1>21. ASSUME NEW fp \in Fps, Measure(fp)
     PROVE  RaceInv'
  BY <1>21, <1>a, <1>b DEF Measure, SetLatency
<1>22. CASE Flush
  BY <1>22, <1>a, <1>c DEF Flush
<1>23. ASSUME NEW cfg, NEW cache, Boot(cfg, cache)
     PROVE  RaceInv'
  BY <1>23 DEF Boot
<1>. QED
  BY <1>0, <1>1, <1>2, <1>3, <1>4, <1>5, <1>6, <1>7,
     <1>8, <1>9, <1>10, <1>11, <1>12, <1>13, <1>14, <1>15,
     <1>16, <1>17, <1>18, <1>19, <1>20, <1>21, <1>22, <1>23, CoreAssumption
  DEF Next, Call, Continue, Background, WriteConfig, Stop, Exit, Crash, Procs

\* Nodes of a deleted subscription outlive its delete only through the late
\* SetSubscriptionNodes or through a restart that finds nodes.json ahead of or
\* behind config.yaml: for every number of threads, ids and faults.
THEOREM OrphansOnlyByRace == Spec => []OrphanOnlyByRace
<1>1. RaceInv => OrphanOnlyByRace
  BY DEF RaceInv
<1>. QED
  BY <1>1, InitRaceInv, NextRaceInv, TypeCorrect, PTL DEF Spec

\* A worker outlives its subscription only when the delete came between the
\* add's commit and its startWorker.
THEOREM LeaksOnlyByRace == Spec => []LeakOnlyByRace
<1>1. RaceInv => LeakOnlyByRace
  BY DEF RaceInv
<1>. QED
  BY <1>1, InitRaceInv, NextRaceInv, TypeCorrect, PTL DEF Spec

-----------------------------------------------------------------------------
(* Requests: no reload and no config write is forgotten *)

LEMMA InitRequests == Init => NoLostReload /\ NoLostConfigWrite
BY DEF Init, PoolInit, NoLostReload, NoLostConfigWrite, Pooled, InPool, Cfg

LEMMA NextNoLostReload == TypeOK /\ NoLostReload /\ [Next]_vars => NoLostReload'
<1>. SUFFICES ASSUME TypeOK, NoLostReload, [Next]_vars
              PROVE  NoLostReload'
  OBVIOUS
<1>. USE DEF NoLostReload, WillPublish, Pooled, InPool, Start, Step, Move, Return, Procs,
             poolVars, cfgVars, requestVars, fileVars, threadVars, historyVars
<1>a. pc \in [Procs -> Steps] /\ Main \notin Threads
  BY CoreAssumption DEF TypeOK
<1>0. CASE UNCHANGED vars
  BY <1>0, <1>a DEF vars
<1>1. ASSUME NEW t \in Threads, NEW s \in Subs, AddSubscription(t, s)
     PROVE  NoLostReload'
  BY <1>1, <1>a DEF AddSubscription, ConfigChanges
<1>2. ASSUME NEW t \in Threads, StartWorker(t)
     PROVE  NoLostReload'
  BY <1>2, <1>a DEF StartWorker
<1>3. ASSUME NEW t \in Threads, BeginRefresh(t)
     PROVE  NoLostReload'
  BY <1>3, <1>a DEF BeginRefresh
<1>4. ASSUME NEW t \in Threads, NEW s \in Subs, RefreshSubscription(t, s)
     PROVE  NoLostReload'
  BY <1>4, <1>a DEF RefreshSubscription
<1>5. ASSUME NEW t \in Threads, AbandonRefresh(t)
     PROVE  NoLostReload'
  BY <1>5, <1>a DEF AbandonRefresh
<1>6. ASSUME NEW t \in Threads, NEW list \in Lists, CommitRefresh(t, list)
     PROVE  NoLostReload'
  BY <1>6, <1>a DEF CommitRefresh
<1>7. ASSUME NEW t \in Threads, SetPool(t)
     PROVE  NoLostReload'
  BY <1>7, <1>a DEF SetPool
<1>8. ASSUME NEW t \in Threads, NEW s \in Subs, DeleteSubscription(t, s)
     PROVE  NoLostReload'
  BY <1>8, <1>a DEF DeleteSubscription, ConfigChanges
<1>9. ASSUME NEW t \in Threads, RemoveFromPool(t)
     PROVE  NoLostReload'
  BY <1>9, <1>a DEF RemoveFromPool
<1>10. ASSUME NEW t \in Procs, CacheSnapshot(t)
     PROVE  NoLostReload'
  BY <1>10, <1>a DEF CacheSnapshot
<1>11. ASSUME NEW t \in Procs, CacheRename(t)
     PROVE  NoLostReload'
  BY <1>11, <1>a DEF CacheRename
<1>12. ASSUME NEW t \in Threads, Publish(t)
     PROVE  NoLostReload'
  BY <1>12, <1>a DEF Publish
<1>13. ASSUME NEW t \in Threads, NEW fp \in Fps, AddManualNode(t, fp)
     PROVE  NoLostReload'
  BY <1>13, <1>a DEF AddManualNode, ConfigChanges
<1>14. ASSUME NEW t \in Threads, NEW fp \in Fps, DeleteNode(t, fp)
     PROVE  NoLostReload'
  BY <1>14, <1>a DEF DeleteNode
<1>15. ASSUME NEW t \in Threads, DropLink(t)
     PROVE  NoLostReload'
  BY <1>15, <1>a DEF DropLink, ConfigChanges
<1>16. ASSUME NEW t \in Threads, ReadLinks(t)
     PROVE  NoLostReload'
  BY <1>16, <1>a DEF ReadLinks
<1>17. ASSUME NEW t \in Threads, SetManual(t)
     PROVE  NoLostReload'
  BY <1>17, <1>a DEF SetManual
<1>18. ASSUME NEW w \in Writers, StartWrite(w)
     PROVE  NoLostReload'
  BY <1>18, <1>a DEF StartWrite
<1>19. ASSUME NEW w \in Writers \cup {Main}, EndWrite(w)
     PROVE  NoLostReload'
  BY <1>19, <1>a DEF EndWrite
<1>20. CASE EngineApply
  BY <1>20, <1>a DEF EngineApply
<1>21. ASSUME NEW fp \in Fps, Measure(fp)
     PROVE  NoLostReload'
  BY <1>21, <1>a DEF Measure, SetLatency
<1>22. CASE Flush
  BY <1>22, <1>a DEF Flush
<1>23. ASSUME NEW cfg, NEW cache, Boot(cfg, cache)
     PROVE  NoLostReload'
  BY <1>23, <1>a DEF Boot
<1>. QED
  BY <1>0, <1>1, <1>2, <1>3, <1>4, <1>5, <1>6, <1>7,
     <1>8, <1>9, <1>10, <1>11, <1>12, <1>13, <1>14, <1>15,
     <1>16, <1>17, <1>18, <1>19, <1>20, <1>21, <1>22, <1>23, CoreAssumption
  DEF Next, Call, Continue, Background, WriteConfig, Stop, Exit, Crash, Procs

\* The engine is never left with an outdated node set and nobody to tell it.
THEOREM ReloadNeverLost == Spec => []NoLostReload
  BY InitRequests, NextNoLostReload, TypeCorrect, PTL DEF Spec

\* A step that changes neither the configuration nor its files, and forgets no
\* request, loses no write.
LEMMA ConfigKept ==
  ASSUME NoLostConfigWrite, UNCHANGED <<subs, links, cfgFile, copies, unsaved>>,
         dirty => dirty',
         \A t \in Threads : WillSchedule(t) => WillSchedule(t)' \/ dirty'
  PROVE  NoLostConfigWrite'
<1>1. Cfg' = Cfg
  BY DEF Cfg
<1>. QED
  BY <1>1 DEF NoLostConfigWrite, Writing

LEMMA NextNoLostConfigWrite ==
  TypeOK /\ NoLostConfigWrite /\ [Next]_vars => NoLostConfigWrite'
<1>. SUFFICES ASSUME TypeOK, NoLostConfigWrite, [Next]_vars
              PROVE  NoLostConfigWrite'
  OBVIOUS
<1>. USE DEF WillSchedule, Start, Step, Move, Return, Procs,
             poolVars, cfgVars, requestVars, fileVars, threadVars, historyVars
<1>a. /\ pc \in [Procs -> Steps] /\ Main \notin Threads
      /\ copies \in [Writers \cup {Main} -> Configs \cup {None}]
  BY CoreAssumption DEF TypeOK
<1>0. CASE UNCHANGED vars
  BY <1>0, <1>a, ConfigKept DEF vars
<1>1. ASSUME NEW t \in Threads, NEW s \in Subs, AddSubscription(t, s)
     PROVE  NoLostConfigWrite'
  BY <1>1, <1>a DEF AddSubscription, NoLostConfigWrite
<1>2. ASSUME NEW t \in Threads, StartWorker(t)
     PROVE  NoLostConfigWrite'
  BY <1>2, <1>a, ConfigKept DEF StartWorker
<1>3. ASSUME NEW t \in Threads, BeginRefresh(t)
     PROVE  NoLostConfigWrite'
  BY <1>3, <1>a, ConfigKept DEF BeginRefresh
<1>4. ASSUME NEW t \in Threads, NEW s \in Subs, RefreshSubscription(t, s)
     PROVE  NoLostConfigWrite'
  BY <1>4, <1>a, ConfigKept DEF RefreshSubscription
<1>5. ASSUME NEW t \in Threads, AbandonRefresh(t)
     PROVE  NoLostConfigWrite'
  BY <1>5, <1>a, ConfigKept DEF AbandonRefresh
<1>6. ASSUME NEW t \in Threads, NEW list \in Lists, CommitRefresh(t, list)
     PROVE  NoLostConfigWrite'
  BY <1>6, <1>a, ConfigKept DEF CommitRefresh
<1>7. ASSUME NEW t \in Threads, SetPool(t)
     PROVE  NoLostConfigWrite'
  BY <1>7, <1>a, ConfigKept DEF SetPool
<1>8. ASSUME NEW t \in Threads, NEW s \in Subs, DeleteSubscription(t, s)
     PROVE  NoLostConfigWrite'
  BY <1>8, <1>a DEF DeleteSubscription, NoLostConfigWrite
<1>9. ASSUME NEW t \in Threads, RemoveFromPool(t)
     PROVE  NoLostConfigWrite'
  BY <1>9, <1>a, ConfigKept DEF RemoveFromPool
<1>10. ASSUME NEW t \in Procs, CacheSnapshot(t)
     PROVE  NoLostConfigWrite'
  BY <1>10, <1>a, ConfigKept DEF CacheSnapshot
<1>11. ASSUME NEW t \in Procs, CacheRename(t)
     PROVE  NoLostConfigWrite'
  BY <1>11, <1>a, ConfigKept DEF CacheRename
<1>12. ASSUME NEW t \in Threads, Publish(t)
     PROVE  NoLostConfigWrite'
  BY <1>12, <1>a, ConfigKept DEF Publish
<1>13. ASSUME NEW t \in Threads, NEW fp \in Fps, AddManualNode(t, fp)
     PROVE  NoLostConfigWrite'
  BY <1>13, <1>a DEF AddManualNode, NoLostConfigWrite
<1>14. ASSUME NEW t \in Threads, NEW fp \in Fps, DeleteNode(t, fp)
     PROVE  NoLostConfigWrite'
  BY <1>14, <1>a, ConfigKept DEF DeleteNode
<1>15. ASSUME NEW t \in Threads, DropLink(t)
     PROVE  NoLostConfigWrite'
  <2>1. CASE Move(t, "dropLink", "readLinks")
    BY <1>15, <2>1, <1>a DEF NoLostConfigWrite
  <2>2. CASE Return(t, "dropLink")
    BY <1>15, <2>2, <1>a, ConfigKept DEF DropLink
  <2>. QED
    BY <1>15, <2>1, <2>2 DEF DropLink
<1>16. ASSUME NEW t \in Threads, ReadLinks(t)
     PROVE  NoLostConfigWrite'
  BY <1>16, <1>a, ConfigKept DEF ReadLinks
<1>17. ASSUME NEW t \in Threads, SetManual(t)
     PROVE  NoLostConfigWrite'
  BY <1>17, <1>a, ConfigKept DEF SetManual
<1>18. ASSUME NEW w \in Writers, StartWrite(w)
     PROVE  NoLostConfigWrite'
  BY <1>18, <1>a DEF StartWrite, Cfg, NoLostConfigWrite, Writing
<1>19. ASSUME NEW w \in Writers \cup {Main}, EndWrite(w)
     PROVE  NoLostConfigWrite'
  <2>1. Cfg' = Cfg /\ dirty' = dirty
    BY <1>19 DEF EndWrite, Cfg
  <2>2. \A t \in Threads : pc'[t] = pc[t]
    BY <1>19, <1>a DEF EndWrite
  <2>. QED
    BY <1>19, <1>a, <2>1, <2>2 DEF EndWrite, NoLostConfigWrite, Writing
<1>20. CASE EngineApply
  BY <1>20, <1>a, ConfigKept DEF EngineApply
<1>21. ASSUME NEW fp \in Fps, Measure(fp)
     PROVE  NoLostConfigWrite'
  BY <1>21, <1>a, ConfigKept DEF Measure, SetLatency
<1>22. CASE Flush
  <2>1. \A t \in Threads : pc'[t] = pc[t]
    BY <1>22, <1>a DEF Flush
  <2>2. CASE dirty
    BY <1>22, <1>a, <2>1, <2>2 DEF Flush, Cfg, NoLostConfigWrite, Writing
  <2>3. CASE ~dirty
    BY <1>22, <1>a, <2>1, <2>3 DEF Flush, Cfg, NoLostConfigWrite, Writing
  <2>. QED
    BY <2>2, <2>3
<1>23. ASSUME NEW cfg \in Configs, NEW cache, Boot(cfg, cache)
     PROVE  NoLostConfigWrite'
  BY <1>23 DEF Boot, Cfg, NoLostConfigWrite, Configs
<1>. QED
  BY <1>0, <1>1, <1>2, <1>3, <1>4, <1>5, <1>6, <1>7,
     <1>8, <1>9, <1>10, <1>11, <1>12, <1>13, <1>14, <1>15,
     <1>16, <1>17, <1>18, <1>19, <1>20, <1>21, <1>22, <1>23, CoreAssumption
  DEF TypeOK, Next, Call, Continue, Background, WriteConfig, Stop, Exit, Crash, Procs

\* No configuration change is forgotten: a write of it is pending, coming or under
\* way, or failed or was overtaken (config/store.go:36-51, 71-84).
THEOREM ConfigWriteNeverLost == Spec => []NoLostConfigWrite
  BY InitRequests, NextNoLostConfigWrite, TypeCorrect, PTL DEF Spec

-----------------------------------------------------------------------------
(* Action properties *)

\* Once a delete has reached config.yaml, with no older copy on its way there, the
\* subscription never comes back (core/subscriptions.go:139-161, pool/cache.go:63).
THEOREM DeletesAreForGood == Spec => DeletedForGood
<1>. DEFINE Stays == \A s \in issued \ Known : s \notin Known'
<1>. USE DEF cfgVars, fileVars
<1>1. ASSUME NEW t \in Threads, Call(t)
     PROVE  Stays
  BY <1>1 DEF Known, Call, AddSubscription, RefreshSubscription, DeleteSubscription,
              AddManualNode, DeleteNode
<1>2. ASSUME NEW t \in Threads, Continue(t)
     PROVE  Stays
  BY <1>2 DEF Known, Continue, StartWorker, BeginRefresh, AbandonRefresh, CommitRefresh,
              SetPool, RemoveFromPool, CacheSnapshot, CacheRename, Publish, DropLink,
              ReadLinks, SetManual
<1>3. ASSUME TypeOK, NEW w \in Writers \cup {Main}, UNCHANGED <<subs, cfgFile>>,
             copies' = [copies EXCEPT ![w] = Cfg]
     PROVE  Stays
  BY <1>3 DEF Known, Cfg, TypeOK
<1>4. ASSUME TypeOK, NEW w \in Writers \cup {Main}, EndWrite(w)
     PROVE  Stays
  BY <1>4 DEF Known, EndWrite, TypeOK
<1>5. ASSUME TypeOK, Background PROVE Stays
  BY <1>3, <1>4, <1>5 DEF Background, WriteConfig, StartWrite, EngineApply, Measure, Known
<1>6. ASSUME TypeOK, Flush PROVE Stays
  <2>1. CASE dirty
    BY <1>3, <1>6, <2>1 DEF Flush
  <2>2. CASE ~dirty
    BY <1>6, <2>2 DEF Flush, Known
  <2>. QED
    BY <2>1, <2>2
<1>7. ASSUME CacheSnapshot(Main) \/ CacheRename(Main) PROVE Stays
  BY <1>7 DEF CacheSnapshot, CacheRename, Known
<1>8. ASSUME Crash \/ Exit PROVE Stays
  BY <1>8 DEF Crash, Exit, Boot, Known
<1>9. TypeOK /\ [Next]_vars => [Stays]_vars
  BY <1>1, <1>2, <1>5, <1>6, <1>7, <1>8 DEF Next, Stop
<1>. QED
  BY <1>9, TypeCorrect, PTL DEF Spec, DeletedForGood

\* Main's copy is its flush, of the configuration as it is unless a change came
\* later; once it is done config.yaml holds the configuration, or a callback is
\* still writing it, or something kept it out.
StopInv ==
  /\ copies[Main] # None => pc[Main] = "flush"
  /\ pc[Main] = "flush" => copies[Main] = Cfg \/ unsaved # {}
  /\ pc[Main] \in {"snapshot", "rename", "exit"} =>
       \/ cfgFile = Cfg
       \/ unsaved # {}
       \/ \E w \in Writers : copies[w] = Cfg

LEMMA NextStopInv ==
  TypeOK /\ NoLostConfigWrite /\ StopInv /\ [Next]_vars => StopInv'
<1>. SUFFICES ASSUME TypeOK, NoLostConfigWrite, StopInv, [Next]_vars
              PROVE  StopInv'
  OBVIOUS
<1>. USE DEF Start, Step, Move, Return, Procs,
             poolVars, cfgVars, requestVars, fileVars, threadVars, historyVars
<1>a. /\ pc \in [Procs -> Steps] /\ Main \notin Threads /\ Main \notin Writers
      /\ copies \in [Writers \cup {Main} -> Configs \cup {None}]
  BY CoreAssumption DEF TypeOK
<1>b. ASSUME UNCHANGED <<subs, links, cfgFile, copies, unsaved>>, pc'[Main] = pc[Main]
     PROVE  StopInv'
  BY <1>b DEF StopInv, Cfg
<1>c. ASSUME ConfigChanges, UNCHANGED <<cfgFile, copies>>, pc'[Main] = pc[Main]
     PROVE  StopInv'
  BY <1>c DEF StopInv, ConfigChanges
<1>0. CASE UNCHANGED vars
  BY <1>0, <1>a, <1>b DEF vars
<1>1. ASSUME NEW t \in Threads, NEW s \in Subs, AddSubscription(t, s)
     PROVE  StopInv'
  BY <1>1, <1>a, <1>c DEF AddSubscription
<1>2. ASSUME NEW t \in Threads, StartWorker(t)
     PROVE  StopInv'
  BY <1>2, <1>a, <1>b DEF StartWorker
<1>3. ASSUME NEW t \in Threads, BeginRefresh(t)
     PROVE  StopInv'
  BY <1>3, <1>a, <1>b DEF BeginRefresh
<1>4. ASSUME NEW t \in Threads, NEW s \in Subs, RefreshSubscription(t, s)
     PROVE  StopInv'
  BY <1>4, <1>a, <1>b DEF RefreshSubscription
<1>5. ASSUME NEW t \in Threads, AbandonRefresh(t)
     PROVE  StopInv'
  BY <1>5, <1>a, <1>b DEF AbandonRefresh
<1>6. ASSUME NEW t \in Threads, NEW list \in Lists, CommitRefresh(t, list)
     PROVE  StopInv'
  BY <1>6, <1>a, <1>b DEF CommitRefresh
<1>7. ASSUME NEW t \in Threads, SetPool(t)
     PROVE  StopInv'
  BY <1>7, <1>a, <1>b DEF SetPool
<1>8. ASSUME NEW t \in Threads, NEW s \in Subs, DeleteSubscription(t, s)
     PROVE  StopInv'
  BY <1>8, <1>a, <1>c DEF DeleteSubscription
<1>9. ASSUME NEW t \in Threads, RemoveFromPool(t)
     PROVE  StopInv'
  BY <1>9, <1>a, <1>b DEF RemoveFromPool
<1>10. ASSUME NEW t \in Procs, CacheSnapshot(t)
     PROVE  StopInv'
  <2>1. Cfg' = Cfg
    BY <1>10 DEF CacheSnapshot, Cfg
  <2>. QED
    BY <1>10, <1>a, <2>1 DEF CacheSnapshot, StopInv
<1>11. ASSUME NEW t \in Procs, CacheRename(t)
     PROVE  StopInv'
  <2>1. Cfg' = Cfg
    BY <1>11 DEF CacheRename, Cfg
  <2>. QED
    BY <1>11, <1>a, <2>1 DEF CacheRename, StopInv
<1>12. ASSUME NEW t \in Threads, Publish(t)
     PROVE  StopInv'
  BY <1>12, <1>a, <1>b DEF Publish
<1>13. ASSUME NEW t \in Threads, NEW fp \in Fps, AddManualNode(t, fp)
     PROVE  StopInv'
  BY <1>13, <1>a, <1>c DEF AddManualNode
<1>14. ASSUME NEW t \in Threads, NEW fp \in Fps, DeleteNode(t, fp)
     PROVE  StopInv'
  BY <1>14, <1>a, <1>b DEF DeleteNode
<1>15. ASSUME NEW t \in Threads, DropLink(t)
     PROVE  StopInv'
  BY <1>15, <1>a, <1>b, <1>c DEF DropLink
<1>16. ASSUME NEW t \in Threads, ReadLinks(t)
     PROVE  StopInv'
  BY <1>16, <1>a, <1>b DEF ReadLinks
<1>17. ASSUME NEW t \in Threads, SetManual(t)
     PROVE  StopInv'
  BY <1>17, <1>a, <1>b DEF SetManual
<1>18. ASSUME NEW w \in Writers, StartWrite(w)
     PROVE  StopInv'
  <2>1. Cfg' = Cfg /\ w # Main
    BY <1>18, <1>a DEF StartWrite, Cfg
  <2>. QED
    BY <1>18, <1>a, <2>1 DEF StartWrite, StopInv
<1>19. ASSUME NEW w \in Writers \cup {Main}, EndWrite(w)
     PROVE  StopInv'
  <2>1. Cfg' = Cfg
    BY <1>19 DEF EndWrite, Cfg
  <2>2. CASE w = Main
    BY <1>19, <1>a, <2>1, <2>2 DEF EndWrite, StopInv
  <2>3. CASE w # Main
    BY <1>19, <1>a, <2>1, <2>3 DEF EndWrite, StopInv
  <2>. QED
    BY <2>2, <2>3
<1>20. CASE EngineApply
  BY <1>20, <1>a, <1>b DEF EngineApply
<1>21. ASSUME NEW fp \in Fps, Measure(fp)
     PROVE  StopInv'
  BY <1>21, <1>a, <1>b DEF Measure, SetLatency
<1>22. CASE Flush
  <2>1. Cfg' = Cfg
    BY <1>22 DEF Flush, Cfg
  <2>2. CASE dirty
    BY <1>22, <1>a, <2>1, <2>2 DEF Flush, StopInv
  <2>3. CASE ~dirty
    <3>1. /\ pc[Main] = "idle" /\ pc'[Main] = "snapshot"
          /\ UNCHANGED <<cfgFile, copies>> /\ unsaved \subseteq unsaved'
          /\ \A t \in Threads : WillSchedule(t) => unsaved' # {}
      BY <1>22, <1>a, <2>3 DEF Flush
    <3>2. copies[Main] # Cfg
      BY <3>1, CoreAssumption DEF StopInv, Cfg, TypeOK
    <3>3. cfgFile = Cfg \/ unsaved' # {} \/ \E w \in Writers : copies[w] = Cfg
      BY <2>3, <3>1, <3>2 DEF NoLostConfigWrite, Writing
    <3>. QED
      BY <2>1, <3>1, <3>3 DEF StopInv
  <2>. QED
    BY <2>2, <2>3
<1>23. ASSUME NEW cfg, NEW cache, Boot(cfg, cache)
     PROVE  StopInv'
  BY <1>23 DEF Boot, StopInv
<1>. QED
  BY <1>0, <1>1, <1>2, <1>3, <1>4, <1>5, <1>6, <1>7,
     <1>8, <1>9, <1>10, <1>11, <1>12, <1>13, <1>14, <1>15,
     <1>16, <1>17, <1>18, <1>19, <1>20, <1>21, <1>22, <1>23, CoreAssumption
  DEF Next, Call, Continue, Background, WriteConfig, Stop, Exit, Crash, Procs

\* A stop by SIGTERM, whatever is under way, loses a change of the configuration
\* only through a failed, overtaken or still running write, or when its operation
\* had not called Schedule by then (core/app.go:104-113, config/store.go:53-84).
THEOREM StopKeepsConfig == Spec => ExitKeepsConfig
<1>. DEFINE Keeps == Exit => \/ cfgFile = Cfg
                             \/ unsaved # {}
                             \/ \E w \in Writers : copies[w] = Cfg
<1>1. Init => StopInv
  BY DEF Init, StopInv, Procs
<1>2. StopInv => Keeps
  BY DEF StopInv, Exit
<1>3. StopInv /\ [Next]_vars => [Keeps]_vars
  BY <1>2
<1>. QED
  BY <1>1, <1>3, NextStopInv, TypeCorrect, ConfigWriteNeverLost, PTL
  DEF Spec, ExitKeepsConfig

-----------------------------------------------------------------------------
(* What stays in agreement when operations overlap *)

LEMMA SyncIsSpec == SyncSpec => Spec
<1>1. SyncInit => Init
  BY DEF SyncInit
<1>2. [SyncNext]_<<vars, syncVars>> => [Next]_vars
  BY DEF SyncNext
<1>. QED
  BY <1>1, <1>2, PTL DEF SyncSpec, Spec

\* A step that changes neither the links nor the manual nodes, and takes no thread
\* out of reloadManualNodes, keeps their agreement.
LEMMA ManualKept ==
  ASSUME ManualInSync, Record, UNCHANGED <<manual, links, boots>>,
         \A t \in Threads : pc[t] \in {"readLinks", "setManual"} => pc'[t] = pc[t]
  PROVE  ManualInSync'
BY DEF ManualInSync, Record, Leaves, SameBoot

LEMMA NextManualInSync ==
  TypeOK /\ ManualInSync /\ Next /\ Record => ManualInSync'
<1>. SUFFICES ASSUME TypeOK, ManualInSync, Next, Record
              PROVE  ManualInSync'
  OBVIOUS
<1>. USE DEF Start, Step, Move, Return, Procs,
             poolVars, cfgVars, requestVars, fileVars, threadVars, historyVars
<1>a. pc \in [Procs -> Steps] /\ arg \in [Procs -> Subs \cup Fps \cup {None}]
      /\ Main \notin Threads
  BY CoreAssumption DEF TypeOK
<1>1. ASSUME NEW t \in Threads, NEW s \in Subs, AddSubscription(t, s)
     PROVE  ManualInSync'
  BY <1>1, <1>a, ManualKept DEF AddSubscription
<1>2. ASSUME NEW t \in Threads, StartWorker(t)
     PROVE  ManualInSync'
  BY <1>2, <1>a, ManualKept DEF StartWorker
<1>3. ASSUME NEW t \in Threads, BeginRefresh(t)
     PROVE  ManualInSync'
  BY <1>3, <1>a, ManualKept DEF BeginRefresh
<1>4. ASSUME NEW t \in Threads, NEW s \in Subs, RefreshSubscription(t, s)
     PROVE  ManualInSync'
  BY <1>4, <1>a, ManualKept DEF RefreshSubscription
<1>5. ASSUME NEW t \in Threads, AbandonRefresh(t)
     PROVE  ManualInSync'
  BY <1>5, <1>a, ManualKept DEF AbandonRefresh
<1>6. ASSUME NEW t \in Threads, NEW list \in Lists, CommitRefresh(t, list)
     PROVE  ManualInSync'
  BY <1>6, <1>a, ManualKept DEF CommitRefresh
<1>7. ASSUME NEW t \in Threads, SetPool(t)
     PROVE  ManualInSync'
  BY <1>7, <1>a, ManualKept DEF SetPool, SetSubscriptionNodes
<1>8. ASSUME NEW t \in Threads, NEW s \in Subs, DeleteSubscription(t, s)
     PROVE  ManualInSync'
  BY <1>8, <1>a, ManualKept DEF DeleteSubscription
<1>9. ASSUME NEW t \in Threads, RemoveFromPool(t)
     PROVE  ManualInSync'
  BY <1>9, <1>a, ManualKept DEF RemoveFromPool, RemoveSubscription
<1>10. ASSUME NEW t \in Procs, CacheSnapshot(t)
     PROVE  ManualInSync'
  BY <1>10, <1>a, ManualKept DEF CacheSnapshot
<1>11. ASSUME NEW t \in Procs, CacheRename(t)
     PROVE  ManualInSync'
  BY <1>11, <1>a, ManualKept DEF CacheRename
<1>12. ASSUME NEW t \in Threads, Publish(t)
     PROVE  ManualInSync'
  BY <1>12, <1>a, ManualKept DEF Publish
<1>13. ASSUME NEW t \in Threads, NEW fp \in Fps, AddManualNode(t, fp)
     PROVE  ManualInSync'
  BY <1>13, <1>a DEF AddManualNode, ManualInSync
<1>14. ASSUME NEW t \in Threads, NEW fp \in Fps, DeleteNode(t, fp)
     PROVE  ManualInSync'
  BY <1>14, <1>a, ManualKept DEF DeleteNode
<1>15. ASSUME NEW t \in Threads, DropLink(t)
     PROVE  ManualInSync'
  <2>1. CASE Move(t, "dropLink", "readLinks")
    BY <1>15, <2>1, <1>a DEF ManualInSync
  <2>2. CASE Return(t, "dropLink")
    BY <1>15, <2>2, <1>a, ManualKept DEF DropLink
  <2>. QED
    BY <1>15, <2>1, <2>2 DEF DropLink
<1>16. ASSUME NEW t \in Threads, ReadLinks(t)
     PROVE  ManualInSync'
  BY <1>16, <1>a DEF ReadLinks, ManualInSync
<1>17. ASSUME NEW t \in Threads, SetManual(t)
     PROVE  ManualInSync'
  BY <1>17, <1>a DEF SetManual, ManualInSync, Record, Leaves, SameBoot
<1>18. ASSUME NEW w \in Writers, StartWrite(w)
     PROVE  ManualInSync'
  BY <1>18, <1>a, ManualKept DEF StartWrite
<1>19. ASSUME NEW w \in Writers \cup {Main}, EndWrite(w)
     PROVE  ManualInSync'
  BY <1>19, <1>a, ManualKept DEF EndWrite
<1>20. CASE EngineApply
  BY <1>20, <1>a, ManualKept DEF EngineApply
<1>21. ASSUME NEW fp \in Fps, Measure(fp)
     PROVE  ManualInSync'
  BY <1>21, <1>a, ManualKept DEF Measure, SetLatency
<1>22. CASE Flush
  BY <1>22, <1>a, ManualKept DEF Flush
<1>23. ASSUME NEW cfg \in Configs, NEW cache \in Entries, Boot(cfg, cache)
     PROVE  ManualInSync'
  BY <1>23 DEF Boot, ManualInSync
<1>. QED
  BY <1>1, <1>2, <1>3, <1>4, <1>5, <1>6, <1>7,
     <1>8, <1>9, <1>10, <1>11, <1>12, <1>13, <1>14, <1>15,
     <1>16, <1>17, <1>18, <1>19, <1>20, <1>21, <1>22, <1>23, CoreAssumption
  DEF TypeOK, Next, Call, Continue, Background, WriteConfig, Stop, Exit, Crash, Procs

\* The pool's manual nodes are those of the configured links, or about to be set,
\* or were last set from links another operation had changed (core/app.go:180-199).
THEOREM ManualStaysInSync == SyncSpec => []ManualInSync
<1>1. SyncInit => ManualInSync
  BY DEF SyncInit, Init, PoolInit, ManualInSync, Elems
<1>2. TypeOK /\ ManualInSync /\ [SyncNext]_<<vars, syncVars>> => ManualInSync'
  <2>1. CASE UNCHANGED <<vars, syncVars>>
    BY <2>1 DEF ManualInSync, Elems, vars, syncVars, poolVars, cfgVars, threadVars
  <2>. QED
    BY <2>1, NextManualInSync DEF SyncNext
<1>. QED
  BY <1>1, <1>2, SyncIsSpec, TypeCorrect, PTL DEF SyncSpec

\* A step that changes neither the entries nor nodes.json, and takes no thread out
\* of the save, keeps their agreement.
LEMMA CacheKept ==
  ASSUME CacheInSync, Record, UNCHANGED <<contrib, cacheFile, boots>>,
         \A t \in Procs : pc[t] \in {"snapshot", "rename"} => pc'[t] = pc[t]
  PROVE  CacheInSync'
BY DEF CacheInSync, Record, Leaves, SameBoot, Procs

LEMMA NextCacheInSync ==
  TypeOK /\ CacheInSync /\ Next /\ Record => CacheInSync'
<1>. SUFFICES ASSUME TypeOK, CacheInSync, Next, Record
              PROVE  CacheInSync'
  OBVIOUS
<1>. USE DEF Start, Step, Move, Return, Procs,
             poolVars, cfgVars, requestVars, fileVars, threadVars, historyVars
<1>a. pc \in [Procs -> Steps] /\ arg \in [Procs -> Subs \cup Fps \cup {None}]
      /\ Main \notin Threads
  BY CoreAssumption DEF TypeOK
<1>1. ASSUME NEW t \in Threads, NEW s \in Subs, AddSubscription(t, s)
     PROVE  CacheInSync'
  BY <1>1, <1>a, CacheKept DEF AddSubscription
<1>2. ASSUME NEW t \in Threads, StartWorker(t)
     PROVE  CacheInSync'
  BY <1>2, <1>a, CacheKept DEF StartWorker
<1>3. ASSUME NEW t \in Threads, BeginRefresh(t)
     PROVE  CacheInSync'
  BY <1>3, <1>a, CacheKept DEF BeginRefresh
<1>4. ASSUME NEW t \in Threads, NEW s \in Subs, RefreshSubscription(t, s)
     PROVE  CacheInSync'
  BY <1>4, <1>a, CacheKept DEF RefreshSubscription
<1>5. ASSUME NEW t \in Threads, AbandonRefresh(t)
     PROVE  CacheInSync'
  BY <1>5, <1>a, CacheKept DEF AbandonRefresh
<1>6. ASSUME NEW t \in Threads, NEW list \in Lists, CommitRefresh(t, list)
     PROVE  CacheInSync'
  BY <1>6, <1>a, CacheKept DEF CommitRefresh
<1>7. ASSUME NEW t \in Threads, SetPool(t)
     PROVE  CacheInSync'
  BY <1>7, <1>a DEF SetPool, CacheInSync
<1>8. ASSUME NEW t \in Threads, NEW s \in Subs, DeleteSubscription(t, s)
     PROVE  CacheInSync'
  BY <1>8, <1>a, CacheKept DEF DeleteSubscription
<1>9. ASSUME NEW t \in Threads, RemoveFromPool(t)
     PROVE  CacheInSync'
  BY <1>9, <1>a DEF RemoveFromPool, CacheInSync
<1>10. ASSUME NEW t \in Procs, CacheSnapshot(t)
     PROVE  CacheInSync'
  BY <1>10, <1>a DEF CacheSnapshot, CacheInSync, Record, Leaves, SameBoot
<1>11. ASSUME NEW t \in Procs, CacheRename(t)
     PROVE  CacheInSync'
  BY <1>11, <1>a DEF CacheRename, CacheInSync, Record, Leaves, SameBoot
<1>12. ASSUME NEW t \in Threads, Publish(t)
     PROVE  CacheInSync'
  BY <1>12, <1>a, CacheKept DEF Publish
<1>13. ASSUME NEW t \in Threads, NEW fp \in Fps, AddManualNode(t, fp)
     PROVE  CacheInSync'
  BY <1>13, <1>a, CacheKept DEF AddManualNode
<1>14. ASSUME NEW t \in Threads, NEW fp \in Fps, DeleteNode(t, fp)
     PROVE  CacheInSync'
  BY <1>14, <1>a, CacheKept DEF DeleteNode
<1>15. ASSUME NEW t \in Threads, DropLink(t)
     PROVE  CacheInSync'
  BY <1>15, <1>a, CacheKept DEF DropLink
<1>16. ASSUME NEW t \in Threads, ReadLinks(t)
     PROVE  CacheInSync'
  BY <1>16, <1>a, CacheKept DEF ReadLinks
<1>17. ASSUME NEW t \in Threads, SetManual(t)
     PROVE  CacheInSync'
  BY <1>17, <1>a, CacheKept DEF SetManual, SetManualNodes
<1>18. ASSUME NEW w \in Writers, StartWrite(w)
     PROVE  CacheInSync'
  BY <1>18, <1>a, CacheKept DEF StartWrite
<1>19. ASSUME NEW w \in Writers \cup {Main}, EndWrite(w)
     PROVE  CacheInSync'
  BY <1>19, <1>a, CacheKept DEF EndWrite
<1>20. CASE EngineApply
  BY <1>20, <1>a, CacheKept DEF EngineApply
<1>21. ASSUME NEW fp \in Fps, Measure(fp)
     PROVE  CacheInSync'
  BY <1>21, <1>a, CacheKept DEF Measure, SetLatency
<1>22. CASE Flush
  BY <1>22, <1>a, CacheKept DEF Flush
<1>23. ASSUME NEW cfg \in Configs, NEW cache \in Entries, Boot(cfg, cache)
     PROVE  CacheInSync'
  BY <1>23 DEF Boot, CacheInSync
<1>. QED
  BY <1>1, <1>2, <1>3, <1>4, <1>5, <1>6, <1>7,
     <1>8, <1>9, <1>10, <1>11, <1>12, <1>13, <1>14, <1>15,
     <1>16, <1>17, <1>18, <1>19, <1>20, <1>21, <1>22, <1>23, CoreAssumption
  DEF TypeOK, Next, Call, Continue, Background, WriteConfig, Stop, Exit, Crash, Procs

\* nodes.json holds the pool's entries, or they are about to be saved, or the last
\* save failed or wrote a copy another operation had outdated (pool/cache.go:30-44).
THEOREM CacheStaysInSync == SyncSpec => []CacheInSync
<1>1. SyncInit => CacheInSync
  BY DEF SyncInit, Init, PoolInit, CacheInSync, NoEntries
<1>2. TypeOK /\ CacheInSync /\ [SyncNext]_<<vars, syncVars>> => CacheInSync'
  <2>1. CASE UNCHANGED <<vars, syncVars>>
    BY <2>1 DEF CacheInSync, vars, syncVars, poolVars, fileVars, threadVars
  <2>. QED
    BY <2>1, NextCacheInSync DEF SyncNext
<1>. QED
  BY <1>1, <1>2, SyncIsSpec, TypeCorrect, PTL DEF SyncSpec

\* Ids are never used again: those in memory, in the file or on their way there have
\* been issued, a delete under way is of an id that is gone, and an id that is not
\* configured has no count.
IdsInv ==
  /\ subs \subseteq issued
  /\ cfgFile.subs \subseteq issued
  /\ \A w \in Writers \cup {Main} : copies[w] # None => copies[w].subs \subseteq issued
  /\ \A t \in Threads : pc[t] = "removePool" => arg[t] \in issued \ subs
  /\ \A s \in Subs \ subs : nodeCount[s] = 0

LEMMA NextIdsInv == TypeOK /\ IdsInv /\ [Next]_vars => IdsInv'
<1>. SUFFICES ASSUME TypeOK, IdsInv, [Next]_vars
              PROVE  IdsInv'
  OBVIOUS
<1>. USE DEF Start, Step, Move, Return, Procs,
             poolVars, cfgVars, requestVars, fileVars, threadVars, historyVars
<1>a. pc \in [Procs -> Steps] /\ arg \in [Procs -> Subs \cup Fps \cup {None}]
      /\ Main \notin Threads
  BY CoreAssumption DEF TypeOK
<1>b. /\ copies \in [Writers \cup {Main} -> Configs \cup {None}]
      /\ subs \in SUBSET Subs /\ nodeCount \in [Subs -> Nat]
      /\ \A t \in Threads : pc[t] \in SubSteps => arg[t] \in Subs
  BY DEF TypeOK
<1>c. ASSUME UNCHANGED <<subs, issued, cfgFile, copies, nodeCount>>,
             \A t \in Threads :
               pc'[t] = "removePool" => pc[t] = "removePool" /\ arg'[t] = arg[t]
     PROVE  IdsInv'
  BY <1>c DEF IdsInv
<1>0. CASE UNCHANGED vars
  BY <1>0, <1>a, <1>c DEF vars
<1>1. ASSUME NEW t \in Threads, NEW s \in Subs, AddSubscription(t, s)
     PROVE  IdsInv'
  BY <1>1, <1>a, <1>b DEF AddSubscription, IdsInv
<1>2. ASSUME NEW t \in Threads, StartWorker(t)
     PROVE  IdsInv'
  BY <1>2, <1>a, <1>c DEF StartWorker
<1>3. ASSUME NEW t \in Threads, BeginRefresh(t)
     PROVE  IdsInv'
  BY <1>3, <1>a, <1>c DEF BeginRefresh
<1>4. ASSUME NEW t \in Threads, NEW s \in Subs, RefreshSubscription(t, s)
     PROVE  IdsInv'
  BY <1>4, <1>a, <1>c DEF RefreshSubscription
<1>5. ASSUME NEW t \in Threads, AbandonRefresh(t)
     PROVE  IdsInv'
  BY <1>5, <1>a, <1>c DEF AbandonRefresh
<1>6. ASSUME NEW t \in Threads, NEW list \in Lists, CommitRefresh(t, list)
     PROVE  IdsInv'
  BY <1>6, <1>a, <1>b DEF CommitRefresh, IdsInv
<1>7. ASSUME NEW t \in Threads, SetPool(t)
     PROVE  IdsInv'
  BY <1>7, <1>a, <1>c DEF SetPool
<1>8. ASSUME NEW t \in Threads, NEW s \in Subs, DeleteSubscription(t, s)
     PROVE  IdsInv'
  BY <1>8, <1>a, <1>b DEF DeleteSubscription, IdsInv
<1>9. ASSUME NEW t \in Threads, RemoveFromPool(t)
     PROVE  IdsInv'
  BY <1>9, <1>a, <1>c DEF RemoveFromPool
<1>10. ASSUME NEW t \in Procs, CacheSnapshot(t)
     PROVE  IdsInv'
  BY <1>10, <1>a, <1>c DEF CacheSnapshot
<1>11. ASSUME NEW t \in Procs, CacheRename(t)
     PROVE  IdsInv'
  BY <1>11, <1>a, <1>c DEF CacheRename
<1>12. ASSUME NEW t \in Threads, Publish(t)
     PROVE  IdsInv'
  BY <1>12, <1>a, <1>c DEF Publish
<1>13. ASSUME NEW t \in Threads, NEW fp \in Fps, AddManualNode(t, fp)
     PROVE  IdsInv'
  BY <1>13, <1>a, <1>c DEF AddManualNode
<1>14. ASSUME NEW t \in Threads, NEW fp \in Fps, DeleteNode(t, fp)
     PROVE  IdsInv'
  BY <1>14, <1>a, <1>c DEF DeleteNode
<1>15. ASSUME NEW t \in Threads, DropLink(t)
     PROVE  IdsInv'
  BY <1>15, <1>a, <1>c DEF DropLink
<1>16. ASSUME NEW t \in Threads, ReadLinks(t)
     PROVE  IdsInv'
  BY <1>16, <1>a, <1>c DEF ReadLinks
<1>17. ASSUME NEW t \in Threads, SetManual(t)
     PROVE  IdsInv'
  BY <1>17, <1>a, <1>c DEF SetManual
<1>18. ASSUME NEW w \in Writers, StartWrite(w)
     PROVE  IdsInv'
  BY <1>18, <1>a, <1>b DEF StartWrite, IdsInv, Cfg
<1>19. ASSUME NEW w \in Writers \cup {Main}, EndWrite(w)
     PROVE  IdsInv'
  BY <1>19, <1>a, <1>b DEF EndWrite, IdsInv
<1>20. CASE EngineApply
  BY <1>20, <1>a, <1>c DEF EngineApply
<1>21. ASSUME NEW fp \in Fps, Measure(fp)
     PROVE  IdsInv'
  BY <1>21, <1>a, <1>c DEF Measure
<1>22. CASE Flush
  <2>1. /\ UNCHANGED <<subs, issued, cfgFile, nodeCount>>
        /\ \A t \in Threads : pc'[t] = pc[t] /\ arg'[t] = arg[t]
    BY <1>22, <1>a DEF Flush
  <2>2. CASE copies' = [copies EXCEPT ![Main] = Cfg]
    BY <2>1, <2>2, <1>b DEF IdsInv, Cfg
  <2>3. CASE copies' = copies
    BY <2>1, <2>3, <1>c
  <2>. QED
    BY <1>22, <2>2, <2>3 DEF Flush
<1>23. ASSUME Boot(cfgFile, cacheFile)
     PROVE  IdsInv'
  <2>1. /\ UNCHANGED <<issued, cfgFile>> /\ subs' = cfgFile.subs
        /\ copies' = [w \in Writers \cup {Main} |-> None]
        /\ pc' = [t \in Procs |-> "idle"] /\ nodeCount' = [s \in Subs |-> 0]
    BY <1>23 DEF Boot
  <2>. QED
    BY <2>1 DEF IdsInv
<1>. QED
  BY <1>0, <1>1, <1>2, <1>3, <1>4, <1>5, <1>6, <1>7,
     <1>8, <1>9, <1>10, <1>11, <1>12, <1>13, <1>14, <1>15,
     <1>16, <1>17, <1>18, <1>19, <1>20, <1>21, <1>22, <1>23, CoreAssumption
  DEF TypeOK, Next, Call, Continue, Background, WriteConfig, Stop, Exit, Crash, Procs

\* A step that changes neither the list nor the count of a configured subscription,
\* and takes no refresh past its SetPool, keeps their agreement.
LEMMA CountKept ==
  ASSUME TypeOK, CountInSync, Record, SameBoot, subs' \subseteq subs,
         \A s \in subs' : contrib'[s] = contrib[s] /\ nodeCount'[s] = nodeCount[s],
         \A t \in Threads :
           pc[t] = "setPool" => pc'[t] = "setPool" /\ arg'[t] = arg[t]
  PROVE  CountInSync'
<1>. SUFFICES ASSUME NEW s \in subs', nodeCount'[s] > 0,
                     ~(contrib'[s] # Absent /\ nodeCount'[s] = Len(contrib'[s])),
                     s \notin miscounted'
              PROVE  \E t \in Threads : pc'[t] = "setPool" /\ arg'[t] = s
  BY DEF CountInSync, Counted, AtStep
<1>1. s \in subs /\ s \in Subs
  BY DEF TypeOK
<1>2. nodeCount[s] > 0 /\ ~(contrib[s] # Absent /\ nodeCount[s] = Len(contrib[s]))
  OBVIOUS
<1>3. s \notin miscounted
  BY <1>1 DEF Record, Leaves
<1>4. \E t \in Threads : pc[t] = "setPool" /\ arg[t] = s
  BY <1>1, <1>2, <1>3 DEF CountInSync, Counted, AtStep
<1>. QED
  BY <1>4

LEMMA NextCountInSync ==
  TypeOK /\ IdsInv /\ CountInSync /\ Next /\ Record => CountInSync'
<1>. SUFFICES ASSUME TypeOK, IdsInv, CountInSync, Next, Record
              PROVE  CountInSync'
  OBVIOUS
<1>. USE DEF Start, Step, Move, Return, Procs,
             poolVars, cfgVars, requestVars, fileVars, threadVars, historyVars
<1>a. pc \in [Procs -> Steps] /\ arg \in [Procs -> Subs \cup Fps \cup {None}]
      /\ Main \notin Threads
  BY CoreAssumption DEF TypeOK
<1>b. /\ subs \in SUBSET Subs /\ nodeCount \in [Subs -> Nat]
      /\ contrib \in [Subs -> Seq(Fps) \cup {Absent}]
      /\ \A t \in Threads : pc[t] \in SubSteps => arg[t] \in Subs
  BY DEF TypeOK, PoolTypeOK
<1>1. ASSUME NEW t \in Threads, NEW s \in Subs, AddSubscription(t, s)
     PROVE  CountInSync'
  BY <1>1, <1>a, <1>b DEF AddSubscription, IdsInv, CountInSync, Record, Leaves, SameBoot,
     Counted, AtStep
<1>2. ASSUME NEW t \in Threads, StartWorker(t)
     PROVE  CountInSync'
  BY <1>2, <1>a, CountKept DEF StartWorker, SameBoot
<1>3. ASSUME NEW t \in Threads, BeginRefresh(t)
     PROVE  CountInSync'
  BY <1>3, <1>a, CountKept DEF BeginRefresh, SameBoot
<1>4. ASSUME NEW t \in Threads, NEW s \in Subs, RefreshSubscription(t, s)
     PROVE  CountInSync'
  BY <1>4, <1>a, CountKept DEF RefreshSubscription, SameBoot
<1>5. ASSUME NEW t \in Threads, AbandonRefresh(t)
     PROVE  CountInSync'
  BY <1>5, <1>a, CountKept DEF AbandonRefresh, SameBoot
<1>6. ASSUME NEW t \in Threads, NEW list \in Lists, CommitRefresh(t, list)
     PROVE  CountInSync'
  BY <1>6, <1>a, <1>b DEF CommitRefresh, CountInSync, Record, Leaves, SameBoot,
     Counted, AtStep
<1>7. ASSUME NEW t \in Threads, SetPool(t)
     PROVE  CountInSync'
  BY <1>7, <1>a, <1>b DEF SetPool, SetSubscriptionNodes, CountInSync, Record, Leaves,
     SameBoot, Counted, AtStep
<1>8. ASSUME NEW t \in Threads, NEW s \in Subs, DeleteSubscription(t, s)
     PROVE  CountInSync'
  BY <1>8, <1>a, <1>b, CountKept DEF DeleteSubscription, SameBoot
<1>9. ASSUME NEW t \in Threads, RemoveFromPool(t)
     PROVE  CountInSync'
  BY <1>9, <1>a, <1>b, CountKept DEF RemoveFromPool, RemoveSubscription, SameBoot, IdsInv
<1>10. ASSUME NEW t \in Procs, CacheSnapshot(t)
     PROVE  CountInSync'
  BY <1>10, <1>a, CountKept DEF CacheSnapshot, SameBoot
<1>11. ASSUME NEW t \in Procs, CacheRename(t)
     PROVE  CountInSync'
  BY <1>11, <1>a, CountKept DEF CacheRename, SameBoot
<1>12. ASSUME NEW t \in Threads, Publish(t)
     PROVE  CountInSync'
  BY <1>12, <1>a, CountKept DEF Publish, SameBoot
<1>13. ASSUME NEW t \in Threads, NEW fp \in Fps, AddManualNode(t, fp)
     PROVE  CountInSync'
  BY <1>13, <1>a, CountKept DEF AddManualNode, SameBoot
<1>14. ASSUME NEW t \in Threads, NEW fp \in Fps, DeleteNode(t, fp)
     PROVE  CountInSync'
  BY <1>14, <1>a, CountKept DEF DeleteNode, SameBoot
<1>15. ASSUME NEW t \in Threads, DropLink(t)
     PROVE  CountInSync'
  BY <1>15, <1>a, CountKept DEF DropLink, SameBoot
<1>16. ASSUME NEW t \in Threads, ReadLinks(t)
     PROVE  CountInSync'
  BY <1>16, <1>a, CountKept DEF ReadLinks, SameBoot
<1>17. ASSUME NEW t \in Threads, SetManual(t)
     PROVE  CountInSync'
  BY <1>17, <1>a, CountKept DEF SetManual, SetManualNodes, SameBoot
<1>18. ASSUME NEW w \in Writers, StartWrite(w)
     PROVE  CountInSync'
  BY <1>18, <1>a, CountKept DEF StartWrite, SameBoot
<1>19. ASSUME NEW w \in Writers \cup {Main}, EndWrite(w)
     PROVE  CountInSync'
  BY <1>19, <1>a, CountKept DEF EndWrite, SameBoot
<1>20. CASE EngineApply
  BY <1>20, <1>a, CountKept DEF EngineApply, SameBoot
<1>21. ASSUME NEW fp \in Fps, Measure(fp)
     PROVE  CountInSync'
  BY <1>21, <1>a, CountKept DEF Measure, SetLatency, SameBoot
<1>22. CASE Flush
  BY <1>22, <1>a, CountKept DEF Flush, SameBoot
<1>23. ASSUME NEW cfg \in Configs, NEW cache \in Entries, Boot(cfg, cache)
     PROVE  CountInSync'
  BY <1>23 DEF Boot, CountInSync, Configs
<1>. QED
  BY <1>1, <1>2, <1>3, <1>4, <1>5, <1>6, <1>7,
     <1>8, <1>9, <1>10, <1>11, <1>12, <1>13, <1>14, <1>15,
     <1>16, <1>17, <1>18, <1>19, <1>20, <1>21, <1>22, <1>23, CoreAssumption
  DEF TypeOK, Next, Call, Continue, Background, WriteConfig, Stop, Exit, Crash, Procs

\* The count of a refreshed subscription is that of the list in the pool, or its list
\* is about to be stored, or another refresh was counted in between
\* (core/subscriptions.go:142-159).
THEOREM CountsStayInSync == SyncSpec => []CountInSync
<1>1. SyncInit => Init /\ CountInSync
  BY DEF SyncInit, Init, CountInSync
<1>2. Init => IdsInv
  BY DEF Init, IdsInv, Cfg, Procs
<1>3. TypeOK /\ IdsInv /\ CountInSync /\ [SyncNext]_<<vars, syncVars>> => CountInSync'
  <2>1. CASE UNCHANGED <<vars, syncVars>>
    BY <2>1 DEF CountInSync, Counted, AtStep, vars, syncVars, poolVars, cfgVars, threadVars
  <2>. QED
    BY <2>1, NextCountInSync DEF SyncNext
<1>4. Spec => []IdsInv
  BY <1>2, NextIdsInv, TypeCorrect, PTL DEF Spec
<1>. QED
  BY <1>1, <1>3, <1>4, SyncIsSpec, TypeCorrect, PTL DEF SyncSpec
=============================================================================
