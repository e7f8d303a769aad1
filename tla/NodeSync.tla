----------------------------- MODULE NodeSync -----------------------------
(***************************************************************************)
(* What AppCore keeps in agreement when operations overlap: the pool's     *)
(* manual nodes with the configured links, nodes.json with the pool, the   *)
(* node count of a subscription with its list.  Each pair is written in    *)
(* two critical sections, so a step may put an outdated value in place;    *)
(* history variables, which nothing reads, record what the last such step  *)
(* left behind.                                                            *)
(***************************************************************************)
EXTENDS AppCore

VARIABLES
  staleManual,  \* the last SetManual installed outdated links
  staleCache,   \* the last save of nodes.json failed or wrote an outdated copy
  miscounted    \* ids whose last SetPool stored another list than was counted

syncVars == <<staleManual, staleCache, miscounted>>

\* The step takes a thread, or main, out of the given step.
Leaves(t, step) == pc[t] = step /\ pc'[t] # step

\* The process goes on.
SameBoot == boots' = boots

Counted(s) == contrib[s] # Absent /\ nodeCount[s] = Len(contrib[s])

Record ==
  /\ staleManual' = (/\ SameBoot
                     /\ IF \E t \in Threads : Leaves(t, "setManual")
                          THEN manual' # Elems(links') ELSE staleManual)
  /\ staleCache' = (/\ SameBoot
                    /\ IF \E t \in Procs : Leaves(t, "rename")
                         THEN cacheFile' # contrib' ELSE staleCache)
  /\ miscounted' = {s \in Subs :
                      /\ SameBoot
                      /\ IF \E t \in Threads : Leaves(t, "setPool") /\ arg[t] = s
                           THEN ~Counted(s)' ELSE s \in miscounted}

SyncInit == Init /\ staleManual = FALSE /\ staleCache = FALSE /\ miscounted = {}

SyncNext == Next /\ Record

SyncSpec == SyncInit /\ [][SyncNext]_<<vars, syncVars>>

-----------------------------------------------------------------------------
(* Properties *)

SyncTypeOK ==
  /\ TypeOK
  /\ staleManual \in BOOLEAN
  /\ staleCache \in BOOLEAN
  /\ miscounted \in SUBSET Subs

\* The pool's manual nodes are those of the configured links, or a thread is about
\* to install them, or the last one that did had copied the links before another
\* changed them (core/app.go:180-199): nothing else takes them apart.
ManualInSync ==
  manual # Elems(links) =>
    \/ staleManual
    \/ \E t \in Threads : pc[t] \in {"readLinks", "setManual"}

\* nodes.json holds the pool's subscription entries, or a thread is about to save
\* them, or the last save failed or was of a copy taken before a change
\* (pool/cache.go:30-44).
CacheInSync ==
  cacheFile # contrib =>
    \/ staleCache
    \/ \E t \in Threads : pc[t] \in {"snapshot", "rename"}

\* The node count of a subscription, once it has been refreshed, is the number of
\* lines of the list the pool holds, a node that is listed twice counted twice; or a
\* refresh is about to store its list, or the last one to do so had been counted
\* before another (core/subscriptions.go:142-159).
CountInSync ==
  \A s \in subs : nodeCount[s] > 0 /\ ~Counted(s) =>
    s \in miscounted \/ AtStep(s, "setPool")
=============================================================================
