----------------------------- MODULE NodeSweep -----------------------------
(***************************************************************************)
(* The polling of the node page during a sweep (pages/nodes.tsx): the      *)
(* answer of "test all" starts an interval whose callback reloads the list *)
(* and, from the fifteenth tick on, stops what pollRef holds by then.      *)
(* Callbacks wait for their reload, so those of an old interval can come   *)
(* back while a newer one runs, and an answer can find the page gone.      *)
(*                                                                         *)
(* An interval's number is taken again once no callback of it is left and  *)
(* pollRef has moved on: the browser's numbers do not repeat, and nothing  *)
(* can tell the two apart then.                                            *)
(***************************************************************************)
EXTENDS Naturals, FiniteSets

CONSTANTS
  Timers,     \* numbers of intervals
  None,       \* null in pollRef
  TickLimit,  \* ticks of a sweep, 15 in the code
  MaxAsked,   \* bound: answers of "test all" on their way
  MaxLoads    \* bound: reloads of one interval on their way

ASSUME SweepAssumption ==
  /\ None \notin Timers
  /\ TickLimit \in Nat \ {0}
  /\ MaxAsked \in Nat /\ MaxLoads \in Nat

VARIABLES
  mounted,     \* the page is shown
  testingAll,  \* the button spins
  pollRef,     \* the interval it is to stop
  live,        \* intervals that fire
  ticks,       \* the counter of each interval's callback, kept at TickLimit
  asked,       \* requests of "test all" not answered yet
  loads        \* reloads of an interval's callbacks not answered yet

sweepVars == <<mounted, testingAll, pollRef, live, ticks, asked, loads>>

SweepInit ==
  /\ mounted = TRUE /\ testingAll = FALSE
  /\ pollRef = None /\ live = {}
  /\ ticks = [i \in Timers |-> 0]
  /\ asked = 0
  /\ loads = [i \in Timers |-> 0]

Unused(i) == i \notin live /\ loads[i] = 0 /\ pollRef # i

-----------------------------------------------------------------------------
\* The button spins, and is disabled, only once the first answer is there.
ClickTestAll ==
  /\ mounted /\ ~testingAll /\ asked < MaxAsked
  /\ asked' = asked + 1
  /\ UNCHANGED <<mounted, testingAll, pollRef, live, ticks, loads>>

\* The answer: stop the interval of the sweep before, start one.  On a page that is
\* gone setTestingAll does nothing, the rest happens.
BeginPoll(i) ==
  /\ asked > 0 /\ Unused(i)
  /\ asked' = asked - 1
  /\ testingAll' = mounted
  /\ live' = (live \ {pollRef}) \cup {i}
  /\ pollRef' = i
  /\ ticks' = [ticks EXCEPT ![i] = 0]
  /\ UNCHANGED <<mounted, loads>>

\* An error is a toast.
TestAllFails ==
  /\ asked > 0
  /\ asked' = asked - 1
  /\ UNCHANGED <<mounted, testingAll, pollRef, live, ticks, loads>>

\* The interval fires whether or not its last reload has been answered.
Tick(i) ==
  /\ i \in live /\ loads[i] < MaxLoads
  /\ ticks' = [ticks EXCEPT ![i] = IF @ < TickLimit THEN @ + 1 ELSE @]
  /\ loads' = [loads EXCEPT ![i] = @ + 1]
  /\ UNCHANGED <<mounted, testingAll, pollRef, live, asked>>

\* Mutations: the callback stops its own interval; it stops nothing but the
\* spinner; it stops the poll whatever it has counted.
LoadDoneStopsOwn(i) ==
  /\ loads[i] > 0
  /\ loads' = [loads EXCEPT ![i] = @ - 1]
  /\ IF ticks[i] < TickLimit
     THEN UNCHANGED <<testingAll, pollRef, live>>
     ELSE /\ live' = live \ {i}
          /\ pollRef' = None /\ testingAll' = FALSE
  /\ UNCHANGED <<mounted, ticks, asked>>

LoadDoneKeepsInterval(i) ==
  /\ loads[i] > 0
  /\ loads' = [loads EXCEPT ![i] = @ - 1]
  /\ testingAll' = (testingAll /\ ticks[i] < TickLimit)
  /\ UNCHANGED <<mounted, pollRef, live, ticks, asked>>

LoadDoneAnyTick(i) ==
  /\ loads[i] > 0
  /\ loads' = [loads EXCEPT ![i] = @ - 1]
  /\ live' = live \ {pollRef}
  /\ pollRef' = None /\ testingAll' = FALSE
  /\ UNCHANGED <<mounted, ticks, asked>>

\* The reload has been answered, well or not, and the callback goes on: it reads
\* the counter of its own interval, and stops whichever pollRef holds now.
LoadDone(i) ==
  /\ loads[i] > 0
  /\ loads' = [loads EXCEPT ![i] = @ - 1]
  /\ IF ticks[i] < TickLimit
     THEN UNCHANGED <<testingAll, pollRef, live>>
     ELSE /\ live' = live \ {pollRef}
          /\ pollRef' = None /\ testingAll' = FALSE
  /\ UNCHANGED <<mounted, ticks, asked>>

\* The page is left, by a link or because a call was refused.  The clean-up stops
\* the interval and leaves pollRef as it is.
LeaveNodes ==
  /\ mounted
  /\ mounted' = FALSE /\ testingAll' = FALSE
  /\ live' = live \ {pollRef}
  /\ UNCHANGED <<pollRef, ticks, asked, loads>>

-----------------------------------------------------------------------------
SweepNext ==
  \/ ClickTestAll \/ TestAllFails \/ LeaveNodes
  \/ \E i \in Timers : BeginPoll(i) \/ Tick(i) \/ LoadDone(i)

SweepSpec == SweepInit /\ [][SweepNext]_sweepVars

\* Timers fire and calls are answered at some time, well or not.
SweepFairness ==
  /\ WF_sweepVars(TestAllFails \/ \E i \in Timers : BeginPoll(i))
  /\ \A i \in Timers : WF_sweepVars(Tick(i)) /\ WF_sweepVars(LoadDone(i))

-----------------------------------------------------------------------------
(* Properties *)

SweepTypeOK ==
  /\ mounted \in BOOLEAN /\ testingAll \in BOOLEAN
  /\ pollRef \in Timers \cup {None}
  /\ live \in SUBSET Timers
  /\ ticks \in [Timers -> 0 .. TickLimit]
  /\ asked \in 0 .. MaxAsked
  /\ loads \in [Timers -> 0 .. MaxLoads]

\* However many answers of "test all" come in, and whichever old callbacks return, no
\* more than one interval fires, and pollRef names it, so that somebody can
\* stop it (nodes.tsx:193-204).
OnePoll == live \subseteq {pollRef} \ {None}

\* The button of a page that is shown spins exactly while the list is polled:
\* it cannot stay disabled with nothing left to enable it again.  The page is followed
\* from its mount to its unmount; entered again it starts with state of its own
\* (nodes.tsx:192-203, 256).
ButtonMatchesPoll == mounted => (testingAll <=> pollRef \in live)

\* A sweep's polling is cut short only by a newer sweep, by leaving the page, or by
\* the late callback of an interval that had counted to its end before
\* (nodes.tsx:196-202).
CutShortOnlyByLateCallback ==
  [][\A i \in live \ live' :
       \/ ticks[i] = TickLimit
       \/ ~mounted'
       \/ pollRef' \notin {None, i}
       \/ \E j \in Timers \ {i} : ticks[j] = TickLimit /\ loads'[j] < loads[j]]_sweepVars

\* Polling ends, also when the answer that started it came after the page was left
\* and the clean-up had run (nodes.tsx:159-164, 194-204).
PollingEnds == \A i \in Timers : i \in live ~> i \notin live
=============================================================================
