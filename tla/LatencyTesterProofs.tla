------------------------ MODULE LatencyTesterProofs ------------------------
(***************************************************************************)
(* What LatencyTester guarantees for any nodes, sweeps, handlers and limit, *)
(* whatever happens to the pool while tests are under way.                 *)
(***************************************************************************)
EXTENDS LatencyTester, TLAPS

\* The entry of a node is a test of that node.
EntryOfNode == \A fp \in Fps : inflight[fp] # NoTest => Node(inflight[fp]) = fp

\* Exactly the tests that wait have a channel.
ChannelWhileWaiting == \A k \in Tests : stage[k] = "waiting" <=> chan[k] # NoTest

\* What is out of date is a result the pool has, for a test under way.
OutdatedHasResult ==
  \A k \in outdated :
    Node(k) \in latency /\ stage[k] \in {"measuring", "waiting", "measured"}

\* A sweep has not begun the tests it has yet to start.
TodoIdle == \A s \in Sweeps : \A fp \in todo[s] : stage[<<s, fp>>] = "idle"

\* While a test waits with an old result in the pool, the test it waits for has
\* yet to store the new one.
NewResultToCome ==
  \A k \in Tests :
    stage[k] = "waiting" /\ k \in outdated => stage[chan[k]] = "measuring"

Inv ==
  /\ TesterTypeOK
  /\ TableMatches /\ EntryOfNode
  /\ WaitersHaveOwner /\ ChannelWhileWaiting
  /\ NoOldResult /\ OutdatedHasResult /\ NewResultToCome
  /\ TodoIdle

LEMMA TestsArePairs ==
  /\ \A k \in Tests : Node(k) \in Fps /\ k # NoTest
  /\ \A s \in Sweeps \cup Handlers, fp \in Fps : <<s, fp>> \in Tests
<1>1. ASSUME NEW k \in Tests PROVE Node(k) \in Fps /\ k # NoTest
  <2>1. k \in (Sweeps \cup Handlers) \X Fps
    BY DEF Tests
  <2>2. k # NoTest
    BY <2>1, TesterAssumption
  <2>3. k[2] \in Fps
    BY ONLY <2>1
  <2> QED
    BY <2>2, <2>3 DEF Node
<1> QED
  BY <1>1 DEF Tests

LEMMA InvInit == TesterInit => Inv
<1> SUFFICES ASSUME TesterInit PROVE Inv
  OBVIOUS
<1>1. TesterTypeOK
  BY DEF TesterInit, TesterTypeOK
<1>2. TableMatches /\ EntryOfNode /\ WaitersHaveOwner /\ ChannelWhileWaiting
  BY TestsArePairs
  DEF TesterInit, TableMatches, EntryOfNode, WaitersHaveOwner, ChannelWhileWaiting
<1>3. NoOldResult /\ OutdatedHasResult /\ NewResultToCome /\ TodoIdle
  BY DEF TesterInit, NoOldResult, OutdatedHasResult, NewResultToCome, TodoIdle
<1> QED
  BY <1>1, <1>2, <1>3 DEF Inv

\* The table, the stages and the channels are left alone by these steps.
LEMMA PoolChangeKeeps ==
  ASSUME Inv, NEW nodes \in SUBSET Fps, PoolChange(nodes)
  PROVE  Inv'
<1>1. TesterTypeOK'
  BY DEF Inv, TesterTypeOK, PoolChange
<1>2. TableMatches' /\ EntryOfNode' /\ WaitersHaveOwner' /\ ChannelWhileWaiting'
  BY DEF Inv, PoolChange, TableMatches, EntryOfNode, WaitersHaveOwner, ChannelWhileWaiting
<1>3. NoOldResult' /\ OutdatedHasResult' /\ NewResultToCome' /\ TodoIdle'
  BY DEF Inv, PoolChange, NoOldResult, OutdatedHasResult, NewResultToCome, TodoIdle
<1> QED
  BY <1>1, <1>2, <1>3 DEF Inv

LEMMA StartSweepKeeps ==
  ASSUME Inv, NEW s \in Sweeps, NEW nodes \in SUBSET Fps, StartSweep(s, nodes)
  PROVE  Inv'
<1>1. TesterTypeOK'
  BY DEF Inv, TesterTypeOK, StartSweep
<1>2. TodoIdle'
  <2>1. ASSUME NEW r \in Sweeps, NEW fp \in todo'[r] PROVE stage'[<<r, fp>>] = "idle"
    <3>1. CASE r = s
      <4>1. <<s, fp>> \in TestsOf(s)
        <5>1. fp \in Fps
          BY <2>1, <3>1 DEF Inv, TesterTypeOK, StartSweep
        <5> QED
          BY <5>1, TestsArePairs DEF TestsOf
      <4> QED
        BY <3>1, <4>1 DEF StartSweep, Running
    <3>2. CASE r # s
      BY <2>1, <3>2 DEF Inv, TesterTypeOK, StartSweep, TodoIdle
    <3> QED
      BY <3>1, <3>2
  <2> QED
    BY <2>1 DEF TodoIdle
<1> QED
  BY <1>1, <1>2
  DEF Inv, StartSweep, TableMatches, EntryOfNode, WaitersHaveOwner,
      ChannelWhileWaiting, NoOldResult, OutdatedHasResult, NewResultToCome

\* A test enters its first stage: it is in no table and waits for nothing.
LEMMA CalledKeeps ==
  ASSUME Inv, NEW k \in Tests, stage[k] = "idle",
         stage' = [stage EXCEPT ![k] = "called"],
         todo' \in [Sweeps -> SUBSET Fps],
         \A s \in Sweeps : todo'[s] \subseteq {fp \in todo[s] : <<s, fp>> # k},
         UNCHANGED <<present, latency, inflight, chan, outdated>>
  PROVE  Inv'
<1>1. TesterTypeOK'
  BY DEF Inv, TesterTypeOK
<1>2. TableMatches' /\ EntryOfNode' /\ WaitersHaveOwner' /\ ChannelWhileWaiting'
  BY DEF Inv, TesterTypeOK, TableMatches, EntryOfNode, WaitersHaveOwner, ChannelWhileWaiting
<1>3. NoOldResult' /\ OutdatedHasResult'
  BY DEF Inv, TesterTypeOK, NoOldResult, OutdatedHasResult
<1>4. NewResultToCome'
  BY DEF Inv, TesterTypeOK, NewResultToCome
<1>5. TodoIdle'
  <2> SUFFICES ASSUME NEW s \in Sweeps, NEW fp \in todo'[s] PROVE stage'[<<s, fp>>] = "idle"
    BY DEF TodoIdle
  <2>1. fp \in todo[s] /\ <<s, fp>> # k
    OBVIOUS
  <2>2. fp \in Fps /\ <<s, fp>> \in Tests
    BY <2>1, TestsArePairs DEF Inv, TesterTypeOK
  <2> QED
    BY <2>1, <2>2 DEF Inv, TesterTypeOK, TodoIdle
<1> QED
  BY <1>1, <1>2, <1>3, <1>4, <1>5 DEF Inv

\* Tests that have begun change their stage, so those yet to start do not.
LEMMA TodoStaysIdle ==
  ASSUME Inv, todo' = todo, \A k \in Tests : stage[k] = "idle" => stage'[k] = "idle"
  PROVE  TodoIdle'
<1> SUFFICES ASSUME NEW s \in Sweeps, NEW fp \in todo[s] PROVE stage'[<<s, fp>>] = "idle"
  BY DEF TodoIdle
<1>1. fp \in Fps /\ <<s, fp>> \in Tests
  BY TestsArePairs DEF Inv, TesterTypeOK
<1> QED
  BY <1>1 DEF Inv, TodoIdle

LEMMA OwnKeeps ==
  ASSUME Inv, NEW k \in Tests, Own(k)
  PROVE  Inv'
<1> USE TestsArePairs
<1>1. TesterTypeOK'
  BY DEF Inv, TesterTypeOK, Own
<1>2. TableMatches'
  BY DEF Inv, TesterTypeOK, Own, TableMatches
<1>3. EntryOfNode'
  BY DEF Inv, TesterTypeOK, Own, EntryOfNode
<1>4. WaitersHaveOwner' /\ ChannelWhileWaiting'
  BY DEF Inv, TesterTypeOK, Own, WaitersHaveOwner, ChannelWhileWaiting
<1>5. NoOldResult' /\ OutdatedHasResult'
  BY DEF Inv, TesterTypeOK, Own, NoOldResult, OutdatedHasResult
<1>6. NewResultToCome'
  BY DEF Inv, TesterTypeOK, Own, NewResultToCome
<1>7. TodoIdle'
  BY TodoStaysIdle DEF Inv, TesterTypeOK, Own
<1> QED
  BY <1>1, <1>2, <1>3, <1>4, <1>5, <1>6, <1>7 DEF Inv

LEMMA JoinKeeps ==
  ASSUME Inv, NEW k \in Tests, Join(k)
  PROVE  Inv'
<1> USE TestsArePairs
<1>1. TesterTypeOK'
  BY DEF Inv, TesterTypeOK, Join
<1>2. TableMatches' /\ EntryOfNode'
  BY DEF Inv, TesterTypeOK, Join, TableMatches, EntryOfNode
<1>3. WaitersHaveOwner' /\ ChannelWhileWaiting'
  BY DEF Inv, TesterTypeOK, Join, WaitersHaveOwner, ChannelWhileWaiting
<1>4. NoOldResult' /\ OutdatedHasResult'
  BY DEF Inv, TesterTypeOK, Join, NoOldResult, OutdatedHasResult
<1>5. NewResultToCome'
  <2> SUFFICES ASSUME NEW j \in Tests, stage'[j] = "waiting", j \in outdated'
               PROVE  stage'[chan'[j]] = "measuring"
    BY DEF NewResultToCome
  <2>1. stage[k] = "called" /\ k \notin outdated
    BY DEF Inv, Join, OutdatedHasResult
  <2>2. CASE j = k
    <3>1. stage[inflight[Node(k)]] = "measuring"
      BY <2>1, <2>2 DEF Join
    <3>2. inflight[Node(k)] \in Tests /\ inflight[Node(k)] # k
      BY <2>1, <3>1 DEF Inv, TesterTypeOK, Join
    <3> QED
      BY <2>2, <3>1, <3>2 DEF Inv, TesterTypeOK, Join
  <2>3. CASE j # k
    <3>1. stage[j] = "waiting" /\ j \in outdated /\ chan'[j] = chan[j]
      BY <2>3 DEF Inv, TesterTypeOK, Join
    <3>2. stage[chan[j]] = "measuring" /\ chan[j] \in Tests
      BY <3>1 DEF Inv, TesterTypeOK, NewResultToCome, ChannelWhileWaiting
    <3> QED
      BY <2>1, <3>1, <3>2 DEF Inv, TesterTypeOK, Join
  <2> QED
    BY <2>2, <2>3
<1>6. TodoIdle'
  BY TodoStaysIdle DEF Inv, TesterTypeOK, Join
<1> QED
  BY <1>1, <1>2, <1>3, <1>4, <1>5, <1>6 DEF Inv

LEMMA MeasureKeeps ==
  ASSUME Inv, NEW k \in Tests, Measure(k)
  PROVE  Inv'
<1> USE TestsArePairs
<1>1. TesterTypeOK'
  BY DEF Inv, TesterTypeOK, Measure
<1>2. TableMatches' /\ EntryOfNode'
  BY DEF Inv, TesterTypeOK, Measure, TableMatches, EntryOfNode
<1>3. WaitersHaveOwner' /\ ChannelWhileWaiting'
  BY DEF Inv, TesterTypeOK, Measure, WaitersHaveOwner, ChannelWhileWaiting
<1>4. NoOldResult' /\ OutdatedHasResult'
  BY DEF Inv, TesterTypeOK, Measure, NoOldResult, OutdatedHasResult
\* The tests that wait for k are those of its node; its result is new or the
\* pool has none.
<1>5. NewResultToCome'
  <2> SUFFICES ASSUME NEW j \in Tests, stage'[j] = "waiting", j \in outdated'
               PROVE  stage'[chan'[j]] = "measuring"
    BY DEF NewResultToCome
  <2>1. stage[j] = "waiting" /\ j \in outdated /\ chan' = chan /\ j # k
    BY DEF Inv, TesterTypeOK, Measure
  <2>2. Node(j) # Node(k)
    BY <2>1 DEF Inv, TesterTypeOK, Measure, OutdatedHasResult
  <2>3. chan[j] # NoTest /\ inflight[Node(j)] = chan[j] /\ stage[chan[j]] = "measuring"
    BY <2>1 DEF Inv, WaitersHaveOwner, NewResultToCome
  <2>4. Node(chan[j]) = Node(j)
    BY <2>3 DEF Inv, EntryOfNode
  <2>5. chan[j] \in Tests /\ chan[j] # k
    BY <2>2, <2>3, <2>4 DEF Inv, TesterTypeOK
  <2> QED
    BY <2>1, <2>3, <2>5 DEF Inv, TesterTypeOK, Measure
<1>6. TodoIdle'
  BY TodoStaysIdle DEF Inv, TesterTypeOK, Measure
<1> QED
  BY <1>1, <1>2, <1>3, <1>4, <1>5, <1>6 DEF Inv

LEMMA FinishKeeps ==
  ASSUME Inv, NEW k \in Tests, Finish(k)
  PROVE  Inv'
<1> USE TestsArePairs
<1>1. \A j \in Tests : chan[j] = k => stage[j] = "waiting" /\ Node(j) = Node(k)
  <2> SUFFICES ASSUME NEW j \in Tests, chan[j] = k
               PROVE  stage[j] = "waiting" /\ Node(j) = Node(k)
    OBVIOUS
  <2>1. stage[j] = "waiting"
    BY DEF Inv, ChannelWhileWaiting
  <2>2. inflight[Node(j)] = k
    BY <2>1 DEF Inv, WaitersHaveOwner
  <2> QED
    BY <2>1, <2>2 DEF Inv, EntryOfNode
<1>2. inflight[Node(k)] = k /\ stage[k] = "measured" /\ chan[k] = NoTest
  BY DEF Inv, Finish, TableMatches, ChannelWhileWaiting
<1>3. stage'[k] = "idle"
  BY DEF Finish
<1>4. \A j \in Tests : j # k /\ chan[j] = k => stage'[j] = "reading" /\ chan'[j] = NoTest
  BY DEF Finish
<1>5. \A j \in Tests : j # k /\ chan[j] # k => stage'[j] = stage[j] /\ chan'[j] = chan[j]
  BY DEF Finish
<1>6. /\ inflight' = [inflight EXCEPT ![Node(k)] = NoTest]
      /\ outdated' = outdated \ {k}
      /\ UNCHANGED <<present, latency, todo>>
      /\ chan'[k] = NoTest
  BY <1>2 DEF Finish
<1>7. TesterTypeOK'
  <2>1. stage' \in [Tests -> {"idle", "called", "measuring", "waiting", "measured", "reading"}]
    BY DEF Inv, TesterTypeOK, Finish
  <2>2. chan' \in [Tests -> Tests \cup {NoTest}]
    BY DEF Inv, TesterTypeOK, Finish
  <2> QED
    BY <1>6, <2>1, <2>2 DEF Inv, TesterTypeOK
<1>8. TableMatches'
  <2> SUFFICES ASSUME NEW j \in Tests
               PROVE  stage'[j] \in {"measuring", "measured"} <=> inflight'[Node(j)] = j
    BY DEF TableMatches
  <2>1. stage[j] \in {"measuring", "measured"} <=> inflight[Node(j)] = j
    BY DEF Inv, TableMatches
  <2>2. inflight'[Node(j)] = IF Node(j) = Node(k) THEN NoTest ELSE inflight[Node(j)]
    BY <1>6 DEF Inv, TesterTypeOK
  <2>3. CASE j = k
    BY <1>3, <2>2, <2>3
  <2>4. CASE j # k /\ chan[j] = k
    BY <1>1, <1>4, <2>2, <2>4
  <2>5. CASE j # k /\ chan[j] # k
    BY <1>2, <1>5, <2>1, <2>2, <2>5
  <2> QED
    BY <2>3, <2>4, <2>5
<1>9. EntryOfNode'
  BY <1>6 DEF Inv, TesterTypeOK, EntryOfNode
<1>10. WaitersHaveOwner' /\ ChannelWhileWaiting'
  <2> SUFFICES ASSUME NEW j \in Tests
               PROVE  /\ stage'[j] = "waiting" =>
                           chan'[j] # NoTest /\ inflight'[Node(j)] = chan'[j]
                      /\ stage'[j] = "waiting" <=> chan'[j] # NoTest
    BY DEF WaitersHaveOwner, ChannelWhileWaiting
  <2>1. /\ stage[j] = "waiting" => inflight[Node(j)] = chan[j]
        /\ stage[j] = "waiting" <=> chan[j] # NoTest
    BY DEF Inv, WaitersHaveOwner, ChannelWhileWaiting
  <2>2. inflight'[Node(j)] = IF Node(j) = Node(k) THEN NoTest ELSE inflight[Node(j)]
    BY <1>6 DEF Inv, TesterTypeOK
  <2>3. CASE j = k
    BY <1>3, <1>6, <2>3
  <2>4. CASE j # k /\ chan[j] = k
    BY <1>4, <2>4
  <2>5. CASE j # k /\ chan[j] # k
    BY <1>2, <1>5, <2>1, <2>2, <2>5
  <2> QED
    BY <2>3, <2>4, <2>5
\* The tests woken have a new result: k had stored it.
<1>11. NoOldResult' /\ OutdatedHasResult'
  <2>1. OutdatedHasResult'
    <3>1. ASSUME NEW j \in outdated, j # k
          PROVE  Node(j) \in latency' /\ stage'[j] = stage[j]
      BY <1>1, <1>2, <1>5, <1>6, <3>1
      DEF Inv, TesterTypeOK, OutdatedHasResult, NewResultToCome
    <3> QED
      BY <1>6, <3>1 DEF Inv, OutdatedHasResult
  <2>2. ASSUME NEW j \in Tests, stage'[j] = "reading" PROVE j \notin outdated'
    <3>1. CASE j = k
      BY <1>6, <3>1
    <3>2. CASE j # k /\ chan[j] = k
      BY <1>1, <1>2, <1>6, <3>2 DEF Inv, NewResultToCome
    <3>3. CASE j # k /\ chan[j] # k
      BY <1>5, <1>6, <2>2, <3>3 DEF Inv, NoOldResult
    <3> QED
      BY <3>1, <3>2, <3>3
  <2> QED
    BY <2>1, <2>2 DEF NoOldResult
<1>12. NewResultToCome'
  <2> SUFFICES ASSUME NEW j \in Tests, stage'[j] = "waiting", j \in outdated'
               PROVE  stage'[chan'[j]] = "measuring"
    BY DEF NewResultToCome
  <2>1. j # k /\ chan[j] # k /\ stage[j] = "waiting" /\ chan'[j] = chan[j]
    BY <1>3, <1>4, <1>5
  <2>2. stage[chan[j]] = "measuring" /\ chan[j] # NoTest
    BY <1>6, <2>1 DEF Inv, NewResultToCome, WaitersHaveOwner
  <2>3. chan[j] \in Tests /\ chan[chan[j]] # k
    BY <1>1, <2>2 DEF Inv, TesterTypeOK
  <2> QED
    BY <1>5, <2>1, <2>2, <2>3
<1>13. TodoIdle'
  <2>1. ASSUME NEW j \in Tests, stage[j] = "idle" PROVE stage'[j] = "idle"
    BY <1>1, <1>2, <1>5, <2>1
  <2> QED
    BY <1>6, <2>1, TodoStaysIdle
<1> QED
  BY <1>7, <1>8, <1>9, <1>10, <1>11, <1>12, <1>13 DEF Inv

LEMMA ReadKeeps ==
  ASSUME Inv, NEW k \in Tests, Read(k)
  PROVE  Inv'
<1> USE TestsArePairs
<1>1. TesterTypeOK'
  BY DEF Inv, TesterTypeOK, Read
<1>2. TableMatches' /\ EntryOfNode' /\ WaitersHaveOwner' /\ ChannelWhileWaiting'
  BY DEF Inv, TesterTypeOK, Read, TableMatches, EntryOfNode, WaitersHaveOwner, ChannelWhileWaiting
<1>3. NoOldResult' /\ OutdatedHasResult'
  BY DEF Inv, TesterTypeOK, Read, NoOldResult, OutdatedHasResult
<1>4. NewResultToCome'
  BY DEF Inv, TesterTypeOK, Read, NewResultToCome
<1>5. TodoIdle'
  BY TodoStaysIdle DEF Inv, TesterTypeOK, Read
<1> QED
  BY <1>1, <1>2, <1>3, <1>4, <1>5 DEF Inv

LEMMA InvStep == Inv /\ [TesterNext]_testerVars => Inv'
<1> SUFFICES ASSUME Inv, [TesterNext]_testerVars PROVE Inv'
  OBVIOUS
<1>1. ASSUME NEW s \in Sweeps, NEW fp \in Fps, Spawn(s, fp) PROVE Inv'
  <2>1. <<s, fp>> \in Tests
    BY TestsArePairs
  <2>2. stage[<<s, fp>>] = "idle"
    BY <1>1 DEF Inv, TodoIdle, Spawn
  <2>3. \A r \in Sweeps : todo'[r] \subseteq {f \in todo[r] : <<r, f>> # <<s, fp>>}
    BY <1>1 DEF Inv, TesterTypeOK, Spawn
  <2> QED
    BY <1>1, <2>1, <2>2, <2>3, CalledKeeps DEF Inv, TesterTypeOK, Spawn
<1>2. ASSUME NEW c \in Handlers, NEW fp \in Fps, Call(c, fp) PROVE Inv'
  <2>1. <<c, fp>> \in Tests
    BY TestsArePairs
  <2>2. \A r \in Sweeps : \A f \in todo[r] : <<r, f>> # <<c, fp>>
    BY TesterAssumption
  <2> QED
    BY <1>2, <2>1, <2>2, CalledKeeps DEF Inv, TesterTypeOK, Call
<1>3. ASSUME NEW k \in Tests, Enter(k) \/ Measure(k) \/ Finish(k) \/ Read(k) PROVE Inv'
  BY <1>3, OwnKeeps, JoinKeeps, MeasureKeeps, FinishKeeps, ReadKeeps DEF Enter
<1>4. CASE UNCHANGED testerVars
  BY <1>4
  DEF testerVars, Inv, TesterTypeOK, TableMatches, EntryOfNode, WaitersHaveOwner,
      ChannelWhileWaiting, NoOldResult, OutdatedHasResult, NewResultToCome, TodoIdle
<1> QED
  BY <1>1, <1>2, <1>3, <1>4, PoolChangeKeeps, StartSweepKeeps DEF TesterNext

\* The inductive invariant holds throughout.
LEMMA InvHolds == TesterSpec => []Inv
  BY InvInit, InvStep, PTL DEF TesterSpec

\* Type correctness: a result belongs to a node of the pool.
THEOREM TypeCorrect == TesterSpec => []TesterTypeOK
  BY InvHolds, PTL DEF Inv

\* At most one test measures a node, the one the table names, and no entry
\* outlives its test.
THEOREM OneMeasurement == TesterSpec => []TableMatches
  BY InvHolds, PTL DEF Inv

\* A test that waits, waits for a channel that is still to be closed.
THEOREM WaitersAreWoken == TesterSpec => []WaitersHaveOwner
  BY InvHolds, PTL DEF Inv

\* A test that waited returns no result older than its call.
THEOREM ResultsAreNew == TesterSpec => []NoOldResult
  BY InvHolds, PTL DEF Inv
=============================================================================
