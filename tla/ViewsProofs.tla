----------------------------- MODULE ViewsProofs -----------------------------
(***************************************************************************)
(* The smaller views of the console, for every value of their constants:   *)
(* the polling of the node page for any number of intervals, ticks and     *)
(* calls on their way; the speed test of a row for any nodes and mappings; *)
(* the login for any number of calls and sessions; the status page for any *)
(* number of polls on their way.                                           *)
(***************************************************************************)
EXTENDS NodeSweep, Speedtest, Session, StatusPage, TLAPS

LEMMA SweepTypeInit == SweepInit => SweepTypeOK
<1> SUFFICES ASSUME SweepInit PROVE SweepTypeOK
  OBVIOUS
<1>1. mounted \in BOOLEAN /\ testingAll \in BOOLEAN
  BY DEF SweepInit
<1>2. 0 \in 0 .. TickLimit /\ 0 \in 0 .. MaxAsked /\ 0 \in 0 .. MaxLoads
  BY SweepAssumption
<1> QED  BY <1>1, <1>2 DEF SweepInit, SweepTypeOK

LEMMA BeginTypes ==
  ASSUME SweepTypeOK, NEW i \in Timers, BeginPoll(i)
  PROVE  SweepTypeOK'
<1>1. mounted' \in BOOLEAN /\ testingAll' \in BOOLEAN
  BY DEF SweepTypeOK, BeginPoll
<1>2. /\ pollRef' \in Timers \cup {None} /\ live' \in SUBSET Timers
      /\ ticks' \in [Timers -> 0 .. TickLimit]
      /\ asked' \in 0 .. MaxAsked /\ loads' \in [Timers -> 0 .. MaxLoads]
  BY SweepAssumption, SMT DEF SweepTypeOK, BeginPoll
<1> QED  BY <1>1, <1>2 DEF SweepTypeOK

LEMMA TickTypes ==
  ASSUME SweepTypeOK, NEW i \in Timers, Tick(i)
  PROVE  SweepTypeOK'
<1>1. mounted' \in BOOLEAN /\ testingAll' \in BOOLEAN
  BY DEF SweepTypeOK, Tick
<1>2. /\ pollRef' \in Timers \cup {None} /\ live' \in SUBSET Timers
      /\ ticks' \in [Timers -> 0 .. TickLimit]
      /\ asked' \in 0 .. MaxAsked /\ loads' \in [Timers -> 0 .. MaxLoads]
  BY SweepAssumption, SMT DEF SweepTypeOK, Tick
<1> QED  BY <1>1, <1>2 DEF SweepTypeOK

LEMMA LoadTypes ==
  ASSUME SweepTypeOK, NEW i \in Timers, LoadDone(i)
  PROVE  SweepTypeOK'
<1>1. mounted' \in BOOLEAN /\ testingAll' \in BOOLEAN
  BY DEF SweepTypeOK, LoadDone
<1>2. /\ pollRef' \in Timers \cup {None} /\ live' \in SUBSET Timers
      /\ ticks' \in [Timers -> 0 .. TickLimit]
      /\ asked' \in 0 .. MaxAsked /\ loads' \in [Timers -> 0 .. MaxLoads]
  BY SweepAssumption, SMT DEF SweepTypeOK, LoadDone
<1> QED  BY <1>1, <1>2 DEF SweepTypeOK

LEMMA SweepTypeStep == SweepTypeOK /\ [SweepNext]_sweepVars => SweepTypeOK'
<1> SUFFICES ASSUME SweepTypeOK, [SweepNext]_sweepVars PROVE SweepTypeOK'
  OBVIOUS
<1>1. CASE ClickTestAll
  <2>1. mounted' \in BOOLEAN /\ testingAll' \in BOOLEAN
    BY <1>1 DEF SweepTypeOK, ClickTestAll
  <2>2. /\ pollRef' \in Timers \cup {None} /\ live' \in SUBSET Timers
        /\ ticks' \in [Timers -> 0 .. TickLimit]
        /\ asked' \in 0 .. MaxAsked /\ loads' \in [Timers -> 0 .. MaxLoads]
    BY <1>1, SweepAssumption, SMT DEF SweepTypeOK, ClickTestAll
  <2> QED  BY <2>1, <2>2 DEF SweepTypeOK
<1>2. CASE TestAllFails
  <2>1. mounted' \in BOOLEAN /\ testingAll' \in BOOLEAN
    BY <1>2 DEF SweepTypeOK, TestAllFails
  <2>2. /\ pollRef' \in Timers \cup {None} /\ live' \in SUBSET Timers
        /\ ticks' \in [Timers -> 0 .. TickLimit]
        /\ asked' \in 0 .. MaxAsked /\ loads' \in [Timers -> 0 .. MaxLoads]
    BY <1>2, SweepAssumption, SMT DEF SweepTypeOK, TestAllFails
  <2> QED  BY <2>1, <2>2 DEF SweepTypeOK
<1>3. CASE LeaveNodes
  BY <1>3 DEF SweepTypeOK, LeaveNodes
<1>4. CASE \E i \in Timers : BeginPoll(i) \/ Tick(i) \/ LoadDone(i)
  BY <1>4, BeginTypes, TickTypes, LoadTypes
<1>5. CASE UNCHANGED sweepVars
  BY <1>5 DEF SweepTypeOK, sweepVars
<1> QED  BY <1>1, <1>2, <1>3, <1>4, <1>5 DEF SweepNext

\* The state of the page stays within its types: no counter passes its bound, and pollRef
\* holds an interval or null (nodes.tsx:123-135, 187-207).
THEOREM SweepTypeCorrect == SweepSpec => []SweepTypeOK
  BY SweepTypeInit, SweepTypeStep, PTL DEF SweepSpec

-----------------------------------------------------------------------------
\* An interval fires only while pollRef names it, so the newest is the only one.
LEMMA OnePollStep == OnePoll /\ [SweepNext]_sweepVars => OnePoll'
<1> SUFFICES ASSUME OnePoll, [SweepNext]_sweepVars PROVE OnePoll'
  OBVIOUS
<1>1. ASSUME NEW i \in Timers, BeginPoll(i) PROVE OnePoll'
  BY <1>1, SweepAssumption DEF OnePoll, BeginPoll
<1>2. ASSUME NEW i \in Timers, LoadDone(i) PROVE OnePoll'
  BY <1>2 DEF OnePoll, LoadDone
<1>3. CASE LeaveNodes
  BY <1>3 DEF OnePoll, LeaveNodes
<1>4. CASE UNCHANGED <<live, pollRef>>
  BY <1>4 DEF OnePoll
<1> QED
  BY <1>1, <1>2, <1>3, <1>4
  DEF SweepNext, sweepVars, ClickTestAll, TestAllFails, Tick

\* At most one interval fires, and pollRef names it (nodes.tsx:193-204).
THEOREM PollIsOne == SweepSpec => []OnePoll
<1>1. SweepInit => OnePoll
  BY DEF SweepInit, OnePoll
<1> QED  BY <1>1, OnePollStep, PTL DEF SweepSpec

-----------------------------------------------------------------------------
LEMMA ButtonStep == OnePoll /\ ButtonMatchesPoll /\ [SweepNext]_sweepVars => ButtonMatchesPoll'
<1> SUFFICES ASSUME OnePoll, ButtonMatchesPoll, [SweepNext]_sweepVars, mounted'
             PROVE  testingAll' <=> pollRef' \in live'
  BY DEF ButtonMatchesPoll
<1>1. ASSUME NEW i \in Timers, BeginPoll(i) PROVE testingAll' <=> pollRef' \in live'
  BY <1>1 DEF BeginPoll
<1>2. ASSUME NEW i \in Timers, LoadDone(i) PROVE testingAll' <=> pollRef' \in live'
  <2>1. CASE ticks[i] < TickLimit
    BY <1>2, <2>1 DEF LoadDone, ButtonMatchesPoll
  <2>2. CASE ~(ticks[i] < TickLimit)
    BY <1>2, <2>2 DEF LoadDone, OnePoll
  <2> QED  BY <2>1, <2>2
<1>3. CASE LeaveNodes
  BY <1>3 DEF LeaveNodes
<1>4. CASE UNCHANGED <<mounted, testingAll, live, pollRef>>
  BY <1>4 DEF ButtonMatchesPoll
<1> QED
  BY <1>1, <1>2, <1>3, <1>4
  DEF SweepNext, sweepVars, ClickTestAll, TestAllFails, Tick

\* The button of a page that is shown spins exactly while an interval fires that will stop
\* it (nodes.tsx:192-203, 256).
THEOREM ButtonFollowsPoll == SweepSpec => []ButtonMatchesPoll
<1>1. SweepInit => OnePoll /\ ButtonMatchesPoll
  BY DEF SweepInit, OnePoll, ButtonMatchesPoll
<1> QED  BY <1>1, OnePollStep, ButtonStep, PTL DEF SweepSpec

-----------------------------------------------------------------------------
\* Polling is cut short only by a newer sweep, by leaving, or by the callback of an
\* interval that had counted to its end before (nodes.tsx:196-202).
THEOREM OnlyLateCallbacksCutShort == SweepSpec => CutShortOnlyByLateCallback
<1> DEFINE Ended(i) == \/ ticks[i] = TickLimit
                       \/ ~mounted'
                       \/ pollRef' \notin {None, i}
                       \/ \E j \in Timers \ {i} : ticks[j] = TickLimit /\ loads'[j] < loads[j]
<1>1. ASSUME SweepTypeOK, OnePoll, [SweepNext]_sweepVars, NEW i \in live \ live'
      PROVE  Ended(i)
  <2>0. i = pollRef /\ i \in Timers
    BY <1>1 DEF OnePoll, SweepTypeOK
  <2>1. ASSUME NEW j \in Timers, BeginPoll(j) PROVE Ended(i)
    BY <2>0, <2>1, SweepAssumption DEF BeginPoll, Unused
  <2>2. ASSUME NEW j \in Timers, LoadDone(j) PROVE Ended(i)
    <3>1. ~(ticks[j] < TickLimit) /\ loads'[j] = loads[j] - 1
      BY <1>1, <2>2 DEF LoadDone, SweepTypeOK
    <3>2. ticks[j] = TickLimit /\ loads'[j] < loads[j]
      BY <1>1, <3>1, SweepAssumption, SMT DEF SweepTypeOK
    <3> QED  BY <3>2
  <2>3. CASE LeaveNodes
    BY <2>3 DEF LeaveNodes
  <2>4. CASE UNCHANGED live
    BY <1>1, <2>4
  <2> QED
    BY <1>1, <2>1, <2>2, <2>3, <2>4
    DEF SweepNext, sweepVars, ClickTestAll, TestAllFails, Tick
<1>2. SweepTypeOK /\ OnePoll /\ [SweepNext]_sweepVars
        => [\A i \in live \ live' : Ended(i)]_sweepVars
  BY <1>1
<1> QED
  BY <1>2, SweepTypeCorrect, PollIsOne, PTL DEF SweepSpec, CutShortOnlyByLateCallback

-----------------------------------------------------------------------------
(* The speed test *)

\* What the answers need: the popover is open only on a row that is there, and every
\* node it was opened for has a test or a result.  The rows there are now do not
\* matter, so the lists the page reloads cannot disturb it.
OpenedHasTest ==
  open => shownRow /\ \A n \in Tested \cap openedFor : Spins(n) => tests[n] > 0

LEMMA SpeedTypeInit == SpeedInit => SpeedTypeOK
<1> SUFFICES ASSUME SpeedInit PROVE SpeedTypeOK
  OBVIOUS
<1>1. shownRow \in BOOLEAN /\ open \in BOOLEAN
  BY DEF SpeedInit
<1>2. 0 \in 0 .. MaxTests
  BY SpeedtestAssumption
<1> QED  BY <1>1, <1>2 DEF SpeedInit, SpeedTypeOK

LEMMA SpeedTypeStep == SpeedTypeOK /\ [SpeedNext]_speedVars => SpeedTypeOK'
<1> SUFFICES ASSUME SpeedTypeOK, [SpeedNext]_speedVars PROVE SpeedTypeOK'
  OBVIOUS
<1>1. CASE OpenPopover
  <2>1. shownRow' \in BOOLEAN /\ open' \in BOOLEAN
    BY <1>1 DEF OpenPopover, SpeedTypeOK
  <2>2. openedFor' \in SUBSET Tested
    BY <1>1 DEF OpenPopover, SpeedTypeOK, Rows, Resolved
  <2>3. results' \in [Tested -> {"none", "loading", "ok", "bad"}]
    BY <1>1 DEF OpenPopover
  <2>4. \A n \in Tested : tests[n] + (IF n \in Rows THEN 1 ELSE 0) \in 0 .. MaxTests
    <3>1. ASSUME NEW n \in Tested, n \in Rows PROVE tests[n] + 1 \in 0 .. MaxTests
      <4>1. tests[n] < MaxTests /\ tests[n] \in 0 .. MaxTests
        BY <1>1, <3>1 DEF OpenPopover, SpeedTypeOK
      <4> QED  BY ONLY <4>1, SpeedtestAssumption
    <3>2. ASSUME NEW n \in Tested PROVE tests[n] + 0 \in 0 .. MaxTests
      <4>1. tests[n] \in 0 .. MaxTests
        BY DEF SpeedTypeOK
      <4> QED  BY ONLY <4>1, SpeedtestAssumption
    <3> QED  BY <3>1, <3>2
  <2>5. tests' \in [Tested -> 0 .. MaxTests]
    BY <1>1, <2>4 DEF OpenPopover
  <2>6. target' \in Targets /\ known' \in SUBSET Tested
    BY <1>1 DEF OpenPopover, SpeedTypeOK
  <2> QED  BY <2>1, <2>2, <2>3, <2>5, <2>6 DEF SpeedTypeOK
<1>2. ASSUME NEW n \in Tested, TestAnswered(n) PROVE SpeedTypeOK'
  <2>1. tests' \in [Tested -> 0 .. MaxTests]
    <3>1. tests[n] > 0 /\ tests \in [Tested -> 0 .. MaxTests]
      BY <1>2 DEF TestAnswered, SpeedTypeOK
    <3>2. tests[n] - 1 \in 0 .. MaxTests
      BY ONLY <3>1, SpeedtestAssumption
    <3> QED  BY <1>2, <3>1, <3>2 DEF TestAnswered
  <2>2. results' \in [Tested -> {"none", "loading", "ok", "bad"}]
    BY <1>2 DEF TestAnswered, SpeedTypeOK
  <2>3. UNCHANGED <<target, known, shownRow, open, openedFor>>
    BY <1>2 DEF TestAnswered
  <2> QED  BY <2>1, <2>2, <2>3 DEF SpeedTypeOK
<1>3. CASE UNCHANGED <<results, tests, openedFor>>
            /\ target' \in Targets /\ known' \in SUBSET Tested
            /\ shownRow' \in BOOLEAN /\ open' \in BOOLEAN
  BY <1>3 DEF SpeedTypeOK
<1>4. CASE ClosePopover
  BY <1>3, <1>4 DEF ClosePopover, SpeedTypeOK
<1>5. CASE DropRow
  BY <1>3, <1>5 DEF DropRow, SpeedTypeOK
<1>6. ASSUME NEW m \in Targets, NEW all \in SUBSET Tested, NewProps(m, all)
      PROVE  SpeedTypeOK'
  BY <1>3, <1>6 DEF NewProps, SpeedTypeOK
<1>7. CASE UNCHANGED speedVars
  BY <1>7 DEF speedVars, SpeedTypeOK
<1> QED  BY <1>1, <1>2, <1>4, <1>5, <1>6, <1>7 DEF SpeedNext

\* The state of a row stays within its types (mapping-speedtest.tsx:31-64).
THEOREM SpeedTypeCorrect == SpeedSpec => []SpeedTypeOK
  BY SpeedTypeInit, SpeedTypeStep, PTL DEF SpeedSpec

-----------------------------------------------------------------------------
LEMMA OpenedStep == SpeedTypeOK /\ OpenedHasTest /\ [SpeedNext]_speedVars => OpenedHasTest'
<1> SUFFICES ASSUME SpeedTypeOK, OpenedHasTest, [SpeedNext]_speedVars, open'
             PROVE  /\ shownRow'
                    /\ \A n \in Tested \cap openedFor' : Spins(n)' => tests'[n] > 0
  BY DEF OpenedHasTest
<1> DEFINE Goal == /\ shownRow'
                   /\ \A n \in Tested \cap openedFor' : Spins(n)' => tests'[n] > 0
<1>1. CASE OpenPopover
  <2>1. ASSUME NEW n \in Tested \cap openedFor' PROVE tests'[n] > 0
    <3>1. n \in Rows /\ tests[n] \in 0 .. MaxTests
      BY <1>1, <2>1 DEF OpenPopover, SpeedTypeOK
    <3>2. tests'[n] = tests[n] + 1
      BY <1>1, <3>1, <2>1 DEF OpenPopover
    <3> QED  BY ONLY <3>1, <3>2, SpeedtestAssumption
  <2> QED  BY <1>1, <2>1 DEF OpenPopover
<1>2. ASSUME NEW m \in Tested, TestAnswered(m) PROVE Goal
  <2>1. shownRow /\ UNCHANGED <<shownRow, open, openedFor>> /\ open
    BY <1>2 DEF TestAnswered, OpenedHasTest
  <2>2. ~Spins(m)'
    BY <1>2, <2>1 DEF TestAnswered, SpeedTypeOK, Spins
  <2>3. ASSUME NEW n \in Tested \cap openedFor', n # m, Spins(n)' PROVE tests'[n] > 0
    <3>1. tests'[n] = tests[n] /\ Spins(n)
      BY <1>2, <2>1, <2>3 DEF TestAnswered, SpeedTypeOK, Spins
    <3> QED  BY <2>1, <2>3, <3>1 DEF OpenedHasTest
  <2> QED  BY <2>1, <2>2, <2>3
<1>3. CASE UNCHANGED <<shownRow, open, openedFor, results, tests>>
  BY <1>3 DEF OpenedHasTest, Spins
<1> QED
  BY <1>1, <1>2, <1>3
  DEF SpeedNext, speedVars, ClosePopover, DropRow, NewProps

\* A row that was there when the popover was opened spins only while a test of its node is
\* on its way (mapping-speedtest.tsx:49-64, 88, 97-100).
THEOREM SpinnersHaveTests == SpeedSpec => []SpinnerHasTest
<1>1. SpeedInit => OpenedHasTest
  BY DEF SpeedInit, OpenedHasTest
<1>2. SpeedTypeOK /\ OpenedHasTest => SpinnerHasTest
  BY DEF OpenedHasTest, SpinnerHasTest, Rows, Resolved, SpeedTypeOK
<1> QED  BY <1>1, <1>2, SpeedTypeInit, SpeedTypeStep, OpenedStep, PTL DEF SpeedSpec

-----------------------------------------------------------------------------
(* The login *)

\* A call that was refused carried a session that is over, and will stay over: the next
\* one has a higher number.
RefusedForGood ==
  \A s \in Slots :
    /\ sent[s].cookie <= issued
    /\ sent[s].st = "denied" => sent[s].cookie \notin alive

LEMMA SessionTypeInit == SessionInit => SessionTypeOK
  BY SessionAssumption DEF SessionInit, SessionTypeOK, NoCall

LEMMA SessionTypeStep == SessionTypeOK /\ [SessionNext]_sessionVars => SessionTypeOK'
<1> SUFFICES ASSUME SessionTypeOK, [SessionNext]_sessionVars PROVE SessionTypeOK'
  OBVIOUS
<1> USE SessionAssumption DEF SessionTypeOK
<1>1. ASSUME NEW s \in Slots, SendCall(s) \/ Authorize(s) \/ CallAnswered(s)
      PROVE  SessionTypeOK'
  BY <1>1 DEF SendCall, Authorize, CallAnswered, NoCall
<1>2. CASE SubmitLogin
  BY <1>2 DEF SubmitLogin
<1>3. CASE ServeLogin
  <2>1. CASE UNCHANGED <<alive, issued>>
    BY <1>3, <2>1 DEF ServeLogin
  <2>2. CASE issued < MaxLogins /\ issued' = issued + 1 /\ alive' = alive \cup {issued + 1}
    <3>1. issued' \in 0 .. MaxLogins /\ cookie \in 0 .. issued' /\ alive' \subseteq 1 .. issued'
      BY <2>2
    <3>2. login' \in {"none", "sent", "made", "failed"}
          /\ UNCHANGED <<route, cookie, sent, logout>>
      BY <1>3 DEF ServeLogin
    <3> QED  BY <3>1, <3>2
  <2> QED  BY <1>3, <2>1, <2>2 DEF ServeLogin
<1>8. CASE LoginAnswered
  <2>1. UNCHANGED <<alive, issued, sent, logout>> /\ login' = "none"
        /\ cookie' \in {cookie, issued} /\ route' \in {route, "page"}
    BY <1>8 DEF LoginAnswered
  <2>2. cookie' \in 0 .. issued
    BY <2>1
  <2> QED  BY <2>1, <2>2
<1>4. CASE ClickLogout \/ ServeLogout \/ LogoutAnswered
  BY <1>4 DEF ClickLogout, ServeLogout, LogoutAnswered, NoCall
<1>5. CASE Expire
  BY <1>5 DEF Expire
<1>6. CASE Visit
  BY <1>6 DEF Visit, NoCall
<1>7. CASE UNCHANGED sessionVars
  BY <1>7 DEF sessionVars
<1> QED  BY <1>1, <1>2, <1>3, <1>4, <1>5, <1>6, <1>7, <1>8 DEF SessionNext

LEMMA RefusedStep == SessionTypeOK /\ RefusedForGood /\ [SessionNext]_sessionVars => RefusedForGood'
<1> SUFFICES ASSUME SessionTypeOK, RefusedForGood, [SessionNext]_sessionVars PROVE RefusedForGood'
  OBVIOUS
<1> USE DEF RefusedForGood
<1>1. ASSUME NEW s \in Slots, SendCall(s) \/ Authorize(s) \/ CallAnswered(s)
      PROVE  RefusedForGood'
  BY <1>1 DEF SendCall, Authorize, CallAnswered, NoCall, SessionTypeOK
<1>2. CASE ServeLogin
  <2>1. UNCHANGED sent /\ issued \in Nat /\ issued' \in {issued, issued + 1}
        /\ alive' \subseteq alive \cup {issued + 1}
    BY <1>2 DEF ServeLogin, SessionTypeOK
  <2>2. ASSUME NEW s \in Slots
        PROVE  sent[s].cookie <= issued' /\ sent[s].cookie # issued + 1
    <3>1. sent[s].cookie <= issued /\ sent[s].cookie \in 0 .. MaxLogins
      BY DEF SessionTypeOK
    <3> QED  BY ONLY <2>1, <3>1, SessionAssumption
  <2> QED  BY <2>1, <2>2
<1>3. CASE UNCHANGED <<sent, issued>> /\ alive' \subseteq alive
  BY <1>3
<1>4. CASE ServeLogout \/ Expire
  BY <1>3, <1>4 DEF ServeLogout, Expire
<1>5. CASE Visit
  BY <1>5, SessionAssumption DEF Visit, NoCall, SessionTypeOK
<1> QED
  BY <1>1, <1>2, <1>3, <1>4, <1>5
  DEF SessionNext, sessionVars, SubmitLogin, LoginAnswered, ClickLogout, LogoutAnswered

\* A user with a valid session is thrown out of a page only by a logout, or by the late
\* refusal of a call that an older session made (api.ts:28-33, 60-63; App.tsx:17-24).
THEOREM ValidSessionsStay == SessionSpec => ThrownOutOnlyBy
<1> DEFINE Cause == \/ logout.st \in {"ok", "failed"}
                    \/ \E s \in Slots : sent[s].st = "denied" /\ sent[s].cookie # cookie
<1>1. SessionInit => RefusedForGood
  BY DEF SessionInit, RefusedForGood, NoCall
<1>2. ASSUME SessionTypeOK, RefusedForGood, SessionNext,
             route = "page", route' = "login", cookie \in alive
      PROVE  Cause
  <2>1. route # route'
    BY <1>2
  <2>2. LogoutAnswered \/ LoginAnswered \/ Visit \/ \E s \in Slots : CallAnswered(s)
    BY <1>2, <2>1
    DEF SessionNext, SendCall, Authorize, SubmitLogin, ServeLogin, ClickLogout, ServeLogout,
        Expire
  <2>3. ASSUME NEW s \in Slots, CallAnswered(s) PROVE Cause
    BY <1>2, <2>3 DEF CallAnswered, RefusedForGood
  <2>4. CASE LogoutAnswered
    BY <2>4 DEF LogoutAnswered
  <2>5. ~LoginAnswered /\ ~Visit
    BY <1>2 DEF LoginAnswered, Visit
  <2> QED  BY <2>2, <2>3, <2>4, <2>5
<1>3. SessionTypeOK /\ RefusedForGood /\ [SessionNext]_sessionVars
        => [route = "page" /\ route' = "login" /\ cookie \in alive => Cause]_sessionVars
  BY <1>2
<1> QED
  BY <1>1, <1>3, SessionTypeInit, SessionTypeStep, RefusedStep, PTL
  DEF SessionSpec, ThrownOutOnlyBy

-----------------------------------------------------------------------------
(* The status page *)

\* Answers on their way that are not what the server would say now.
Outdated == {p \in Polls : answer[p] \notin {"free", "sent", server}}

\* From the moment the server is settled, answers that are out of date only become fewer;
\* and once there are none, a page that has the server's status shows it and keeps it,
\* though polls overlap and come back in any order (status.tsx:55-82, 90-93).  With the
\* fairness of the polls this gives StatusCatchesUp.
SettledForGood ==
  [][settled => /\ settled' /\ UNCHANGED server
                /\ Outdated' \subseteq Outdated
                /\ Outdated = {} /\ status = server => status' = server' /\ View' = server'
    ]_statusVars

LEMMA StatusTypeInit == StatusInit => StatusTypeOK
  BY DEF StatusInit, StatusTypeOK

LEMMA StatusTypeStep == StatusTypeOK /\ [StatusNext]_statusVars => StatusTypeOK'
<1> SUFFICES ASSUME StatusTypeOK, [StatusNext]_statusVars
             PROVE  StatusTypeOK'
  OBVIOUS
<1> USE DEF StatusTypeOK
<1>1. CASE ServerChanges \/ Settle \/ LeaveStatus
  BY <1>1 DEF ServerChanges, Settle, LeaveStatus
<1>2. ASSUME NEW p \in Polls, ServeStatus(p) \/ Poll(p)
      PROVE  StatusTypeOK'
  BY <1>2 DEF ServeStatus, Poll
<1>3. ASSUME NEW p \in Polls, Answered(p)
      PROVE  StatusTypeOK'
  BY <1>3 DEF Answered
<1>4. CASE UNCHANGED statusVars
  BY <1>4 DEF statusVars
<1> QED
  BY <1>1, <1>2, <1>3, <1>4 DEF StatusNext

\* The status page's state has its types, whichever polls overlap.
THEOREM StatusTypeCorrect == StatusSpec => []StatusTypeOK
  BY StatusTypeInit, StatusTypeStep, PTL DEF StatusSpec

\* An older status never comes back once the server is settled and what was on its way
\* has come (status.tsx:55-82).
THEOREM StatusSettles == StatusSpec => SettledForGood
<1>1. ASSUME StatusTypeOK, StatusNext, settled
      PROVE  /\ settled' /\ UNCHANGED server
             /\ Outdated' \subseteq Outdated
             /\ Outdated = {} /\ status = server => status' = server' /\ View' = server'
  <2>1. settled' /\ UNCHANGED server
    BY <1>1 DEF StatusNext, ServerChanges, Settle, LeaveStatus, ServeStatus, Poll, Answered
  <2>2. ASSUME NEW q \in Polls
        PROVE  answer'[q] \in {answer[q], "free", "sent", server}
    BY <1>1 DEF StatusNext, ServerChanges, Settle, LeaveStatus, ServeStatus, Poll, Answered,
       StatusTypeOK
  <2>3. Outdated' \subseteq Outdated
    BY <2>1, <2>2 DEF Outdated
  <2>4. status' = status \/ \E p \in Polls : answer[p] \notin {"free", "sent"} /\ status' = answer[p]
    BY <1>1 DEF StatusNext, ServerChanges, Settle, LeaveStatus, ServeStatus, Poll, Answered
  <2>5. ASSUME Outdated = {}, status = server
        PROVE  status' = server' /\ View' = server'
    <3>1. status' = server'
      BY <2>1, <2>4, <2>5 DEF Outdated
    <3>2. server' # NoValue
      BY <1>1, <2>1, StatusAssumption DEF StatusTypeOK
    <3> QED
      BY <3>1, <3>2 DEF View
  <2> QED
    BY <2>1, <2>3, <2>5
<1>2. ASSUME StatusTypeOK, settled, UNCHANGED statusVars
      PROVE  /\ settled' /\ UNCHANGED server
             /\ Outdated' \subseteq Outdated
             /\ Outdated = {} /\ status = server => status' = server' /\ View' = server'
  BY <1>2, StatusAssumption DEF statusVars, Outdated, View, StatusTypeOK
<1> QED
  BY <1>1, <1>2, StatusTypeInit, StatusTypeStep, PTL DEF StatusSpec, SettledForGood
=============================================================================
