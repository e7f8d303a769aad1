----------------------------- MODULE Speedtest -----------------------------
(***************************************************************************)
(* The speed test of a mapping's row (components/mapping-speedtest.tsx):   *)
(* opening the popover starts one test per node the mapping targets and    *)
(* throws the results of the opening before away; its answers still come,  *)
(* and the targets follow the lists the page reloads in the meantime.      *)
(***************************************************************************)
EXTENDS Naturals, FiniteSets

CONSTANTS
  Tested,     \* node ids
  Targets,    \* mappings the row may show: [filter, nodes]
  NoFilter,   \* no filter
  Matched,    \* per filter, the nodes JavaScript's RegExp matches, none if it is no pattern there
  MaxTests    \* bound: tests of one node on their way

ASSUME SpeedtestAssumption ==
  /\ MaxTests \in Nat \ {0}
  /\ \A m \in Targets : m.nodes \in SUBSET Tested
  /\ \A m \in Targets : m.filter # NoFilter => Matched[m.filter] \in SUBSET Tested

VARIABLES
  target,    \* the mapping the row was given last
  known,     \* the nodes it was given last
  shownRow,  \* the row is there
  open,      \* the popover is open
  results,   \* per node: "none", "loading", "ok" or "bad"
  tests,     \* per node, tests not answered yet
  openedFor  \* history: the rows there were when the popover was opened

speedVars == <<target, known, shownRow, open, results, tests, openedFor>>

\* resolveNodes: a list's nodes as far as they are known, or what the filter matches.
Resolved(m, all) ==
  all \cap IF m.filter = NoFilter THEN m.nodes ELSE Matched[m.filter]

Rows == Resolved(target, known)

\* ResultView shows a spinner when there is no result as well.
Spins(n) == results[n] \in {"none", "loading"}

SpeedInit ==
  /\ target \in Targets /\ known \in SUBSET Tested
  /\ shownRow = TRUE /\ open = FALSE
  /\ results = [n \in Tested |-> "none"]
  /\ tests = [n \in Tested |-> 0]
  /\ openedFor = {}

-----------------------------------------------------------------------------
\* onOpenChange(true), runTests.
OpenPopover ==
  /\ shownRow /\ ~open
  /\ \A n \in Rows : tests[n] < MaxTests
  /\ open' = TRUE /\ openedFor' = Rows
  /\ results' = [n \in Tested |-> IF n \in Rows THEN "loading" ELSE "none"]
  /\ tests' = [n \in Tested |-> tests[n] + (IF n \in Rows THEN 1 ELSE 0)]
  /\ UNCHANGED <<target, known, shownRow>>

ClosePopover ==
  /\ open /\ open' = FALSE
  /\ UNCHANGED <<target, known, shownRow, results, tests, openedFor>>

\* Mutation: a test that fails leaves its row as it is.
TestAnsweredOnlyWell(n) ==
  /\ tests[n] > 0
  /\ tests' = [tests EXCEPT ![n] = @ - 1]
  /\ \/ UNCHANGED results
     \/ shownRow /\ results' = [results EXCEPT ![n] = "ok"]
  /\ UNCHANGED <<target, known, shownRow, open, openedFor>>

\* An answer sets its node's result, whichever opening asked, open or not.
TestAnswered(n) ==
  /\ tests[n] > 0
  /\ tests' = [tests EXCEPT ![n] = @ - 1]
  /\ \/ ~shownRow /\ UNCHANGED results
     \/ /\ shownRow
        /\ \E r \in {"ok", "bad"} : results' = [results EXCEPT ![n] = r]
  /\ UNCHANGED <<target, known, shownRow, open, openedFor>>

\* The page reloads its mappings or its nodes: new props, no new tests.
NewProps(m, all) ==
  /\ shownRow
  /\ target' = m /\ known' = all
  /\ UNCHANGED <<shownRow, open, results, tests, openedFor>>

\* The mapping is gone, or the page.
DropRow ==
  /\ shownRow /\ shownRow' = FALSE /\ open' = FALSE
  /\ UNCHANGED <<target, known, results, tests, openedFor>>

-----------------------------------------------------------------------------
SpeedNext ==
  \/ OpenPopover \/ ClosePopover \/ DropRow
  \/ \E n \in Tested : TestAnswered(n)
  \/ \E m \in Targets, all \in SUBSET Tested : NewProps(m, all)

SpeedSpec == SpeedInit /\ [][SpeedNext]_speedVars

-----------------------------------------------------------------------------
(* Properties *)

SpeedTypeOK ==
  /\ target \in Targets /\ known \in SUBSET Tested
  /\ shownRow \in BOOLEAN /\ open \in BOOLEAN
  /\ results \in [Tested -> {"none", "loading", "ok", "bad"}]
  /\ tests \in [Tested -> 0 .. MaxTests]
  /\ openedFor \in SUBSET Tested

\* A row that was there when the popover was opened spins only while a test of its
\* node is on its way, through any number of openings whose answers mix, and while
\* nodes come and go.  A row that joins later has no test and spins until
\* the popover is opened anew (mapping-speedtest.tsx:49-64, 88, 97-100).
SpinnerHasTest ==
  open => \A n \in Rows \cap openedFor : Spins(n) => tests[n] > 0
=============================================================================
