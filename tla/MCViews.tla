------------------------------ MODULE MCViews ------------------------------
(***************************************************************************)
(* The views of the console that share no state, on small instances: a     *)
(* behaviour is about one of them, the others are not shown.               *)
(***************************************************************************)
EXTENDS NodeSweep, StatusPage, Speedtest, Session, MappingForm

CONSTANTS
  n1, n2,                    \* nodes
  hk, hkpad, js, re2, blank  \* patterns: a word, with blanks around it, in the syntax
                             \* of one engine only, nothing but blanks

VARIABLE view

views == <<sweepVars, statusVars, speedVars, sessionVars, formVars>>

\* Rows of the table: a list, a filter, a longer list.
MCTargets ==
  {[filter |-> NoFilter, nodes |-> {n1}], [filter |-> hk, nodes |-> {}],
   [filter |-> NoFilter, nodes |-> {n1, n2}]}

MCMatched == [f \in {hk} |-> {n2}]

MCTrimmed ==
  [p \in Patterns \cup {NoPattern} |->
     IF p = hkpad THEN hk ELSE IF p = blank THEN NoPattern ELSE p]

Mapped(name, strategy, nodes, filter, interval, url, user) ==
  [port |-> 3, name |-> name, strategy |-> strategy, nodes |-> nodes, filter |-> filter,
   interval |-> interval, url |-> url, user |-> user,
   pass |-> IF user = "" THEN "" ELSE "set", enabled |-> TRUE]

\* Mappings the server accepts, some as only another client would store them.
MCStored ==
  {Absent,
   Mapped(" a", "single", <<n1>>, NoPattern, NoCheck, NoCheck, ""),
   Mapped("a", "failover", <<n2, n1>>, NoPattern, 60, " a", "good"),
   Mapped("", "hash", <<>>, hkpad, 0, "", "")}

-----------------------------------------------------------------------------
\* Views that are not shown.
NoStatusPage ==
  /\ server = CHOOSE v \in Values : TRUE
  /\ settled = FALSE /\ onStatus = FALSE
  /\ status = NoValue /\ loading = TRUE /\ error = FALSE
  /\ answer = [p \in Polls |-> "free"]

NoRow ==
  /\ target = CHOOSE m \in Targets : TRUE
  /\ known = {} /\ shownRow = FALSE /\ open = FALSE
  /\ results = [n \in Tested |-> "none"]
  /\ tests = [n \in Tested |-> 0] /\ openedFor = {}

ViewsInit ==
  /\ view \in {"sweep", "status", "speedtest", "session", "form"}
  /\ SweepInit /\ SessionInit
  /\ IF view = "status" THEN StatusInit ELSE NoStatusPage
  /\ IF view = "speedtest" THEN SpeedInit ELSE NoRow
  /\ stored \in IF view = "form" THEN MCStored ELSE {Absent}
  /\ FormInit

ViewsNext ==
  /\ UNCHANGED view
  /\ \/ /\ view = "sweep" /\ SweepNext
        /\ UNCHANGED <<statusVars, speedVars, sessionVars, formVars>>
     \/ /\ view = "status" /\ StatusNext
        /\ UNCHANGED <<sweepVars, speedVars, sessionVars, formVars>>
     \/ /\ view = "speedtest" /\ SpeedNext
        /\ UNCHANGED <<sweepVars, statusVars, sessionVars, formVars>>
     \/ /\ view = "session" /\ SessionNext
        /\ UNCHANGED <<sweepVars, statusVars, speedVars, formVars>>
     \/ /\ view = "form" /\ FormNext
        /\ UNCHANGED <<sweepVars, statusVars, speedVars, sessionVars>>

\* Nothing of a view that is not shown is enabled, so its fairness asks for nothing.
ViewsSpec ==
  ViewsInit /\ [][ViewsNext]_<<view, views>> /\ SweepFairness /\ StatusFairness
=============================================================================
