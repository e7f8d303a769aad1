----------------------------- MODULE NodesPage -----------------------------
(***************************************************************************)
(* The node page (pages/nodes.tsx) over the list page.  A test of one node *)
(* is put into the table from its answer, without a load; a sweep's polls  *)
(* are loads nobody waits for (NodeSweep says when they stop).             *)
(***************************************************************************)
EXTENDS ListPage

CONSTANT Manual  \* nodes that come from a link of the user and from no subscription

ASSUME ManualAssumption == Manual \subseteq Items

NodesLoad(c) == Mount(c) \/ Retry(c) \/ Loaded(c) \/ NotLoaded(c)

\* A tick of a sweep's poll.
NodesPoll(c) ==
  /\ mounted /\ calls[c].kind = "free"
  /\ calls' = [calls EXCEPT ![c] = Request("list", "load", NoItem)]
  /\ UNCHANGED <<srv, clock, mounted, pageState, why>>

\* Mutation: the answer is a toast and no more.
NodeTestedToast(c) ==
  /\ Answer(c, "row", "ok")
  /\ busy' = busy \ {calls[c].item}
  /\ calls' = [calls EXCEPT ![c] = Free]
  /\ UNCHANGED <<srv, clock, mounted, shown, shownAt, loading, error, dialog, saving,
                 deleting, deleteLoading, why>>

\* The result of a test goes into the row, if it is in the table still.
NodeTested(c) ==
  LET i == calls[c].item
      rows == [shown EXCEPT ![i] = IF @ > 0 THEN calls[c].at ELSE 0]
  IN /\ Answer(c, "row", "ok")
     /\ shown' = rows
     /\ shownAt' = IF calls[c].at > shownAt THEN calls[c].at ELSE shownAt
     /\ why' = Missing(rows, calls[c].at)
     /\ busy' = busy \ {i}
     /\ calls' = [calls EXCEPT ![c] = Free]
     /\ UNCHANGED <<srv, clock, mounted, loading, error, dialog, saving, deleting,
                    deleteLoading>>

\* handleTest.
NodesTest(c) == (\E i \in Items : StartRow(c, i)) \/ NodeTested(c) \/ RowFailed(c)

\* AddNodeDialog.
NodesAdd(c) == StartSave(c) \/ SaveThenLoad(c) \/ SaveFailed(c)

NodesDelete(c) == StartDelete(c) \/ DeleteThenLoad(c) \/ DeleteFailed(c)

\* Buttons; the filters take rows out of sight, and with them their buttons.
NodesClick ==
  \/ OpenDialog("new")
  \/ \E i \in Manual : AskDelete(i)
  \/ CloseDialog \/ CloseConfirm

\* TestNode: measured, and stored if the node is still there.
ServeTest(c) ==
  /\ Waits(c, "row")
  /\ \/ srv[calls[c].item] > 0 /\ Keep(c, [srv EXCEPT ![calls[c].item] = clock + 1])
     \/ /\ srv[calls[c].item] = 0
        /\ Served(c, [calls[c] EXCEPT !.st = "ok", !.at = clock])
        /\ UNCHANGED <<srv, clock, mounted, pageState, why>>
     \/ Refuse(c)

\* AddManualNode: a node of its own, or a second source of one that is there.
ServeLink(c) ==
  /\ Waits(c, "save")
  /\ \/ \E i \in Items : /\ i \in Manual \/ srv[i] > 0
                         /\ Keep(c, [srv EXCEPT ![i] = clock + 1])
     \/ Refuse(c)

\* DeleteNode.
ServeNodeRemoval(c) ==
  /\ Waits(c, "delete")
  /\ \/ /\ calls[c].item \in Manual /\ srv[calls[c].item] > 0
        /\ Keep(c, [srv EXCEPT ![calls[c].item] = 0])
     \/ Refuse(c)

NodesHandlers(c) ==
  NodesLoad(c) \/ NodesPoll(c) \/ NodesTest(c) \/ NodesAdd(c) \/ NodesDelete(c)

NodesServer(c) == ServeTest(c) \/ ServeLink(c) \/ ServeNodeRemoval(c)
=============================================================================
