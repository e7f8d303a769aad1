------------------------------ MODULE Console ------------------------------
(***************************************************************************)
(* One of the list pages of the console in the browser (web/frontend/src), *)
(* the server behind it, and everything else that changes the server.      *)
(***************************************************************************)
EXTENDS SubscriptionsPage, NodesPage, MappingsPage

VARIABLE page  \* the page this is about; the user leaves it and comes back

consoleVars == <<page, listVars>>

Pages == {"subscriptions", "nodes", "mappings"}

ConsoleInit == page \in Pages /\ ListInit

Handlers(c) ==
  \/ page = "subscriptions" /\ SubscriptionsHandlers(c)
  \/ page = "nodes" /\ NodesHandlers(c)
  \/ page = "mappings" /\ MappingsHandlers(c)

Clicks ==
  \/ page = "subscriptions" /\ SubscriptionsClick
  \/ page = "nodes" /\ NodesClick
  \/ page = "mappings" /\ MappingsClick

Server(c) ==
  \/ ServeList(c)
  \/ page = "subscriptions" /\ SubscriptionsServer(c)
  \/ page = "nodes" /\ NodesServer(c)
  \/ page = "mappings" /\ MappingsServer(c)

ConsoleNext ==
  /\ UNCHANGED page
  /\ \/ Clicks \/ Leave \/ Elsewhere
     \/ \E c \in Calls : Handlers(c) \/ Server(c) \/ Denied(c)

ConsoleSpec == ConsoleInit /\ [][ConsoleNext]_consoleVars

\* What happens with an answer that has come, whichever handler waits.
Continue(c) ==
  /\ UNCHANGED page
  /\ calls[c].st # "sent" /\ Handlers(c)

\* A call is answered or fails at some time, and the handler then goes on.  Nothing is
\* assumed of the user or of other clients.
ConsoleFairSpec ==
  /\ ConsoleSpec
  /\ \A c \in Calls : /\ WF_consoleVars(UNCHANGED page /\ Server(c))
                      /\ WF_consoleVars(Continue(c))

-----------------------------------------------------------------------------
(* Properties *)

RowsType == [Items -> 0 .. MaxChanges + 1]

CallType ==
  [kind : {"free", "list", "row", "save", "delete"}, from : {"load", "row", "delete"},
   item : Items \cup {NoItem}, st : {"sent", "ok", "failed"},
   rows : RowsType, at : 0 .. MaxChanges + 1, live : BOOLEAN]

ConsoleTypeOK ==
  /\ page \in Pages
  /\ srv \in RowsType /\ clock \in 1 .. MaxChanges + 1
  /\ mounted \in BOOLEAN
  /\ shown \in RowsType /\ shownAt \in 0 .. MaxChanges + 1
  /\ loading \in BOOLEAN /\ error \in BOOLEAN
  /\ busy \in SUBSET Items
  /\ dialog \in Items \cup {"closed", "new"} /\ saving \in BOOLEAN
  /\ deleting \in Items \cup {NoItem} /\ deleteLoading \in BOOLEAN
  /\ calls \in [Calls -> CallType]
  /\ why \in {"nothing", "elsewhere", "failed", "left", "crossed"}

Live(c) == calls[c].kind # "free" /\ calls[c].live

\* A table at rest shows the server's rows: each of the page's own changes is
\* followed by a load or put into its row.  What may keep it behind is named: a change
\* by others, a change or a load that was answered with an error or not at all,
\* a change asked for before the page was left and made after it was entered
\* again, and answers that overtook each other (subscriptions.tsx:206-249,
\* nodes.tsx:137-243, mappings.tsx:48-152).
AtRestFresh ==
  mounted /\ ~loading /\ ~error /\ why = "nothing" /\ (\A c \in Calls : ~Live(c)) => shown = srv

\* Two calls of what one button runs.
SameRun(a, b) ==
  \/ a.kind = "save" /\ b.kind = "save"
  \/ a.from = "delete" /\ b.from = "delete"
  \/ a.from = "row" /\ b.from = "row" /\ a.item = b.item

\* The dialog, the confirmation and the buttons of a row start no second run of what
\* they run already: at most one save and one delete are under way, and one operation
\* per row, although dialogs are closed and opened again meanwhile; the buttons beside
\* the table (retry, "test all") are not guarded so
\* (subscriptions.tsx:102-117, 223-249; nodes.tsx:75-85, 209-243; mappings.tsx:125-152).
NoDoubleSubmit ==
  \A c, d \in Calls : Live(c) /\ Live(d) /\ SameRun(calls[c], calls[d]) => c = d

\* Whatever spins comes to rest, on every path a handler can end: an answer, an error,
\* a session that is over, a page that is left (the finally blocks of the handlers).
SpinnersStop ==
  /\ []<>(mounted => ~loading)
  /\ \A i \in Items : []<>(i \notin busy)
  /\ []<>(~saving) /\ []<>(~deleteLoading)
=============================================================================
