------------------------------ MODULE ListPage ------------------------------
(***************************************************************************)
(* What the three list pages of the console have in common                 *)
(* (pages/subscriptions.tsx, nodes.tsx, mappings.tsx): a table loaded when *)
(* the page is mounted, row buttons, a dialog that saves, a confirmation   *)
(* that deletes, and after most changes another load.  No call is waited   *)
(* for by the page as a whole, so several are under way at a time, the     *)
(* answers come in any order, and the page can be left before they do.     *)
(*                                                                         *)
(* The server's rows carry the time of their last change, 0 for a row that *)
(* does not exist.  A call is [kind, from, item, st, rows, at, live]: a    *)
(* handler's later load takes the slot of its first call and remembers in  *)
(* from which handler waits for it.                                        *)
(***************************************************************************)
EXTENDS Naturals, FiniteSets

CONSTANTS
  Items,      \* rows there may be: subscriptions, nodes, ports
  NoItem,
  Calls,      \* bound: calls under way at a time
  MaxChanges  \* bound: changes on the server

ASSUME ListAssumption ==
  /\ NoItem \notin Items
  /\ Items \cap {"closed", "new"} = {}
  /\ MaxChanges \in Nat

VARIABLES
  srv,            \* rows on the server
  clock,          \* changes so far
  mounted,        \* the page is shown
  shown, shownAt, \* rows of the table, and the clock they are from
  loading, error, \* first load under way; the last load failed
  busy,           \* rows whose button spins: refreshing, testing, toggling
  dialog,         \* "closed", "new" or the row that is edited
  saving,
  deleting,       \* the row the confirmation is open for
  deleteLoading,
  calls,
  why             \* history: what first came between the table and the server's rows

pageState == <<shown, shownAt, loading, error, busy, dialog, saving, deleting, deleteLoading>>
listVars == <<srv, clock, mounted, pageState, calls, why>>

Empty == [i \in Items |-> 0]

Free == [kind |-> "free", from |-> "load", item |-> NoItem, st |-> "sent",
         rows |-> Empty, at |-> 0, live |-> FALSE]

Request(kind, from, item) == [Free EXCEPT !.kind = kind, !.from = from, !.item = item,
                                          !.live = TRUE]

\* A page that is mounted anew, and what is left of one that is gone.
Fresh ==
  /\ shown = Empty /\ shownAt = 0
  /\ loading = TRUE /\ error = FALSE
  /\ busy = {} /\ dialog = "closed" /\ saving = FALSE
  /\ deleting = NoItem /\ deleteLoading = FALSE

Unmount ==
  /\ mounted' = FALSE
  /\ shown' = Empty /\ shownAt' = 0
  /\ loading' = TRUE /\ error' = FALSE
  /\ busy' = {} /\ dialog' = "closed" /\ saving' = FALSE
  /\ deleting' = NoItem /\ deleteLoading' = FALSE
  /\ why' = "nothing"

\* One reason is enough, the first.
Because(reason) == IF why = "nothing" THEN reason ELSE why

ListInit ==
  /\ srv \in [Items -> {0, 1}]
  /\ clock = 1
  /\ mounted = FALSE /\ Fresh
  /\ calls = [c \in Calls |-> Free]
  /\ why = "nothing"

-----------------------------------------------------------------------------
(* What can be clicked *)

\* An open dialog covers the page.
Modal == dialog # "closed" \/ deleting # NoItem

\* The table is there, with the row, and nothing covers it.
Usable(i) == mounted /\ ~loading /\ ~error /\ shown[i] > 0 /\ ~Modal

-----------------------------------------------------------------------------
(* The server *)

\* The call has been served; an answer nobody waits for is forgotten.
Served(c, answer) ==
  calls' = [calls EXCEPT ![c] = IF answer.live THEN answer ELSE Free]

\* A change is kept, and the answer says so; or an error does, or none comes.
Keep(c, rows) ==
  /\ clock <= MaxChanges
  /\ srv' = rows /\ clock' = clock + 1
  /\ \E st \in {"ok", "failed"} :
       /\ Served(c, [calls[c] EXCEPT !.st = st, !.at = clock + 1])
       /\ why' = IF ~mounted THEN why
                 ELSE IF ~calls[c].live THEN Because("left")
                 ELSE IF st = "failed" THEN Because("failed")
                 ELSE why
  /\ UNCHANGED <<mounted, pageState>>

\* Nothing changes: a refusal, or no answer.
Refuse(c) ==
  /\ Served(c, [calls[c] EXCEPT !.st = "failed"])
  /\ UNCHANGED <<srv, clock, mounted, pageState, why>>

ServeList(c) ==
  /\ calls[c].kind = "list" /\ calls[c].st = "sent"
  /\ \/ /\ Served(c, [calls[c] EXCEPT !.st = "ok", !.rows = srv, !.at = clock])
        /\ UNCHANGED <<srv, clock, mounted, pageState, why>>
     \/ Refuse(c)

Waits(c, kind) == calls[c].kind = kind /\ calls[c].st = "sent"

\* Another tab, a client of the API, or the program's own refreshes.
Elsewhere ==
  /\ clock <= MaxChanges
  /\ \E i \in Items, v \in {0, clock + 1} : srv' = [srv EXCEPT ![i] = v]
  /\ clock' = clock + 1
  /\ why' = IF mounted THEN Because("elsewhere") ELSE why
  /\ UNCHANGED <<mounted, pageState, calls>>

-----------------------------------------------------------------------------
(* Coming and going *)

Mount(c) ==
  /\ ~mounted /\ calls[c].kind = "free"
  /\ mounted' = TRUE
  /\ calls' = [calls EXCEPT ![c] = Request("list", "load", NoItem)]
  /\ UNCHANGED <<srv, clock, pageState, why>>

\* The calls of a page that is gone go on; what they return is not used, unless it
\* is a refusal for want of a session.
Abandoned ==
  [c \in Calls |-> IF calls[c].st # "sent" THEN Free
                   ELSE [Free EXCEPT !.kind = calls[c].kind, !.item = calls[c].item]]

\* Another page of the console.
Leave ==
  /\ mounted /\ Unmount
  /\ calls' = Abandoned
  /\ UNCHANGED <<srv, clock>>

\* Any call that is refused for want of a session leads to the login page, whoever
\* made it.
Denied(c) ==
  /\ calls[c].kind # "free" /\ calls[c].st = "sent"
  /\ Unmount
  /\ calls' = [Abandoned EXCEPT ![c] = Free]
  /\ UNCHANGED <<srv, clock>>

Answer(c, kind, st) == calls[c].kind = kind /\ calls[c].live /\ calls[c].st = st

-----------------------------------------------------------------------------
(* load *)

\* What is between the table and the server after rows from time at are put in it.
Missing(rows, at) ==
  IF at = clock /\ rows = srv THEN "nothing"
  ELSE IF at < shownAt THEN Because("crossed")
  ELSE why

\* The rows come.  The handler that waited for them ends: its spinner stops.
Loaded(c) ==
  /\ Answer(c, "list", "ok")
  /\ shown' = calls[c].rows /\ shownAt' = calls[c].at
  /\ why' = Missing(calls[c].rows, calls[c].at)
  /\ error' = FALSE /\ loading' = FALSE
  /\ busy' = IF calls[c].from = "row" THEN busy \ {calls[c].item} ELSE busy
  /\ deleteLoading' = (deleteLoading /\ calls[c].from # "delete")
  /\ calls' = [calls EXCEPT ![c] = Free]
  /\ UNCHANGED <<srv, clock, mounted, dialog, saving, deleting>>

\* They do not: an error takes the place of the table.
NotLoaded(c) ==
  /\ Answer(c, "list", "failed")
  /\ error' = TRUE /\ loading' = FALSE
  /\ why' = Because("failed")
  /\ busy' = IF calls[c].from = "row" THEN busy \ {calls[c].item} ELSE busy
  /\ deleteLoading' = (deleteLoading /\ calls[c].from # "delete")
  /\ calls' = [calls EXCEPT ![c] = Free]
  /\ UNCHANGED <<srv, clock, mounted, shown, shownAt, dialog, saving, deleting>>

\* The retry button of the error.
Retry(c) ==
  /\ mounted /\ ~loading /\ error /\ ~Modal /\ calls[c].kind = "free"
  /\ calls' = [calls EXCEPT ![c] = Request("list", "load", NoItem)]
  /\ UNCHANGED <<srv, clock, mounted, pageState, why>>

-----------------------------------------------------------------------------
(* Row buttons *)

StartRow(c, i) ==
  /\ Usable(i) /\ i \notin busy /\ calls[c].kind = "free"
  /\ busy' = busy \cup {i}
  /\ calls' = [calls EXCEPT ![c] = Request("row", "row", i)]
  /\ UNCHANGED <<srv, clock, mounted, shown, shownAt, loading, error, dialog, saving,
                 deleting, deleteLoading, why>>

\* The handler goes on with a load and waits for it.
RowThenLoad(c) ==
  /\ Answer(c, "row", "ok")
  /\ calls' = [calls EXCEPT ![c] = Request("list", "row", calls[c].item)]
  /\ UNCHANGED <<srv, clock, mounted, pageState, why>>

\* Mutation: no finally, an error leaves the button spinning.
RowFailedSpins(c) ==
  /\ Answer(c, "row", "failed")
  /\ calls' = [calls EXCEPT ![c] = Free]
  /\ UNCHANGED <<srv, clock, mounted, pageState, why>>

RowFailed(c) ==
  /\ Answer(c, "row", "failed")
  /\ busy' = busy \ {calls[c].item}
  /\ calls' = [calls EXCEPT ![c] = Free]
  /\ UNCHANGED <<srv, clock, mounted, shown, shownAt, loading, error, dialog, saving,
                 deleting, deleteLoading, why>>

-----------------------------------------------------------------------------
(* The dialog *)

OpenDialog(d) ==
  /\ mounted /\ ~Modal
  /\ dialog' = d
  /\ UNCHANGED <<srv, clock, mounted, shown, shownAt, loading, error, busy, saving,
                 deleting, deleteLoading, calls, why>>

\* Cancel, Esc or the cross, also while it is saving.
CloseDialog ==
  /\ dialog # "closed" /\ dialog' = "closed"
  /\ UNCHANGED <<srv, clock, mounted, shown, shownAt, loading, error, busy, saving,
                 deleting, deleteLoading, calls, why>>

StartSave(c) ==
  /\ dialog # "closed" /\ ~saving /\ calls[c].kind = "free"
  /\ saving' = TRUE
  /\ calls' = [calls EXCEPT ![c] = Request("save", "load", IF dialog = "new" THEN NoItem
                                                           ELSE dialog)]
  /\ UNCHANGED <<srv, clock, mounted, shown, shownAt, loading, error, busy, dialog,
                 deleting, deleteLoading, why>>

\* The dialog that is open by now is closed, and a load is sent that nobody waits for.
SaveThenLoad(c) ==
  /\ Answer(c, "save", "ok")
  /\ dialog' = "closed" /\ saving' = FALSE
  /\ calls' = [calls EXCEPT ![c] = Request("list", "load", NoItem)]
  /\ UNCHANGED <<srv, clock, mounted, shown, shownAt, loading, error, busy, deleting,
                 deleteLoading, why>>

SaveFailed(c) ==
  /\ Answer(c, "save", "failed")
  /\ saving' = FALSE
  /\ calls' = [calls EXCEPT ![c] = Free]
  /\ UNCHANGED <<srv, clock, mounted, shown, shownAt, loading, error, busy, dialog,
                 deleting, deleteLoading, why>>

-----------------------------------------------------------------------------
(* The confirmation *)

AskDelete(i) ==
  /\ Usable(i)
  /\ deleting' = i
  /\ UNCHANGED <<srv, clock, mounted, shown, shownAt, loading, error, busy, dialog, saving,
                 deleteLoading, calls, why>>

\* Esc or the cross, also while the delete is under way.
CloseConfirm ==
  /\ deleting # NoItem /\ deleting' = NoItem
  /\ UNCHANGED <<srv, clock, mounted, shown, shownAt, loading, error, busy, dialog, saving,
                 deleteLoading, calls, why>>

\* Mutation: the button of a confirmation that was opened again is enabled.
StartDeleteAgain(c) ==
  /\ deleting # NoItem /\ calls[c].kind = "free"
  /\ deleteLoading' = TRUE
  /\ calls' = [calls EXCEPT ![c] = Request("delete", "delete", deleting)]
  /\ UNCHANGED <<srv, clock, mounted, shown, shownAt, loading, error, busy, dialog, saving,
                 deleting, why>>

StartDelete(c) ==
  /\ deleting # NoItem /\ ~deleteLoading /\ calls[c].kind = "free"
  /\ deleteLoading' = TRUE
  /\ calls' = [calls EXCEPT ![c] = Request("delete", "delete", deleting)]
  /\ UNCHANGED <<srv, clock, mounted, shown, shownAt, loading, error, busy, dialog, saving,
                 deleting, why>>

\* Whichever confirmation is open by now is closed; the handler waits for its load.
DeleteThenLoad(c) ==
  /\ Answer(c, "delete", "ok")
  /\ deleting' = NoItem
  /\ calls' = [calls EXCEPT ![c] = Request("list", "delete", calls[c].item)]
  /\ UNCHANGED <<srv, clock, mounted, shown, shownAt, loading, error, busy, dialog, saving,
                 deleteLoading, why>>

DeleteFailed(c) ==
  /\ Answer(c, "delete", "failed")
  /\ deleteLoading' = FALSE
  /\ calls' = [calls EXCEPT ![c] = Free]
  /\ UNCHANGED <<srv, clock, mounted, shown, shownAt, loading, error, busy, dialog, saving,
                 deleting, why>>
=============================================================================
