---------------------------- MODULE ConsoleProofs ----------------------------
(***************************************************************************)
(* The calls of the list pages, for any rows, calls and changes of the     *)
(* server: each handler's flag covers exactly the calls it has under way,  *)
(* a spinner has a call that will stop it, and a table that waits for none *)
(* shows the server's rows.                                                *)
(***************************************************************************)
EXTENDS Console, TLAPS

CallShape ==
  [kind : {"free", "list", "row", "save", "delete"}, from : {"load", "row", "delete"},
   item : Items \cup {NoItem}, st : {"sent", "ok", "failed"},
   rows : [Items -> Nat], at : Nat, live : BOOLEAN]

Shapes ==
  /\ calls \in [Calls -> CallShape]
  /\ srv \in [Items -> Nat] /\ clock \in Nat
  /\ busy \in SUBSET Items
  /\ dialog \in Items \cup {"closed", "new"}
  /\ deleting \in Items \cup {NoItem}

\* The page waits for the call.
Awaited(r) == r.kind # "free" /\ r.live

\* The first call of a handler names the handler.
Named(r) ==
  r.live => /\ r.kind = "row" => r.from = "row"
            /\ r.kind = "delete" => r.from = "delete"
            /\ r.kind = "save" => r.from = "load"

\* The flag the handler has raised and will lower.
Covered(r) ==
  /\ r.kind = "save" => saving
  /\ r.from = "delete" => deleteLoading
  /\ r.from = "row" => r.item \in busy

Inv ==
  /\ Shapes
  /\ \A c \in Calls : Named(calls[c])
  /\ \A c \in Calls : Awaited(calls[c]) => Covered(calls[c])
  /\ NoDoubleSubmit

LEMMA FreeShape == Free \in CallShape /\ ~Awaited(Free) /\ Named(Free)
  BY DEF Free, CallShape, Empty, Awaited, Named

LEMMA RequestShape ==
  ASSUME NEW kind \in {"list", "row", "save", "delete"}, NEW from \in {"load", "row", "delete"},
         NEW item \in Items \cup {NoItem}
  PROVE  /\ Request(kind, from, item) \in CallShape
         /\ Request(kind, from, item).kind = kind
         /\ Request(kind, from, item).from = from
         /\ Request(kind, from, item).item = item
         /\ Request(kind, from, item).st = "sent"
         /\ Request(kind, from, item).at = 0
         /\ Awaited(Request(kind, from, item))
  BY DEF Request, Free, CallShape, Empty, Awaited

LEMMA InitInv == ConsoleInit => Inv
<1> SUFFICES ASSUME ConsoleInit PROVE Inv
  OBVIOUS
<1>1. calls = [c \in Calls |-> Free]
  BY DEF ConsoleInit, ListInit
<1>2. Shapes
  BY <1>1, FreeShape DEF ConsoleInit, ListInit, Fresh, Shapes
<1>3. \A c \in Calls : Named(calls[c]) /\ ~Awaited(calls[c])
  BY <1>1, FreeShape
<1> QED  BY <1>2, <1>3 DEF Inv, NoDoubleSubmit, Live, Awaited

-----------------------------------------------------------------------------
\* One call changes: what it becomes is covered and no other call is of the same
\* run, and the flags of the others stay up.
LEMMA OneCall ==
  ASSUME Inv, Shapes',
         NEW c \in Calls, NEW r \in CallShape,
         calls' = [calls EXCEPT ![c] = r],
         Named(r),
         Awaited(r) => Covered(r)',
         \A d \in Calls \ {c} :
           Awaited(calls[d]) => Covered(calls[d])' /\ (Awaited(r) => ~SameRun(r, calls[d]))
  PROVE  Inv'
<1>1. calls'[c] = r /\ \A d \in Calls \ {c} : calls'[d] = calls[d]
  BY DEF Inv, Shapes
<1>2. \A d \in Calls : Named(calls'[d])
  BY <1>1 DEF Inv
<1>3. ASSUME NEW d \in Calls, Awaited(calls'[d]) PROVE Covered(calls[d])'
  BY <1>1, <1>3 DEF Covered
<1>4. ASSUME NEW d \in Calls, NEW e \in Calls, Live(d)', Live(e)',
             SameRun(calls'[d], calls'[e])
      PROVE  d = e
  <2>1. Awaited(calls'[d]) /\ Awaited(calls'[e])
    BY <1>4 DEF Live, Awaited
  <2>2. SameRun(calls'[e], calls'[d])
    BY <1>4 DEF SameRun
  <2>3. CASE d = c \/ e = c
    BY <1>1, <1>4, <2>1, <2>2, <2>3
  <2>4. CASE d # c /\ e # c
    BY <1>1, <1>4, <2>1, <2>4 DEF Inv, NoDoubleSubmit, Live, Awaited
  <2> QED  BY <2>3, <2>4
<1> QED  BY <1>2, <1>3, <1>4 DEF Inv, NoDoubleSubmit, Awaited

\* The call moves on within its run: the flags are as they were.
LEMMA SameCall ==
  ASSUME Inv, Shapes',
         NEW c \in Calls, NEW r \in CallShape,
         calls' = [calls EXCEPT ![c] = r],
         Named(r),
         Awaited(r) => /\ Awaited(calls[c])
                       /\ r.kind \in {calls[c].kind, "list"}
                       /\ r.from = calls[c].from /\ r.item = calls[c].item,
         UNCHANGED <<saving, deleteLoading, busy>>
  PROVE  Inv'
<1>1. Awaited(r) => Covered(r)'
  BY DEF Inv, Covered
<1>2. ASSUME NEW d \in Calls \ {c}, Awaited(calls[d])
      PROVE  Covered(calls[d])' /\ (Awaited(r) => ~SameRun(r, calls[d]))
  <2>1. Covered(calls[d])
    BY <1>2 DEF Inv
  <2>2. ASSUME Awaited(r), SameRun(r, calls[d]) PROVE FALSE
    BY <1>2, <2>2 DEF Inv, NoDoubleSubmit, SameRun, Live, Awaited
  <2> QED  BY <2>1, <2>2, <1>2 DEF Covered, Inv, Shapes
<1> QED  BY <1>1, <1>2, OneCall

\* A call is served: its answer is of the same run.
LEMMA ServedInv ==
  ASSUME Inv, NEW c \in Calls, NEW a \in CallShape,
         a.kind = calls[c].kind, a.from = calls[c].from, a.item = calls[c].item,
         a.live = calls[c].live,
         Served(c, a),
         srv' \in [Items -> Nat], clock' \in Nat, UNCHANGED pageState
  PROVE  Inv'
<1> DEFINE r == IF a.live THEN a ELSE Free
<1>1. r \in CallShape /\ Named(r)
  BY FreeShape DEF Inv, Named
<1>2. calls' = [calls EXCEPT ![c] = r]
  BY DEF Served
<1>3. Shapes'
  BY <1>1, <1>2 DEF Inv, Shapes, pageState
<1>4. Awaited(r) => /\ Awaited(calls[c])
                    /\ r.kind \in {calls[c].kind, "list"}
                    /\ r.from = calls[c].from /\ r.item = calls[c].item
  BY FreeShape DEF Awaited
<1> QED
  BY <1>1, <1>2, <1>3, <1>4, SameCall DEF pageState

LEMMA KeepInv ==
  ASSUME Inv, NEW c \in Calls, NEW rows \in [Items -> Nat], Keep(c, rows)
  PROVE  Inv'
<1>1. clock + 1 \in Nat /\ calls[c] \in CallShape
  BY DEF Inv, Shapes
<1>2. PICK st \in {"ok", "failed"} : Served(c, [calls[c] EXCEPT !.st = st, !.at = clock + 1])
  BY DEF Keep
<1> DEFINE a == [calls[c] EXCEPT !.st = st, !.at = clock + 1]
<1>3. /\ a \in CallShape
      /\ a.kind = calls[c].kind /\ a.from = calls[c].from /\ a.item = calls[c].item
      /\ a.live = calls[c].live
  BY <1>1 DEF CallShape
<1>4. srv' \in [Items -> Nat] /\ clock' \in Nat /\ UNCHANGED pageState
  BY <1>1 DEF Keep
<1> HIDE DEF a
<1> QED  BY <1>2, <1>3, <1>4, ServedInv DEF a

LEMMA RefuseInv ==
  ASSUME Inv, NEW c \in Calls, Refuse(c)
  PROVE  Inv'
<1> DEFINE a == [calls[c] EXCEPT !.st = "failed"]
<1>1. /\ a \in CallShape
      /\ a.kind = calls[c].kind /\ a.from = calls[c].from /\ a.item = calls[c].item
      /\ a.live = calls[c].live
  BY DEF CallShape, Inv, Shapes
<1>2. srv' \in [Items -> Nat] /\ clock' \in Nat /\ UNCHANGED pageState
  BY DEF Refuse, Inv, Shapes
<1>3. Served(c, a)
  BY DEF Refuse
<1> HIDE DEF a
<1> QED  BY <1>1, <1>2, <1>3, ServedInv

\* An answer of a list, and of a test of a node that is gone.
LEMMA ListInv ==
  ASSUME Inv, NEW c \in Calls, ServeList(c)
  PROVE  Inv'
<1>1. CASE Refuse(c)
  BY <1>1, RefuseInv
<1>2. CASE /\ Served(c, [calls[c] EXCEPT !.st = "ok", !.rows = srv, !.at = clock])
           /\ UNCHANGED <<srv, clock, mounted, pageState, why>>
  <2> DEFINE a == [calls[c] EXCEPT !.st = "ok", !.rows = srv, !.at = clock]
  <2>1. /\ a \in CallShape
        /\ a.kind = calls[c].kind /\ a.from = calls[c].from /\ a.item = calls[c].item
        /\ a.live = calls[c].live
    BY DEF CallShape, Inv, Shapes
  <2>2. srv' \in [Items -> Nat] /\ clock' \in Nat /\ UNCHANGED pageState
    BY <1>2 DEF Inv, Shapes
  <2>3. Served(c, a)
    BY <1>2
  <2> HIDE DEF a
  <2> QED  BY <2>1, <2>2, <2>3, ServedInv
<1> QED  BY <1>1, <1>2 DEF ServeList

LEMMA TestInv ==
  ASSUME Inv, NEW c \in Calls, ServeTest(c)
  PROVE  Inv'
<1>0. srv \in [Items -> Nat] /\ clock + 1 \in Nat /\ calls[c] \in CallShape
  BY DEF Inv, Shapes
<1>1. CASE Refuse(c)
  BY <1>1, RefuseInv
<1>2. CASE Keep(c, [srv EXCEPT ![calls[c].item] = clock + 1])
  BY <1>0, <1>2, KeepInv
<1>3. CASE /\ Served(c, [calls[c] EXCEPT !.st = "ok", !.at = clock])
           /\ UNCHANGED <<srv, clock, mounted, pageState, why>>
  <2> DEFINE a == [calls[c] EXCEPT !.st = "ok", !.at = clock]
  <2>1. /\ a \in CallShape
        /\ a.kind = calls[c].kind /\ a.from = calls[c].from /\ a.item = calls[c].item
        /\ a.live = calls[c].live
    BY DEF CallShape, Inv, Shapes
  <2>2. srv' \in [Items -> Nat] /\ clock' \in Nat /\ UNCHANGED pageState
    BY <1>3 DEF Inv, Shapes
  <2>3. Served(c, a)
    BY <1>3
  <2> HIDE DEF a
  <2> QED  BY <2>1, <2>2, <2>3, ServedInv
<1> QED  BY <1>1, <1>2, <1>3 DEF ServeTest

\* The server's part of every page.
LEMMA ServerInv ==
  ASSUME Inv, NEW c \in Calls, Server(c)
  PROVE  Inv'
<1>0. srv \in [Items -> Nat] /\ clock + 1 \in Nat
  BY DEF Inv, Shapes
<1>1. ASSUME NEW f \in [Items -> Nat], NEW i, NEW v \in Nat
      PROVE  [f EXCEPT ![i] = v] \in [Items -> Nat]
  OBVIOUS
<1>2. CASE ServeRefresh(c) \/ ServeRemoval(c) \/ ServeNodeRemoval(c) \/ ServeToggle(c)
           \/ ServeRelease(c)
  BY <1>0, <1>1, <1>2, KeepInv, RefuseInv
  DEF ServeRefresh, ServeRemoval, ServeNodeRemoval, ServeToggle, ServeRelease
<1>3. CASE ServeSubscription(c)
  BY <1>0, <1>1, <1>3, KeepInv, RefuseInv DEF ServeSubscription
<1>4. CASE ServeLink(c)
  BY <1>0, <1>1, <1>4, KeepInv, RefuseInv DEF ServeLink
<1>5. CASE ServeMapping(c)
  <2>1. ASSUME NEW i \in Items PROVE [srv EXCEPT ![i] = clock + 1] \in [Items -> Nat]
    BY <1>0, <1>1
  <2>2. ASSUME NEW i \in Items
        PROVE  [srv EXCEPT ![calls[c].item] = 0, ![i] = clock + 1] \in [Items -> Nat]
    BY <1>0
  <2> QED  BY <1>5, <2>1, <2>2, KeepInv, RefuseInv DEF ServeMapping
<1> QED
  BY <1>2, <1>3, <1>4, <1>5, ListInv, TestInv
  DEF Server, SubscriptionsServer, NodesServer, MappingsServer

-----------------------------------------------------------------------------
\* Nothing about the calls and the flags changes.
LEMMA QuietInv ==
  ASSUME Inv, Shapes', UNCHANGED <<calls, saving, deleteLoading, busy>>
  PROVE  Inv'
  BY DEF Inv, Awaited, Covered, Named, NoDoubleSubmit, Live, SameRun

LEMMA ClicksInv ==
  ASSUME Inv, Clicks
  PROVE  Inv'
<1>1. \/ \E d \in Items \cup {"new"} : OpenDialog(d)
      \/ \E i \in Items : AskDelete(i)
      \/ CloseDialog \/ CloseConfirm
  BY ManualAssumption DEF Clicks, SubscriptionsClick, NodesClick, MappingsClick
<1>2. ASSUME NEW d \in Items \cup {"new"}, OpenDialog(d) PROVE Inv'
  BY <1>2, QuietInv DEF OpenDialog, Inv, Shapes
<1>3. ASSUME NEW i \in Items, AskDelete(i) PROVE Inv'
  BY <1>3, QuietInv DEF AskDelete, Inv, Shapes
<1>4. CASE CloseDialog
  BY <1>4, QuietInv DEF CloseDialog, Inv, Shapes
<1>5. CASE CloseConfirm
  BY <1>5, QuietInv DEF CloseConfirm, Inv, Shapes
<1> QED  BY <1>1, <1>2, <1>3, <1>4, <1>5

LEMMA ElsewhereInv ==
  ASSUME Inv, Elsewhere
  PROVE  Inv'
<1>1. srv' \in [Items -> Nat] /\ clock' \in Nat
  BY DEF Elsewhere, Inv, Shapes
<1> QED  BY <1>1, QuietInv DEF Elsewhere, Inv, Shapes, pageState

\* Once the page is gone nobody waits.
LEMMA AbandonedInv ==
  ASSUME Inv, Unmount, UNCHANGED <<srv, clock>>,
         \A c \in Calls : ~Awaited(calls'[c]) /\ Named(calls'[c]),
         calls' \in [Calls -> CallShape]
  PROVE  Inv'
<1>1. Shapes'
  BY DEF Inv, Shapes, Unmount
<1> QED  BY <1>1 DEF Inv, NoDoubleSubmit, Live, Awaited, Named

LEMMA AbandonedShape ==
  ASSUME Inv, NEW c \in Calls
  PROVE  Abandoned[c] \in CallShape /\ ~Abandoned[c].live
<1>1. calls[c] \in CallShape
  BY DEF Inv, Shapes
<1> QED  BY <1>1 DEF Abandoned, Free, CallShape, Empty

LEMMA GoneInv ==
  ASSUME Inv, Leave \/ \E c \in Calls : Denied(c)
  PROVE  Inv'
<1>1. Unmount /\ UNCHANGED <<srv, clock>>
  BY DEF Leave, Denied
<1>2. ASSUME NEW d \in Calls PROVE calls'[d] \in CallShape /\ ~calls'[d].live
  BY <1>2, AbandonedShape, FreeShape DEF Leave, Denied, Free, Abandoned
<1>3. calls' \in [Calls -> CallShape]
  BY <1>2 DEF Leave, Denied, Abandoned
<1> QED  BY <1>1, <1>2, <1>3, AbandonedInv DEF Awaited, Named
-----------------------------------------------------------------------------
\* A handler starts: its call takes a free slot, and none of its run is under way.
LEMMA StartInv ==
  ASSUME Inv, Shapes',
         NEW c \in Calls, NEW kind \in {"list", "row", "save", "delete"},
         NEW from \in {"load", "row", "delete"}, NEW item \in Items \cup {NoItem},
         calls[c].kind = "free",
         calls' = [calls EXCEPT ![c] = Request(kind, from, item)],
         Named(Request(kind, from, item)),
         Covered(Request(kind, from, item))',
         saving => saving', deleteLoading => deleteLoading', busy \subseteq busy',
         \A d \in Calls : Awaited(calls[d]) => ~SameRun(Request(kind, from, item), calls[d])
  PROVE  Inv'
<1> DEFINE r == Request(kind, from, item)
<1>1. r \in CallShape
  BY RequestShape
<1>2. \A d \in Calls \ {c} : Awaited(calls[d]) => Covered(calls[d])'
  BY DEF Inv, Covered, Shapes
<1> HIDE DEF r
<1> QED  BY <1>1, <1>2, OneCall DEF r

LEMMA LoadStarts ==
  ASSUME Inv, NEW c \in Calls, Mount(c) \/ Retry(c) \/ NodesPoll(c)
  PROVE  Inv'
<1> DEFINE r == Request("list", "load", NoItem)
<1>1. /\ calls[c].kind = "free"
      /\ calls' = [calls EXCEPT ![c] = r]
      /\ UNCHANGED <<srv, clock, pageState>>
  BY DEF Mount, Retry, NodesPoll
<1>2. /\ r \in CallShape /\ r.kind = "list" /\ r.from = "load"
  BY RequestShape
<1>3. Shapes'
  BY <1>1, <1>2 DEF Inv, Shapes, pageState
<1>4. Named(r) /\ Covered(r)' /\ \A d \in Calls : Awaited(calls[d]) => ~SameRun(r, calls[d])
  BY <1>2 DEF Named, Covered, SameRun
<1> QED  BY <1>1, <1>3, <1>4, StartInv DEF pageState

LEMMA RowStarts ==
  ASSUME Inv, NEW c \in Calls, NEW i \in Items, StartRow(c, i)
  PROVE  Inv'
<1> DEFINE r == Request("row", "row", i)
<1>1. r \in CallShape /\ r.kind = "row" /\ r.from = "row" /\ r.item = i
  BY RequestShape
<1>2. /\ calls[c].kind = "free" /\ i \notin busy
      /\ calls' = [calls EXCEPT ![c] = r]
      /\ busy' = busy \cup {i}
      /\ UNCHANGED <<srv, clock, dialog, saving, deleting, deleteLoading>>
  BY DEF StartRow
<1>3. Shapes'
  BY <1>1, <1>2 DEF Inv, Shapes
<1>4. Named(r) /\ Covered(r)'
  BY <1>1, <1>2 DEF Named, Covered
<1>5. \A d \in Calls : Awaited(calls[d]) => ~SameRun(r, calls[d])
  BY <1>1, <1>2 DEF Inv, Covered, SameRun
<1> QED  BY <1>2, <1>3, <1>4, <1>5, StartInv

LEMMA SaveStarts ==
  ASSUME Inv, NEW c \in Calls, StartSave(c)
  PROVE  Inv'
<1>1. PICK item \in Items \cup {NoItem} :
        calls' = [calls EXCEPT ![c] = Request("save", "load", item)]
  BY DEF StartSave, Inv, Shapes
<1> DEFINE r == Request("save", "load", item)
<1>2. r \in CallShape /\ r.kind = "save" /\ r.from = "load"
  BY <1>1, RequestShape
<1>3. /\ calls[c].kind = "free" /\ ~saving /\ saving'
      /\ UNCHANGED <<srv, clock, busy, dialog, deleting, deleteLoading>>
  BY DEF StartSave
<1>4. Shapes'
  BY <1>1, <1>2, <1>3 DEF Inv, Shapes
<1>5. Named(r) /\ Covered(r)'
  BY <1>2, <1>3 DEF Named, Covered
<1>6. \A d \in Calls : Awaited(calls[d]) => ~SameRun(r, calls[d])
  BY <1>2, <1>3 DEF Inv, Covered, SameRun
<1> QED  BY <1>1, <1>3, <1>4, <1>5, <1>6, StartInv

LEMMA DeleteStarts ==
  ASSUME Inv, NEW c \in Calls, StartDelete(c)
  PROVE  Inv'
<1> DEFINE r == Request("delete", "delete", deleting)
<1>1. deleting \in Items \cup {NoItem}
  BY DEF Inv, Shapes
<1>2. r \in CallShape /\ r.kind = "delete" /\ r.from = "delete"
  BY <1>1, RequestShape
<1>3. /\ calls[c].kind = "free" /\ ~deleteLoading /\ deleteLoading'
      /\ calls' = [calls EXCEPT ![c] = r]
      /\ UNCHANGED <<srv, clock, busy, dialog, deleting, saving>>
  BY DEF StartDelete
<1>4. Shapes'
  BY <1>2, <1>3 DEF Inv, Shapes
<1>5. Named(r) /\ Covered(r)'
  BY <1>2, <1>3 DEF Named, Covered
<1>6. \A d \in Calls : Awaited(calls[d]) => ~SameRun(r, calls[d])
  BY <1>2, <1>3 DEF Inv, Covered, SameRun
<1> QED  BY <1>1, <1>3, <1>4, <1>5, <1>6, StartInv

-----------------------------------------------------------------------------
\* A handler ends and lowers its own flag, which nobody else has raised.
LEMMA EndInv ==
  ASSUME Inv, Shapes', NEW c \in Calls, Awaited(calls[c]),
         calls' = [calls EXCEPT ![c] = Free],
         saving => saving' \/ calls[c].kind = "save",
         deleteLoading => deleteLoading' \/ calls[c].from = "delete",
         \A i \in busy : i \in busy' \/ (calls[c].from = "row" /\ calls[c].item = i)
  PROVE  Inv'
<1>1. ASSUME NEW d \in Calls \ {c}, Awaited(calls[d]) PROVE Covered(calls[d])'
  <2>1. Covered(calls[d]) /\ ~SameRun(calls[c], calls[d])
    BY <1>1 DEF Inv, NoDoubleSubmit, Live, Awaited
  <2>2. calls[d]' = calls[d]
    BY <1>1 DEF Inv, Shapes
  <2> QED  BY <2>1, <2>2 DEF Covered, SameRun
<1>2. ASSUME NEW d \in Calls \ {c} PROVE calls'[d] = calls[d]
  BY <1>2 DEF Inv, Shapes
<1> QED  BY <1>1, <1>2, FreeShape, OneCall

LEMMA RowEnds ==
  ASSUME Inv, NEW c \in Calls, RowFailed(c) \/ NodeTested(c)
  PROVE  Inv'
<1>1. /\ calls[c].kind = "row" /\ calls[c].live
      /\ calls' = [calls EXCEPT ![c] = Free]
      /\ busy' = busy \ {calls[c].item}
      /\ UNCHANGED <<srv, clock, dialog, saving, deleting, deleteLoading>>
  BY DEF RowFailed, NodeTested, Answer
<1>2. Awaited(calls[c]) /\ calls[c].from = "row"
  BY <1>1 DEF Awaited, Inv, Named
<1>3. Shapes'
  BY <1>1, FreeShape DEF Inv, Shapes
<1> QED  BY <1>1, <1>2, <1>3, EndInv

LEMMA OthersEnd ==
  ASSUME Inv, NEW c \in Calls, SaveFailed(c) \/ DeleteFailed(c)
  PROVE  Inv'
<1>1. CASE SaveFailed(c)
  <2>1. /\ calls[c].kind = "save" /\ Awaited(calls[c])
        /\ calls' = [calls EXCEPT ![c] = Free]
        /\ UNCHANGED <<srv, clock, busy, dialog, deleting, deleteLoading>>
    BY <1>1 DEF SaveFailed, Answer, Awaited
  <2>2. Shapes'
    BY <2>1, FreeShape DEF Inv, Shapes
  <2> QED  BY <2>1, <2>2, EndInv
<1>2. CASE DeleteFailed(c)
  <2>1. /\ calls[c].kind = "delete" /\ Awaited(calls[c])
        /\ calls' = [calls EXCEPT ![c] = Free]
        /\ UNCHANGED <<srv, clock, busy, dialog, deleting, saving>>
    BY <1>2 DEF DeleteFailed, Answer, Awaited
  <2>2. calls[c].from = "delete"
    BY <2>1 DEF Inv, Named, Awaited
  <2>3. Shapes'
    BY <2>1, FreeShape DEF Inv, Shapes
  <2> QED  BY <2>1, <2>2, <2>3, EndInv
<1> QED  BY <1>1, <1>2

LEMMA LoadEnds ==
  ASSUME Inv, NEW c \in Calls, Loaded(c) \/ NotLoaded(c)
  PROVE  Inv'
<1>1. /\ Awaited(calls[c])
      /\ calls' = [calls EXCEPT ![c] = Free]
      /\ busy' = IF calls[c].from = "row" THEN busy \ {calls[c].item} ELSE busy
      /\ UNCHANGED <<srv, clock, dialog, saving, deleting>>
  BY DEF Loaded, NotLoaded, Answer, Awaited
<1>2. deleteLoading => deleteLoading' \/ calls[c].from = "delete"
  BY DEF Loaded, NotLoaded
<1>3. Shapes'
  BY <1>1, FreeShape DEF Inv, Shapes
<1> QED  BY <1>1, <1>2, <1>3, EndInv

-----------------------------------------------------------------------------
\* A handler goes on with a load.
LEMMA GoOnInv ==
  ASSUME Inv, NEW c \in Calls, RowThenLoad(c) \/ DeleteThenLoad(c)
  PROVE  Inv'
<1> DEFINE r == Request("list", calls[c].from, calls[c].item)
<1>1. calls[c] \in CallShape /\ Awaited(calls[c]) /\ Named(calls[c])
  BY DEF RowThenLoad, DeleteThenLoad, Answer, Awaited, Inv, Shapes
<1>2. calls[c].from \in {"load", "row", "delete"} /\ calls[c].item \in Items \cup {NoItem}
  BY <1>1 DEF CallShape
<1>3. /\ r \in CallShape /\ r.kind = "list"
      /\ r.from = calls[c].from /\ r.item = calls[c].item
  BY <1>2, RequestShape
<1>4. /\ calls' = [calls EXCEPT ![c] = r]
      /\ deleting' \in {deleting, NoItem}
      /\ UNCHANGED <<srv, clock, dialog, saving, deleteLoading, busy>>
  BY <1>1 DEF RowThenLoad, DeleteThenLoad, Answer, Named, pageState
<1>5. Shapes' /\ Named(r)
  BY <1>3, <1>4 DEF Inv, Shapes, Named
<1> HIDE DEF r
<1> QED  BY <1>1, <1>3, <1>4, <1>5, SameCall

LEMMA SavedInv ==
  ASSUME Inv, NEW c \in Calls, SaveThenLoad(c)
  PROVE  Inv'
<1> DEFINE r == Request("list", "load", NoItem)
<1>1. r \in CallShape /\ r.kind = "list" /\ r.from = "load"
  BY RequestShape
<1>2. /\ calls[c].kind = "save" /\ Awaited(calls[c])
      /\ calls' = [calls EXCEPT ![c] = r]
      /\ dialog' = "closed"
      /\ UNCHANGED <<srv, clock, deleting, deleteLoading, busy>>
  BY DEF SaveThenLoad, Answer, Awaited
<1>3. Shapes'
  BY <1>1, <1>2 DEF Inv, Shapes
<1>4. Named(r) /\ Covered(r)' /\ \A d \in Calls : ~SameRun(r, calls[d])
  BY <1>1 DEF Named, Covered, SameRun
<1>5. ASSUME NEW d \in Calls \ {c}, Awaited(calls[d]) PROVE Covered(calls[d])'
  <2>1. Covered(calls[d]) /\ ~SameRun(calls[c], calls[d])
    BY <1>2, <1>5 DEF Inv, NoDoubleSubmit, Live, Awaited
  <2>2. calls[d]' = calls[d]
    BY <1>2, <1>5 DEF Inv, Shapes
  <2> QED  BY <1>2, <2>1, <2>2 DEF Covered, SameRun
<1>6. ASSUME NEW d \in Calls \ {c} PROVE calls'[d] = calls[d]
  BY <1>2, <1>6 DEF Inv, Shapes
<1> HIDE DEF r
<1> QED  BY <1>1, <1>2, <1>3, <1>4, <1>5, <1>6, OneCall

-----------------------------------------------------------------------------
\* The actions of the pages' handlers.
LEMMA HandlerCases ==
  ASSUME NEW c \in Calls, Handlers(c)
  PROVE  \/ Mount(c) \/ Retry(c) \/ NodesPoll(c)
         \/ \E i \in Items : StartRow(c, i)
         \/ StartSave(c) \/ StartDelete(c)
         \/ Loaded(c) \/ NotLoaded(c)
         \/ RowFailed(c) \/ NodeTested(c) \/ SaveFailed(c) \/ DeleteFailed(c)
         \/ RowThenLoad(c) \/ SaveThenLoad(c) \/ DeleteThenLoad(c)
BY DEF Handlers, SubscriptionsHandlers, NodesHandlers, MappingsHandlers,
       SubscriptionsLoad, SubscriptionsRefresh, SubscriptionsSave, SubscriptionsDelete,
       NodesLoad, NodesTest, NodesAdd, NodesDelete,
       MappingsLoad, MappingsToggle, MappingsSave, MappingsDelete

LEMMA HandlersInv ==
  ASSUME Inv, NEW c \in Calls, Handlers(c)
  PROVE  Inv'
<1>1. \/ Mount(c) \/ Retry(c) \/ NodesPoll(c)
      \/ Loaded(c) \/ NotLoaded(c)
      \/ \E i \in Items : StartRow(c, i)
      \/ RowThenLoad(c) \/ RowFailed(c) \/ NodeTested(c)
      \/ StartSave(c) \/ SaveThenLoad(c) \/ SaveFailed(c)
      \/ StartDelete(c) \/ DeleteThenLoad(c) \/ DeleteFailed(c)
  BY HandlerCases
<1> QED
  BY <1>1, LoadStarts, LoadEnds, RowStarts, RowEnds, SaveStarts, SavedInv, OthersEnd,
     DeleteStarts, GoOnInv

LEMMA StepInv == Inv /\ [ConsoleNext]_consoleVars => Inv'
<1> SUFFICES ASSUME Inv, [ConsoleNext]_consoleVars PROVE Inv'
  OBVIOUS
<1>1. CASE ConsoleNext
  BY <1>1, ClicksInv, GoneInv, ElsewhereInv, HandlersInv, ServerInv DEF ConsoleNext
<1>2. CASE UNCHANGED consoleVars
  BY <1>2, QuietInv DEF consoleVars, listVars, pageState, Inv, Shapes
<1> QED  BY <1>1, <1>2

\* Each button of a list page has at most one run under way, whichever dialogs are closed and
\* opened again, however calls are answered and whenever the page is left
\* (subscriptions.tsx:102-117, 223-249; nodes.tsx:75-85, 209-243; mappings.tsx:125-152).
THEOREM ButtonsRunOnce == ConsoleSpec => []NoDoubleSubmit
<1>1. Inv => NoDoubleSubmit
  BY DEF Inv
<1> QED  BY <1>1, InitInv, StepInv, PTL DEF ConsoleSpec

-----------------------------------------------------------------------------
(* The table at rest *)

\* Rows carry the time of their last change; the table is from no later time.
Clocks ==
  /\ clock \in Nat \ {0} /\ shownAt \in Nat /\ shown \in [Items -> Nat]
  /\ shownAt <= clock
  /\ \A i \in Items : srv[i] <= clock /\ shown[i] <= shownAt

\* A page that is gone waits for nothing and misses nothing.
Gone ==
  /\ ~mounted => why = "nothing" /\ dialog = "closed" /\ deleting = NoItem
  /\ \A c \in Calls : Awaited(calls[c]) => mounted

\* A list that was answered holds the rows of its time; a row that was changed since
\* the answer about it is gone or carries a later time.
Snapshot(r, rows, now) ==
  /\ r.at <= now
  /\ r.kind = "row" => r.item \in Items
  /\ Awaited(r) /\ r.st = "ok" /\ r.kind = "list" =>
       /\ r.at = now => r.rows = rows
       /\ \A i \in Items : /\ r.rows[i] <= r.at
                           /\ rows[i] > 0 /\ rows[i] <= r.at => r.rows[i] = rows[i]
  /\ Awaited(r) /\ r.st = "ok" /\ r.kind = "row" =>
       r.at > 0 /\ (rows[r.item] = 0 \/ r.at <= rows[r.item])

Snapshots == \A c \in Calls : Snapshot(calls[c], srv, clock)

\* The handler has its answer and will send a load.
ThenLoads(r) ==
  /\ Awaited(r) /\ r.st = "ok"
  /\ r.kind \in {"save", "delete"} \/ (r.kind = "row" /\ page # "nodes")

\* The handler has an answer that goes into its row.
Tests(r) == page = "nodes" /\ Awaited(r) /\ r.kind = "row" /\ r.st = "ok"

Measured(i) ==
  \E d \in Calls : Tests(calls[d]) /\ calls[d].item = i /\ calls[d].at = srv[i]

\* The rows are the server's, but for those whose test is about to be put in.
UpToDate(rows) == \A i \in Items : rows[i] = srv[i] \/ (rows[i] > 0 /\ Measured(i))

\* A call that ends with new rows in the table, or with a reason why they are not.
Brings(r) ==
  \/ Awaited(r) /\ r.kind = "list"
  \/ ThenLoads(r)
  \/ Tests(r) /\ r.at < shownAt

\* A call that ends so with rows of a time after t.
Supersedes(r, t) ==
  \/ Awaited(r) /\ r.kind = "list" /\ (r.st = "ok" => t < r.at)
  \/ ThenLoads(r)

TableInv == (\E d \in Calls : Brings(calls[d])) \/ UpToDate(shown)

\* An answer that is out of date before it is in the table is not the last one.
Answered(r) ==
  Awaited(r) /\ r.kind = "list" /\ r.st = "ok" =>
    \/ r.at < shownAt
    \/ \E d \in Calls : Supersedes(calls[d], r.at)
    \/ UpToDate(r.rows)

AnswersInv == \A c \in Calls : Answered(calls[c])

FreshInv ==
  /\ Clocks /\ Gone /\ Snapshots
  /\ mounted /\ why = "nothing" => TableInv /\ AnswersInv

LEMMA FreshInit == ConsoleInit => FreshInv
<1> SUFFICES ASSUME ConsoleInit
             PROVE  FreshInv
  OBVIOUS
<1>1. calls = [c \in Calls |-> Free]
  BY DEF ConsoleInit, ListInit
<1>2. Clocks
  BY DEF ConsoleInit, ListInit, Fresh, Empty, Clocks
<1>3. Gone
  BY <1>1, FreeShape DEF ConsoleInit, ListInit, Fresh, Gone
<1>4. Snapshot(Free, srv, clock)
  BY <1>2 DEF Snapshot, Free, Awaited, Clocks
<1> QED
  BY <1>1, <1>2, <1>3, <1>4 DEF ConsoleInit, ListInit, FreshInv, Snapshots

\* Answers of before stay true of their time when the server changes.
LEMMA SnapshotStays ==
  ASSUME NEW r \in CallShape, NEW rows \in [Items -> Nat], NEW new \in [Items -> Nat],
         NEW now \in Nat, Snapshot(r, rows, now),
         \A i \in Items : new[i] \in {rows[i], 0, now + 1}
  PROVE  Snapshot(r, new, now + 1)
<1>1. r.at \in Nat /\ r.rows \in [Items -> Nat]
  BY DEF CallShape
<1> QED
  BY <1>1 DEF Snapshot

\* One call moves on, and the table and the server stay as they are.
LEMMA OneMoves ==
  ASSUME Inv, FreshInv, NEW c \in Calls, NEW r \in CallShape,
         calls' = [calls EXCEPT ![c] = r],
         UNCHANGED <<page, srv, clock, mounted, shown, shownAt, why>>,
         Gone',
         Snapshot(r, srv, clock),
         ~Tests(calls[c]),
         Brings(calls[c]) => Brings(r),
         \A t \in Nat : t < clock /\ Supersedes(calls[c], t) => Supersedes(r, t),
         Awaited(r) /\ r.kind = "list" /\ r.st = "ok" => r.rows = srv
  PROVE  FreshInv'
<1>0. calls \in [Calls -> CallShape]
  BY DEF Inv, Shapes
<1>1. calls'[c] = r /\ \A d \in Calls \ {c} : calls'[d] = calls[d]
  BY <1>0
<1>2. Clocks' /\ Gone'
  BY DEF FreshInv, Clocks
<1>3. Snapshots'
  BY <1>1 DEF FreshInv, Snapshots
<1>4. ASSUME NEW i \in Items, Measured(i)
      PROVE  Measured(i)'
  <2>1. PICK d \in Calls : Tests(calls[d]) /\ calls[d].item = i /\ calls[d].at = srv[i]
    BY <1>4 DEF Measured
  <2>2. calls'[d] = calls[d]
    BY <1>1, <2>1
  <2> QED
    BY <2>1, <2>2 DEF Measured, Tests, Awaited
<1>5. ASSUME NEW rows, UpToDate(rows)
      PROVE  UpToDate(rows)'
  BY <1>4, <1>5 DEF UpToDate
<1>6. ASSUME mounted, why = "nothing"
      PROVE  TableInv'
  <2>1. CASE \E d \in Calls : Brings(calls[d])
    BY <1>1, <2>1 DEF TableInv, Brings, ThenLoads, Tests, Awaited
  <2>2. CASE UpToDate(shown)
    BY <1>5, <2>2 DEF TableInv
  <2> QED
    BY <1>6, <2>1, <2>2 DEF FreshInv, TableInv
<1>7. ASSUME mounted, why = "nothing", NEW d \in Calls,
             NEW a \in CallShape, a = calls'[d]
      PROVE  Answered(a)'
  <2> SUFFICES ASSUME Awaited(a), a.kind = "list", a.st = "ok"
               PROVE  Answered(a)'
    BY DEF Answered, Awaited
  <2>1. CASE d = c
    <3>1. a.rows = srv
      BY <1>1, <1>7, <2>1
    <3> QED
      BY <3>1 DEF UpToDate, Answered
  <2>2. CASE d # c
    <3>1. a = calls[d]
      BY <1>1, <1>7, <2>2
    <3>2. a.at \in Nat /\ a.at <= clock /\ (a.at = clock => a.rows = srv)
      BY <3>1 DEF CallShape, FreshInv, Snapshots, Snapshot
    <3>3. CASE a.at = clock
      BY <3>2, <3>3 DEF UpToDate, Answered
    <3>4. CASE a.at < clock
      <4>1. \/ a.at < shownAt
            \/ \E e \in Calls : Supersedes(calls[e], a.at)
            \/ UpToDate(a.rows)
        BY <1>7, <3>1 DEF FreshInv, AnswersInv, Answered
      <4>2. ASSUME NEW e \in Calls, Supersedes(calls[e], a.at)
            PROVE  Supersedes(calls[e], a.at)'
        BY <1>1, <3>2, <3>4, <4>2 DEF Supersedes, ThenLoads, Awaited
      <4>3. UpToDate(a.rows) => UpToDate(a.rows)'
        BY <1>5
      <4> QED
        BY <4>1, <4>2, <4>3 DEF Answered
    <3> QED
      BY <1>0, <3>2, <3>3, <3>4 DEF FreshInv, Clocks
  <2> QED
    BY <2>1, <2>2
<1>8. ASSUME mounted, why = "nothing"
      PROVE  AnswersInv'
  <2>1. \A d \in Calls : calls'[d] \in CallShape
    BY <1>1, <1>0
  <2> QED
    BY <1>7, <1>8, <2>1
       DEF AnswersInv, Answered, Supersedes, ThenLoads, Awaited, UpToDate, Measured, Tests
<1> QED
  BY <1>2, <1>3, <1>6, <1>8 DEF FreshInv

\* Nothing moves but the dialogs.
LEMMA NothingMoves ==
  ASSUME FreshInv, UNCHANGED <<page, calls, srv, clock, mounted, shown, shownAt, why>>, Gone'
  PROVE  FreshInv'
BY DEF FreshInv, Clocks, Snapshots, TableInv, AnswersInv, Answered, Brings, Supersedes,
       ThenLoads, Tests, Awaited, UpToDate, Measured

LEMMA ClicksFresh ==
  ASSUME Inv, FreshInv, Clicks, UNCHANGED page
  PROVE  FreshInv'
<1>1. \/ \E d \in Items \cup {"new"} : OpenDialog(d)
      \/ \E i \in Items : AskDelete(i)
      \/ CloseDialog \/ CloseConfirm
  BY ManualAssumption DEF Clicks, SubscriptionsClick, NodesClick, MappingsClick
<1>2. UNCHANGED <<calls, srv, clock, mounted, shown, shownAt, why>>
  BY <1>1 DEF OpenDialog, AskDelete, CloseDialog, CloseConfirm
<1>3. mounted
  BY <1>1 DEF OpenDialog, AskDelete, Usable, CloseDialog, CloseConfirm, FreshInv, Gone
<1>4. Gone'
  BY <1>2, <1>3 DEF FreshInv, Gone, Awaited
<1> QED
  BY <1>2, <1>4, NothingMoves

\* A handler starts.
LEMMA StartsFresh ==
  ASSUME Inv, FreshInv, NEW c \in Calls, NEW kind \in {"list", "row", "save", "delete"},
         NEW from \in {"load", "row", "delete"}, NEW item \in Items \cup {NoItem},
         kind = "row" => item \in Items,
         calls[c].kind = "free",
         calls' = [calls EXCEPT ![c] = Request(kind, from, item)],
         UNCHANGED <<page, srv, clock, mounted, shown, shownAt, why>>,
         mounted
  PROVE  FreshInv'
<1> DEFINE r == Request(kind, from, item)
<1>1. /\ r \in CallShape /\ r.kind = kind /\ r.item = item /\ r.st = "sent" /\ r.at = 0
  BY RequestShape
<1> HIDE DEF r
<1>2. calls' = [calls EXCEPT ![c] = r]
  BY DEF r
<1>3. Snapshot(r, srv, clock)
  BY <1>1 DEF Snapshot, FreshInv, Clocks
<1>4. Gone'
  BY DEF Gone
<1>5. ~Tests(calls[c]) /\ ~Brings(calls[c]) /\ \A t \in Nat : ~Supersedes(calls[c], t)
  BY DEF Tests, Brings, Supersedes, ThenLoads, Awaited
<1> QED
  BY <1>1, <1>2, <1>3, <1>4, <1>5, OneMoves

\* A handler goes on with a load, or ends without having had an answer to put in.
LEMMA GoesOnFresh ==
  ASSUME Inv, FreshInv, NEW c \in Calls, NEW r \in CallShape,
         Awaited(calls[c]),
         calls' = [calls EXCEPT ![c] = r],
         UNCHANGED <<page, srv, clock, mounted, shown, shownAt, why>>,
         r.at = 0 /\ r.kind # "row",
         \/ Awaited(r) /\ r.kind = "list" /\ r.st = "sent" /\ ThenLoads(calls[c])
         \/ ~Awaited(r) /\ calls[c].kind # "list" /\ calls[c].st # "ok"
  PROVE  FreshInv'
<1>1. mounted
  BY DEF FreshInv, Gone
<1>2. Gone'
  BY <1>1 DEF Gone
<1>3. Snapshot(r, srv, clock)
  BY DEF Snapshot, FreshInv, Clocks
<1>4. ~Tests(calls[c])
  BY DEF Tests, ThenLoads
<1>5. Brings(calls[c]) => Brings(r)
  BY DEF Brings, Tests, ThenLoads
<1>6. \A t \in Nat : Supersedes(calls[c], t) => Supersedes(r, t)
  BY DEF Supersedes, ThenLoads
<1> QED
  BY <1>2, <1>3, <1>4, <1>5, <1>6, OneMoves

LEMMA MountFresh ==
  ASSUME Inv, FreshInv, NEW c \in Calls, Mount(c), UNCHANGED page
  PROVE  FreshInv'
<1> DEFINE r == Request("list", "load", NoItem)
<1>1. r \in CallShape /\ r.kind = "list" /\ r.st = "sent" /\ r.at = 0 /\ Awaited(r)
  BY RequestShape
<1> HIDE DEF r
<1>2. /\ calls' = [calls EXCEPT ![c] = r] /\ ~mounted /\ mounted'
      /\ UNCHANGED <<srv, clock, shown, shownAt, why>>
  BY DEF Mount, pageState, r
<1>3. calls \in [Calls -> CallShape]
  BY DEF Inv, Shapes
<1>4. calls'[c] = r /\ \A d \in Calls \ {c} : calls'[d] = calls[d]
  BY <1>2, <1>3
<1>5. \A d \in Calls \ {c} : ~Awaited(calls'[d])
  BY <1>2, <1>4 DEF FreshInv, Gone
<1>6. Clocks' /\ Gone'
  BY <1>2 DEF FreshInv, Clocks, Gone
<1>7. Snapshot(r, srv, clock)
  BY <1>1 DEF Snapshot, FreshInv, Clocks
<1>8. Snapshots'
  BY <1>2, <1>4, <1>7 DEF FreshInv, Snapshots
<1>9. TableInv'
  BY <1>1, <1>4 DEF TableInv, Brings, Awaited
<1>10. AnswersInv'
  <2>1. \A d \in Calls : ~(Awaited(calls'[d]) /\ calls'[d].st = "ok")
    BY <1>1, <1>4, <1>5
  <2> QED
    BY <2>1 DEF AnswersInv, Answered, Awaited
<1> QED
  BY <1>6, <1>8, <1>9, <1>10 DEF FreshInv

LEMMA GoneFresh ==
  ASSUME Inv, FreshInv, Leave \/ \E c \in Calls : Denied(c), UNCHANGED page
  PROVE  FreshInv'
<1>1. Unmount /\ UNCHANGED <<srv, clock>>
  BY DEF Leave, Denied
<1>2. ASSUME NEW d \in Calls
      PROVE  ~Awaited(calls'[d]) /\ Snapshot(calls'[d], srv, clock)
  <2>1. calls'[d] = Free \/ calls'[d] = Abandoned[d]
    BY DEF Leave, Denied, Abandoned
  <2>2. Abandoned[d] = Free
        \/ Abandoned[d] = [Free EXCEPT !.kind = calls[d].kind, !.item = calls[d].item]
    BY DEF Abandoned
  <2>3. Snapshot(calls[d], srv, clock) /\ calls[d] \in CallShape
    BY DEF FreshInv, Snapshots, Inv, Shapes
  <2>4. Snapshot(Free, srv, clock) /\ ~Awaited(Free)
    BY FreeShape DEF Free, Snapshot, FreshInv, Clocks
  <2> DEFINE r == [Free EXCEPT !.kind = calls[d].kind, !.item = calls[d].item]
  <2>5. r.kind = calls[d].kind /\ r.item = calls[d].item /\ ~r.live /\ r.at = 0
    BY DEF Free
  <2> HIDE DEF r
  <2>6. Snapshot(r, srv, clock) /\ ~Awaited(r)
    BY <2>3, <2>5 DEF Snapshot, Awaited, FreshInv, Clocks
  <2> QED
    BY <2>1, <2>2, <2>4, <2>6 DEF r
<1>3. Clocks'
  BY <1>1 DEF Unmount, FreshInv, Clocks, Inv, Shapes, Empty
<1>4. Gone'
  BY <1>1, <1>2 DEF Unmount, Gone
<1>5. Snapshots'
  BY <1>1, <1>2 DEF Snapshots
<1> QED
  BY <1>1, <1>3, <1>4, <1>5 DEF FreshInv, Unmount

\* The server changes: times stay in order, and no answer was right about a later one.
LEMMA ChangeFresh ==
  ASSUME Inv, FreshInv, Inv', NEW new \in [Items -> Nat],
         \A i \in Items : new[i] \in {srv[i], 0, clock + 1},
         srv' = new, clock' = clock + 1, UNCHANGED <<mounted, shown, shownAt, dialog, deleting>>,
         \A d \in Calls : Awaited(calls'[d]) => Awaited(calls[d]),
         \A d \in Calls : calls'[d] = calls[d] \/ Snapshot(calls'[d], new, clock + 1),
         ~mounted => why' = why
  PROVE  Clocks' /\ Gone' /\ Snapshots'
<1>1. Clocks'
  BY DEF FreshInv, Clocks, Inv, Shapes
<1>2. Gone'
  BY DEF FreshInv, Gone
<1>3. ASSUME NEW d \in Calls
      PROVE  Snapshot(calls'[d], new, clock + 1)
  <2>1. calls[d] \in CallShape /\ Snapshot(calls[d], srv, clock) /\ clock \in Nat
        /\ srv \in [Items -> Nat]
    BY DEF FreshInv, Snapshots, Inv, Shapes
  <2> QED
    BY <2>1, SnapshotStays
<1>4. Snapshots'
  BY <1>3 DEF Snapshots
<1> QED
  BY <1>1, <1>2, <1>4

LEMMA ElsewhereFresh ==
  ASSUME Inv, FreshInv, Inv', Elsewhere, UNCHANGED page
  PROVE  FreshInv'
<1>1. PICK i \in Items, v \in {0, clock + 1} : srv' = [srv EXCEPT ![i] = v]
  BY DEF Elsewhere
<1>2. srv' \in [Items -> Nat] /\ srv \in [Items -> Nat]
  BY DEF Inv, Shapes
<1>3. \A j \in Items : srv'[j] \in {srv[j], 0, clock + 1}
  BY <1>1, <1>2
<1>4. Clocks' /\ Gone' /\ Snapshots'
  BY <1>2, <1>3, ChangeFresh DEF Elsewhere, pageState
<1>5. mounted' => why' # "nothing"
  BY DEF Elsewhere, Because
<1> QED
  BY <1>4, <1>5 DEF FreshInv

\* The rows a change leaves.
Changes(c, new) ==
  /\ new \in [Items -> Nat]
  /\ \A i \in Items : new[i] \in {srv[i], 0, clock + 1}
  /\ calls[c].kind = "row" => /\ calls[c].item \in Items /\ srv[calls[c].item] > 0
                              /\ new = [srv EXCEPT ![calls[c].item] = clock + 1]

\* A change that one of the page's calls makes: its answer is under way, or a reason
\* is kept.
LEMMA KeepFresh ==
  ASSUME Inv, FreshInv, Inv', NEW c \in Calls, NEW new, Changes(c, new), Keep(c, new),
         calls[c].kind \in {"row", "save", "delete"}, calls[c].st = "sent", UNCHANGED page
  PROVE  FreshInv'
<1>0. /\ calls \in [Calls -> CallShape] /\ clock \in Nat /\ srv \in [Items -> Nat]
      /\ new \in [Items -> Nat] /\ \A i \in Items : new[i] \in {srv[i], 0, clock + 1}
      /\ srv' = new /\ clock' = clock + 1
      /\ UNCHANGED <<mounted, pageState>>
  BY DEF Inv, Shapes, Keep, Changes
<1>1. PICK st \in {"ok", "failed"} :
        /\ Served(c, [calls[c] EXCEPT !.st = st, !.at = clock + 1])
        /\ why' = IF ~mounted THEN why
                  ELSE IF ~calls[c].live THEN Because("left")
                  ELSE IF st = "failed" THEN Because("failed")
                  ELSE why
  BY DEF Keep
<1> DEFINE a == [calls[c] EXCEPT !.st = st, !.at = clock + 1]
<1>2. /\ a \in CallShape /\ a.kind = calls[c].kind /\ a.item = calls[c].item
      /\ a.live = calls[c].live /\ a.st = st /\ a.at = clock + 1
  <2>1. clock + 1 \in Nat /\ calls[c] \in CallShape
    BY <1>0
  <2> QED
    BY <2>1 DEF CallShape
<1>3. Served(c, a)
  BY <1>1
<1> HIDE DEF a
<1>4. PICK r \in CallShape : r = IF a.live THEN a ELSE Free
  BY <1>2, FreeShape
<1>5. calls'[c] = r /\ \A d \in Calls \ {c} : calls'[d] = calls[d]
  BY <1>0, <1>3, <1>4 DEF Served
<1>6. Awaited(r) => r = a /\ Awaited(calls[c])
  BY <1>2, <1>4, FreeShape DEF Awaited
<1>7. Snapshot(r, new, clock + 1)
  <2>1. CASE r = a
    BY <1>0, <1>2, <2>1 DEF Snapshot, Changes, Awaited
  <2>2. CASE r = Free
    BY <1>0, <2>2 DEF Snapshot, Free, Awaited
  <2> QED
    BY <1>4, <2>1, <2>2
<1>8. Clocks' /\ Gone' /\ Snapshots'
  <2>1. ASSUME NEW d \in Calls
        PROVE  /\ Awaited(calls'[d]) => Awaited(calls[d])
               /\ calls'[d] = calls[d] \/ Snapshot(calls'[d], new, clock + 1)
    BY <1>5, <1>6, <1>7
  <2>2. ~mounted => why' = why
    BY <1>1
  <2> QED
    BY <1>0, <2>1, <2>2, ChangeFresh DEF pageState
<1>9. SUFFICES ASSUME mounted', why' = "nothing"
               PROVE  TableInv' /\ AnswersInv'
  BY <1>8 DEF FreshInv
<1>10. mounted /\ why = "nothing" /\ a.live /\ st = "ok" /\ r = a
  BY <1>0, <1>1, <1>2, <1>4, <1>9 DEF Because
<1>11. Awaited(r) /\ r.kind \in {"row", "save", "delete"} /\ r.st = "ok" /\ r.at = clock + 1
  BY <1>2, <1>10 DEF Awaited
<1>12. Awaited(calls[c]) /\ ~Tests(calls[c]) /\ ~Brings(calls[c])
       /\ \A t \in Nat : ~Supersedes(calls[c], t)
  BY <1>6, <1>11 DEF Tests, Brings, Supersedes, ThenLoads
<1>13. CASE ThenLoads(r)
  <2>1. TableInv'
    BY <1>5, <1>13 DEF TableInv, Brings, ThenLoads, Awaited
  <2>2. \A t : Supersedes(r, t)'
    BY <1>13 DEF Supersedes, ThenLoads, Awaited
  <2>3. AnswersInv'
    BY <1>5, <2>2 DEF AnswersInv, Answered, Supersedes, ThenLoads, Awaited
  <2> QED
    BY <2>1, <2>3
<1>14. CASE ~ThenLoads(r)
  <2>1. page = "nodes" /\ r.kind = "row" /\ Tests(r)
    BY <1>11, <1>14 DEF ThenLoads, Tests
  <2> DEFINE k == r.item
  <2>2. k \in Items /\ srv[k] > 0 /\ srv' = [srv EXCEPT ![k] = clock + 1]
    BY <1>0, <1>2, <1>10, <2>1 DEF Changes
  <2>3. Measured(k)'
    BY <1>0, <1>5, <1>11, <2>1, <2>2 DEF Measured, Tests, Awaited
  <2>4. ASSUME NEW i \in Items, i # k, Measured(i)
        PROVE  Measured(i)'
    <3>1. PICK d \in Calls : Tests(calls[d]) /\ calls[d].item = i /\ calls[d].at = srv[i]
      BY <2>4 DEF Measured
    <3>2. calls'[d] = calls[d] /\ srv'[i] = srv[i]
      BY <1>0, <1>5, <1>12, <2>2, <2>4, <3>1
    <3> QED
      BY <3>1, <3>2 DEF Measured, Tests, Awaited
  <2>5. ASSUME NEW rows, UpToDate(rows)
        PROVE  UpToDate(rows)'
    <3> SUFFICES ASSUME NEW i \in Items
                 PROVE  rows[i] = srv'[i] \/ (rows[i] > 0 /\ Measured(i)')
      BY DEF UpToDate
    <3>1. CASE i = k
      BY <2>2, <2>3, <2>5, <3>1 DEF UpToDate
    <3>2. CASE i # k
      <4>1. srv'[i] = srv[i]
        BY <1>0, <2>2, <3>2
      <4> QED
        BY <2>4, <2>5, <3>2, <4>1 DEF UpToDate
    <3> QED
      BY <3>1, <3>2
  <2>6. TableInv /\ AnswersInv
    BY <1>10 DEF FreshInv
  <2>7. TableInv'
    <3>1. CASE \E d \in Calls : Brings(calls[d])
      BY <1>0, <1>5, <1>12, <3>1
         DEF TableInv, Brings, ThenLoads, Tests, Awaited, pageState
    <3>2. CASE UpToDate(shown)
      <4>1. UpToDate(shown)' 
        BY <1>0, <2>5, <3>2 DEF pageState, UpToDate, Measured, Tests, Awaited
      <4> QED
        BY <4>1 DEF TableInv
    <3> QED
      BY <2>6, <3>1, <3>2 DEF TableInv
  <2>8. ASSUME NEW d \in Calls, NEW b \in CallShape, b = calls'[d]
        PROVE  Answered(b)'
    <3> SUFFICES ASSUME Awaited(b), b.kind = "list", b.st = "ok"
                 PROVE  Answered(b)'
      BY DEF Answered, Awaited
    <3>1. b = calls[d]
      BY <1>5, <1>11, <2>8
    <3>2. \/ b.at < shownAt
          \/ \E e \in Calls : Supersedes(calls[e], b.at)
          \/ UpToDate(b.rows)
      BY <2>6, <3>1 DEF AnswersInv, Answered
    <3>3. b.at \in Nat
      BY DEF CallShape
    <3>4. ASSUME NEW e \in Calls, Supersedes(calls[e], b.at)
          PROVE  Supersedes(calls[e], b.at)'
      BY <1>5, <1>12, <3>3, <3>4 DEF Supersedes, ThenLoads, Awaited
    <3>5. UpToDate(b.rows) => UpToDate(b.rows)'
      BY <2>5
    <3>6. UNCHANGED shownAt
      BY <1>0 DEF pageState
    <3> QED
      BY <3>2, <3>4, <3>5, <3>6 DEF Answered
  <2>9. AnswersInv'
    <3>1. \A d \in Calls : calls'[d] \in CallShape
      BY <1>0, <1>5
    <3> QED
      BY <2>8, <3>1
         DEF AnswersInv, Answered, Supersedes, ThenLoads, Awaited, UpToDate, Measured, Tests
  <2> QED
    BY <2>7, <2>9
<1> QED
  BY <1>13, <1>14

\* An answer that changes nothing: an error, a list, or no result of a test.
LEMMA AnswerFresh ==
  ASSUME Inv, FreshInv, NEW c \in Calls, NEW a \in CallShape,
         a.kind = calls[c].kind, a.item = calls[c].item, a.live = calls[c].live,
         calls[c].kind # "free", calls[c].st = "sent",
         Served(c, a),
         UNCHANGED <<page, srv, clock, mounted, pageState, why>>,
         \/ a.st = "failed" /\ a.at = calls[c].at
         \/ /\ a.st = "ok" /\ a.at = clock
            /\ a.kind = "list" /\ a.rows = srv
         \/ /\ a.st = "ok" /\ a.at = clock
            /\ a.kind = "row" /\ srv[calls[c].item] = 0
  PROVE  FreshInv'
<1>1. PICK r \in CallShape : r = IF a.live THEN a ELSE Free
  BY FreeShape
<1>2. calls' = [calls EXCEPT ![c] = r]
  BY <1>1 DEF Served
<1>3. Awaited(r) => r = a
  BY <1>1, FreeShape
<1>4. Awaited(calls[c]) => r = a /\ Awaited(r)
  BY <1>1 DEF Awaited
<1>5. /\ clock \in Nat \ {0} /\ srv \in [Items -> Nat] /\ calls[c] \in CallShape
      /\ Snapshot(calls[c], srv, clock)
      /\ \A i \in Items : srv[i] <= clock
  BY DEF FreshInv, Clocks, Inv, Shapes, Snapshots
<1>6. Snapshot(r, srv, clock)
  <2>1. CASE r = a
    BY <1>5, <2>1 DEF Snapshot
  <2>2. CASE r = Free
    BY <1>5, <2>2, FreeShape DEF Snapshot, Free
  <2> QED
    BY <1>1, <2>1, <2>2
<1>7. Gone'
  BY <1>2, <1>3, <1>4 DEF FreshInv, Gone, pageState, Awaited, Inv, Shapes
<1>8. ~Tests(calls[c])
  BY DEF Tests
<1>9. Brings(calls[c]) => Brings(r)
  BY <1>4 DEF Brings, Tests, ThenLoads
<1>10. ASSUME NEW t \in Nat, t < clock, Supersedes(calls[c], t)
       PROVE  Supersedes(r, t)
  BY <1>4, <1>10 DEF Supersedes, ThenLoads
<1>11. Awaited(r) /\ r.kind = "list" /\ r.st = "ok" => r.rows = srv
  BY <1>3
<1> QED
  BY <1>1, <1>2, <1>6, <1>7, <1>8, <1>9, <1>10, <1>11, OneMoves DEF pageState

\* An answer is out of the way: the rest of the calls stay.
LEMMA Settles ==
  ASSUME Inv, FreshInv, NEW c \in Calls, Awaited(calls[c]),
         calls' = [calls EXCEPT ![c] = Free],
         UNCHANGED <<page, srv, clock, mounted, dialog, deleting>>
  PROVE  /\ calls'[c] = Free /\ \A d \in Calls \ {c} : calls'[d] = calls[d]
         /\ Gone' /\ Snapshots'
<1>1. calls'[c] = Free /\ \A d \in Calls \ {c} : calls'[d] = calls[d]
  BY DEF Inv, Shapes
<1>2. mounted
  BY DEF FreshInv, Gone
<1>3. Snapshot(Free, srv, clock)
  BY FreeShape DEF Snapshot, Free, FreshInv, Clocks
<1>4. Snapshots'
  BY <1>1, <1>3 DEF FreshInv, Snapshots
<1> QED
  BY <1>1, <1>2, <1>4 DEF Gone

\* Whenever the table is the server's rows of now, no older answer matters.
LEMMA NowFresh ==
  ASSUME Inv', Clocks', Gone', Snapshots', shown' = srv', shownAt' = clock'
  PROVE  FreshInv'
<1>1. TableInv'
  BY DEF TableInv, UpToDate
<1>2. ASSUME NEW d \in Calls, NEW b \in CallShape, b = calls'[d]
      PROVE  Answered(b)'
  <2>1. b.at \in Nat /\ b.at <= clock'
    BY <1>2 DEF CallShape, Snapshots, Snapshot
  <2>2. clock' \in Nat
    BY DEF Clocks
  <2>3. CASE b.at < clock'
    BY <2>3 DEF Answered
  <2>4. CASE b.at = clock' /\ Awaited(b) /\ b.kind = "list" /\ b.st = "ok"
    <3>1. b.rows = srv'
      BY <1>2, <2>4 DEF Snapshots, Snapshot, Awaited
    <3> QED
      BY <3>1 DEF Answered, UpToDate
  <2> QED
    BY <2>1, <2>2, <2>3, <2>4 DEF Answered, Awaited
<1>3. AnswersInv'
  <2>1. \A d \in Calls : calls'[d] \in CallShape
    BY DEF Inv, Shapes
  <2> QED
    BY <1>2, <2>1
       DEF AnswersInv, Answered, Supersedes, ThenLoads, Awaited, UpToDate, Measured, Tests
<1> QED
  BY <1>1, <1>3 DEF FreshInv

LEMMA NotLoadedFresh ==
  ASSUME Inv, FreshInv, NEW c \in Calls, NotLoaded(c), UNCHANGED page
  PROVE  FreshInv'
<1>1. Gone' /\ Snapshots'
  BY Settles DEF NotLoaded, Answer, Awaited
<1>2. Clocks'
  BY DEF NotLoaded, FreshInv, Clocks
<1>3. why' # "nothing"
  BY DEF NotLoaded, Because
<1> QED
  BY <1>1, <1>2, <1>3 DEF FreshInv

LEMMA LoadedFresh ==
  ASSUME Inv, Inv', FreshInv, NEW c \in Calls, Loaded(c), UNCHANGED page
  PROVE  FreshInv'
<1>0. PICK a \in CallShape : a = calls[c]
  BY DEF Inv, Shapes
<1>1. /\ Awaited(a) /\ a.kind = "list" /\ a.st = "ok"
      /\ shown' = a.rows /\ shownAt' = a.at /\ why' = Missing(a.rows, a.at)
      /\ calls' = [calls EXCEPT ![c] = Free]
      /\ UNCHANGED <<srv, clock, mounted, dialog, deleting>>
  BY <1>0 DEF Loaded, Answer, Awaited
<1>2. /\ calls'[c] = Free /\ \A d \in Calls \ {c} : calls'[d] = calls[d]
      /\ Gone' /\ Snapshots'
  BY <1>0, <1>1, Settles
<1>3. /\ a.at \in Nat /\ a.rows \in [Items -> Nat]
      /\ a.at <= clock /\ \A i \in Items : a.rows[i] <= a.at
  BY <1>0, <1>1 DEF CallShape, FreshInv, Snapshots, Snapshot
<1>4. Clocks'
  BY <1>1, <1>3 DEF FreshInv, Clocks
<1>5. CASE a.at = clock /\ a.rows = srv
  BY <1>1, <1>2, <1>4, <1>5, NowFresh
<1>6. CASE ~(a.at = clock /\ a.rows = srv)
  <2> SUFFICES ASSUME mounted, why' = "nothing"
               PROVE  TableInv' /\ AnswersInv'
    BY <1>1, <1>2, <1>4 DEF FreshInv
  <2>1. shownAt <= a.at /\ why = "nothing"
    BY <1>1, <1>3, <1>6 DEF Missing, Because, FreshInv, Clocks
  <2>2. AnswersInv
    BY <2>1 DEF FreshInv
  <2>3. ASSUME NEW i \in Items, Measured(i)
        PROVE  Measured(i)'
    <3>1. PICK d \in Calls : Tests(calls[d]) /\ calls[d].item = i /\ calls[d].at = srv[i]
      BY <2>3 DEF Measured
    <3>2. calls'[d] = calls[d]
      BY <1>0, <1>1, <1>2, <3>1 DEF Tests
    <3> QED
      BY <1>1, <3>1, <3>2 DEF Measured, Tests, Awaited
  <2>4. ASSUME NEW rows, UpToDate(rows)
        PROVE  UpToDate(rows)'
    BY <1>1, <2>3, <2>4 DEF UpToDate
  <2>5. TableInv'
    <3>1. \/ a.at < shownAt
          \/ \E d \in Calls : Supersedes(calls[d], a.at)
          \/ UpToDate(a.rows)
      BY <1>0, <1>1, <2>2 DEF AnswersInv, Answered
    <3>2. CASE UpToDate(a.rows)
      <4>1. UpToDate(a.rows)'
        BY <2>4, <3>2
      <4> QED
        BY <1>1, <4>1 DEF TableInv, UpToDate, Measured, Tests, Awaited
    <3>3. CASE \E d \in Calls : Supersedes(calls[d], a.at)
      <4>1. PICK d \in Calls : Supersedes(calls[d], a.at)
        BY <3>3
      <4>2. d # c
        BY <1>0, <1>1, <1>3, <4>1 DEF Supersedes, ThenLoads
      <4>3. calls'[d] = calls[d]
        BY <1>2, <4>2
      <4>4. Brings(calls[d])'
        BY <4>1, <4>3 DEF Supersedes, Brings, ThenLoads, Awaited
      <4> QED
        BY <4>4 DEF TableInv
    <3>4. shownAt \in Nat
      BY DEF FreshInv, Clocks
    <3> QED
      BY <1>3, <2>1, <3>1, <3>2, <3>3, <3>4
  <2>6. ASSUME NEW d \in Calls, NEW b \in CallShape, b = calls'[d]
        PROVE  Answered(b)'
    <3> SUFFICES ASSUME Awaited(b), b.kind = "list", b.st = "ok"
                 PROVE  Answered(b)'
      BY DEF Answered, Awaited
    <3>1. b = calls[d]
      BY <1>2, <2>6, FreeShape
    <3>2. \/ b.at < shownAt
          \/ \E e \in Calls : Supersedes(calls[e], b.at)
          \/ UpToDate(b.rows)
      BY <2>2, <3>1 DEF AnswersInv, Answered
    <3>3. b.at \in Nat /\ shownAt \in Nat
      BY DEF CallShape, FreshInv, Clocks
    <3>4. CASE b.at < shownAt
      BY <1>1, <1>3, <2>1, <3>3, <3>4 DEF Answered
    <3>5. CASE UpToDate(b.rows)
      BY <2>4, <3>5 DEF Answered
    <3>6. ASSUME NEW e \in Calls, Supersedes(calls[e], b.at)
          PROVE  Answered(b)'
      <4>1. CASE e = c
        <5>1. b.at < a.at
          BY <1>0, <1>1, <3>6, <4>1 DEF Supersedes, ThenLoads
        <5> QED
          BY <1>1, <5>1 DEF Answered
      <4>2. CASE e # c
        <5>1. calls'[e] = calls[e]
          BY <1>2, <4>2
        <5>2. Supersedes(calls[e], b.at)'
          BY <3>6, <5>1 DEF Supersedes, ThenLoads, Awaited
        <5> QED
          BY <5>2 DEF Answered
      <4> QED
        BY <4>1, <4>2
    <3> QED
      BY <3>2, <3>4, <3>5, <3>6
  <2>7. AnswersInv'
    <3>1. \A d \in Calls : calls'[d] \in CallShape
      BY DEF Inv, Shapes
    <3> QED
      BY <2>6, <3>1
         DEF AnswersInv, Answered, Supersedes, ThenLoads, Awaited, UpToDate, Measured, Tests
  <2> QED
    BY <2>5, <2>7
<1> QED
  BY <1>5, <1>6

\* The result of a test is the last word on its row, or an answer of a later time came
\* before it.
LEMMA TestedFresh ==
  ASSUME Inv, Inv', FreshInv, NEW c \in Calls, NodeTested(c), page = "nodes", UNCHANGED page
  PROVE  FreshInv'
<1>0. PICK a \in CallShape : a = calls[c]
  BY DEF Inv, Shapes
<1> DEFINE k == a.item
           rows == [shown EXCEPT ![k] = IF shown[k] > 0 THEN a.at ELSE 0]
<1>1. /\ Awaited(a) /\ a.kind = "row" /\ a.st = "ok" /\ Tests(a)
      /\ shown' = rows /\ shownAt' = (IF a.at > shownAt THEN a.at ELSE shownAt)
      /\ why' = Missing(rows, a.at)
      /\ calls' = [calls EXCEPT ![c] = Free]
      /\ UNCHANGED <<srv, clock, mounted, dialog, deleting>>
  BY <1>0 DEF NodeTested, Answer, Awaited, Tests
<1>2. /\ calls'[c] = Free /\ \A d \in Calls \ {c} : calls'[d] = calls[d]
      /\ Gone' /\ Snapshots'
  BY <1>0, <1>1, Settles
<1>3. /\ a.at \in Nat /\ a.at > 0 /\ k \in Items
      /\ a.at <= clock /\ (srv[k] = 0 \/ a.at <= srv[k])
  BY <1>0, <1>1 DEF CallShape, FreshInv, Snapshots, Snapshot
<1>4. /\ shown \in [Items -> Nat] /\ shownAt \in Nat /\ clock \in Nat /\ shownAt <= clock
      /\ srv \in [Items -> Nat]
      /\ \A i \in Items : shown[i] <= shownAt
  BY DEF FreshInv, Clocks, Inv, Shapes
<1>5. /\ rows \in [Items -> Nat]
      /\ rows[k] = IF shown[k] > 0 THEN a.at ELSE 0
      /\ \A i \in Items \ {k} : rows[i] = shown[i]
  BY <1>3, <1>4
<1> HIDE DEF rows
<1>6. Clocks'
  <2>1. shownAt' \in Nat /\ shownAt <= shownAt' /\ a.at <= shownAt' /\ shownAt' <= clock
    BY <1>1, <1>3, <1>4
  <2>2. \A i \in Items : rows[i] <= shownAt'
    BY <1>3, <1>4, <1>5, <2>1
  <2> QED
    BY <1>1, <1>5, <2>1, <2>2 DEF FreshInv, Clocks
<1>7. CASE a.at = clock /\ rows = srv
  BY <1>1, <1>2, <1>3, <1>4, <1>6, <1>7, NowFresh
<1>8. CASE ~(a.at = clock /\ rows = srv)
  <2> SUFFICES ASSUME mounted, why' = "nothing"
               PROVE  TableInv' /\ AnswersInv'
    BY <1>1, <1>2, <1>6 DEF FreshInv
  <2>1. ~(a.at < shownAt) /\ why = "nothing"
    BY <1>1, <1>8 DEF Missing, Because
  <2>2. TableInv /\ AnswersInv /\ shownAt' = a.at /\ shownAt <= a.at
    BY <1>1, <1>3, <1>4, <2>1 DEF FreshInv
  <2>3. ASSUME NEW i \in Items, i # k, Measured(i)
        PROVE  Measured(i)'
    <3>1. PICK d \in Calls : Tests(calls[d]) /\ calls[d].item = i /\ calls[d].at = srv[i]
      BY <2>3 DEF Measured
    <3>2. calls'[d] = calls[d]
      BY <1>0, <1>2, <2>3, <3>1
    <3> QED
      BY <1>1, <3>1, <3>2 DEF Measured, Tests, Awaited
  <2>4. ASSUME Measured(k)
        PROVE  Measured(k)' \/ a.at = srv[k]
    <3>1. PICK d \in Calls : Tests(calls[d]) /\ calls[d].item = k /\ calls[d].at = srv[k]
      BY <2>4 DEF Measured
    <3>2. CASE d = c
      BY <1>0, <3>1, <3>2
    <3>3. CASE d # c
      BY <1>1, <1>2, <3>1, <3>3 DEF Measured, Tests, Awaited
    <3> QED
      BY <3>2, <3>3
  <2>5. ~Brings(a)
    BY <1>1, <2>1 DEF Brings, Tests, ThenLoads
  <2>6. TableInv'
    <3>1. CASE \E d \in Calls : Brings(calls[d])
      <4>1. PICK d \in Calls : Brings(calls[d])
        BY <3>1
      <4>2. calls'[d] = calls[d] /\ calls[d].at \in Nat
        BY <1>0, <1>2, <2>5, <4>1 DEF Inv, Shapes, CallShape
      <4>3. Brings(calls[d])'
        BY <1>3, <1>4, <2>2, <4>1, <4>2 DEF Brings, ThenLoads, Tests, Awaited
      <4> QED
        BY <4>3 DEF TableInv
    <3>2. CASE UpToDate(shown)
      <4>1. ASSUME NEW i \in Items
            PROVE  rows[i] = srv[i] \/ (rows[i] > 0 /\ Measured(i)')
        <5>1. CASE i # k
          BY <1>5, <2>3, <3>2, <5>1 DEF UpToDate
        <5>2. CASE i = k /\ shown[k] = 0
          BY <1>3, <1>4, <1>5, <3>2, <5>2 DEF UpToDate
        <5>3. CASE i = k /\ shown[k] > 0
          <6>1. rows[k] = a.at
            BY <1>5, <5>3
          <6>2. CASE shown[k] = srv[k]
            <7>1. srv[k] \in Nat /\ srv[k] > 0 /\ srv[k] <= shownAt
              BY <1>3, <1>4, <5>3, <6>2
            <7>2. a.at = srv[k]
              BY <1>3, <1>4, <2>2, <7>1
            <7> QED
              BY <5>3, <6>1, <7>2
          <6>3. CASE Measured(k)
            <7>1. Measured(k)' \/ a.at = srv[k]
              BY <2>4, <6>3
            <7>2. Measured(k)' => Measured(i)'
              BY <5>3
            <7> QED
              BY <1>3, <5>3, <6>1, <7>1, <7>2
          <6>4. shown[k] = srv[k] \/ Measured(k)
            BY <1>3, <3>2 DEF UpToDate
          <6> QED
            BY <6>2, <6>3, <6>4
        <5> QED
          BY <1>3, <1>4, <5>1, <5>2, <5>3
      <4>2. ASSUME NEW i \in Items
            PROVE  shown'[i] = srv'[i] \/ (shown'[i] > 0 /\ Measured(i)')
        BY <1>1, <4>1
      <4>3. UpToDate(shown)'
        BY <4>2 DEF UpToDate
      <4> QED
        BY <4>3 DEF TableInv
    <3> QED
      BY <2>2, <3>1, <3>2 DEF TableInv
  <2>7. ASSUME NEW d \in Calls, NEW b \in CallShape, b = calls'[d]
        PROVE  Answered(b)'
    <3> SUFFICES ASSUME Awaited(b), b.kind = "list", b.st = "ok"
                 PROVE  Answered(b)'
      BY DEF Answered, Awaited
    <3>1. b = calls[d]
      BY <1>2, <2>7, FreeShape
    <3>2. \/ b.at < shownAt
          \/ \E e \in Calls : Supersedes(calls[e], b.at)
          \/ UpToDate(b.rows)
      BY <2>2, <3>1 DEF AnswersInv, Answered
    <3>3. b.at \in Nat /\ b.rows \in [Items -> Nat]
      BY DEF CallShape
    <3>4. CASE b.at < shownAt
      BY <1>3, <1>4, <2>2, <3>3, <3>4 DEF Answered
    <3>5. ASSUME NEW e \in Calls, Supersedes(calls[e], b.at)
          PROVE  Answered(b)'
      <4>1. ~Supersedes(a, b.at)
        BY <1>1 DEF Supersedes, ThenLoads, Tests
      <4>2. calls'[e] = calls[e]
        BY <1>0, <1>2, <3>5, <4>1
      <4>3. Supersedes(calls[e], b.at)'
        BY <3>5, <4>2 DEF Supersedes, ThenLoads, Awaited
      <4> QED
        BY <4>3 DEF Answered
    <3>6. ASSUME UpToDate(b.rows), ~(b.at < a.at)
          PROVE  UpToDate(b.rows)'
      <4>1. ASSUME NEW i \in Items, b.rows[i] # srv[i]
            PROVE  b.rows[i] > 0 /\ Measured(i)'
        <5>1. b.rows[i] > 0 /\ Measured(i)
          BY <3>6, <4>1 DEF UpToDate
        <5>2. ~(srv[i] > 0 /\ srv[i] <= b.at)
          BY <3>1, <4>1 DEF FreshInv, Snapshots, Snapshot
        <5>3. CASE i = k
          <6>1. a.at # srv[k]
            BY <1>3, <1>4, <3>3, <3>6, <5>2, <5>3
          <6> QED
            BY <2>4, <5>1, <5>3, <6>1
        <5>4. CASE i # k
          BY <2>3, <5>1, <5>4
        <5> QED
          BY <5>1, <5>3, <5>4
      <4> QED
        BY <1>1, <4>1 DEF UpToDate
    <3>7. CASE b.at < a.at
      BY <2>2, <3>7 DEF Answered
    <3> QED
      BY <3>2, <3>4, <3>5, <3>6, <3>7 DEF Answered
  <2>8. AnswersInv'
    <3>1. \A d \in Calls : calls'[d] \in CallShape
      BY DEF Inv, Shapes
    <3> QED
      BY <2>7, <3>1
         DEF AnswersInv, Answered, Supersedes, ThenLoads, Awaited, UpToDate, Measured, Tests
  <2> QED
    BY <2>6, <2>8
<1> QED
  BY <1>7, <1>8
-----------------------------------------------------------------------------
\* A handler that was waiting sends its load; only the node page's test does not.
LEMMA ThenLoadFresh ==
  ASSUME Inv, FreshInv, NEW c \in Calls, UNCHANGED page,
         (RowThenLoad(c) /\ page # "nodes") \/ SaveThenLoad(c) \/ DeleteThenLoad(c)
  PROVE  FreshInv'
<1>1. calls[c].from \in {"load", "row", "delete"} /\ calls[c].item \in Items \cup {NoItem}
  BY DEF Inv, Shapes, CallShape
<1>2. PICK from \in {"load", "row", "delete"}, item \in Items \cup {NoItem} :
        calls' = [calls EXCEPT ![c] = Request("list", from, item)]
  BY <1>1 DEF RowThenLoad, SaveThenLoad, DeleteThenLoad
<1> DEFINE r == Request("list", from, item)
<1>3. r \in CallShape /\ r.kind = "list" /\ r.st = "sent" /\ r.at = 0 /\ Awaited(r)
  BY RequestShape
<1> HIDE DEF r
<1>4. Awaited(calls[c]) /\ ThenLoads(calls[c])
  BY DEF RowThenLoad, SaveThenLoad, DeleteThenLoad, Answer, Awaited, ThenLoads
<1>5. UNCHANGED <<page, srv, clock, mounted, shown, shownAt, why>>
  BY DEF RowThenLoad, SaveThenLoad, DeleteThenLoad, pageState
<1>6. calls' = [calls EXCEPT ![c] = r]
  BY <1>2 DEF r
<1> QED
  BY <1>3, <1>4, <1>5, <1>6, GoesOnFresh

LEMMA FailedFresh ==
  ASSUME Inv, FreshInv, NEW c \in Calls, UNCHANGED page,
         RowFailed(c) \/ SaveFailed(c) \/ DeleteFailed(c)
  PROVE  FreshInv'
<1>1. Awaited(calls[c]) /\ calls[c].kind # "list" /\ calls[c].st # "ok"
      /\ calls' = [calls EXCEPT ![c] = Free]
      /\ UNCHANGED <<page, srv, clock, mounted, shown, shownAt, why>>
  BY DEF RowFailed, SaveFailed, DeleteFailed, Answer, Awaited
<1>2. Free.at = 0 /\ Free.kind # "row"
  BY DEF Free
<1> QED
  BY <1>1, <1>2, FreeShape, GoesOnFresh

\* The buttons, the retry, and the tick of a sweep's poll.
LEMMA StartedFresh ==
  ASSUME Inv, FreshInv, NEW c \in Calls, UNCHANGED page,
         \/ Retry(c) \/ NodesPoll(c)
         \/ \E i \in Items : StartRow(c, i)
         \/ StartSave(c) \/ StartDelete(c)
  PROVE  FreshInv'
<1>1. mounted
  BY DEF Retry, NodesPoll, StartRow, Usable, StartSave, StartDelete, FreshInv, Gone
<1>2. calls[c].kind = "free" /\ UNCHANGED <<page, srv, clock, mounted, shown, shownAt, why>>
  BY DEF Retry, NodesPoll, StartRow, StartSave, StartDelete, pageState
<1>3. CASE Retry(c) \/ NodesPoll(c)
  <2>1. calls' = [calls EXCEPT ![c] = Request("list", "load", NoItem)]
    BY <1>3 DEF Retry, NodesPoll
  <2> QED
    BY <1>1, <1>2, <2>1, StartsFresh
<1>4. ASSUME NEW i \in Items, StartRow(c, i)
      PROVE  FreshInv'
  <2>1. calls' = [calls EXCEPT ![c] = Request("row", "row", i)]
    BY <1>4 DEF StartRow
  <2> QED
    BY <1>1, <1>2, <2>1, StartsFresh
<1>5. CASE StartSave(c)
  <2>1. PICK item \in Items \cup {NoItem} :
          calls' = [calls EXCEPT ![c] = Request("save", "load", item)]
    BY <1>5 DEF StartSave, Inv, Shapes
  <2> QED
    BY <1>1, <1>2, <2>1, StartsFresh
<1>6. CASE StartDelete(c)
  <2>1. deleting \in Items \cup {NoItem}
        /\ calls' = [calls EXCEPT ![c] = Request("delete", "delete", deleting)]
    BY <1>6 DEF StartDelete, Inv, Shapes
  <2> QED
    BY <1>1, <1>2, <2>1, StartsFresh
<1> QED
  BY <1>3, <1>4, <1>5, <1>6

LEMMA HandlersFresh ==
  ASSUME Inv, Inv', FreshInv, NEW c \in Calls, Handlers(c), UNCHANGED page
  PROVE  FreshInv'
<1>1. \/ Mount(c) \/ Loaded(c) \/ NotLoaded(c)
      \/ (NodeTested(c) /\ page = "nodes")
      \/ \/ Retry(c) \/ NodesPoll(c)
         \/ \E i \in Items : StartRow(c, i)
         \/ StartSave(c) \/ StartDelete(c)
      \/ (RowThenLoad(c) /\ page # "nodes") \/ SaveThenLoad(c) \/ DeleteThenLoad(c)
      \/ RowFailed(c) \/ SaveFailed(c) \/ DeleteFailed(c)
  BY DEF Handlers, SubscriptionsHandlers, NodesHandlers, MappingsHandlers,
         SubscriptionsLoad, SubscriptionsRefresh, SubscriptionsSave, SubscriptionsDelete,
         NodesLoad, NodesTest, NodesAdd, NodesDelete,
         MappingsLoad, MappingsToggle, MappingsSave, MappingsDelete
<1> QED
  BY <1>1, MountFresh, LoadedFresh, NotLoadedFresh, TestedFresh, StartedFresh,
     ThenLoadFresh, FailedFresh

-----------------------------------------------------------------------------
LEMMA RefuseFresh ==
  ASSUME Inv, FreshInv, NEW c \in Calls, Refuse(c), UNCHANGED page,
         calls[c].kind # "free", calls[c].st = "sent"
  PROVE  FreshInv'
<1> DEFINE a == [calls[c] EXCEPT !.st = "failed"]
<1>1. /\ a \in CallShape /\ a.kind = calls[c].kind /\ a.item = calls[c].item
      /\ a.live = calls[c].live /\ a.st = "failed" /\ a.at = calls[c].at
  BY DEF CallShape, Inv, Shapes
<1>2. Served(c, a) /\ UNCHANGED <<page, srv, clock, mounted, pageState, why>>
  BY DEF Refuse
<1> HIDE DEF a
<1> QED
  BY <1>1, <1>2, AnswerFresh

LEMMA ListFresh ==
  ASSUME Inv, FreshInv, NEW c \in Calls, ServeList(c), UNCHANGED page
  PROVE  FreshInv'
<1>1. CASE Refuse(c)
  BY <1>1, RefuseFresh DEF ServeList
<1>2. CASE /\ Served(c, [calls[c] EXCEPT !.st = "ok", !.rows = srv, !.at = clock])
           /\ UNCHANGED <<srv, clock, mounted, pageState, why>>
  <2> DEFINE a == [calls[c] EXCEPT !.st = "ok", !.rows = srv, !.at = clock]
  <2>1. /\ a \in CallShape /\ a.kind = calls[c].kind /\ a.item = calls[c].item
        /\ a.live = calls[c].live /\ a.st = "ok" /\ a.at = clock /\ a.rows = srv
    BY DEF CallShape, Inv, Shapes
  <2>2. Served(c, a)
    BY <1>2
  <2>3. calls[c].kind = "list" /\ calls[c].st = "sent"
    BY DEF ServeList
  <2> HIDE DEF a
  <2> QED
    BY <1>2, <2>1, <2>2, <2>3, AnswerFresh
<1> QED
  BY <1>1, <1>2 DEF ServeList

LEMMA TestFresh ==
  ASSUME Inv, Inv', FreshInv, NEW c \in Calls, ServeTest(c), UNCHANGED page
  PROVE  FreshInv'
<1>0. calls[c].kind = "row" /\ calls[c].st = "sent" /\ calls[c].item \in Items
      /\ srv \in [Items -> Nat] /\ clock \in Nat /\ calls[c] \in CallShape
  BY DEF ServeTest, Waits, FreshInv, Snapshots, Snapshot, Inv, Shapes
<1>1. CASE Refuse(c)
  BY <1>0, <1>1, RefuseFresh
<1>2. CASE srv[calls[c].item] > 0 /\ Keep(c, [srv EXCEPT ![calls[c].item] = clock + 1])
  <2>1. Changes(c, [srv EXCEPT ![calls[c].item] = clock + 1])
    BY <1>0, <1>2 DEF Changes
  <2> QED
    BY <1>0, <1>2, <2>1, KeepFresh
<1>3. CASE /\ srv[calls[c].item] = 0
           /\ Served(c, [calls[c] EXCEPT !.st = "ok", !.at = clock])
           /\ UNCHANGED <<srv, clock, mounted, pageState, why>>
  <2> DEFINE a == [calls[c] EXCEPT !.st = "ok", !.at = clock]
  <2>1. /\ a \in CallShape /\ a.kind = calls[c].kind /\ a.item = calls[c].item
        /\ a.live = calls[c].live /\ a.st = "ok" /\ a.at = clock
    BY <1>0 DEF CallShape
  <2>2. Served(c, a)
    BY <1>3
  <2> HIDE DEF a
  <2> QED
    BY <1>0, <1>3, <2>1, <2>2, AnswerFresh
<1> QED
  BY <1>1, <1>2, <1>3 DEF ServeTest

\* A row of its own is changed by a row's call, any row by a save or a delete.
LEMMA RowChanges ==
  ASSUME Inv, FreshInv, NEW c \in Calls, calls[c].kind = "row", srv[calls[c].item] > 0
  PROVE  Changes(c, [srv EXCEPT ![calls[c].item] = clock + 1])
BY DEF Changes, FreshInv, Snapshots, Snapshot, Inv, Shapes

LEMMA OtherChanges ==
  ASSUME Inv, NEW c \in Calls, calls[c].kind # "row"
  PROVE  /\ Changes(c, [srv EXCEPT ![calls[c].item] = 0])
         /\ \A i \in Items : /\ Changes(c, [srv EXCEPT ![i] = clock + 1])
                             /\ Changes(c, [srv EXCEPT ![calls[c].item] = 0, ![i] = clock + 1])
<1>1. srv \in [Items -> Nat] /\ clock \in Nat
  BY DEF Inv, Shapes
<1>2. ASSUME NEW k, NEW i \in Items, NEW new,
             \/ new = [srv EXCEPT ![k] = 0]
             \/ new = [srv EXCEPT ![i] = clock + 1]
             \/ new = [srv EXCEPT ![k] = 0, ![i] = clock + 1]
      PROVE  Changes(c, new)
  <2>1. new \in [Items -> Nat]
    BY <1>1, <1>2
  <2>2. ASSUME NEW j \in Items
        PROVE  new[j] \in {srv[j], 0, clock + 1}
    BY <1>1, <1>2
  <2> QED
    BY <2>1, <2>2 DEF Changes
<1>3. Changes(c, [srv EXCEPT ![calls[c].item] = 0])
  <2>1. [srv EXCEPT ![calls[c].item] = 0] \in [Items -> Nat]
    BY <1>1
  <2> QED
    BY <1>1, <2>1 DEF Changes
<1> QED
  BY <1>2, <1>3

LEMMA ServerFresh ==
  ASSUME Inv, Inv', FreshInv, NEW c \in Calls, Server(c), UNCHANGED page
  PROVE  FreshInv'
<1>1. CASE ServeList(c)
  BY <1>1, ListFresh
<1>2. CASE ServeTest(c)
  BY <1>2, TestFresh
<1>3. CASE ServeRefresh(c) \/ ServeToggle(c)
  <2>1. calls[c].kind = "row" /\ calls[c].st = "sent"
    BY <1>3 DEF ServeRefresh, ServeToggle, Waits
  <2> QED
    BY <1>3, <2>1, RowChanges, KeepFresh, RefuseFresh DEF ServeRefresh, ServeToggle
<1>4. CASE ServeRemoval(c) \/ ServeNodeRemoval(c) \/ ServeRelease(c)
  <2>1. calls[c].kind = "delete" /\ calls[c].st = "sent"
    BY <1>4 DEF ServeRemoval, ServeNodeRemoval, ServeRelease, Waits
  <2> QED
    BY <1>4, <2>1, OtherChanges, KeepFresh, RefuseFresh
    DEF ServeRemoval, ServeNodeRemoval, ServeRelease
<1>5. CASE ServeSubscription(c) \/ ServeLink(c) \/ ServeMapping(c)
  <2>1. calls[c].kind = "save" /\ calls[c].st = "sent"
    BY <1>5 DEF ServeSubscription, ServeLink, ServeMapping, Waits
  <2> QED
    BY <1>5, <2>1, OtherChanges, KeepFresh, RefuseFresh
    DEF ServeSubscription, ServeLink, ServeMapping
<1> QED
  BY <1>1, <1>2, <1>3, <1>4, <1>5 DEF Server, SubscriptionsServer, NodesServer, MappingsServer

LEMMA StepFresh == Inv /\ Inv' /\ FreshInv /\ [ConsoleNext]_consoleVars => FreshInv'
<1> SUFFICES ASSUME Inv, Inv', FreshInv, [ConsoleNext]_consoleVars
             PROVE  FreshInv'
  OBVIOUS
<1>1. CASE ConsoleNext
  BY <1>1, ClicksFresh, GoneFresh, ElsewhereFresh, HandlersFresh, ServerFresh DEF ConsoleNext
<1>2. CASE UNCHANGED consoleVars
  <2>1. UNCHANGED <<page, calls, srv, clock, mounted, shown, shownAt, why, dialog, deleting>>
    BY <1>2 DEF consoleVars, listVars, pageState
  <2>2. Gone'
    BY <2>1 DEF FreshInv, Gone, Awaited
  <2> QED
    BY <2>1, <2>2, NothingMoves
<1> QED
  BY <1>1, <1>2

\* When no call of the page is under way and nothing of what is named came between,
\* the table shows the server's rows: a load or the answer of a test follows every
\* change of the page's own, and the last one put in the table is right
\* (subscriptions.tsx:206-249, nodes.tsx:137-243, mappings.tsx:48-152).
THEOREM TableComesToRest == ConsoleSpec => []AtRestFresh
<1>1. Inv /\ FreshInv => AtRestFresh
  <2> SUFFICES ASSUME Inv, FreshInv, mounted, why = "nothing", \A c \in Calls : ~Live(c)
               PROVE  shown = srv
    BY DEF AtRestFresh
  <2>1. \A c \in Calls : ~Awaited(calls[c])
    BY DEF Live, Awaited
  <2>2. \A i \in Items : shown[i] = srv[i]
    BY <2>1 DEF FreshInv, TableInv, Brings, ThenLoads, UpToDate, Measured, Tests
  <2>3. shown \in [Items -> Nat] /\ srv \in [Items -> Nat]
    BY DEF FreshInv, Clocks, Inv, Shapes
  <2> QED
    BY <2>2, <2>3
<1> QED
  BY <1>1, InitInv, FreshInit, StepInv, StepFresh, PTL DEF ConsoleSpec
-----------------------------------------------------------------------------
(* What spins *)

\* A spinner has a call under way whose end will stop it: no path through a handler
\* ends and leaves one behind (the finally blocks of subscriptions.tsx:102-117,
\* 206-249; nodes.tsx:75-85, 137-150, 209-243; mappings.tsx:48-58, 125-152).
SpinnerHasCall ==
  /\ mounted /\ loading =>
       \E c \in Calls : Awaited(calls[c]) /\ calls[c].kind = "list"
  /\ \A i \in busy :
       \E c \in Calls : Awaited(calls[c]) /\ calls[c].from = "row" /\ calls[c].item = i
  /\ saving => \E c \in Calls : Awaited(calls[c]) /\ calls[c].kind = "save"
  /\ deleteLoading => \E c \in Calls : Awaited(calls[c]) /\ calls[c].from = "delete"

\* One call moves on: a flag that is up then is the flag of what the call becomes, or
\* was up and not the call's.
LEMMA SpinOne ==
  ASSUME Inv, SpinnerHasCall, NEW c \in Calls, NEW r \in CallShape,
         calls' = [calls EXCEPT ![c] = r],
         mounted' /\ loading' =>
           \/ Awaited(r) /\ r.kind = "list"
           \/ mounted /\ loading /\ ~(Awaited(calls[c]) /\ calls[c].kind = "list"),
         \A i \in busy' :
           \/ Awaited(r) /\ r.from = "row" /\ r.item = i
           \/ /\ i \in busy
              /\ ~(Awaited(calls[c]) /\ calls[c].from = "row" /\ calls[c].item = i),
         saving' =>
           \/ Awaited(r) /\ r.kind = "save"
           \/ saving /\ ~(Awaited(calls[c]) /\ calls[c].kind = "save"),
         deleteLoading' =>
           \/ Awaited(r) /\ r.from = "delete"
           \/ deleteLoading /\ ~(Awaited(calls[c]) /\ calls[c].from = "delete")
  PROVE  SpinnerHasCall'
<1>1. calls'[c] = r /\ \A d \in Calls \ {c} : calls'[d] = calls[d]
  BY DEF Inv, Shapes
<1>2. ASSUME mounted', loading'
      PROVE  \E d \in Calls : Awaited(calls'[d]) /\ calls'[d].kind = "list"
  BY <1>1, <1>2 DEF SpinnerHasCall
<1>3. ASSUME NEW i \in busy'
      PROVE  \E d \in Calls :
               Awaited(calls'[d]) /\ calls'[d].from = "row" /\ calls'[d].item = i
  BY <1>1, <1>3 DEF SpinnerHasCall
<1>4. ASSUME saving'
      PROVE  \E d \in Calls : Awaited(calls'[d]) /\ calls'[d].kind = "save"
  BY <1>1, <1>4 DEF SpinnerHasCall
<1>5. ASSUME deleteLoading'
      PROVE  \E d \in Calls : Awaited(calls'[d]) /\ calls'[d].from = "delete"
  BY <1>1, <1>5 DEF SpinnerHasCall
<1> QED
  BY <1>2, <1>3, <1>4, <1>5 DEF SpinnerHasCall, Awaited

LEMMA SpinQuiet ==
  ASSUME SpinnerHasCall, UNCHANGED <<calls, mounted, loading, busy, saving, deleteLoading>>
  PROVE  SpinnerHasCall'
BY DEF SpinnerHasCall, Awaited

LEMMA SpinGone ==
  ASSUME Unmount
  PROVE  SpinnerHasCall'
BY DEF Unmount, SpinnerHasCall

\* A handler starts and raises its own flag.
LEMMA SpinStarts ==
  ASSUME Inv, SpinnerHasCall, NEW c \in Calls,
         \/ Mount(c) \/ Retry(c) \/ NodesPoll(c)
         \/ \E i \in Items : StartRow(c, i)
         \/ StartSave(c) \/ StartDelete(c)
  PROVE  SpinnerHasCall'
<1>1. ~Awaited(calls[c])
  BY DEF Mount, Retry, NodesPoll, StartRow, StartSave, StartDelete, Awaited
<1>2. CASE Mount(c) \/ Retry(c) \/ NodesPoll(c)
  <2> DEFINE r == Request("list", "load", NoItem)
  <2>1. r \in CallShape /\ Awaited(r) /\ r.kind = "list"
    BY RequestShape
  <2>2. calls' = [calls EXCEPT ![c] = r] /\ UNCHANGED <<loading, busy, saving, deleteLoading>>
    BY <1>2 DEF Mount, Retry, NodesPoll, pageState
  <2> HIDE DEF r
  <2> QED
    BY <1>1, <2>1, <2>2, SpinOne
<1>3. ASSUME NEW i \in Items, StartRow(c, i)
      PROVE  SpinnerHasCall'
  <2> DEFINE r == Request("row", "row", i)
  <2>1. r \in CallShape /\ Awaited(r) /\ r.from = "row" /\ r.item = i
    BY RequestShape
  <2>2. /\ calls' = [calls EXCEPT ![c] = r] /\ busy' = busy \cup {i}
        /\ UNCHANGED <<mounted, loading, saving, deleteLoading>>
    BY <1>3 DEF StartRow
  <2> HIDE DEF r
  <2> QED
    BY <1>1, <2>1, <2>2, SpinOne
<1>4. CASE StartSave(c)
  <2>1. PICK item \in Items \cup {NoItem} :
          calls' = [calls EXCEPT ![c] = Request("save", "load", item)]
    BY <1>4 DEF StartSave, Inv, Shapes
  <2> DEFINE r == Request("save", "load", item)
  <2>2. r \in CallShape /\ Awaited(r) /\ r.kind = "save"
    BY RequestShape
  <2>3. calls' = [calls EXCEPT ![c] = r] /\ UNCHANGED <<mounted, loading, busy, deleteLoading>>
    BY <1>4, <2>1 DEF StartSave
  <2> HIDE DEF r
  <2> QED
    BY <1>1, <2>2, <2>3, SpinOne
<1>5. CASE StartDelete(c)
  <2> DEFINE r == Request("delete", "delete", deleting)
  <2>1. deleting \in Items \cup {NoItem}
    BY DEF Inv, Shapes
  <2>2. r \in CallShape /\ Awaited(r) /\ r.from = "delete"
    BY <2>1, RequestShape
  <2>3. calls' = [calls EXCEPT ![c] = r] /\ UNCHANGED <<mounted, loading, busy, saving>>
    BY <1>5 DEF StartDelete
  <2> HIDE DEF r
  <2> QED
    BY <1>1, <2>2, <2>3, SpinOne
<1> QED
  BY <1>2, <1>3, <1>4, <1>5

\* A handler ends and lowers it, or goes on with a load that is of the same run.
LEMMA SpinEnds ==
  ASSUME Inv, SpinnerHasCall, NEW c \in Calls,
         \/ Loaded(c) \/ NotLoaded(c)
         \/ RowFailed(c) \/ NodeTested(c) \/ SaveFailed(c) \/ DeleteFailed(c)
  PROVE  SpinnerHasCall'
<1>1. calls' = [calls EXCEPT ![c] = Free] /\ UNCHANGED mounted /\ Awaited(calls[c])
  BY DEF Loaded, NotLoaded, RowFailed, NodeTested, SaveFailed, DeleteFailed, Answer, Awaited
<1>2. Named(calls[c])
  BY DEF Inv
<1>3. CASE Loaded(c) \/ NotLoaded(c)
  <2>1. /\ calls[c].kind = "list" /\ loading' = FALSE /\ UNCHANGED saving
        /\ busy' = IF calls[c].from = "row" THEN busy \ {calls[c].item} ELSE busy
        /\ deleteLoading' = (deleteLoading /\ calls[c].from # "delete")
    BY <1>3 DEF Loaded, NotLoaded, Answer
  <2> QED
    BY <1>1, <2>1, FreeShape, SpinOne
<1>4. CASE RowFailed(c) \/ NodeTested(c)
  <2>1. /\ calls[c].kind = "row" /\ busy' = busy \ {calls[c].item}
        /\ UNCHANGED <<loading, saving, deleteLoading>>
    BY <1>4 DEF RowFailed, NodeTested, Answer
  <2>2. calls[c].from = "row"
    BY <1>1, <1>2, <2>1 DEF Named, Awaited
  <2> QED
    BY <1>1, <2>1, <2>2, FreeShape, SpinOne
<1>5. CASE SaveFailed(c)
  <2>1. /\ calls[c].kind = "save" /\ saving' = FALSE
        /\ UNCHANGED <<loading, busy, deleteLoading>>
    BY <1>5 DEF SaveFailed, Answer
  <2>2. calls[c].from = "load"
    BY <1>1, <1>2, <2>1 DEF Named, Awaited
  <2> QED
    BY <1>1, <2>1, <2>2, FreeShape, SpinOne
<1>6. CASE DeleteFailed(c)
  <2>1. /\ calls[c].kind = "delete" /\ deleteLoading' = FALSE
        /\ UNCHANGED <<loading, busy, saving>>
    BY <1>6 DEF DeleteFailed, Answer
  <2>2. calls[c].from = "delete"
    BY <1>1, <1>2, <2>1 DEF Named, Awaited
  <2> QED
    BY <1>1, <2>1, <2>2, FreeShape, SpinOne
<1> QED
  BY <1>3, <1>4, <1>5, <1>6

LEMMA SpinGoesOn ==
  ASSUME Inv, SpinnerHasCall, NEW c \in Calls,
         RowThenLoad(c) \/ SaveThenLoad(c) \/ DeleteThenLoad(c)
  PROVE  SpinnerHasCall'
<1>1. /\ Awaited(calls[c]) /\ calls[c].kind # "list" /\ Named(calls[c])
      /\ calls[c].from \in {"load", "row", "delete"} /\ calls[c].item \in Items \cup {NoItem}
  BY DEF RowThenLoad, SaveThenLoad, DeleteThenLoad, Answer, Awaited, Inv, Shapes, CallShape
<1>2. CASE SaveThenLoad(c)
  <2> DEFINE r == Request("list", "load", NoItem)
  <2>1. r \in CallShape
    BY RequestShape
  <2>2. /\ calls[c].kind = "save" /\ saving' = FALSE
        /\ calls' = [calls EXCEPT ![c] = r]
        /\ UNCHANGED <<mounted, loading, busy, deleteLoading>>
    BY <1>2 DEF SaveThenLoad, Answer
  <2>3. calls[c].from = "load"
    BY <1>1, <2>2 DEF Named, Awaited
  <2> HIDE DEF r
  <2> QED
    BY <1>1, <2>1, <2>2, <2>3, SpinOne
<1>3. CASE RowThenLoad(c) \/ DeleteThenLoad(c)
  <2>1. /\ calls[c].kind \in {"row", "delete"} /\ calls[c].from = calls[c].kind
        /\ UNCHANGED <<mounted, loading, busy, saving, deleteLoading>>
    BY <1>1, <1>3 DEF RowThenLoad, DeleteThenLoad, Answer, Named, pageState
  <2> DEFINE r == Request("list", calls[c].from, calls[c].item)
  <2>2. calls' = [calls EXCEPT ![c] = r]
    BY <1>3, <2>1 DEF RowThenLoad, DeleteThenLoad, Answer
  <2>3. r \in CallShape /\ Awaited(r) /\ r.from = calls[c].from /\ r.item = calls[c].item
    BY <1>1, RequestShape
  <2> HIDE DEF r
  <2> QED
    BY <1>1, <2>1, <2>2, <2>3, SpinOne
<1> QED
  BY <1>2, <1>3

\* The server answers: what was waited for is waited for still.
LEMMA SpinServed ==
  ASSUME Inv, SpinnerHasCall, NEW c \in Calls, Server(c)
  PROVE  SpinnerHasCall'
<1>1. PICK a \in CallShape :
        /\ a.kind = calls[c].kind /\ a.from = calls[c].from /\ a.item = calls[c].item
        /\ a.live = calls[c].live
        /\ Served(c, a)
  <2>1. calls[c] \in CallShape /\ clock \in Nat /\ srv \in [Items -> Nat]
    BY DEF Inv, Shapes
  <2>2. ASSUME NEW rows, Keep(c, rows)
        PROVE  \E st \in {"ok", "failed"} :
                 Served(c, [calls[c] EXCEPT !.st = st, !.at = clock + 1])
    BY <2>2 DEF Keep
  <2>3. \/ \E st \in {"ok", "failed"} :
             Served(c, [calls[c] EXCEPT !.st = st, !.at = clock + 1])
        \/ Served(c, [calls[c] EXCEPT !.st = "failed"])
        \/ Served(c, [calls[c] EXCEPT !.st = "ok", !.rows = srv, !.at = clock])
        \/ Served(c, [calls[c] EXCEPT !.st = "ok", !.at = clock])
    BY <2>2 DEF Server, ServeList, Refuse, SubscriptionsServer, NodesServer, MappingsServer,
       ServeRefresh, ServeSubscription, ServeRemoval, ServeTest, ServeLink,
       ServeNodeRemoval, ServeToggle, ServeMapping, ServeRelease
  <2> DEFINE Same(a) == /\ a \in CallShape
                        /\ a.kind = calls[c].kind /\ a.from = calls[c].from
                        /\ a.item = calls[c].item /\ a.live = calls[c].live
  <2>4. /\ \A st \in {"ok", "failed"} : Same([calls[c] EXCEPT !.st = st, !.at = clock + 1])
        /\ Same([calls[c] EXCEPT !.st = "failed"])
        /\ Same([calls[c] EXCEPT !.st = "ok", !.rows = srv, !.at = clock])
        /\ Same([calls[c] EXCEPT !.st = "ok", !.at = clock])
    <3>1. ASSUME NEW st \in {"ok", "failed"}
          PROVE  Same([calls[c] EXCEPT !.st = st, !.at = clock + 1])
      <4> DEFINE a == [calls[c] EXCEPT !.st = st, !.at = clock + 1]
      <4>1. clock + 1 \in Nat
        BY <2>1
      <4>2. a \in CallShape
        BY <2>1, <4>1 DEF CallShape
      <4>3. /\ a.kind = calls[c].kind /\ a.from = calls[c].from
            /\ a.item = calls[c].item /\ a.live = calls[c].live
        BY <2>1 DEF CallShape
      <4> QED
        BY <4>2, <4>3
    <3>2. Same([calls[c] EXCEPT !.st = "failed"])
      BY <2>1 DEF CallShape
    <3>3. Same([calls[c] EXCEPT !.st = "ok", !.rows = srv, !.at = clock])
      BY <2>1 DEF CallShape
    <3>4. Same([calls[c] EXCEPT !.st = "ok", !.at = clock])
      BY <2>1 DEF CallShape
    <3> HIDE DEF Same
    <3> QED
      BY <3>1, <3>2, <3>3, <3>4
  <2> HIDE DEF Same
  <2>5. \E a : Same(a) /\ Served(c, a)
    <3>1. ASSUME NEW st \in {"ok", "failed"},
                 Served(c, [calls[c] EXCEPT !.st = st, !.at = clock + 1])
          PROVE  \E a : Same(a) /\ Served(c, a)
      BY <2>4, <3>1, Zenon
    <3>2. CASE Served(c, [calls[c] EXCEPT !.st = "failed"])
      BY <2>4, <3>2, Zenon
    <3>3. CASE Served(c, [calls[c] EXCEPT !.st = "ok", !.rows = srv, !.at = clock])
      BY <2>4, <3>3, Zenon
    <3>4. CASE Served(c, [calls[c] EXCEPT !.st = "ok", !.at = clock])
      BY <2>4, <3>4, Zenon
    <3> QED
      BY <2>3, <3>1, <3>2, <3>3, <3>4, Zenon
  <2> QED
    BY <2>5 DEF Same
<1>2. UNCHANGED <<mounted, pageState>>
  BY DEF Server, ServeList, Refuse, Keep, SubscriptionsServer, NodesServer, MappingsServer,
     ServeRefresh, ServeSubscription, ServeRemoval, ServeTest, ServeLink,
     ServeNodeRemoval, ServeToggle, ServeMapping, ServeRelease
<1>3. PICK r \in CallShape : r = IF a.live THEN a ELSE Free
  BY FreeShape
<1>4. calls' = [calls EXCEPT ![c] = r]
  BY <1>1, <1>3 DEF Served
<1>5. Awaited(calls[c]) => Awaited(r) /\ r.kind = calls[c].kind /\ r.from = calls[c].from
                           /\ r.item = calls[c].item
  BY <1>1, <1>3 DEF Awaited
<1>6. UNCHANGED <<mounted, loading, busy, saving, deleteLoading>>
  BY <1>2 DEF pageState
<1>7. \A i \in busy' :
        \/ Awaited(r) /\ r.from = "row" /\ r.item = i
        \/ /\ i \in busy
           /\ ~(Awaited(calls[c]) /\ calls[c].from = "row" /\ calls[c].item = i)
  BY <1>5, <1>6
<1>8. /\ mounted' /\ loading' =>
           \/ Awaited(r) /\ r.kind = "list"
           \/ mounted /\ loading /\ ~(Awaited(calls[c]) /\ calls[c].kind = "list")
      /\ saving' =>
           \/ Awaited(r) /\ r.kind = "save"
           \/ saving /\ ~(Awaited(calls[c]) /\ calls[c].kind = "save")
      /\ deleteLoading' =>
           \/ Awaited(r) /\ r.from = "delete"
           \/ deleteLoading /\ ~(Awaited(calls[c]) /\ calls[c].from = "delete")
  BY <1>5, <1>6
<1> QED
  BY <1>3, <1>4, <1>7, <1>8, SpinOne

\* The safety half of SpinnersStop: with the fairness of ConsoleFairSpec the call that a
\* spinner has ends, and its end stops it.
THEOREM SpinnersHaveCalls == ConsoleSpec => []SpinnerHasCall
<1>1. ConsoleInit => SpinnerHasCall
  BY DEF ConsoleInit, ListInit, Fresh, SpinnerHasCall
<1>2. Inv /\ SpinnerHasCall /\ [ConsoleNext]_consoleVars => SpinnerHasCall'
  <2> SUFFICES ASSUME Inv, SpinnerHasCall, [ConsoleNext]_consoleVars
               PROVE  SpinnerHasCall'
    OBVIOUS
  <2>1. CASE Clicks
    <3>1. UNCHANGED <<calls, mounted, loading, busy, saving, deleteLoading>>
      BY <2>1 DEF Clicks, SubscriptionsClick, NodesClick, MappingsClick, OpenDialog,
         AskDelete, CloseDialog, CloseConfirm
    <3> QED
      BY <3>1, SpinQuiet
  <2>2. CASE Elsewhere
    BY <2>2, SpinQuiet DEF Elsewhere, pageState
  <2>3. CASE Leave \/ \E c \in Calls : Denied(c)
    BY <2>3, SpinGone DEF Leave, Denied
  <2>4. ASSUME NEW c \in Calls, Handlers(c)
        PROVE  SpinnerHasCall'
    BY <2>4, HandlerCases, SpinStarts, SpinEnds, SpinGoesOn
  <2>5. ASSUME NEW c \in Calls, Server(c)
        PROVE  SpinnerHasCall'
    BY <2>5, SpinServed
  <2>6. CASE UNCHANGED consoleVars
    BY <2>6, SpinQuiet DEF consoleVars, listVars, pageState
  <2> QED
    BY <2>1, <2>2, <2>3, <2>4, <2>5, <2>6 DEF ConsoleNext
<1> QED
  BY <1>1, <1>2, InitInv, StepInv, PTL DEF ConsoleSpec
-----------------------------------------------------------------------------
(* Types *)

FlagsOK ==
  /\ page \in Pages
  /\ mounted \in BOOLEAN /\ loading \in BOOLEAN /\ error \in BOOLEAN
  /\ saving \in BOOLEAN /\ deleteLoading \in BOOLEAN
  /\ why \in {"nothing", "elsewhere", "failed", "left", "crossed"}

TablesOK ==
  /\ srv \in RowsType /\ clock \in 1 .. MaxChanges + 1
  /\ shown \in RowsType /\ shownAt \in 0 .. MaxChanges + 1

CallsOK == calls \in [Calls -> CallType]

LEMMA FreeType == Free \in CallType
  BY ListAssumption DEF Free, CallType, Empty, RowsType

LEMMA RequestType ==
  ASSUME NEW kind \in {"list", "row", "save", "delete"}, NEW from \in {"load", "row", "delete"},
         NEW item \in Items \cup {NoItem}
  PROVE  Request(kind, from, item) \in CallType
  BY FreeType DEF Request, CallType, Free

LEMMA HandlerTypes ==
  ASSUME Inv, FlagsOK, TablesOK, CallsOK, NEW c \in Calls, Handlers(c), UNCHANGED page
  PROVE  FlagsOK' /\ TablesOK' /\ CallsOK'
<1>0. /\ calls[c] \in CallType /\ calls[c].at \in 0 .. MaxChanges + 1
      /\ calls[c].rows \in RowsType /\ calls[c].item \in Items \cup {NoItem}
      /\ calls[c].from \in {"load", "row", "delete"}
  BY DEF CallsOK, CallType
<1>1. CASE \/ Mount(c) \/ Retry(c) \/ NodesPoll(c)
           \/ \E i \in Items : StartRow(c, i)
           \/ StartSave(c) \/ StartDelete(c)
           \/ RowThenLoad(c) \/ SaveThenLoad(c) \/ DeleteThenLoad(c)
  <2>1. TablesOK'
    BY <1>1 DEF TablesOK, Mount, Retry, NodesPoll, StartRow, StartSave, StartDelete,
       RowThenLoad, SaveThenLoad, DeleteThenLoad, pageState
  <2>2. FlagsOK'
    BY <1>1, Zenon DEF FlagsOK, Mount, Retry, NodesPoll, StartRow, StartSave, StartDelete,
       RowThenLoad, SaveThenLoad, DeleteThenLoad, pageState
  <2>3. PICK kind \in {"list", "row", "save", "delete"}, from \in {"load", "row", "delete"},
             item \in Items \cup {NoItem} :
          calls' = [calls EXCEPT ![c] = Request(kind, from, item)]
    BY <1>0, <1>1 DEF Inv, Shapes, Mount, Retry, NodesPoll, StartRow, StartSave, StartDelete,
       RowThenLoad, SaveThenLoad, DeleteThenLoad
  <2>4. CallsOK'
    BY <2>3, RequestType DEF CallsOK
  <2> QED
    BY <2>1, <2>2, <2>4
<1>2. CASE \/ Loaded(c) \/ NotLoaded(c)
           \/ RowFailed(c) \/ NodeTested(c) \/ SaveFailed(c) \/ DeleteFailed(c)
  <2>1. CallsOK'
    <3>1. calls' = [calls EXCEPT ![c] = Free]
      BY <1>2 DEF Loaded, NotLoaded, RowFailed, NodeTested, SaveFailed, DeleteFailed
    <3> QED
      BY <3>1, FreeType DEF CallsOK
  <2>2. TablesOK'
    <3>1. CASE Loaded(c)
      BY <1>0, <3>1 DEF Loaded, TablesOK
    <3>2. CASE NodeTested(c)
      <4>1. shown' = [shown EXCEPT ![calls[c].item] = IF @ > 0 THEN calls[c].at ELSE 0]
            /\ shownAt' = (IF calls[c].at > shownAt THEN calls[c].at ELSE shownAt)
            /\ UNCHANGED <<srv, clock>>
        BY <3>2 DEF NodeTested
      <4>2. 0 \in 0 .. MaxChanges + 1
        BY ListAssumption
      <4>3. shown' \in RowsType
        BY <1>0, <4>1, <4>2 DEF TablesOK, RowsType
      <4>4. shownAt' \in 0 .. MaxChanges + 1
        BY <1>0, <4>1 DEF TablesOK
      <4> QED
        BY <4>1, <4>3, <4>4 DEF TablesOK
    <3>3. CASE NotLoaded(c) \/ RowFailed(c) \/ SaveFailed(c) \/ DeleteFailed(c)
      BY <3>3 DEF TablesOK, NotLoaded, RowFailed, SaveFailed, DeleteFailed
    <3> QED
      BY <1>2, <3>1, <3>2, <3>3
  <2>3. why' \in {"nothing", "elsewhere", "failed", "left", "crossed"}
    <3>1. CASE Loaded(c) \/ NodeTested(c)
      <4>1. PICK rows, at : why' = Missing(rows, at)
        BY <3>1, Zenon DEF Loaded, NodeTested
      <4> QED
        BY <4>1 DEF Missing, Because, FlagsOK
    <3>2. CASE ~(Loaded(c) \/ NodeTested(c))
      BY <1>2, <3>2 DEF NotLoaded, RowFailed, SaveFailed, DeleteFailed, Because, FlagsOK
    <3> QED
      BY <3>1, <3>2
  <2>4. /\ mounted' \in BOOLEAN /\ loading' \in BOOLEAN /\ error' \in BOOLEAN
        /\ saving' \in BOOLEAN /\ deleteLoading' \in BOOLEAN
    BY <1>2, Zenon DEF FlagsOK, Loaded, NotLoaded, RowFailed, NodeTested, SaveFailed, DeleteFailed
  <2> QED
    BY <2>1, <2>2, <2>3, <2>4 DEF FlagsOK
<1> QED
  BY <1>1, <1>2, HandlerCases

\* What the server does with a call.
LEMMA ServerCases ==
  ASSUME NEW c \in Calls, Server(c)
  PROVE  \/ Refuse(c)
         \/ \E i \in Items :
              \/ Keep(c, [srv EXCEPT ![i] = clock + 1])
              \/ Keep(c, [srv EXCEPT ![calls[c].item] = 0, ![i] = clock + 1])
         \/ Keep(c, [srv EXCEPT ![calls[c].item] = clock + 1])
         \/ Keep(c, [srv EXCEPT ![calls[c].item] = 0])
         \/ /\ \/ Served(c, [calls[c] EXCEPT !.st = "ok", !.rows = srv, !.at = clock])
               \/ Served(c, [calls[c] EXCEPT !.st = "ok", !.at = clock])
            /\ UNCHANGED <<srv, clock, mounted, pageState, why>>
BY DEF Server, ServeList, SubscriptionsServer, NodesServer, MappingsServer,
       ServeRefresh, ServeSubscription, ServeRemoval, ServeTest, ServeLink,
       ServeNodeRemoval, ServeToggle, ServeMapping, ServeRelease

LEMMA ServerTypes ==
  ASSUME FlagsOK, TablesOK, CallsOK, NEW c \in Calls, Server(c), UNCHANGED page
  PROVE  FlagsOK' /\ TablesOK' /\ CallsOK'
<1>0. calls[c] \in CallType /\ srv \in RowsType /\ clock \in 1 .. MaxChanges + 1
      /\ clock \in 0 .. MaxChanges + 1
  BY DEF CallsOK, TablesOK
<1>1. ASSUME NEW r \in CallType, Served(c, r)
      PROVE  CallsOK'
  <2>1. PICK s \in CallType : calls' = [calls EXCEPT ![c] = s]
    BY <1>1, FreeType DEF Served
  <2> QED
    BY <2>1 DEF CallsOK
<1>2. ASSUME NEW new, Keep(c, new), new \in [Items -> {srv[i] : i \in Items} \cup {0, clock + 1}]
      PROVE  FlagsOK' /\ TablesOK' /\ CallsOK'
  <2>1. clock \in 0 .. MaxChanges /\ clock + 1 \in 1 .. MaxChanges + 1
        /\ clock + 1 \in 0 .. MaxChanges + 1 /\ 0 \in 0 .. MaxChanges + 1
    BY <1>0, <1>2, ListAssumption DEF Keep
  <2>2. srv' = new /\ clock' = clock + 1 /\ UNCHANGED <<mounted, pageState>>
    BY <1>2 DEF Keep
  <2>3. \A i \in Items : srv[i] \in 0 .. MaxChanges + 1
    BY <1>0 DEF RowsType
  <2>4. new \in RowsType
    BY <1>2, <2>1, <2>3 DEF RowsType
  <2>5. TablesOK'
    BY <2>1, <2>2, <2>4 DEF TablesOK, pageState
  <2>6. PICK st \in {"ok", "failed"} :
          /\ Served(c, [calls[c] EXCEPT !.st = st, !.at = clock + 1])
          /\ why' = IF ~mounted THEN why
                    ELSE IF ~calls[c].live THEN Because("left")
                    ELSE IF st = "failed" THEN Because("failed")
                    ELSE why
    BY <1>2 DEF Keep
  <2>7. FlagsOK'
    <3>1. why' \in {"nothing", "elsewhere", "failed", "left", "crossed"}
      BY <2>6 DEF Because, FlagsOK
    <3> QED
      BY <2>2, <3>1 DEF FlagsOK, pageState
  <2> DEFINE r == [calls[c] EXCEPT !.st = st, !.at = clock + 1]
  <2>8. r \in CallType
    BY <1>0, <2>1 DEF CallType
  <2>9. CallsOK'
    BY <1>1, <2>6, <2>8
  <2> QED
    BY <2>5, <2>7, <2>9
<1>3. CASE Refuse(c)
  <2>1. [calls[c] EXCEPT !.st = "failed"] \in CallType
    BY <1>0 DEF CallType
  <2>2. Served(c, [calls[c] EXCEPT !.st = "failed"])
        /\ UNCHANGED <<srv, clock, mounted, pageState, why>>
    BY <1>3 DEF Refuse
  <2> QED
    BY <1>1, <2>1, <2>2 DEF FlagsOK, TablesOK, pageState
<1>4. CASE /\ \/ Served(c, [calls[c] EXCEPT !.st = "ok", !.rows = srv, !.at = clock])
              \/ Served(c, [calls[c] EXCEPT !.st = "ok", !.at = clock])
           /\ UNCHANGED <<srv, clock, mounted, pageState, why>>
  <2>1. [calls[c] EXCEPT !.st = "ok", !.rows = srv, !.at = clock] \in CallType
    BY <1>0 DEF CallType
  <2>2. [calls[c] EXCEPT !.st = "ok", !.at = clock] \in CallType
    BY <1>0 DEF CallType
  <2>3. CallsOK'
    BY <1>1, <1>4, <2>1, <2>2
  <2>4. FlagsOK' /\ TablesOK'
    BY <1>4 DEF FlagsOK, TablesOK, pageState
  <2> QED
    BY <2>3, <2>4
<1>5. ASSUME NEW k, NEW i, NEW new, Keep(c, new),
             \/ new = [srv EXCEPT ![k] = clock + 1]
             \/ new = [srv EXCEPT ![k] = 0]
             \/ new = [srv EXCEPT ![i] = clock + 1]
             \/ new = [srv EXCEPT ![k] = 0, ![i] = clock + 1]
      PROVE  FlagsOK' /\ TablesOK' /\ CallsOK'
  <2>1. DOMAIN srv = Items /\ srv \in [Items -> {srv[j] : j \in Items}]
    BY <1>0 DEF RowsType
  <2>2. new \in [Items -> {srv[j] : j \in Items} \cup {0, clock + 1}]
    BY <1>5, <2>1
  <2> QED
    BY <1>2, <1>5, <2>2
<1>6. ASSUME \E i \in Items : \/ Keep(c, [srv EXCEPT ![i] = clock + 1])
                             \/ Keep(c, [srv EXCEPT ![calls[c].item] = 0, ![i] = clock + 1])
      PROVE  FlagsOK' /\ TablesOK' /\ CallsOK'
  BY <1>5, <1>6
<1>7. CASE \/ Keep(c, [srv EXCEPT ![calls[c].item] = clock + 1])
           \/ Keep(c, [srv EXCEPT ![calls[c].item] = 0])
  BY <1>5, <1>7
<1> QED
  BY <1>3, <1>4, <1>6, <1>7, ServerCases, Zenon

LEMMA OtherTypes ==
  ASSUME Inv, FlagsOK, TablesOK, CallsOK, UNCHANGED page,
         Clicks \/ Elsewhere \/ Leave \/ \E c \in Calls : Denied(c)
  PROVE  FlagsOK' /\ TablesOK' /\ CallsOK'
<1>1. CASE Clicks
  <2>1. UNCHANGED <<srv, clock, mounted, shown, shownAt, loading, error, saving,
                    deleteLoading, calls, why>>
    BY <1>1 DEF Clicks, SubscriptionsClick, NodesClick, MappingsClick, OpenDialog,
       AskDelete, CloseDialog, CloseConfirm
  <2> QED
    BY <2>1 DEF FlagsOK, TablesOK, CallsOK
<1>2. CASE Elsewhere
  <2>1. PICK i \in Items, v \in {0, clock + 1} : srv' = [srv EXCEPT ![i] = v]
    BY <1>2 DEF Elsewhere
  <2>2. clock' = clock + 1 /\ clock' \in 1 .. MaxChanges + 1 /\ v \in 0 .. MaxChanges + 1
    BY <1>2, ListAssumption DEF Elsewhere, TablesOK
  <2>3. srv' \in RowsType
    BY <2>1, <2>2 DEF TablesOK, RowsType
  <2>4. why' \in {"nothing", "elsewhere", "failed", "left", "crossed"}
    BY <1>2 DEF Elsewhere, Because, FlagsOK
  <2>5. UNCHANGED <<mounted, shown, shownAt, loading, error, saving, deleteLoading, calls>>
    BY <1>2 DEF Elsewhere, pageState
  <2> QED
    BY <2>2, <2>3, <2>4, <2>5 DEF FlagsOK, TablesOK, CallsOK
<1>3. CASE Leave \/ \E c \in Calls : Denied(c)
  <2>1. Unmount /\ UNCHANGED <<srv, clock>>
    BY <1>3 DEF Leave, Denied
  <2>2. Empty \in RowsType /\ 0 \in 0 .. MaxChanges + 1
    BY ListAssumption DEF Empty, RowsType
  <2>3. FlagsOK' /\ TablesOK'
    BY <2>1, <2>2 DEF Unmount, FlagsOK, TablesOK
  <2>4. Abandoned \in [Calls -> CallType]
    <3>1. ASSUME NEW c \in Calls
          PROVE  [Free EXCEPT !.kind = calls[c].kind, !.item = calls[c].item] \in CallType
      BY FreeType DEF CallsOK, CallType, Free
    <3> QED
      BY <3>1, FreeType DEF Abandoned
  <2>5. CallsOK'
    BY <1>3, <2>4, FreeType DEF Leave, Denied, CallsOK
  <2> QED
    BY <2>3, <2>5
<1> QED
  BY <1>1, <1>2, <1>3

\* The state of the list pages has its types, the times on the server and in every
\* call included: no answer is of a later time than the server has reached.
THEOREM ConsoleTypeCorrect == ConsoleSpec => []ConsoleTypeOK
<1> DEFINE Types == FlagsOK /\ TablesOK /\ CallsOK
<1>1. ConsoleInit => Types
  <2> SUFFICES ASSUME ConsoleInit
               PROVE  Types
    OBVIOUS
  <2>1. {0, 1} \subseteq 0 .. MaxChanges + 1 /\ 1 \in 1 .. MaxChanges + 1
    BY ListAssumption
  <2>2. srv \in RowsType /\ Empty \in RowsType
    BY <2>1 DEF ConsoleInit, ListInit, RowsType, Empty
  <2>3. TablesOK
    BY <2>1, <2>2 DEF ConsoleInit, ListInit, Fresh, TablesOK
  <2>4. FlagsOK
    BY DEF ConsoleInit, ListInit, Fresh, FlagsOK
  <2>5. CallsOK
    BY FreeType DEF ConsoleInit, ListInit, CallsOK
  <2> QED
    BY <2>3, <2>4, <2>5
<1>2. Inv /\ Types /\ [ConsoleNext]_consoleVars => Types'
  <2> SUFFICES ASSUME Inv, Types, [ConsoleNext]_consoleVars
               PROVE  Types'
    OBVIOUS
  <2>1. CASE ConsoleNext
    BY <2>1, HandlerTypes, ServerTypes, OtherTypes DEF ConsoleNext
  <2>2. CASE UNCHANGED consoleVars
    BY <2>2 DEF consoleVars, listVars, pageState, FlagsOK, TablesOK, CallsOK
  <2> QED
    BY <2>1, <2>2
<1>3. Inv /\ Types => ConsoleTypeOK
  BY DEF Inv, Shapes, FlagsOK, TablesOK, CallsOK, ConsoleTypeOK
<1> QED
  BY <1>1, <1>2, <1>3, InitInv, StepInv, PTL DEF ConsoleSpec
=============================================================================
