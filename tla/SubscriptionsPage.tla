------------------------- MODULE SubscriptionsPage -------------------------
(***************************************************************************)
(* The subscription page (pages/subscriptions.tsx) over the list page, and *)
(* what its requests do on the server (internal/core/subscriptions.go).    *)
(***************************************************************************)
EXTENDS ListPage

\* load, its two users, and what it leaves in the table.
SubscriptionsLoad(c) == Mount(c) \/ Retry(c) \/ Loaded(c) \/ NotLoaded(c)

\* handleRefresh: after a refresh that failed the list is not loaded, although the
\* row's error is new.
SubscriptionsRefresh(c) ==
  (\E i \in Items : StartRow(c, i)) \/ RowThenLoad(c) \/ RowFailed(c)

\* submit of the dialog, for a new subscription and for an old one.
SubscriptionsSave(c) == StartSave(c) \/ SaveThenLoad(c) \/ SaveFailed(c)

SubscriptionsDelete(c) == StartDelete(c) \/ DeleteThenLoad(c) \/ DeleteFailed(c)

\* The other buttons of the page and of its two dialogs.
SubscriptionsClick ==
  \/ OpenDialog("new")
  \/ \E i \in Items : (Usable(i) /\ OpenDialog(i)) \/ AskDelete(i)
  \/ CloseDialog \/ CloseConfirm

\* RefreshSubscription: the outcome is kept in the row, an error too.
ServeRefresh(c) ==
  /\ Waits(c, "row")
  /\ \/ srv[calls[c].item] > 0 /\ Keep(c, [srv EXCEPT ![calls[c].item] = clock + 1])
     \/ Refuse(c)

\* AddSubscription keeps a subscription whose first fetch fails and answers with the
\* error; UpdateSubscription.
ServeSubscription(c) ==
  /\ Waits(c, "save")
  /\ \/ \E i \in Items :
          /\ IF calls[c].item = NoItem THEN srv[i] = 0 ELSE i = calls[c].item /\ srv[i] > 0
          /\ Keep(c, [srv EXCEPT ![i] = clock + 1])
     \/ Refuse(c)

\* DeleteSubscription.
ServeRemoval(c) ==
  /\ Waits(c, "delete")
  /\ \/ srv[calls[c].item] > 0 /\ Keep(c, [srv EXCEPT ![calls[c].item] = 0])
     \/ Refuse(c)

SubscriptionsHandlers(c) ==
  SubscriptionsLoad(c) \/ SubscriptionsRefresh(c) \/ SubscriptionsSave(c) \/ SubscriptionsDelete(c)

SubscriptionsServer(c) == ServeRefresh(c) \/ ServeSubscription(c) \/ ServeRemoval(c)
=============================================================================
