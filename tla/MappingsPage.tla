---------------------------- MODULE MappingsPage ----------------------------
(***************************************************************************)
(* The mapping page (pages/mappings.tsx) over the list page: a row is a    *)
(* port.  The dialog's fields are MappingForm's, the speed test of a row   *)
(* Speedtest's.                                                            *)
(***************************************************************************)
EXTENDS ListPage

MappingsLoad(c) == Mount(c) \/ Retry(c) \/ Loaded(c) \/ NotLoaded(c)

\* handleToggle: the load is awaited, the switch is disabled until it is there.
MappingsToggle(c) ==
  (\E i \in Items : StartRow(c, i)) \/ RowThenLoad(c) \/ RowFailed(c)

\* The end of the dialog's submit.
MappingsSave(c) == StartSave(c) \/ SaveThenLoad(c) \/ SaveFailed(c)

MappingsDelete(c) == StartDelete(c) \/ DeleteThenLoad(c) \/ DeleteFailed(c)

\* openCreate, openEdit, the delete button.  The create button is disabled when the
\* table fills the port range, but only once the range has come, and the call that asks
\* for it may fail for good: it is left enabled here, and ServeMapping has no port then.
MappingsClick ==
  \/ OpenDialog("new")
  \/ \E i \in Items : (Usable(i) /\ OpenDialog(i)) \/ AskDelete(i)
  \/ CloseDialog \/ CloseConfirm

\* SetMappingEnabled.
ServeToggle(c) ==
  /\ Waits(c, "row")
  /\ \/ srv[calls[c].item] > 0 /\ Keep(c, [srv EXCEPT ![calls[c].item] = clock + 1])
     \/ Refuse(c)

\* CreateMapping takes a free port; UpdateMapping keeps its port or moves to a free one.
ServeMapping(c) ==
  /\ Waits(c, "save")
  /\ \/ /\ calls[c].item = NoItem
        /\ \E i \in Items : srv[i] = 0 /\ Keep(c, [srv EXCEPT ![i] = clock + 1])
     \/ /\ calls[c].item # NoItem /\ srv[calls[c].item] > 0
        /\ \E i \in Items :
             /\ srv[i] = 0 \/ i = calls[c].item
             /\ Keep(c, [srv EXCEPT ![calls[c].item] = 0, ![i] = clock + 1])
     \/ Refuse(c)

\* DeleteMapping.
ServeRelease(c) ==
  /\ Waits(c, "delete")
  /\ \/ srv[calls[c].item] > 0 /\ Keep(c, [srv EXCEPT ![calls[c].item] = 0])
     \/ Refuse(c)

MappingsHandlers(c) ==
  MappingsLoad(c) \/ MappingsToggle(c) \/ MappingsSave(c) \/ MappingsDelete(c)

MappingsServer(c) == ServeToggle(c) \/ ServeMapping(c) \/ ServeRelease(c)
=============================================================================
