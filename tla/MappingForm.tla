---------------------------- MODULE MappingForm ----------------------------
(***************************************************************************)
(* The mapping dialog (components/mapping-dialog.tsx) and the part of the  *)
(* server its request meets: opening copies a row of the page into the     *)
(* fields, submit checks them and sends a full update, and the server      *)
(* builds the mapping and validates it by rules of its own (internal/core/ *)
(* mappings.go, internal/config/validate.go).  Meanwhile somebody else may *)
(* toggle, change or delete the mapping.                                   *)
(*                                                                         *)
(* A mapping is [port, name, strategy, nodes, filter, interval, url, user, *)
(* pass, enabled]; of the strategies, "single" and "failover" are told     *)
(* apart from the others ("hash").  Names and URLs are texts that may be   *)
(* empty, blank or padded with blanks.  A user name is "", "good" or one   *)
(* the pattern refuses, each as trim() leaves it (the server holds none    *)
(* with blanks); a password is "" or set, and sent as it is.               *)
(***************************************************************************)
EXTENDS NodeSelect, FiniteSets

CONSTANTS
  Nodes,                \* node ids
  PortLo, PortHi,       \* the port range
  TakenPorts,           \* ports of the other mappings
  PortTexts,            \* ports that can be typed, 0 for a field left empty
  Patterns,             \* name patterns that can be typed
  NoPattern,            \* the empty pattern
  Trimmed,              \* per pattern, what trim() leaves of it
  JsPatterns,           \* those new RegExp accepts
  Re2Patterns,          \* those regexp.Compile accepts
  Intervals,            \* health check intervals that can be typed
  NoCheck,              \* no health check
  NoNumber,             \* a port that is no positive integer
  Absent,               \* no such mapping; a dialog that creates one
  MaxTouched,           \* bound: groups of fields the user goes through per dialog
  MaxSaves              \* bound: requests in all

MinInterval == 30
MaxInterval == 3600
DefaultInterval == 300
DefaultUrl == "default"

\* Names and URLs that can be typed or stored, and what trim() leaves of them.
Texts == {"", " ", "a", " a", DefaultUrl}

Trim(s) == IF s = " " THEN "" ELSE IF s = " a" THEN "a" ELSE s

ASSUME FormAssumption ==
  /\ PortLo \in Nat \ {0} /\ PortHi \in Nat /\ TakenPorts \subseteq PortLo .. PortHi
  /\ PortTexts \subseteq Nat \cup {NoNumber}
  /\ NoPattern \notin Patterns
  /\ Trimmed \in [Patterns \cup {NoPattern} -> Patterns \cup {NoPattern}]
  /\ Trimmed[NoPattern] = NoPattern
  /\ JsPatterns \subseteq Patterns /\ Re2Patterns \subseteq Patterns
  /\ NoNumber \notin Nat /\ Intervals \subseteq Nat /\ NoCheck \notin Intervals
  /\ NoCheck \notin Texts
  /\ DefaultInterval \in Intervals
  /\ MaxTouched \in Nat /\ MaxSaves \in Nat

VARIABLES
  stored,    \* the mapping on the server
  row,       \* the page's copy of it, from its last reload
  isOpen,    \* the dialog is open
  editing,   \* the copy it was opened with, Absent to create
  form,      \* its fields
  touched,   \* history: groups of fields the user went through since it was opened
  payload,   \* the request on its way, Absent if none
  saves      \* requests so far

formVars == <<stored, row, isOpen, editing, form, touched, payload, saves>>

Strategies == {"single", "failover", "hash"}

FormType ==
  [name : Texts, port : Nat \cup {NoNumber}, strategy : Strategies,
   mode : {"nodes", "filter"}, selected : Seq(Nodes), filter : Patterns \cup {NoPattern},
   interval : Intervals, url : Texts, hcOpen : BOOLEAN,
   user : {"", "good", "bad"}, pass : {"", "set"}]

MappingType ==
  [port : Nat, name : Texts, strategy : Strategies, nodes : Seq(Nodes),
   filter : Patterns \cup {NoPattern}, interval : Intervals \cup {NoCheck},
   url : Texts \cup {NoCheck}, user : {"", "good", "bad"}, pass : {"", "set"}, enabled : BOOLEAN]

-----------------------------------------------------------------------------
(* The server *)

FreePorts == (PortLo .. PortHi) \ TakenPorts

\* buildMapping: the smallest free port if the request names none.
Build(in) ==
  IF in.port # 0 THEN in
  ELSE [in EXCEPT !.port = CHOOSE p \in FreePorts : \A q \in FreePorts : p <= q]

\* buildMapping and validateMapping, for what they refuse.
PortFine(in) ==
  IF in.port = 0 THEN FreePorts # {}
  ELSE in.port \in PortLo .. PortHi /\ in.port \notin TakenPorts

SetFine(in) ==
  /\ (in.nodes # <<>>) # (in.filter # NoPattern)
  /\ in.filter # NoPattern => in.filter \in Re2Patterns
  /\ in.strategy = "single" => in.filter = NoPattern /\ Len(in.nodes) = 1

IntervalFine(i) == i = 0 \/ i \in MinInterval .. MaxInterval

AuthFine(in) ==
  /\ (in.user = "") = (in.pass = "")
  /\ in.user # "bad"

Accepts(in) ==
  /\ PortFine(in) /\ SetFine(in) /\ AuthFine(in)
  /\ in.strategy # "single" => IntervalFine(in.interval)

\* A group has a health check, a single mapping none.
CheckFits(m) ==
  /\ m.strategy = "single" <=> m.interval = NoCheck
  /\ m.strategy = "single" <=> m.url = NoCheck

\* What the server holds: a mapping it accepted.
Held(m) == m \in MappingType /\ m.port # 0 /\ Accepts(m) /\ CheckFits(m)

-----------------------------------------------------------------------------
(* The dialog *)

\* The fields of a dialog that creates a mapping.
Blank ==
  [name |-> "", port |-> 0, strategy |-> "single", mode |-> "nodes", selected |-> <<>>,
   filter |-> NoPattern, interval |-> DefaultInterval, url |-> DefaultUrl,
   hcOpen |-> FALSE, user |-> "", pass |-> ""]

\* Mutation: what belongs to the health check is left at its default.
FieldsOfNoCheck(m) ==
  IF m = Absent THEN Blank
  ELSE [Blank EXCEPT !.name = m.name, !.port = m.port, !.strategy = m.strategy,
                     !.mode = IF m.filter # NoPattern THEN "filter" ELSE "nodes",
                     !.selected = IF m.filter # NoPattern THEN <<>> ELSE m.nodes,
                     !.filter = m.filter, !.user = m.user, !.pass = m.pass]

\* The open effect: the fields take the values of the mapping.
FieldsOf(m) ==
  IF m = Absent THEN Blank
  ELSE [name |-> m.name, port |-> m.port, strategy |-> m.strategy,
        mode |-> IF m.filter # NoPattern THEN "filter" ELSE "nodes",
        selected |-> IF m.filter # NoPattern THEN <<>> ELSE m.nodes,
        filter |-> m.filter,
        interval |-> IF m.interval = NoCheck THEN DefaultInterval ELSE m.interval,
        url |-> IF m.url = NoCheck THEN DefaultUrl ELSE m.url,
        hcOpen |-> FALSE, user |-> m.user, pass |-> m.pass]

\* What the browser and submit turn away.  The input of the interval is there to be
\* checked only while its section is unfolded.
Passes(f) ==
  /\ Trim(f.name) # ""
  /\ f.port # NoNumber
  /\ IF f.mode = "filter"
     THEN Trimmed[f.filter] # NoPattern /\ f.filter \in JsPatterns
     ELSE f.selected # <<>>
  /\ f.hcOpen /\ f.strategy # "single" => f.interval \in MinInterval .. MaxInterval
  /\ (f.user = "") = (f.pass = "")
  /\ f.user # "bad"

\* An empty URL asks for the default.
UrlOf(text) == IF Trim(text) = "" THEN DefaultUrl ELSE Trim(text)

\* The payload of submit.  The flag is that of the copy the dialog was opened with.
Request(f) ==
  [port |-> f.port, name |-> Trim(f.name), strategy |-> f.strategy,
   nodes |-> IF f.mode = "nodes" THEN f.selected ELSE <<>>,
   filter |-> IF f.mode = "filter" THEN Trimmed[f.filter] ELSE NoPattern,
   interval |-> IF f.strategy = "single" THEN NoCheck ELSE f.interval,
   url |-> IF f.strategy = "single" THEN NoCheck ELSE UrlOf(f.url),
   user |-> f.user, pass |-> f.pass,
   enabled |-> IF editing = Absent THEN TRUE ELSE editing.enabled]

-----------------------------------------------------------------------------
(* Actions *)

FormInit ==
  /\ stored # Absent => Held(stored)
  /\ row = stored
  /\ isOpen = FALSE /\ editing = Absent /\ form = Blank
  /\ touched = {} /\ payload = Absent /\ saves = 0

\* The page's create button, or the edit button of the row.  One mapping is followed: a
\* dialog that would create another beside it is left out.
OpenForm ==
  /\ ~isOpen
  /\ row = Absent => stored = Absent
  /\ isOpen' = TRUE /\ editing' = row
  /\ form' = FieldsOf(row) /\ touched' = {}
  /\ UNCHANGED <<stored, row, payload, saves>>

\* Cancel, Esc or the cross, also while a request is on its way.  What the fields hold
\* is of no matter until the next opening fills them.
CloseForm ==
  /\ isOpen /\ isOpen' = FALSE
  /\ editing' = Absent /\ form' = Blank /\ touched' = {}
  /\ UNCHANGED <<stored, row, payload, saves>>

\* Changes while a request is on its way are left out, since they are not in it, and
\* so are those no request can follow.
Edit(group, fields) ==
  /\ isOpen /\ payload = Absent /\ saves < MaxSaves
  /\ Cardinality(touched \cup {group}) <= MaxTouched
  /\ form' = fields /\ touched' = touched \cup {group}
  /\ UNCHANGED <<stored, row, isOpen, editing, payload, saves>>

EditName == \E v \in Texts : Edit("name", [form EXCEPT !.name = v])

EditPort ==
  \E v \in PortTexts : Edit("port", [form EXCEPT !.port = v])

\* Mutation: a single mapping keeps all the nodes it had.
EditStrategyOnly ==
  \E v \in Strategies : Edit("strategy", [form EXCEPT !.strategy = v])

\* A single mapping keeps its first node, whichever way its nodes are chosen now.
EditStrategy ==
  \E v \in Strategies :
    Edit("strategy", [form EXCEPT !.strategy = v,
                                  !.selected = IF v = "single" THEN FirstOnly(@) ELSE @])

EditMode == \E v \in {"nodes", "filter"} : Edit("mode", [form EXCEPT !.mode = v])

EditNodes ==
  /\ form.mode = "nodes"
  /\ \/ \E n \in Nodes :
          Edit("nodes", [form EXCEPT !.selected = Toggled(@, n, form.strategy = "single")])
     \/ \E n \in ToSet(form.selected) : Edit("nodes", [form EXCEPT !.selected = Without(@, n)])
     \/ /\ form.strategy = "failover"
        /\ \E i \in DOMAIN form.selected, dir \in {-1, 1} :
             Edit("nodes", [form EXCEPT !.selected = Moved(@, i, dir)])

EditFilter ==
  /\ form.mode = "filter"
  /\ \E v \in Patterns \cup {NoPattern} : Edit("filter", [form EXCEPT !.filter = v])

\* The section is there for groups; it folds and unfolds.
EditCheck ==
  /\ form.strategy # "single"
  /\ \/ Edit("check", [form EXCEPT !.hcOpen = ~@])
     \/ form.hcOpen /\ \E v \in Intervals : Edit("check", [form EXCEPT !.interval = v])
     \/ form.hcOpen /\ \E v \in Texts : Edit("check", [form EXCEPT !.url = v])

EditAuth ==
  \/ \E v \in {"", "good", "bad"} : Edit("auth", [form EXCEPT !.user = v])
  \/ \E v \in {"", "set"} : Edit("auth", [form EXCEPT !.pass = v])

\* The request leaves; a form that is turned away stays as it is.
Submit ==
  /\ isOpen /\ payload = Absent /\ saves < MaxSaves
  /\ Passes(form)
  /\ payload' = [in |-> Request(form), of |-> editing, touched |-> touched]
  /\ saves' = saves + 1
  /\ UNCHANGED <<stored, row, isOpen, editing, form, touched>>

\* CreateMapping and UpdateMapping: the one mapping that is followed here.
Stores ==
  /\ Accepts(payload.in)
  /\ payload.of = Absent <=> stored = Absent
  /\ stored' = Build(payload.in)

\* The mapping is stored, and whichever dialog is open then closes; the page's reload
\* follows on its own.
Saved ==
  /\ payload # Absent /\ payload' = Absent
  /\ Stores
  /\ isOpen' = FALSE
  /\ editing' = Absent /\ form' = Blank /\ touched' = {}
  /\ UNCHANGED <<row, saves>>

\* A refusal, or an answer that is lost: a toast, and the fields keep what they hold.
NotSaved ==
  /\ payload # Absent /\ payload' = Absent
  /\ Stores \/ UNCHANGED stored
  /\ UNCHANGED <<row, isOpen, editing, form, touched, saves>>

ReloadRow ==
  /\ row' = stored
  /\ UNCHANGED <<stored, isOpen, editing, form, touched, payload, saves>>

\* Another tab or client, or the row's own switch.
ToggleElsewhere ==
  /\ stored # Absent
  /\ stored' = [stored EXCEPT !.enabled = ~@]
  /\ UNCHANGED <<row, isOpen, editing, form, touched, payload, saves>>

DeleteElsewhere ==
  /\ stored # Absent
  /\ stored' = Absent
  /\ UNCHANGED <<row, isOpen, editing, form, touched, payload, saves>>

FormNext ==
  \/ OpenForm \/ CloseForm
  \/ EditName \/ EditPort \/ EditStrategy \/ EditMode \/ EditNodes
  \/ EditFilter \/ EditCheck \/ EditAuth
  \/ Submit \/ Saved \/ NotSaved \/ ReloadRow
  \/ ToggleElsewhere \/ DeleteElsewhere

FormSpec == FormInit /\ [][FormNext]_formVars

-----------------------------------------------------------------------------
(* Properties *)

FormTypeOK ==
  /\ stored \in MappingType \cup {Absent} /\ row \in MappingType \cup {Absent}
  /\ isOpen \in BOOLEAN /\ editing \in MappingType \cup {Absent}
  /\ form \in FormType
  /\ touched \in SUBSET {"name", "port", "strategy", "mode", "nodes", "filter", "check", "auth"}
  /\ payload # Absent => payload.in \in MappingType

\* What the two sets of rules differ in: the range of ports and who has them, a
\* pattern of JavaScript's own, a pattern for a single mapping, and an interval
\* whose section was folded again.
ServerOnly(in) ==
  \/ ~PortFine(in)
  \/ in.filter # NoPattern /\ (in.filter \notin Re2Patterns \/ in.strategy = "single")
  \/ in.strategy # "single" /\ ~IntervalFine(in.interval)

\* The rules of the server refuse a request the dialog lets through only for these
\* reasons; that the mapping may be gone when the request comes (mappings.go:74-77) is
\* no matter of what the fields hold (mapping-dialog.tsx:133-188, validate.go:60-141).
RefusedOnlyFor ==
  isOpen /\ Passes(form) => Accepts(Request(form)) \/ ServerOnly(Request(form))

\* The groups of fields the user went through, with what follows the strategy.
Affected(t, f) ==
  \/ f \in {"name", "port", "strategy"} /\ f \in t
  \/ f \in {"nodes", "filter"} /\ t \cap {"mode", "nodes", "filter", "strategy"} # {}
  \/ f \in {"interval", "url"} /\ t \cap {"check", "strategy"} # {}
  \/ f \in {"user", "pass"} /\ "auth" \in t

\* What submit makes of a field nobody touched.
Cleaned(f, v) ==
  CASE f = "name" -> Trim(v)
    [] f = "filter" -> Trimmed[v]
    [] f = "url" -> UrlOf(v)
    [] OTHER -> v

\* An edit changes nothing its user did not touch: a full update is sent, and what it
\* writes over without being asked is only what changed on the server since the row
\* was loaded, the blanks around a name, a pattern and a URL, and an empty URL, which
\* becomes the default (mapping-dialog.tsx:83-105, 132-188; mappings.go:123-161).
OthersKept ==
  [][payload # Absent /\ payload' = Absent /\ payload.of # Absent /\ stored # Absent =>
       \A f \in DOMAIN stored :
         stored'[f] # stored[f] =>
           \/ Affected(payload.touched, f)
           \/ payload.of[f] # stored[f]
           \/ stored'[f] = Cleaned(f, stored[f])]_formVars
=============================================================================
