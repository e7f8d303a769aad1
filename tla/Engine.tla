------------------------------- MODULE Engine -------------------------------
(***************************************************************************)
(* The debounced reload of internal/engine/engine.go: callers that change  *)
(* the state and then Trigger, the channel of capacity one that coalesces  *)
(* the triggers, the timer each trigger restarts, and the goroutine of     *)
(* reloadLoop, which applies when the timer fires.                         *)
(*                                                                         *)
(* applyNow is three steps: read the state and generate (Tick), hand the   *)
(* configuration to mihomo, which takes or refuses it, and record the      *)
(* outcome under e.mu.  The timer counts ticks so that a trigger that      *)
(* restarts it can put a reload off.  A channel timer that is reset        *)
(* delivers no stale tick (go.mod asks for Go 1.26).                       *)
(*                                                                         *)
(* A version of the state is the number of changes it contains.            *)
(***************************************************************************)
EXTENDS Naturals

CONSTANTS
  Callers,    \* goroutines that call persistAndReload
  Debounce,   \* ReloadDebounce, in ticks
  Refused,    \* the versions whose configuration mihomo refuses
  NoConfig,   \* mihomo has no configuration yet
  MaxVersion  \* bound: changes

ASSUME EngineAssumption ==
  /\ Debounce \in Nat
  /\ NoConfig \notin Nat
  /\ MaxVersion \in Nat

VARIABLES
  now,       \* the version of the state: pool and mappings
  owing,     \* callers between their change and their Trigger
  token,     \* reloadCh holds an element
  armed,     \* timer # nil
  left,      \* ticks until it fires
  step,      \* of the loop: select, parse, record or stopped
  held,      \* the version applyNow last read
  served,    \* the version mihomo runs
  recorded,  \* the version of lastPlans and lastNameOf
  err        \* lastErr is set

stateVars == <<now, owing>>
timerVars == <<armed, left>>
applyVars == <<step, held, served, recorded, err>>
vars == <<stateVars, token, timerVars, applyVars>>

-----------------------------------------------------------------------------
(* Callers *)

\* The state changes under its own lock ...
Change(c) ==
  /\ c \notin owing
  /\ now < MaxVersion
  /\ now' = now + 1
  /\ owing' = owing \cup {c}
  /\ UNCHANGED <<token, timerVars, applyVars>>

\* ... or turns out as it was: a refresh that brought the same nodes ...
Revisit(c) ==
  /\ c \notin owing
  /\ owing' = owing \cup {c}
  /\ UNCHANGED <<now, token, timerVars, applyVars>>

\* Mutation: the channel has no buffer, and no one receives outside the select.
TriggerUnbuffered(c) ==
  /\ c \in owing
  /\ owing' = owing \ {c}
  /\ token' = (token \/ step = "select")
  /\ UNCHANGED <<now, timerVars, applyVars>>

\* ... and the caller triggers; a channel that is full already is left so.
Trigger(c) ==
  /\ c \in owing
  /\ owing' = owing \ {c}
  /\ token' = TRUE
  /\ UNCHANGED <<now, timerVars, applyVars>>

-----------------------------------------------------------------------------
(* reloadLoop *)

\* The trigger starts the timer or starts it anew.
Receive ==
  /\ step = "select"
  /\ token
  /\ token' = FALSE
  /\ armed' = TRUE
  /\ left' = Debounce
  /\ UNCHANGED <<stateVars, applyVars>>

\* Time passes for the timer.
Pass ==
  /\ armed /\ left > 0
  /\ left' = left - 1
  /\ UNCHANGED <<stateVars, token, armed, applyVars>>

\* The timer has fired: applyNow reads the state and generates.
Tick ==
  /\ step = "select"
  /\ armed /\ left = 0
  /\ armed' = FALSE
  /\ held' = now
  /\ step' = "parse"
  /\ UNCHANGED <<stateVars, token, left, served, recorded, err>>

\* Mutation: mihomo is given the state as it is by now.
InstallReread ==
  /\ step = "parse"
  /\ held \notin Refused
  /\ served' = now
  /\ step' = "record"
  /\ UNCHANGED <<stateVars, token, timerVars, held, recorded, err>>

\* ParseWithBytes takes it and ApplyConfig installs it.
Install ==
  /\ step = "parse"
  /\ held \notin Refused
  /\ served' = held
  /\ step' = "record"
  /\ UNCHANGED <<stateVars, token, timerVars, held, recorded, err>>

\* Mutation: the triggers that came meanwhile are taken as served.
RecordDrains ==
  /\ step = "record"
  /\ recorded' = held
  /\ err' = FALSE
  /\ token' = FALSE
  /\ step' = "select"
  /\ UNCHANGED <<stateVars, timerVars, held, served>>

\* Under e.mu: the plans of what is served, and no error.
Record ==
  /\ step = "record"
  /\ recorded' = held
  /\ err' = FALSE
  /\ step' = "select"
  /\ UNCHANGED <<stateVars, token, timerVars, held, served>>

\* Mutation: the plans are recorded before the configuration is parsed.
RefuseRecords ==
  /\ step = "parse"
  /\ held \in Refused
  /\ recorded' = held
  /\ err' = TRUE
  /\ step' = "select"
  /\ UNCHANGED <<stateVars, token, timerVars, held, served>>

\* ParseWithBytes refuses it: recordErr, and nothing else changes.
Refuse ==
  /\ step = "parse"
  /\ held \in Refused
  /\ err' = TRUE
  /\ step' = "select"
  /\ UNCHANGED <<stateVars, token, timerVars, held, served, recorded>>

\* The context is cancelled at shutdown; a reload under way is finished first.
Stop ==
  /\ step = "select"
  /\ step' = "stopped"
  /\ UNCHANGED <<stateVars, token, timerVars, held, served, recorded, err>>

-----------------------------------------------------------------------------
\* App.Start has called ApplyNow before anyone can trigger.
Init ==
  /\ now = 0 /\ owing = {}
  /\ token = FALSE
  /\ armed = FALSE /\ left = 0
  /\ step = "select"
  /\ held = 0
  /\ IF 0 \in Refused THEN served = NoConfig /\ err = TRUE
                     ELSE served = 0 /\ err = FALSE
  /\ recorded = served

Loop == Receive \/ Tick

Applying == Install \/ Refuse \/ Record

Next ==
  \/ \E c \in Callers : Change(c) \/ Revisit(c) \/ Trigger(c)
  \/ Loop \/ Pass \/ Applying \/ Stop

Spec == Init /\ [][Next]_vars

\* Callers go on to Trigger, the timer runs, the goroutine is scheduled, and
\* mihomo answers.
Fairness ==
  /\ \A c \in Callers : WF_vars(Trigger(c))
  /\ WF_vars(Loop)
  /\ WF_vars(Pass)
  /\ WF_vars(Applying)

-----------------------------------------------------------------------------
(* Properties *)

TypeOK ==
  /\ now \in Nat
  /\ owing \in SUBSET Callers
  /\ token \in BOOLEAN
  /\ armed \in BOOLEAN
  /\ left \in 0 .. Debounce
  /\ step \in {"select", "parse", "record", "stopped"}
  /\ held \in 0 .. now
  /\ served \in Nat \cup {NoConfig}
  /\ recorded \in Nat \cup {NoConfig}
  /\ err \in BOOLEAN

Due == owing # {} \/ token \/ armed

\* A change the last reload did not read is followed by another reload: its
\* caller has yet to trigger, the trigger waits in the channel, or the timer runs
\* (engine.go:69-75, 84-93), however triggers coalesce and whatever is applied
\* meanwhile.
NoLostTrigger == held # now => Due

\* What Status reports is what mihomo runs, also after a refused reload, and it
\* shows an error exactly when the last reload was refused (engine.go:26-27,
\* 105-141).
StatusTruthful ==
  /\ step # "record" => recorded = served
  /\ step \in {"select", "stopped"} => (err <=> held \in Refused)

\* The engine implements the promise of ReloadPromise; there an install clears
\* the error at once.
Promise ==
  INSTANCE ReloadPromise WITH
    due <- Due,
    reading <- IF step = "parse" THEN {held} ELSE {},
    err <- err /\ step # "record"
ImplementsPromise == Promise!Spec

\* Unless triggers keep coming, each restarting the timer, or the loop is
\* stopped, the engine ends up serving the state or showing an error.
SettlesOrStarves ==
  \/ []<>(owing # {})
  \/ <>[](step = "stopped")
  \/ <>[](recorded = now \/ err)
=============================================================================
