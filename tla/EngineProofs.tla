---------------------------- MODULE EngineProofs ----------------------------
(***************************************************************************)
(* What Engine guarantees for any number of callers, any debounce, any     *)
(* number of changes and whatever mihomo refuses.                          *)
(***************************************************************************)
EXTENDS Engine, TLAPS

\* Between install and record mihomo runs what was read, and it was accepted.
Installed == step = "record" => served = held /\ held \notin Refused

Inv == TypeOK /\ NoLostTrigger /\ StatusTruthful /\ Installed

LEMMA InvInit == Init => Inv
<1> SUFFICES ASSUME Init PROVE Inv
  OBVIOUS
<1> USE EngineAssumption DEF Init
<1>1. TypeOK
  <2>1. token \in BOOLEAN /\ armed \in BOOLEAN /\ err \in BOOLEAN
    OBVIOUS
  <2>2. now \in Nat /\ held \in 0 .. now /\ left \in 0 .. Debounce
    OBVIOUS
  <2>3. served \in Nat \cup {NoConfig}
    OBVIOUS
  <2> QED
    BY <2>1, <2>2, <2>3 DEF TypeOK
<1>2. StatusTruthful
  BY DEF StatusTruthful
<1> QED
  BY <1>1, <1>2 DEF Inv, NoLostTrigger, Installed

LEMMA InvStep == Inv /\ [Next]_vars => Inv'
<1> SUFFICES ASSUME Inv, [Next]_vars PROVE Inv'
  OBVIOUS
<1> USE EngineAssumption
    DEF Inv, TypeOK, NoLostTrigger, StatusTruthful, Installed, Due,
        stateVars, timerVars, applyVars
<1>1. ASSUME NEW c \in Callers, Change(c) PROVE Inv'
  BY <1>1 DEF Change
<1>2. ASSUME NEW c \in Callers, Revisit(c) PROVE Inv'
  BY <1>2 DEF Revisit
<1>3. ASSUME NEW c \in Callers, Trigger(c) PROVE Inv'
  BY <1>3 DEF Trigger
<1>4. CASE Receive
  <2>1. armed' = TRUE /\ token' = FALSE /\ left' = Debounce
    BY <1>4 DEF Receive
  <2>2. UNCHANGED <<now, owing, step, held, served, recorded, err>>
    BY <1>4 DEF Receive
  <2>3. token' \in BOOLEAN /\ armed' \in BOOLEAN
    BY ONLY <2>1
  <2>4. TypeOK'
    <3>1. left' \in 0 .. Debounce
      BY ONLY <2>1, EngineAssumption
    <3> QED
      BY <2>2, <2>3, <3>1
  <2>5. NoLostTrigger'
    BY <2>1
  <2>6. StatusTruthful' /\ Installed'
    BY <2>2
  <2> QED
    BY <2>4, <2>5, <2>6
<1>5. CASE Tick
  <2>1. armed' = FALSE /\ held' = now /\ step' = "parse" /\ step = "select"
    BY <1>5 DEF Tick
  <2>2. UNCHANGED <<now, owing, token, left, served, recorded, err>>
    BY <1>5 DEF Tick
  <2>3. armed' \in BOOLEAN
    BY ONLY <2>1
  <2>4. TypeOK'
    <3>1. held' \in 0 .. now' /\ step' = "parse"
      BY <2>1, <2>2
    <3> QED
      BY <2>2, <2>3, <3>1
  <2>5. NoLostTrigger'
    BY <2>1, <2>2
  <2>6. StatusTruthful' /\ Installed'
    BY <2>1, <2>2
  <2> QED
    BY <2>4, <2>5, <2>6
<1>6. CASE Pass
  BY <1>6 DEF Pass
<1>7. CASE Install
  BY <1>7 DEF Install
<1>8. CASE Refuse
  BY <1>8 DEF Refuse
<1>9. CASE Record
  BY <1>9 DEF Record
<1>10. CASE Stop
  BY <1>10 DEF Stop
<1>11. CASE UNCHANGED vars
  BY <1>11 DEF vars
<1> QED
  BY <1>1, <1>2, <1>3, <1>4, <1>5, <1>6, <1>7, <1>8, <1>9, <1>10, <1>11
  DEF Next, Loop, Applying

LEMMA InvHolds == Spec => []Inv
  BY InvInit, InvStep, PTL DEF Spec

-----------------------------------------------------------------------------
\* The state has the types of Engine's declarations (engine.go:26-43).
THEOREM TypeCorrect == Spec => []TypeOK
  BY InvHolds, PTL DEF Inv

\* No trigger is lost by coalescing, restarting the timer or applying
\* (engine.go:69-99).
THEOREM TriggersNotLost == Spec => []NoLostTrigger
  BY InvHolds, PTL DEF Inv

\* Status reports what mihomo runs and whether the last reload failed
\* (engine.go:105-141).
THEOREM StatusIsTruthful == Spec => []StatusTruthful
  BY InvHolds, PTL DEF Inv

-----------------------------------------------------------------------------
\* The engine implements the promise: every step is one of the promise's or
\* changes nothing it speaks of.
THEOREM PromiseKept == Spec => ImplementsPromise
<1>1. Init => Promise!Init
  BY DEF Init, Promise!Init, Due
<1>2. Inv /\ [Next]_vars => [Promise!Next]_(Promise!vars)
  <2> SUFFICES ASSUME Inv, [Next]_vars
               PROVE  [Promise!Next]_(Promise!vars)
    OBVIOUS
  <2> USE DEF Inv, TypeOK, NoLostTrigger, Installed, Due,
              stateVars, timerVars, applyVars
  <2>1. ASSUME NEW c \in Callers, Change(c) PROVE Promise!Change
    BY <2>1 DEF Change, Promise!Change
  <2>2. ASSUME NEW c \in Callers, Revisit(c) PROVE Promise!Change
    BY <2>2 DEF Revisit, Promise!Change
  <2>3. ASSUME NEW c \in Callers, Trigger(c) PROVE UNCHANGED Promise!vars
    BY <2>3 DEF Trigger, Promise!vars
  <2>4. CASE Receive
    BY <2>4 DEF Receive, Promise!vars
  <2>5. CASE Tick
    <3>1. step = "select" /\ step' = "parse" /\ held' = now /\ armed
      BY <2>5 DEF Tick
    <3>2. UNCHANGED <<now, served, err>>
      BY <2>5 DEF Tick
    <3>3. Promise!Read
      BY <3>1, <3>2 DEF Promise!Read
    <3> QED
      BY <3>3 DEF Promise!Next
  <2>6. CASE Pass
    BY <2>6 DEF Pass, Promise!vars
  <2>7. CASE Install
    <3>1. step = "parse" /\ step' = "record" /\ held \notin Refused /\ served' = held
      BY <2>7 DEF Install
    <3>2. UNCHANGED <<now, owing, token, armed>>
      BY <2>7 DEF Install
    <3>3. Promise!Install
      BY <3>1, <3>2 DEF Promise!Install
    <3> QED
      BY <3>3 DEF Promise!Next
  <2>8. CASE Refuse
    <3>1. step = "parse" /\ step' = "select" /\ held \in Refused /\ err' = TRUE
      BY <2>8 DEF Refuse
    <3>2. UNCHANGED <<now, owing, token, armed, served>>
      BY <2>8 DEF Refuse
    <3>3. Promise!Refuse
      BY <3>1, <3>2 DEF Promise!Refuse
    <3> QED
      BY <3>3 DEF Promise!Next
  <2>9. CASE Record
    BY <2>9 DEF Record, Promise!vars
  <2>10. CASE Stop
    BY <2>10 DEF Stop, Promise!vars
  <2>11. CASE UNCHANGED vars
    BY <2>11 DEF vars, Promise!vars
  <2> QED
    BY <2>1, <2>2, <2>3, <2>4, <2>5, <2>6, <2>7, <2>8, <2>9, <2>10, <2>11
    DEF Next, Loop, Applying, Promise!Next
<1> QED
  BY <1>1, <1>2, InvHolds, PTL DEF Spec, ImplementsPromise, Promise!Spec
=============================================================================
