------------------------- MODULE ConfigStoreProofs -------------------------
(***************************************************************************)
(* What ConfigStore guarantees for any number of handlers, timers and      *)
(* callback goroutines, and for any number of mutations, whatever writes   *)
(* overlap, overtake each other or fail.                                   *)
(***************************************************************************)
EXTENDS ConfigStore, TLAPS

\* The file and every copy on its way to it are between the version the process
\* was started with and the version in memory.
CopyBetween ==
  /\ loaded <= disk /\ disk <= mem
  /\ \A p \in Procs : step[p] = "replace" => loaded <= copy[p] /\ copy[p] <= mem

\* Why an exit keeps the newest version: until Flush the flusher rests; a copy it
\* takes is of the newest version, or a handler was late; when it is done that
\* version is on disk, or another writer has it, or there is a cause.
FlushInv ==
  /\ phase = "running" => step[Flusher] = "idle"
  /\ phase = "flushing" /\ step[Flusher] = "replace" => copy[Flusher] = mem \/ causes # {}
  /\ phase = "flushed" => disk = mem \/ causes # {} \/ Writing

-----------------------------------------------------------------------------
\* The state has the types of ConfigStore's declarations (config/store.go:21-29).
THEOREM TypeCorrect == Spec => []TypeOK
<1> USE DEF TypeOK, Procs, memVars, storeVars, writeVars
<1>1. Init => TypeOK
  <2> SUFFICES ASSUME Init PROVE TypeOK
    OBVIOUS
  <2>1. mem \in Nat /\ disk \in Nat /\ loaded \in Nat /\ copy \in [Procs -> Nat]
    BY DEF Init
  <2>2. step \in [Procs -> {"idle", "clear", "copy", "replace"}]
    BY DEF Init
  <2>3. dirty \in BOOLEAN /\ mut \in [Mutators -> BOOLEAN]
    BY DEF Init
  <2>4. /\ timer \in Timers \cup {NoTimer} /\ armed \in SUBSET Timers /\ due \in SUBSET armed
        /\ causes \in SUBSET {"failed", "overtaken", "late"}
    BY DEF Init
  <2>5. phase \in {"running", "flushing", "flushed"}
    BY DEF Init
  <2> QED
    BY <2>1, <2>2, <2>3, <2>4, <2>5
<1>2. TypeOK /\ [Next]_vars => TypeOK'
  <2> SUFFICES ASSUME TypeOK, [Next]_vars PROVE TypeOK'
    OBVIOUS
  <2>1. ASSUME NEW m \in Mutators, Mutate(m) PROVE TypeOK'
    BY <2>1 DEF Mutate
  <2>2. ASSUME NEW m \in Mutators, Schedule(m) PROVE TypeOK'
    BY <2>2 DEF Schedule, Request
  <2>3. CASE Touch
    BY <2>3 DEF Touch, Request
  <2>4. ASSUME NEW x \in Timers, Elapse(x) PROVE TypeOK'
    BY <2>4 DEF Elapse
  <2>5. ASSUME NEW x \in Timers, NEW w \in Writers, Fire(x, w) PROVE TypeOK'
    BY <2>5 DEF Fire, Active
  <2>6. ASSUME NEW p \in Procs, Clear(p) PROVE TypeOK'
    BY <2>6 DEF Clear
  <2>7. ASSUME NEW p \in Procs, Copy(p) PROVE TypeOK'
    BY <2>7 DEF Copy
  <2>8. ASSUME NEW p \in Procs, Replace(p) PROVE TypeOK'
    BY <2>8 DEF Replace, Finish, Land
  <2>9. CASE Flush
    BY <2>9 DEF Flush, StopTimer, NoticeLate
  <2>10. CASE Boot
    BY <2>10 DEF Boot
  <2>11. CASE UNCHANGED vars
    BY <2>11 DEF vars
  <2> QED
    BY <2>1, <2>2, <2>3, <2>4, <2>5, <2>6, <2>7, <2>8, <2>9, <2>10, <2>11
    DEF Next, Requests, FireAny, WriteStep, Exit, Crash
<1> QED
  BY <1>1, <1>2, PTL DEF Spec

-----------------------------------------------------------------------------
\* While the flag is up the store's timer runs or a writer is about to lower
\* it (config/store.go:41-50, 72-76).
THEOREM FlagHasWriter == Spec => []DirtyHasWriter
<1> USE DEF DirtyHasWriter, Procs, memVars, storeVars, writeVars
<1>1. Init => DirtyHasWriter
  BY DEF Init
<1>2. TypeOK /\ DirtyHasWriter /\ [Next]_vars => DirtyHasWriter'
  <2> SUFFICES ASSUME TypeOK, DirtyHasWriter, [Next]_vars PROVE DirtyHasWriter'
    OBVIOUS
  <2> USE DEF TypeOK
  <2>1. ASSUME NEW m \in Mutators, Mutate(m) PROVE DirtyHasWriter'
    BY <2>1 DEF Mutate
  <2>2. ASSUME NEW m \in Mutators, Schedule(m) PROVE DirtyHasWriter'
    BY <2>2 DEF Schedule, Request
  <2>3. CASE Touch
    BY <2>3 DEF Touch, Request
  <2>4. ASSUME NEW x \in Timers, Elapse(x) PROVE DirtyHasWriter'
    BY <2>4 DEF Elapse
  <2>5. ASSUME NEW x \in Timers, NEW w \in Writers, Fire(x, w) PROVE DirtyHasWriter'
    BY <2>5 DEF Fire, Active
  <2>6. ASSUME NEW p \in Procs, Clear(p) PROVE DirtyHasWriter'
    BY <2>6 DEF Clear
  <2>7. ASSUME NEW p \in Procs, Copy(p) PROVE DirtyHasWriter'
    BY <2>7 DEF Copy
  <2>8. ASSUME NEW p \in Procs, Replace(p) PROVE DirtyHasWriter'
    BY <2>8 DEF Replace, Finish, Land
  <2>9. CASE Flush
    BY <2>9 DEF Flush, StopTimer, NoticeLate
  <2>10. CASE Boot
    BY <2>10 DEF Boot
  <2>11. CASE UNCHANGED vars
    BY <2>11 DEF vars
  <2> QED
    BY <2>1, <2>2, <2>3, <2>4, <2>5, <2>6, <2>7, <2>8, <2>9, <2>10, <2>11
    DEF Next, Requests, FireAny, WriteStep, Exit, Crash
<1> QED
  BY <1>1, <1>2, TypeCorrect, PTL DEF Spec

-----------------------------------------------------------------------------
\* A mutation is on disk or a write that contains it is coming, although the
\* flag is lowered before the copy is taken and writes overlap; otherwise its own
\* write has failed or an older copy has landed on it (config/store.go:36-37, 71-84).
THEOREM MutationsNotLost == Spec => []NoLostMutation
<1> USE DEF NoLostMutation, WriteComing, Writing, Procs, memVars, storeVars, writeVars
<1>1. Init => NoLostMutation
  BY DEF Init
<1>2. TypeOK /\ NoLostMutation /\ [Next]_vars => NoLostMutation'
  <2> SUFFICES ASSUME TypeOK, NoLostMutation, [Next]_vars PROVE NoLostMutation'
    OBVIOUS
  <2> USE DEF TypeOK
  <2>1. ASSUME NEW m \in Mutators, Mutate(m) PROVE NoLostMutation'
    BY <2>1 DEF Mutate
  <2>2. ASSUME NEW m \in Mutators, Schedule(m) PROVE NoLostMutation'
    BY <2>2 DEF Schedule, Request
  <2>3. CASE Touch
    BY <2>3 DEF Touch, Request
  <2>4. ASSUME NEW x \in Timers, Elapse(x) PROVE NoLostMutation'
    BY <2>4 DEF Elapse
  <2>5. ASSUME NEW x \in Timers, NEW w \in Writers, Fire(x, w) PROVE NoLostMutation'
    BY <2>5 DEF Fire, Active
  <2>6. ASSUME NEW p \in Procs, Clear(p) PROVE NoLostMutation'
    BY <2>6 DEF Clear
  <2>7. ASSUME NEW p \in Procs, Copy(p) PROVE NoLostMutation'
    BY <2>7 DEF Copy
  <2>8. ASSUME NEW p \in Procs, Replace(p) PROVE NoLostMutation'
    BY <2>8 DEF Replace, Finish, Land
  <2>9. CASE Flush
    BY <2>9 DEF Flush, StopTimer, NoticeLate
  <2>10. CASE Boot
    BY <2>10 DEF Boot
  <2>11. CASE UNCHANGED vars
    BY <2>11 DEF vars
  <2> QED
    BY <2>1, <2>2, <2>3, <2>4, <2>5, <2>6, <2>7, <2>8, <2>9, <2>10, <2>11
    DEF Next, Requests, FireAny, WriteStep, Exit, Crash
<1> QED
  BY <1>1, <1>2, TypeCorrect, PTL DEF Spec

-----------------------------------------------------------------------------
LEMMA CopyBetweenHolds == Spec => []CopyBetween
<1> USE DEF CopyBetween, Procs, memVars, storeVars, writeVars
<1>1. Init => CopyBetween
  BY DEF Init
<1>2. TypeOK /\ CopyBetween /\ [Next]_vars => CopyBetween'
  <2> SUFFICES ASSUME TypeOK, CopyBetween, [Next]_vars PROVE CopyBetween'
    OBVIOUS
  <2> USE DEF TypeOK
  <2>1. ASSUME NEW m \in Mutators, Mutate(m) PROVE CopyBetween'
    BY <2>1 DEF Mutate
  <2>2. ASSUME NEW m \in Mutators, Schedule(m) PROVE CopyBetween'
    BY <2>2 DEF Schedule, Request
  <2>3. CASE Touch
    BY <2>3 DEF Touch, Request
  <2>4. ASSUME NEW x \in Timers, Elapse(x) PROVE CopyBetween'
    BY <2>4 DEF Elapse
  <2>5. ASSUME NEW x \in Timers, NEW w \in Writers, Fire(x, w) PROVE CopyBetween'
    BY <2>5 DEF Fire, Active
  <2>6. ASSUME NEW p \in Procs, Clear(p) PROVE CopyBetween'
    BY <2>6 DEF Clear
  <2>7. ASSUME NEW p \in Procs, Copy(p) PROVE CopyBetween'
    BY <2>7 DEF Copy
  <2>8. ASSUME NEW p \in Procs, Replace(p) PROVE CopyBetween'
    BY <2>8 DEF Replace, Finish, Land
  <2>9. CASE Flush
    BY <2>9 DEF Flush, StopTimer, NoticeLate
  <2>10. CASE Boot
    BY <2>10 DEF Boot
  <2>11. CASE UNCHANGED vars
    BY <2>11 DEF vars
  <2> QED
    BY <2>1, <2>2, <2>3, <2>4, <2>5, <2>6, <2>7, <2>8, <2>9, <2>10, <2>11
    DEF Next, Requests, FireAny, WriteStep, Exit, Crash
<1> QED
  BY <1>1, <1>2, TypeCorrect, PTL DEF Spec

\* config.yaml holds versions the process has been at, never half a file and never
\* one older than what the process was started with, although an older copy may
\* land on a newer one, writes may fail and the process may be killed
\* (config/store.go:71-84, fsutil/fsutil.go:10-12).
THEOREM StoreIsDurable == Spec => ImplementsDurable
<1>1. Init => Durable!Init
  BY DEF Init, Durable!Init
<1>2. TypeOK /\ CopyBetween /\ [Next]_vars => [Durable!Next]_<<mem, disk, loaded>>
  <2> SUFFICES ASSUME TypeOK, CopyBetween, [Next]_vars
               PROVE  [Durable!Next]_<<mem, disk, loaded>>
    OBVIOUS
  <2> USE DEF TypeOK, CopyBetween, memVars, storeVars, writeVars
  <2>1. ASSUME NEW m \in Mutators, Mutate(m) PROVE Durable!Mutate
    BY <2>1 DEF Mutate, Durable!Mutate
  <2>2. ASSUME NEW p \in Procs, Replace(p)
        PROVE  Durable!Write \/ UNCHANGED <<mem, disk, loaded>>
    <3>1. UNCHANGED <<mem, loaded>> /\ step[p] = "replace"
      BY <2>2 DEF Replace, Finish
    <3>2. disk' = copy[p] \/ disk' = disk
      BY <2>2 DEF Replace, Land
    <3> QED
      BY <3>1, <3>2 DEF Durable!Write
  <2>3. ASSUME Boot PROVE Durable!Restart
    BY <2>3 DEF Boot, Durable!Restart
  <2>4. ASSUME NEW m \in Mutators, Schedule(m) PROVE UNCHANGED <<mem, disk, loaded>>
    BY <2>4 DEF Schedule
  <2>5. ASSUME NEW x \in Timers, Elapse(x) \/ \E w \in Writers : Fire(x, w)
        PROVE  UNCHANGED <<mem, disk, loaded>>
    BY <2>5 DEF Elapse, Fire
  <2>6. ASSUME NEW p \in Procs, Clear(p) \/ Copy(p)
        PROVE  UNCHANGED <<mem, disk, loaded>>
    BY <2>6 DEF Clear, Copy
  <2>7. CASE Touch \/ Flush \/ UNCHANGED vars
    BY <2>7 DEF Touch, Flush, vars
  <2>8. CASE Next
    <3>1. \/ \E m \in Mutators : Mutate(m) \/ Schedule(m)
          \/ \E x \in Timers : Elapse(x) \/ \E w \in Writers : Fire(x, w)
          \/ \E p \in Procs : Clear(p) \/ Copy(p) \/ Replace(p)
          \/ Touch \/ Flush \/ Boot
      BY <2>8 DEF Next, Requests, FireAny, WriteStep, Exit, Crash
    <3>2. Durable!Next \/ UNCHANGED <<mem, disk, loaded>>
      BY ONLY <3>1, <2>1, <2>2, <2>3, <2>4, <2>5, <2>6, <2>7 DEF Durable!Next
    <3> QED
      BY <3>2
  <2> QED
    BY <2>7, <2>8
<1> QED
  BY <1>1, <1>2, TypeCorrect, CopyBetweenHolds, PTL
  DEF Spec, ImplementsDurable, Durable!Spec

-----------------------------------------------------------------------------
(* The end of the process *)

LEMMA FlushInvHolds == Spec => []FlushInv
<1> USE StoreAssumption
    DEF FlushInv, Writing, Procs, memVars, storeVars, writeVars
<1>1. Init => FlushInv
  BY DEF Init
<1>2. TypeOK /\ NoLostMutation /\ FlushInv /\ [Next]_vars => FlushInv'
  <2> SUFFICES ASSUME TypeOK, NoLostMutation, FlushInv, [Next]_vars PROVE FlushInv'
    OBVIOUS
  <2> USE DEF TypeOK
  <2>1. ASSUME NEW m \in Mutators, Mutate(m) PROVE FlushInv'
    BY <2>1 DEF Mutate
  <2>2. ASSUME NEW m \in Mutators, Schedule(m) PROVE FlushInv'
    BY <2>2 DEF Schedule, Request
  <2>3. CASE Touch
    BY <2>3 DEF Touch, Request
  <2>4. ASSUME NEW x \in Timers, Elapse(x) PROVE FlushInv'
    BY <2>4 DEF Elapse
  <2>5. ASSUME NEW x \in Timers, NEW w \in Writers, Fire(x, w) PROVE FlushInv'
    BY <2>5 DEF Fire, Active
  <2>6. ASSUME NEW p \in Procs, Clear(p) PROVE FlushInv'
    BY <2>6 DEF Clear
  <2>7. ASSUME NEW p \in Procs, Copy(p) PROVE FlushInv'
    BY <2>7 DEF Copy
  <2>8. ASSUME NEW p \in Procs, Replace(p) PROVE FlushInv'
    BY <2>8 DEF Replace, Finish, Land
  <2>9. CASE Flush
    <3>1. CASE dirty
      BY <2>9, <3>1 DEF Flush, StopTimer, NoticeLate
    <3>2. CASE ~dirty
      <4>1. /\ disk = mem \/ causes # {} \/ Writing \/ \E m \in Mutators : mut[m]
            /\ UNCHANGED <<step, copy, mem, disk>> /\ phase' = "flushed"
        BY <2>9, <3>2 DEF Flush, NoLostMutation, WriteComing
      <4>2. causes' = IF \E m \in Mutators : mut[m] THEN causes \cup {"late"} ELSE causes
        BY <2>9 DEF Flush, NoticeLate
      <4> QED
        BY <4>1, <4>2
    <3> QED
      BY <3>1, <3>2
  <2>10. CASE Boot
    BY <2>10 DEF Boot
  <2>11. CASE UNCHANGED vars
    BY <2>11 DEF vars
  <2> QED
    BY <2>1, <2>2, <2>3, <2>4, <2>5, <2>6, <2>7, <2>8, <2>9, <2>10, <2>11
    DEF Next, Requests, FireAny, WriteStep, Exit, Crash
<1> QED
  BY <1>1, <1>2, TypeCorrect, MutationsNotLost, PTL DEF Spec

\* A process that exits leaves nothing in memory only, also when a refresh raised
\* the flag again after Flush, unless a write of the newest version failed or was
\* overtaken, its handler was late, or a callback that lowered the flag is still
\* writing (config/store.go:53-69, core/app.go:104-113).
THEOREM ExitLosesNothing == Spec => ExitKeepsAll
<1>1. FlushInv => [Exit => disk = mem \/ causes # {} \/ Writing]_vars
  BY DEF FlushInv, Exit
<1> QED
  BY <1>1, FlushInvHolds, PTL DEF Spec, ExitKeepsAll
=============================================================================
