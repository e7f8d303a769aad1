---------------------------- MODULE ConfigStore ----------------------------
(***************************************************************************)
(* The debounced, atomic write of config.yaml (internal/config/store.go,   *)
(* internal/fsutil/fsutil.go) with the callers that make it interesting:   *)
(* handlers that mutate the configuration and then call Schedule, refreshes*)
(* that call Schedule without having changed a persisted field, the        *)
(* shutdown's Flush, and kills.                                            *)
(*                                                                         *)
(* Store.mu guards the timer pointer and the dirty flag; each of its       *)
(* critical sections is one action.  writeNow is three steps: clear the    *)
(* flag, copy the configuration, replace the file.  A timer created with   *)
(* time.AfterFunc runs its callback in a goroutine of its own each time it *)
(* fires, whatever else is writing; Reset starts its second again, also    *)
(* when it has fired and its callback has not run yet, so an armed timer   *)
(* the store no longer points to exists.                                   *)
(*                                                                         *)
(* A version of the configuration is the number of mutations it contains.  *)
(* Two history variables serve the properties: the version the process was *)
(* started with, and what may keep the newest version out of the file.     *)
(***************************************************************************)
EXTENDS Naturals

CONSTANTS
  Mutators,    \* handlers that change the configuration
  Timers,      \* timer objects; how many bounds the number armed at once
  NoTimer,     \* s.timer = nil
  Writers,     \* callback goroutines; how many bounds the writes at once
  Flusher,     \* the goroutine that runs App.Shutdown
  MaxVersion,  \* bound: mutations
  WriteFails   \* whether AtomicWrite may return an error

ASSUME StoreAssumption ==
  /\ NoTimer \notin Timers
  /\ Flusher \notin Writers
  /\ MaxVersion \in Nat
  /\ WriteFails \in BOOLEAN

VARIABLES
  mem,      \* the version in memory
  disk,     \* the version last written to config.yaml
  dirty,    \* s.dirty
  timer,    \* s.timer
  armed,    \* timers that are running, referenced by the store or not
  due,      \* those whose interval is over
  mut,      \* whether a handler has mutated and not yet called Schedule
  step,     \* where each writer is in writeNow
  copy,     \* the version it copied
  phase,    \* of the process: running, flushing or flushed
  loaded,   \* history: the version the process was started with
  causes    \* history: what may keep the newest version out of the file

memVars == <<mem, mut>>
storeVars == <<dirty, timer, armed, due>>
writeVars == <<step, copy>>
vars == <<memVars, disk, storeVars, writeVars, phase, loaded, causes>>

Procs == Writers \cup {Flusher}

Active(p) == step[p] # "idle"

-----------------------------------------------------------------------------
(* Schedule *)

\* Schedule: start the timer's interval again, or create a timer.
Request ==
  /\ dirty' = TRUE
  /\ IF timer # NoTimer
       THEN /\ armed' = armed \cup {timer}
            /\ due' = due \ {timer}
            /\ UNCHANGED timer
       ELSE \E x \in Timers \ armed :
              timer' = x /\ armed' = armed \cup {x} /\ UNCHANGED due

\* A handler changes the configuration under App.mu; http.Server.Shutdown waits
\* 5 s for it, so the shutdown may have begun ...
Mutate(m) ==
  /\ ~mut[m]
  /\ mem < MaxVersion
  /\ mem' = mem + 1
  /\ mut' = [mut EXCEPT ![m] = TRUE]
  /\ causes' = IF phase = "running" THEN {} ELSE {"late"}
  /\ UNCHANGED <<disk, storeVars, writeVars, phase, loaded>>

\* ... and calls Schedule.
Schedule(m) ==
  /\ mut[m]
  /\ mut' = [mut EXCEPT ![m] = FALSE]
  /\ Request
  /\ UNCHANGED <<mem, disk, writeVars, phase, loaded, causes>>

\* A refresh calls Schedule; what it changed is not persisted.
Touch ==
  /\ Request
  /\ UNCHANGED <<memVars, disk, writeVars, phase, loaded, causes>>

\* The interval of a timer is over.
Elapse(x) ==
  /\ x \in armed \ due
  /\ due' = due \cup {x}
  /\ UNCHANGED <<memVars, disk, dirty, timer, armed, writeVars, phase, loaded, causes>>

-----------------------------------------------------------------------------
(* writeNow *)

\* A timer fires: its callback starts in a goroutine of its own.
Fire(x, w) ==
  /\ x \in due
  /\ ~Active(w)
  /\ armed' = armed \ {x} /\ due' = due \ {x}
  /\ step' = [step EXCEPT ![w] = "clear"]
  /\ UNCHANGED <<memVars, disk, dirty, timer, copy, phase, loaded, causes>>

\* Mutation: writeNow returns early, with the timer dropped and the flag up.
ClearThenGiveUp(p) ==
  /\ step[p] = "clear"
  /\ step' = [step EXCEPT ![p] = "idle"]
  /\ timer' = NoTimer
  /\ UNCHANGED <<memVars, disk, dirty, armed, due, copy, phase, loaded, causes>>

\* writeNow drops the timer and lowers the flag, under Store.mu.
Clear(p) ==
  /\ step[p] = "clear"
  /\ step' = [step EXCEPT ![p] = "copy"]
  /\ timer' = NoTimer
  /\ dirty' = FALSE
  /\ UNCHANGED <<memVars, disk, armed, due, copy, phase, loaded, causes>>

\* configSnapshot, under App.mu.
Copy(p) ==
  /\ step[p] = "copy"
  /\ step' = [step EXCEPT ![p] = "replace"]
  /\ copy' = [copy EXCEPT ![p] = mem]
  /\ UNCHANGED <<memVars, disk, storeVars, phase, loaded, causes>>

\* The end of writeNow; the flusher goes on to the end of Shutdown.
Finish(p) ==
  /\ step[p] = "replace"
  /\ step' = [step EXCEPT ![p] = "idle"]
  /\ copy' = [copy EXCEPT ![p] = 0]
  /\ phase' = IF p = Flusher THEN "flushed" ELSE phase
  /\ UNCHANGED <<memVars, loaded>>

\* The copy replaces the file, whatever the file holds by now.
Land(p) ==
  /\ disk' = copy[p]
  /\ causes' = IF copy[p] # mem /\ disk = mem
                 THEN causes \cup {"overtaken"} ELSE causes

\* Mutation: the flag is cleared when the write is done, not when it starts.
ReplaceThenClear(p) ==
  /\ Finish(p)
  /\ Land(p)
  /\ dirty' = FALSE
  /\ UNCHANGED <<timer, armed, due>>

\* Mutation: the file is written in place, and a kill may leave it truncated.
ReplaceInPlace(p) ==
  /\ Finish(p)
  /\ disk' \in {copy[p], 0}
  /\ UNCHANGED <<causes, storeVars>>

\* AtomicWrite: the copy replaces the file, or nothing does and the error is
\* logged.
Replace(p) ==
  /\ Finish(p)
  /\ \/ Land(p)
     \/ /\ WriteFails
        /\ causes' = IF copy[p] = mem THEN causes \cup {"failed"} ELSE causes
        /\ UNCHANGED disk
  /\ UNCHANGED storeVars

-----------------------------------------------------------------------------
(* Shutdown and kills *)

\* A handler that has not called Schedule when Flush looks at the flag is late.
NoticeLate ==
  causes' = IF \E m \in Mutators : mut[m] THEN causes \cup {"late"} ELSE causes

\* Flush stops the timer the store points to.
StopTimer ==
  /\ phase = "running"
  /\ armed' = armed \ {timer} /\ due' = due \ {timer}
  /\ timer' = NoTimer

\* Mutation: the pending write is cancelled and not done.
FlushCancels ==
  /\ StopTimer
  /\ NoticeLate
  /\ phase' = "flushed"
  /\ UNCHANGED <<memVars, disk, dirty, writeVars, loaded>>

\* Flush: write only when dirty, and wait for no callback that is writing.
Flush ==
  /\ StopTimer
  /\ NoticeLate
  /\ \/ dirty /\ phase' = "flushing" /\ step' = [step EXCEPT ![Flusher] = "clear"]
     \/ ~dirty /\ phase' = "flushed" /\ UNCHANGED step
  /\ UNCHANGED <<memVars, disk, dirty, copy, loaded>>

\* The next process loads the file.
Boot ==
  /\ mem' = disk /\ loaded' = disk
  /\ causes' = {}
  /\ mut' = [m \in Mutators |-> FALSE]
  /\ dirty' = FALSE /\ timer' = NoTimer /\ armed' = {} /\ due' = {}
  /\ step' = [p \in Procs |-> "idle"]
  /\ copy' = [p \in Procs |-> 0]
  /\ phase' = "running"
  /\ UNCHANGED disk

\* main returns after App.Shutdown; goroutines still writing die with it.
Exit == phase = "flushed" /\ Boot

Crash == Boot

-----------------------------------------------------------------------------
Init ==
  /\ mem = 0 /\ disk = 0 /\ loaded = 0 /\ causes = {}
  /\ dirty = FALSE /\ timer = NoTimer /\ armed = {} /\ due = {}
  /\ mut = [m \in Mutators |-> FALSE]
  /\ step = [p \in Procs |-> "idle"]
  /\ copy = [p \in Procs |-> 0]
  /\ phase = "running"

Requests == Touch \/ \E m \in Mutators : Schedule(m)

FireAny == \E x \in Timers, w \in Writers : Fire(x, w)

WriteStep(p) == Clear(p) \/ Copy(p) \/ Replace(p)

Next ==
  \/ \E m \in Mutators : Mutate(m)
  \/ Requests
  \/ \E x \in Timers : Elapse(x)
  \/ FireAny
  \/ \E p \in Procs : WriteStep(p)
  \/ Flush
  \/ Exit
  \/ Crash

Spec == Init /\ [][Next]_vars

\* A handler that mutated goes on to Schedule, time passes, a timer that is due
\* and is not started again fires, writes end, and so does the shutdown.
FairSpec ==
  /\ Spec
  /\ \A m \in Mutators : WF_vars(Schedule(m))
  /\ \A x \in Timers : WF_vars(Elapse(x))
  /\ WF_vars(FireAny)
  /\ \A p \in Procs : WF_vars(WriteStep(p))
  /\ WF_vars(Exit)

-----------------------------------------------------------------------------
(* Properties *)

TypeOK ==
  /\ mem \in Nat
  /\ disk \in Nat
  /\ dirty \in BOOLEAN
  /\ timer \in Timers \cup {NoTimer}
  /\ armed \in SUBSET Timers
  /\ due \in SUBSET armed
  /\ mut \in [Mutators -> BOOLEAN]
  /\ step \in [Procs -> {"idle", "clear", "copy", "replace"}]
  /\ copy \in [Procs -> Nat]
  /\ phase \in {"running", "flushing", "flushed"}
  /\ loaded \in Nat
  /\ causes \in SUBSET {"failed", "overtaken", "late"}

\* A writer that has lowered the flag has yet to copy, or holds the newest version.
Writing ==
  \E p \in Procs : step[p] = "copy" \/ (step[p] = "replace" /\ copy[p] = mem)

\* A write of the newest version is requested, about to be requested, or under way.
WriteComing == dirty \/ (\E m \in Mutators : mut[m]) \/ Writing

\* A mutation is on disk or a write that contains it is coming (store.go:17-20,
\* 36-37), although writeNow lowers the flag before it copies, callers raise it
\* while writes are under way, and writes overlap.  It is left out for two reasons
\* only: its own write failed, or an older copy landed on top of it.
NoLostMutation ==
  disk # mem => WriteComing \/ causes \cap {"failed", "overtaken"} # {}

\* While the flag is up the store's timer runs, or a writer has yet to lower
\* it: no request waits for a timer that has been stopped, fired or dropped.
DirtyHasWriter ==
  dirty => \/ timer \in armed
           \/ \E p \in Procs : step[p] = "clear"

\* When the process exits the newest version is on disk (store.go:53-55,
\* core/app.go:104-113) unless its write failed, an older copy landed on it, its
\* handler had not called Schedule when Flush looked, or a callback that lowered
\* the flag before Flush looked is still writing.
ExitKeepsAll == [][Exit => disk = mem \/ causes # {} \/ Writing]_vars

\* The store implements the promise of DurableConfig.
Durable == INSTANCE DurableConfig WITH base <- loaded
ImplementsDurable == Durable!Spec

\* Unless requests keep coming, each starting the interval again, a mutation
\* reaches config.yaml, or its write fails, or an older copy lands on top of it
\* (store.go:36-50, 63).
EventuallySaved ==
  \/ []<><<Requests>>_vars
  \/ (disk # mem) ~> (disk = mem \/ causes \cap {"failed", "overtaken"} # {})

\* What the specification says of SIGTERM: changes are written before the process
\* exits (config-persistence/spec.md:44, 54-56), here when no write failed and
\* every handler had called Schedule.
FlushedAtExit == [][Exit /\ causes = {} => disk = mem]_vars

=============================================================================
