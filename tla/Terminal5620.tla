---------------------------- MODULE Terminal5620 -----------------------------
(***************************************************************************)
(* The life of the DMD 5620 and of its threads:                            *)
(* app/ipnx/Terminal5620.swift, from start(), stop() and restart() on the  *)
(* main actor to threadMain() on a dmd thread.                             *)
(*                                                                         *)
(* dmd_core is one machine per process.  The threads that step it are told *)
(* apart only by time: there is one stop flag for all of them, and a thread*)
(* that has not tested it when start() clears it was never told to stop.   *)
(*                                                                         *)
(* Init, Next and the like have Terminal in their names, as AppProofs has  *)
(* those of AppLifecycle beside them.                                      *)
(*                                                                         *)
(* Abstractions.                                                           *)
(*  - NVRAM is whether it holds the setting the user made.                 *)
(*  - Pacing, keyboard, mouse, serial bytes and frames are left out.       *)
(*  - What a thread does within milliseconds it has done when the main     *)
(*    actor next starts one (Settled): it powers on, connects to a line    *)
(*    that listens, tests the flag every 500 steps, leaves.  Refusals of a *)
(*    dead simulator's port take it thirty seconds, without a test.        *)
(***************************************************************************)
EXTENDS Integers

CONSTANTS
    Threads,     \* bound: the dmd threads a history may have
    Clicks,      \* bound: "Restart Terminal" clicks that may be pending
    Closes       \* whether the 5620's window may be closed and reopened

ASSUME ClicksAssumption == Clicks \in Nat
ASSUME ClosesAssumption == Closes \in BOOLEAN

VARIABLES
    state,     \* Terminal5620.state: "idle" or "running"
    stopFlag,  \* stopFlag.isSet
    timers,    \* restart() tasks that sleep
    th,        \* th[t]: "none", "new", "dial", "loop", "exit" or "gone"
    line,      \* the thread whose connection SIMH's DZ line 0 serves, or "no"
    listens,   \* SIMH listens on the line's port
    core,      \* dmd_core's NVRAM has the user's setting
    file,      \* the NVRAM file has it
    set,       \* history: the user has made the setting
    crossed    \* history: a thread was started while a restart() was asleep

terminal == <<state, stopFlag, timers, th, line, listens, core, file, set, crossed>>

\* The type invariant: also that the state is only ever .idle or .running.
TerminalTypeOK ==
    /\ state \in {"idle", "running"}
    /\ stopFlag \in BOOLEAN /\ timers \in 0 .. Clicks
    /\ th \in [Threads -> {"none", "new", "dial", "loop", "exit", "gone"}]
    /\ line \in Threads \cup {"no"} /\ listens \in BOOLEAN
    /\ core \in BOOLEAN /\ file \in BOOLEAN
    /\ set \in BOOLEAN /\ crossed \in BOOLEAN

TerminalInit ==
    /\ state = "idle" /\ stopFlag = FALSE /\ timers = 0
    /\ th = [t \in Threads |-> "none"] /\ line = "no" /\ listens = TRUE
    /\ core = FALSE /\ file = FALSE /\ set = FALSE /\ crossed = FALSE

\* Threads between dmd_init() and the last use of the core.
Active == {t \in Threads : th[t] \in {"dial", "loop", "exit"}}
Live   == {t \in Threads : th[t] \in {"new", "dial", "loop", "exit"}}

Settled ==
    \A t \in Threads : /\ th[t] \notin {"new", "exit"}
                       /\ th[t] = "dial" => ~listens
                       /\ th[t] = "loop" => ~stopFlag

-----------------------------------------------------------------------------
(* The main actor.                                                         *)

MainFrame == UNCHANGED <<line, listens, core, file, set>>

\* Mutant: the flag of the last stop() stays.
FlagLeft ==
    /\ state' = "running" /\ UNCHANGED stopFlag
    /\ \E t \in Threads : th[t] = "none" /\ th' = [th EXCEPT ![t] = "new"]
    /\ crossed' = (crossed \/ timers' > 0)

\* start() past its guard.
Started ==
    /\ state' = "running" /\ stopFlag' = FALSE
    /\ \E t \in Threads : th[t] = "none" /\ th' = [th EXCEPT ![t] = "new"]
    /\ crossed' = (crossed \/ timers' > 0)

\* Session.start() of the tab, or Restart Terminal of a terminal that is off.
Start ==
    /\ MainFrame
    /\ Settled
    /\ state = "idle"
    /\ UNCHANGED timers
    /\ Started

\* Mutant: the terminal is off, its thread has not been told.
StopUntold ==
    /\ MainFrame
    /\ Closes
    /\ state' = "idle"
    /\ UNCHANGED <<stopFlag, timers, th, crossed>>

\* Closing the window closes its only line.
Stop ==
    /\ MainFrame
    /\ Closes
    /\ state' = "idle" /\ stopFlag' = TRUE
    /\ UNCHANGED <<timers, th, crossed>>

Restart ==
    /\ MainFrame
    /\ state = "running" /\ timers < Clicks
    /\ stopFlag' = TRUE /\ timers' = timers + 1
    /\ UNCHANGED <<state, th, crossed>>

\* Mutant: the new thread does not wait for the old one.
RestartAtOnce ==
    /\ MainFrame
    /\ timers > 0 /\ timers' = timers - 1
    /\ Started

\* Half a second after restart(), whatever has happened to the terminal.
RestartFires ==
    /\ MainFrame
    /\ Settled
    /\ timers > 0 /\ timers' = timers - 1
    /\ Started

-----------------------------------------------------------------------------
(* threadMain() of thread t.                                               *)

ThreadFrame == UNCHANGED <<state, timers, set, crossed>>

Goto(t, l) == th' = [th EXCEPT ![t] = l]

\* dmd_init() and loadNVRAM().
PowerOn(t) ==
    /\ ThreadFrame
    /\ th[t] = "new" /\ Goto(t, "dial")
    /\ core' = file
    /\ UNCHANGED <<stopFlag, line, listens, file>>

\* dialLoopback(): connected, or thirty seconds of refusals.  SIMH serves the
\* first connection to a line.
Dial(t) ==
    /\ ThreadFrame
    /\ th[t] = "dial"
    /\ \/ listens /\ Goto(t, "loop") /\ line' = (IF line = "no" THEN t ELSE line)
       \/ ~listens /\ Goto(t, "exit") /\ UNCHANGED line
    /\ UNCHANGED <<stopFlag, listens, core, file>>

\* The stop flag, or a line that SIMH has closed, ends the loop.
LeaveLoop(t) ==
    /\ ThreadFrame
    /\ th[t] = "loop" /\ Goto(t, "exit")
    /\ stopFlag \/ line # t
    /\ UNCHANGED <<stopFlag, line, listens, core, file>>

\* Mutant: NVRAM is only written by the periodic save.
ExitUnsaved(t) ==
    /\ ThreadFrame
    /\ th[t] = "exit" /\ Goto(t, "gone")
    /\ line' = (IF line = t THEN "no" ELSE line)
    /\ UNCHANGED <<stopFlag, listens, core, file>>

\* The deferred close() and saveNVRAM().
Exit(t) ==
    /\ ThreadFrame
    /\ th[t] = "exit" /\ Goto(t, "gone")
    /\ line' = (IF line = t THEN "no" ELSE line)
    /\ file' = core
    /\ UNCHANGED <<stopFlag, listens, core>>

\* The loop steps the core; the user makes the setting; every thirty virtual
\* seconds the NVRAM is saved.
Setup(t) ==
    /\ th[t] = "loop" /\ ~set
    /\ core' = TRUE /\ set' = TRUE
    /\ UNCHANGED <<state, stopFlag, timers, th, line, listens, file, crossed>>

PeriodicSave(t) ==
    /\ ThreadFrame
    /\ th[t] = "loop" /\ file' = core
    /\ UNCHANGED <<stopFlag, th, line, listens, core>>

-----------------------------------------------------------------------------
\* The guest drops the carrier, or the simulator is gone.
LineCloses ==
    /\ line # "no" /\ line' = "no"
    /\ UNCHANGED <<state, stopFlag, timers, th, listens, core, file, set, crossed>>

SimhDies ==
    /\ listens /\ listens' = FALSE /\ line' = "no"
    /\ UNCHANGED <<state, stopFlag, timers, th, core, file, set, crossed>>

Thread(t) == PowerOn(t) \/ Dial(t) \/ LeaveLoop(t) \/ Exit(t)

TerminalNext ==
    \/ Start \/ Stop \/ Restart \/ RestartFires
    \/ \E t \in Threads : Thread(t) \/ Setup(t) \/ PeriodicSave(t)
    \/ LineCloses \/ SimhDies

\* Threads are scheduled; sleeping tasks wake up.
TerminalFairness ==
    /\ \A t \in Threads : WF_terminal(Thread(t))
    /\ WF_terminal(RestartFires)

TerminalSpec == TerminalInit /\ [][TerminalNext]_terminal /\ TerminalFairness

-----------------------------------------------------------------------------
(* Properties.                                                             *)

\* While one restart() at a time is asleep, no thread is started over the
\* core of another one.
OneDmdUncrossed == ~crossed => \A t \in Threads : th[t] = "loop" => Active = {t}

\* What the user set up in the terminal outlives its power cycles: it is in
\* the file, or in the core of a thread that will write it there.
SettingsKept == set /\ ~crossed => file \/ (core /\ Live # {})

\* A terminal that is switched off and stays off stops costing the CPU: its
\* threads end, the ones that never tested the flag in time included.
OffIsOff == <>[](state = "idle") => <>[](Live = {})

\* Restart Terminal ends with a terminal on the line again, as long as the
\* line is there: the old thread gives it up before the new one dials.
RestartTakesLine ==
    timers > 0 ~> \/ state = "idle" \/ ~listens
                  \/ \E t \in Threads : th[t] = "loop" /\ ~stopFlag
                  \/ \A t \in Threads : th[t] # "none"
=============================================================================
