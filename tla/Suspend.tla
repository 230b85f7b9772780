------------------------------- MODULE Suspend -------------------------------
(***************************************************************************)
(* Suspend and resume of a machine that is up: background() and            *)
(* foreground() of app/ipnx/Machine.swift, the expectations of             *)
(* ConsoleLink.swift they wait on, and the SIMH remote console at the far  *)
(* end of the control link.                                                *)
(*                                                                         *)
(* background() and foreground() are main-actor tasks that interleave at   *)
(* their awaits, with each other, with timers, with simhExited() and with  *)
(* the SIMH thread.  Each task has a slot in Tasks; hs[t] is the await it  *)
(* is suspended at, and the same name with "Ok" or "To" once its           *)
(* continuation has been resumed with true or false.                       *)
(*                                                                         *)
(* Abstractions.                                                           *)
(*  - The match buffer is the set of patterns found in it.                 *)
(*  - A timer may fire whenever its wait is pending.                       *)
(*  - Bytes take no time from SIMH to consume(); that a reply may be late  *)
(*    is in the time SIMH takes to execute the command.                    *)
(*  - The process does not die here: module Media has that.                *)
(***************************************************************************)
EXTENDS Naturals, Sequences

CONSTANTS
    Tasks,    \* slots for background() and foreground() tasks in flight
    MaxCmds   \* bound: command lines unread by SIMH when a task may begin

ASSUME MaxCmdsAssumption == MaxCmds \in Nat

VARIABLES
    phase,     \* Machine.phase: "up", "pausing", "paused" or "failed"
    hs,        \* hs[t]: where the task in slot t is
    ctlUp,     \* control.isConnected
    matchBuf,  \* patterns in the control link's match buffer
    cmds,      \* command lines on their way to the remote console
    sim,       \* the simulator: "run", "stopped", "saving", "dead" or "gone"
    sav,       \* state.sav: "none", "torn", "good" or "stale"
    trapped,   \* a precondition failed and stopped the process
    late,      \* history: a wait for "SAVED" timed out
    idled,     \* history: command mode timed out and the VAX runs by itself
    crossed    \* history: a resume was asked for while a call was in flight

vars == <<phase, hs, ctlUp, matchBuf, cmds, sim, sav, trapped, late, idled, crossed>>

Phases  == {"up", "pausing", "paused", "failed"}
Cmds    == {"wru", "save", "echo", "continue"}
Replies == {"sim>", "SAVED", "Running"}
Waits   == {"bgSim", "bgSav", "fgRun"}
Resumed == {"bgSimOk", "bgSimTo", "bgSavOk", "bgSavTo", "fgNew", "fgRunOk", "fgRunTo"}

\* The type invariant: also that no step leaves the phases of a machine that
\* has been up (.idle and .booting belong to BringUp).
TypeOK ==
    /\ phase \in Phases
    /\ hs \in [Tasks -> {"off"} \cup Waits \cup Resumed]
    /\ ctlUp \in BOOLEAN
    /\ matchBuf \subseteq Replies
    /\ cmds \in Seq(Cmds)
    /\ sim \in {"run", "stopped", "saving", "dead", "gone"}
    /\ sav \in {"none", "torn", "good", "stale"}
    /\ trapped \in BOOLEAN /\ late \in BOOLEAN
    /\ idled \in BOOLEAN /\ crossed \in BOOLEAN

\* bringUp() has ended: the console is live and there is no snapshot.
Init ==
    /\ phase = "up" /\ hs = [t \in Tasks |-> "off"]
    /\ ctlUp = TRUE /\ matchBuf = {} /\ cmds = <<>>
    /\ sim = "run" /\ sav = "none"
    /\ trapped = FALSE /\ late = FALSE /\ idled = FALSE /\ crossed = FALSE

-----------------------------------------------------------------------------
(* ConsoleLink: one expectation per link, and what arrives.                *)

Pattern  == [bgSim |-> "sim>",    bgSav |-> "SAVED",   fgRun |-> "Running"]
Answered == [bgSim |-> "bgSimOk", bgSav |-> "bgSavOk", fgRun |-> "fgRunOk"]
TimedOut == [bgSim |-> "bgSimTo", bgSav |-> "bgSavTo", fgRun |-> "fgRunTo"]

Waiting == {t \in Tasks : hs[t] \in Waits}

\* Mutant: the buffer survives a match.
BufferKept(buf) == buf
\* matchBuf.removeAll(): what else had arrived is forgotten.
Emptied(buf) == {}

\* waitFor(): the precondition, then the buffer, then a suspended wait.
WaitFor(t, w) ==
    /\ Waiting \ {t} = {}
    /\ IF Pattern[w] \in matchBuf
       THEN matchBuf' = Emptied(matchBuf) /\ hs' = [hs EXCEPT ![t] = Answered[w]]
       ELSE UNCHANGED matchBuf            /\ hs' = [hs EXCEPT ![t] = w]

\* consume() of what the remote console prints.
Deliver(out) ==
    LET buf == matchBuf \cup out
        hit == {t \in Waiting : Pattern[hs[t]] \in buf}
    IN IF ~ctlUp THEN UNCHANGED <<hs, matchBuf>>
       ELSE /\ hs' = [t \in Tasks |-> IF t \in hit THEN Answered[hs[t]] ELSE hs[t]]
            /\ matchBuf' = IF hit = {} THEN buf ELSE Emptied(buf)

\* The timer of a pending wait; the generation tells an old timer from a new.
Timeout(t) ==
    /\ ~trapped
    /\ hs[t] \in Waits
    /\ hs' = [hs EXCEPT ![t] = TimedOut[hs[t]]]
    /\ UNCHANGED <<phase, ctlUp, matchBuf, cmds, sim, sav, trapped, late, idled, crossed>>

\* send(): without a connection the bytes go nowhere.
Sent(lines) == IF ctlUp THEN cmds \o lines ELSE cmds

-----------------------------------------------------------------------------
(* background() and foreground().                                          *)

AppFrame == ~trapped /\ UNCHANGED <<ctlUp, sim, trapped, idled>>

CanSuspend == phase = "up" /\ ctlUp

\* Mutant: the phase is left for the task to set, as foreground() does.
PhaseLate(t) ==
    /\ AppFrame
    /\ hs[t] = "off" /\ CanSuspend /\ Len(cmds) <= MaxCmds
    /\ cmds' = Sent(<<"wru">>)
    /\ WaitFor(t, "bgSim")
    /\ UNCHANGED <<phase, sav, late, crossed>>

Background(t) ==
    /\ AppFrame
    /\ hs[t] = "off" /\ CanSuspend /\ Len(cmds) <= MaxCmds
    /\ phase' = "pausing"
    /\ cmds' = Sent(<<"wru">>)
    /\ WaitFor(t, "bgSim")
    /\ UNCHANGED <<sav, late, crossed>>

\* sim> was seen: save, and an echo whose output marks its completion.
BackgroundSave(t) ==
    /\ AppFrame
    /\ hs[t] = "bgSimOk"
    /\ cmds' = Sent(<<"save", "echo">>)
    /\ WaitFor(t, "bgSav")
    /\ UNCHANGED <<phase, sav, late, crossed>>

\* Mutant: no answer to ^E leaves the phase at .pausing.
PausingKept(t) ==
    /\ AppFrame
    /\ hs' = [hs EXCEPT ![t] = "off"]
    /\ \/ hs[t] = "bgSimTo" /\ UNCHANGED <<phase, cmds, late>>
       \/ hs[t] = "bgSavOk" /\ phase' = "paused" /\ UNCHANGED <<cmds, late>>
    /\ UNCHANGED <<matchBuf, sav, crossed>>

\* The three ways it returns after its guard.
BackgroundEnds(t) ==
    /\ AppFrame
    /\ hs' = [hs EXCEPT ![t] = "off"]
    /\ \/ hs[t] = "bgSimTo" /\ phase' = "up" /\ UNCHANGED <<cmds, late>>
       \/ hs[t] = "bgSavOk" /\ phase' = "paused" /\ UNCHANGED <<cmds, late>>
       \/ hs[t] = "bgSavTo" /\ phase' = "up" /\ late' = TRUE
                            /\ cmds' = Sent(<<"continue">>)
    /\ UNCHANGED <<matchBuf, sav, crossed>>

\* foreground() only schedules its task: the phase stays .paused.
Foreground(t) ==
    /\ AppFrame
    /\ hs[t] = "off" /\ phase = "paused" /\ Len(cmds) <= MaxCmds
    /\ hs' = [hs EXCEPT ![t] = "fgNew"]
    /\ crossed' = (crossed \/ \E u \in Tasks : hs[u] # "off")
    /\ UNCHANGED <<phase, matchBuf, cmds, sav, late>>

\* Mutant: the task waits for an answer it never asked for.
ContinueUnsent(t) ==
    /\ AppFrame
    /\ hs[t] = "fgNew"
    /\ WaitFor(t, "fgRun")
    /\ UNCHANGED <<phase, cmds, sav, late, crossed>>

ForegroundContinue(t) ==
    /\ AppFrame
    /\ hs[t] = "fgNew"
    /\ cmds' = Sent(<<"continue">>)
    /\ WaitFor(t, "fgRun")
    /\ UNCHANGED <<phase, sav, late, crossed>>

\* Mutant: consumeSnapshot() is forgotten.
SnapshotLeft(t) ==
    /\ AppFrame
    /\ hs[t] \in {"fgRunOk", "fgRunTo"} /\ hs' = [hs EXCEPT ![t] = "off"]
    /\ phase' = "up"
    /\ UNCHANGED <<matchBuf, cmds, sav, late, crossed>>

\* One retry without an acknowledgement; consumeSnapshot(); phase = .up.
ForegroundEnds(t) ==
    /\ AppFrame
    /\ \/ hs[t] = "fgRunOk" /\ UNCHANGED cmds
       \/ hs[t] = "fgRunTo" /\ cmds' = Sent(<<"continue">>)
    /\ hs' = [hs EXCEPT ![t] = "off"]
    /\ sav' = "none" /\ phase' = "up"
    /\ UNCHANGED <<matchBuf, late, crossed>>

\* A second expectation while one is pending fails the precondition.
Trap(t) ==
    /\ ~trapped
    /\ Waiting \ {t} # {}
    /\ hs[t] \in {"fgNew", "bgSimOk"} \/ (hs[t] = "off" /\ CanSuspend)
    /\ trapped' = TRUE
    /\ UNCHANGED <<phase, hs, ctlUp, matchBuf, cmds, sim, sav, late, idled, crossed>>

\* simh_vax780_run() has returned: simhExited() closes the links.
SimhExited ==
    /\ ~trapped
    /\ sim = "dead" /\ sim' = "gone"
    /\ ctlUp' = FALSE /\ cmds' = <<>> /\ phase' = "failed"
    /\ UNCHANGED <<hs, matchBuf, sav, trapped, late, idled, crossed>>

-----------------------------------------------------------------------------
(* SIMH, from how the app drives it.                                       *)

SimFrame == ~trapped /\ UNCHANGED <<phase, ctlUp, trapped, late, crossed>>

\* One command line.  ^E stops a running VAX; save and continue are allowed
\* in the command mode it enters.
RemoteConsole ==
    /\ SimFrame
    /\ cmds # <<>>
    /\ UNCHANGED idled
    /\ \/ /\ sim \in {"run", "stopped"} /\ Head(cmds) = "wru"
          /\ sim' = "stopped" /\ cmds' = Tail(cmds) /\ Deliver({"sim>"})
          /\ UNCHANGED sav
       \/ /\ sim = "stopped" /\ Head(cmds) = "save"          \* the file is opened
          /\ sim' = "saving" /\ sav' = "torn"
          /\ UNCHANGED <<cmds, hs, matchBuf>>
       \/ /\ sim = "saving"                                  \* and complete
          /\ sim' = "stopped" /\ cmds' = Tail(cmds)
          /\ sav' = IF sav = "none" THEN "none" ELSE "good"
          /\ UNCHANGED <<hs, matchBuf>>
       \/ /\ sim \in {"run", "stopped"} /\ Head(cmds) = "echo"
          /\ cmds' = Tail(cmds) /\ Deliver({"SAVED"})
          /\ UNCHANGED <<sim, sav>>
       \/ /\ sim = "stopped" /\ Head(cmds) = "continue"
          /\ sim' = "run" /\ cmds' = Tail(cmds) /\ Deliver({"Running"})
          /\ UNCHANGED sav
       \/ /\ sim = "run" /\ Head(cmds) \in {"save", "continue"}   \* refused
          /\ cmds' = Tail(cmds) /\ UNCHANGED <<sim, sav, hs, matchBuf>>

\* In command mode sim> is printed before a read, at a time of SIMH's own.
Prompt ==
    /\ SimFrame
    /\ sim = "stopped"
    /\ Deliver({"sim>"})
    /\ UNCHANGED <<cmds, sim, sav, idled>>

\* `set remote timeout=600': command mode left idle continues by itself.  Ten
\* minutes outlast every wait of a task (8 s and 30 s).
IdleContinue ==
    /\ SimFrame
    /\ sim = "stopped" /\ cmds = <<>> /\ \A t \in Tasks : hs[t] = "off"
    /\ sim' = "run" /\ idled' = TRUE
    /\ Deliver({"Running"})
    /\ UNCHANGED <<cmds, sav>>

GuestWrites ==
    /\ SimFrame
    /\ sim = "run" /\ sav = "good"
    /\ sav' = "stale"
    /\ UNCHANGED <<hs, matchBuf, cmds, sim, idled>>

SimDies ==
    /\ SimFrame
    /\ sim \in {"run", "stopped", "saving"}
    /\ sim' = "dead"
    /\ UNCHANGED <<hs, matchBuf, cmds, sav, idled>>

-----------------------------------------------------------------------------
Task(t) ==
    \/ BackgroundSave(t) \/ BackgroundEnds(t)
    \/ ForegroundContinue(t) \/ ForegroundEnds(t)
    \/ (hs[t] # "off" /\ Trap(t))

Next ==
    \/ \E t \in Tasks : Background(t) \/ Foreground(t) \/ Task(t) \/ Timeout(t)
                        \/ (hs[t] = "off" /\ Trap(t))
    \/ SimhExited
    \/ RemoteConsole \/ Prompt \/ IdleContinue \/ GuestWrites \/ SimDies

\* Continuations that were resumed run, pending timers fire, simhExited() is
\* delivered, and SIMH reads its remote console.  Nothing makes the user
\* resume, and the ten minutes of an idle console are not counted on.
Fairness ==
    /\ \A t \in Tasks : WF_vars(Task(t)) /\ WF_vars(Timeout(t))
    /\ WF_vars(SimhExited)
    /\ WF_vars(RemoteConsole)

Spec == Init /\ [][Next]_vars /\ Fairness

-----------------------------------------------------------------------------
(* Properties.                                                             *)

\* A paused machine that nobody is resuming is stopped, with a complete
\* snapshot of it on disk and nothing left to execute: what background()
\* took for "SAVED" was the answer to its own save.  The exceptions are what
\* an unanswered save, the idle timeout and a second resume leave behind.
SavedWhilePaused ==
    /\ phase = "paused" /\ \A t \in Tasks : hs[t] \in {"off", "fgNew"}
    /\ ~late /\ ~idled /\ ~crossed
    => sim \in {"stopped", "dead", "gone"} /\ sav = "good" /\ cmds = <<>>

\* A machine that is up has no snapshot, unless a wait for "SAVED" was given
\* up or two resumes crossed: foreground() consumed it, acknowledged or not.
NoSnapshotUp == phase = "up" /\ ~late /\ ~crossed => sav = "none"

\* The phase keeps calls apart: the precondition of ConsoleLink.waitFor() can
\* only fail once a resume has been asked for during another call.
WaitsAlone == trapped => crossed

\* A foreground() that has begun gets the VAX off its prompt, without the
\* help of the idle timeout.
ResumeTakesEffect ==
    \A t \in Tasks : hs[t] = "fgNew" ~> (sim \in {"run", "dead", "gone"} \/ trapped)

\* Callers may think of background() and foreground() as MachinePhase does:
\* every step of the handshake moves the phase as it says or not at all, and
\* both calls end whatever SIMH answers.
Call(h) == CASE h = "off" -> "off"
             [] h \in {"fgNew", "fgRun", "fgRunOk", "fgRunTo"} -> "fg"
             [] OTHER -> "bg"
Abstract == INSTANCE MachinePhase WITH op <- [t \in Tasks |-> Call(hs[t])], live <- ctlUp
ImplementsPhase == Abstract!Spec
=============================================================================
