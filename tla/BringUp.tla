------------------------------- MODULE BringUp -------------------------------
(***************************************************************************)
(* The start of a machine in one life of the process: start(), bringUp(),  *)
(* launchSimhThread() and simhExited() of app/ipnx/Machine.swift, with     *)
(* connect(), waitFor() and waitForAnyOutput() of ConsoleLink.swift.       *)
(*                                                                         *)
(* start() only schedules a bringUp() task.  A second one exists after the *)
(* one restart that simhExited() allows, and the first is then not         *)
(* cancelled: it goes on from the await it is suspended at, in a machine   *)
(* that is no longer its own.  Task r launches simulator r.                *)
(*                                                                         *)
(* Abstractions.                                                           *)
(*  - provision() is one step with the outcome it returns, or a throw;     *)
(*    module Media has its files.                                          *)
(*  - A wait whose continuation has been resumed is named "...Ok" or       *)
(*    "...To" until the task runs; a timer may fire while it is pending.   *)
(***************************************************************************)
EXTENDS Naturals

Runs == {1, 2}    \* the launch and the one restart

VARIABLES
    phase,      \* Machine.phase
    started,    \* Machine.started
    restarted,  \* Machine.restartedAfterFailedRestore
    sav,        \* state.sav exists
    bu,         \* bu[r]: where the r-th bringUp() task is
    resuming,   \* resuming[r]: what its provision() returned
    sim,        \* sim[r]: "none", "config", "run", "dead" or "gone"
    guest,      \* what the VAX does: "none", "boot", "ready" or "garbage"
    conUp,      \* console.isConnected
    served,     \* SIMH serves the connection that `console' holds
    ctlUp,      \* control.isConnected
    login,      \* the console's match buffer holds "login:"
    aborted     \* the process called abort()

bringUp == <<phase, started, restarted, sav, bu, resuming, sim, guest, conUp, served,
             ctlUp, login, aborted>>

Phases == {"idle", "provisioning", "starting", "booting", "restoring", "up", "failed"}
Steps  == {"off", "sched", "provision", "console", "control", "poke", "probe",
           "probeOk", "probeTo", "login", "loginOk", "loginTo", "done"}

\* The type invariant.  onRestored, which Ends calls for a probe that answers,
\* changes nothing here: module Lines has what its handler does.
BringUpTypeOK ==
    /\ phase \in Phases
    /\ started \in BOOLEAN /\ restarted \in BOOLEAN /\ sav \in BOOLEAN
    /\ bu \in [Runs -> Steps]
    /\ resuming \in [Runs -> BOOLEAN]
    /\ sim \in [Runs -> {"none", "config", "run", "dead", "gone"}]
    /\ guest \in {"none", "boot", "ready", "garbage"}
    /\ conUp \in BOOLEAN /\ served \in BOOLEAN /\ ctlUp \in BOOLEAN
    /\ login \in BOOLEAN /\ aborted \in BOOLEAN

BringUpInit ==
    /\ phase = "idle" /\ started = FALSE /\ restarted = FALSE
    /\ sav \in BOOLEAN
    /\ bu = [r \in Runs |-> "off"]
    /\ resuming = [r \in Runs |-> FALSE]
    /\ sim = [r \in Runs |-> "none"] /\ guest = "none"
    /\ conUp = FALSE /\ served = FALSE /\ ctlUp = FALSE /\ login = FALSE
    /\ aborted = FALSE

Goto(r, l) == bu' = [bu EXCEPT ![r] = l]
links      == <<conUp, served, ctlUp, login>>

\* Simulators whose thread has not returned.
Alive     == {r \in Runs : sim[r] \in {"config", "run"}}
\* Both ports answer once SIMH has executed its config.
Listening == \E r \in Runs : sim[r] = "run"

-----------------------------------------------------------------------------
(* start() and bringUp().                                                  *)

\* Mutant: the guard that let two windows in (the phase leaves .idle late).
IdleGuard == phase = "idle"
\* guard !started
MayStart == ~started

\* Schedule the next bringUp().
Schedule ==
    \E r \in Runs : /\ bu[r] = "off" /\ \A q \in Runs : q < r => bu[q] # "off"
                    /\ Goto(r, "sched")

\* start(), from the onAppear of any window.
StartMachine ==
    /\ ~aborted /\ MayStart
    /\ started' = TRUE
    /\ Schedule
    /\ UNCHANGED <<phase, restarted, sav, resuming, sim, guest, links, aborted>>

AppFrame == ~aborted /\ UNCHANGED <<started, restarted, sim, guest, aborted>>

Begin(r) ==
    /\ AppFrame
    /\ bu[r] = "sched"
    /\ phase' = "provisioning" /\ Goto(r, "provision")
    /\ UNCHANGED <<sav, resuming, links>>

\* provision() throws, or a simulator is launched with the config it chose.
Provision(r) ==
    /\ ~aborted
    /\ bu[r] = "provision"
    /\ \/ phase' = "failed" /\ Goto(r, "done") /\ UNCHANGED <<resuming, sim>>
       \/ /\ phase' = "starting" /\ Goto(r, "console")
          /\ resuming' = [resuming EXCEPT ![r] = sav]
          /\ sim' = [sim EXCEPT ![r] = "config"]
    /\ UNCHANGED <<started, restarted, sav, guest, links, aborted>>

\* console.connect(): only its entry looks whether there is a connection, so
\* a dial that began before replaces one made since, and SIMH, which serves
\* one console, keeps the first or the second.
ConnectConsole(r) ==
    /\ AppFrame
    /\ bu[r] = "console"
    /\ \/ conUp /\ UNCHANGED served
       \/ Listening /\ served' \in {TRUE, ~conUp}
    /\ conUp' = TRUE /\ Goto(r, "control")
    /\ UNCHANGED <<phase, sav, resuming, ctlUp, login>>

\* control.connect(), then .restoring or .booting.  waitFor("login:") looks
\* into the match buffer first.
ConnectControl(r) ==
    /\ AppFrame
    /\ bu[r] = "control" /\ (ctlUp \/ Listening)
    /\ ctlUp' = TRUE
    /\ IF resuming[r] THEN /\ phase' = "restoring" /\ Goto(r, "poke")
                           /\ UNCHANGED login
       ELSE /\ phase' = "booting" /\ Goto(r, IF login THEN "loginOk" ELSE "login")
            /\ login' = FALSE
    /\ UNCHANGED <<sav, resuming, conUp, served>>

\* Sixty dials without an answer.
ConnectFails(r) ==
    /\ AppFrame
    /\ bu[r] \in {"console", "control"}
    /\ phase' = "failed" /\ Goto(r, "done")
    /\ UNCHANGED <<sav, resuming, links>>

\* 1.5 s later: a carriage return, and waitForAnyOutput().
Poke(r) ==
    /\ AppFrame
    /\ bu[r] = "poke" /\ Goto(r, "probe")
    /\ UNCHANGED <<phase, sav, resuming, links>>

\* The timer of waitForAnyOutput() or of waitFor("login:").
WaitTimeout(r) ==
    /\ AppFrame
    /\ \/ bu[r] = "probe" /\ Goto(r, "probeTo")
       \/ bu[r] = "login" /\ Goto(r, "loginTo")
    /\ UNCHANGED <<phase, sav, resuming, links>>

\* Mutant: a failed probe leaves the phase at .restoring.
ProbeForgotten(r) ==
    /\ AppFrame
    /\ Goto(r, "done")
    /\ \/ bu[r] = "probeOk" /\ phase' = "up" /\ sav' = FALSE
       \/ bu[r] = "probeTo" /\ sav' = FALSE /\ UNCHANGED phase
       \/ bu[r] = "loginOk" /\ phase' = "up" /\ UNCHANGED sav
       \/ bu[r] = "loginTo" /\ phase' = "failed" /\ UNCHANGED sav
    /\ UNCHANGED <<resuming, links>>

\* bringUp() resumed from its last wait.
Ends(r) ==
    /\ AppFrame
    /\ Goto(r, "done")
    /\ \/ bu[r] = "probeOk" /\ phase' = "up" /\ sav' = FALSE
       \/ bu[r] = "probeTo" /\ phase' = "failed" /\ sav' = FALSE
       \/ bu[r] = "loginOk" /\ phase' = "up" /\ UNCHANGED sav
       \/ bu[r] = "loginTo" /\ phase' = "failed" /\ UNCHANGED sav
    /\ UNCHANGED <<resuming, links>>

\* Mutant: any output, not only the prompt, ends the wait for "login:".
AnyOutput(prompt) == TRUE
\* find("login:", in: matchBuf)
IsLogin(prompt) == prompt

\* Bytes of the guest reach consume() of the console link.
ConsoleOutput ==
    /\ AppFrame
    /\ conUp /\ served /\ Listening /\ guest \in {"boot", "ready"}
    /\ \E prompt \in {FALSE} \cup (IF guest = "ready" THEN {TRUE} ELSE {}) :
        /\ bu' = [r \in Runs |->
                    IF bu[r] = "probe" THEN "probeOk"
                    ELSE IF bu[r] = "login" /\ IsLogin(prompt) THEN "loginOk" ELSE bu[r]]
        /\ login' = IF \E r \in Runs : bu[r] = "login" THEN login /\ ~prompt
                                                       ELSE login \/ prompt
    /\ UNCHANGED <<phase, sav, resuming, conUp, served, ctlUp>>

\* simhExited(): both links are closed.  A restore that failed is dropped and
\* the machine started over, once; the old bringUp() is not told.
SimhExited(r) ==
    /\ ~aborted
    /\ sim[r] = "dead" /\ sim' = [sim EXCEPT ![r] = "gone"]
    /\ conUp' = FALSE /\ ctlUp' = FALSE /\ served' = FALSE
    /\ LET again == phase \in {"restoring", "starting"} /\ ~restarted /\ sav
       IN \/ /\ again /\ restarted' = TRUE /\ sav' = FALSE /\ phase' = "idle"
             /\ started' = TRUE /\ Schedule
          \/ /\ ~again /\ phase' = "failed"
             /\ UNCHANGED <<restarted, sav, started, bu>>
    /\ UNCHANGED <<resuming, guest, login, aborted>>

-----------------------------------------------------------------------------
(* The SIMH thread, from how the app drives it.                            *)

SimFrame == /\ ~aborted
            /\ UNCHANGED <<phase, started, restarted, sav, bu, resuming, links>>

\* boot.conf boots; resume.conf restores the session, or garbage.
SimhStarts(r) ==
    /\ SimFrame
    /\ sim[r] = "config" /\ sim' = [sim EXCEPT ![r] = "run"]
    /\ guest' \in (IF resuming[r] THEN {"ready", "garbage"} ELSE {"boot"})
    /\ UNCHANGED aborted

\* The guest reaches its login prompt.
GuestReady ==
    /\ SimFrame
    /\ Listening /\ guest = "boot" /\ guest' = "ready"
    /\ UNCHANGED <<sim, aborted>>

SimDies(r) ==
    /\ SimFrame
    /\ r \in Alive /\ sim' = [sim EXCEPT ![r] = "dead"]
    /\ UNCHANGED <<guest, aborted>>

\* simh_main a second time in one process: its globals are not
\* reinitialised, and sim_cancel may call abort().
SimAborts(r) ==
    /\ SimFrame
    /\ sim[r] = "config" /\ \E q \in Runs \ {r} : sim[q] # "none"
    /\ aborted' = TRUE
    /\ UNCHANGED <<sim, guest>>

-----------------------------------------------------------------------------
Task(r) ==
    \/ Begin(r) \/ Provision(r) \/ Poke(r) \/ Ends(r)
    \/ ConnectConsole(r) \/ ConnectControl(r) \/ ConnectFails(r) \/ WaitTimeout(r)

BringUpNext ==
    \/ StartMachine \/ ConsoleOutput \/ GuestReady
    \/ \E r \in Runs : Task(r) \/ SimhExited(r) \/ SimhStarts(r) \/ SimDies(r)
                       \/ SimAborts(r)

\* Tasks run, their dials and timers end, and simhExited() is delivered.
BringUpFairness == \A r \in Runs : WF_bringUp(Task(r)) /\ WF_bringUp(SimhExited(r))

BringUpSpec == BringUpInit /\ [][BringUpNext]_bringUp /\ BringUpFairness

-----------------------------------------------------------------------------
(* Properties.                                                             *)

\* Two simulators never share the disk: start() and the restart launch the
\* second only after simhExited() of the first.
OneSimulator == \A q, r \in Alive : q = r

\* .up means that the guest was seen to answer, as long as the process has
\* not been through the restart.
UpIsReady == phase = "up" /\ ~restarted => guest = "ready"

\* A machine that was started is up or has failed in the end, whatever SIMH
\* does, if the process lives.
StartEnds == started ~> (phase \in {"up", "failed"} \/ aborted)
=============================================================================
