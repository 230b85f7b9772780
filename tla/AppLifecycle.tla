----------------------------- MODULE AppLifecycle ----------------------------
(***************************************************************************)
(* Who suspends and resumes the machine: the scenePhase handlers that each *)
(* window has on iOS, the Suspend and Resume menus and the deferred quit   *)
(* of the Mac, all in app/ipnx/IpnxApp.swift, with unmountShares() and     *)
(* mountShares() of Session.swift.  The machine is module MachinePhase,    *)
(* which Suspend implements.                                               *)
(*                                                                         *)
(* A caller is a task in a slot: it drops the host shares, which takes     *)
(* seconds of typing at a spare terminal line, and then calls              *)
(* background(), whose guard it meets in the state of that time.           *)
(*                                                                         *)
(* Abstractions.                                                           *)
(*  - unmountShares() is best effort: the guest may or may not let go of   *)
(*    the shares while it runs, and the call returns either way.           *)
(*  - While the Mac waits for the reply to its quit it takes no menus.     *)
(*  - Screens and transcripts are left out.                                *)
(***************************************************************************)
CONSTANTS
    Slots,      \* bound: calls in flight
    Windows     \* iOS: windows, each with an onChange(of: scenePhase)

VARIABLES
    phase, op, live, trapped,   \* of MachinePhase
    job,      \* job[s]: "off", "drop" (before background()), "pause" or
              \* "resume" (in flight), and "quitDrop", "quitPause"
    scene,    \* the app's scenePhase: "active" or "background"
    seen,     \* seen[w]: the phase that window w's handler was last run for
    shares,   \* the guest has the host shares mounted
    quit,     \* "no", "later", "replied" or "now": terminateNow
    mac,      \* the platform: macOS, or else iOS
    twice,    \* history: a resume was asked for while a call was in flight
    overtaken \* history: the app came back while a task of it was under way

machine == <<phase, op, live, trapped>>
history == <<mac, twice, overtaken>>
app     == <<job, scene, seen, shares, quit, mac, twice, overtaken>>
vars    == <<phase, op, live, trapped, job, scene, seen, shares, quit, mac, twice, overtaken>>

P == INSTANCE MachinePhase WITH Tasks <- Slots

Scenes == {"active", "background"}
Drops  == {"drop", "quitDrop"}

\* The type invariant: also that no answer to a quit but Cocoa's is given.
TypeOK ==
    /\ P!TypeOK
    /\ job \in [Slots -> {"off", "pause", "resume", "quitPause"} \cup Drops]
    /\ scene \in Scenes /\ seen \in [Windows -> Scenes]
    /\ shares \in BOOLEAN
    /\ quit \in {"no", "later", "replied", "now"}
    /\ mac \in BOOLEAN /\ twice \in BOOLEAN /\ overtaken \in BOOLEAN

Init ==
    /\ P!Init
    /\ job = [s \in Slots |-> "off"]
    /\ scene = "active" /\ seen = [w \in Windows |-> "active"]
    /\ shares = TRUE
    /\ quit = "no" /\ mac \in BOOLEAN /\ twice = FALSE /\ overtaken = FALSE

Running == ~trapped /\ quit \notin {"replied", "now"}
Take(s, j) == job[s] = "off" /\ job' = [job EXCEPT ![s] = j]
Become(s, j) == job' = [job EXCEPT ![s] = j]

\* foreground() past its guard.
Resume == /\ \E s \in Slots : P!Foreground(s) /\ Take(s, "resume")
          /\ twice' = (twice \/ P!InFlight # {}) /\ UNCHANGED mac

-----------------------------------------------------------------------------
(* iOS.                                                                    *)

SceneChanges ==
    /\ Running /\ ~mac
    /\ scene' \in Scenes \ {scene}
    /\ \A w \in Windows : seen[w] = scene
    /\ UNCHANGED <<machine, job, seen, shares, quit, history>>

\* .background: a task that unmounts and then suspends.
OnBackground(w) ==
    /\ Running
    /\ scene = "background" /\ seen[w] # scene
    /\ seen' = [seen EXCEPT ![w] = scene]
    /\ \E s \in Slots : Take(s, "drop")
    /\ UNCHANGED <<machine, scene, shares, quit, history>>

\* Mutant: the return to the front is left to the Resume menu.
ActiveIgnored(w) ==
    /\ Running
    /\ scene = "active" /\ seen[w] # scene
    /\ seen' = [seen EXCEPT ![w] = scene]
    /\ overtaken' = (overtaken \/ \E s \in Slots : job[s] # "off")
    /\ UNCHANGED <<machine, job, scene, shares, quit, mac, twice>>

\* .active: foreground(), which does nothing unless the phase is .paused.
OnActive(w) ==
    /\ Running
    /\ scene = "active" /\ seen[w] # scene
    /\ seen' = [seen EXCEPT ![w] = scene]
    /\ overtaken' = (overtaken \/ \E s \in Slots : job[s] # "off")
    /\ \/ phase = "paused" /\ Resume
       \/ phase # "paused" /\ UNCHANGED <<machine, job, mac, twice>>
    /\ UNCHANGED <<scene, shares, quit>>

-----------------------------------------------------------------------------
(* macOS.                                                                  *)

MenuFrame == Running /\ mac /\ quit = "no" /\ UNCHANGED <<scene, seen, shares>>

SuspendMenu ==
    /\ MenuFrame
    /\ \E s \in Slots : P!Background(s) /\ Take(s, "pause")
    /\ UNCHANGED <<quit, history>>

ResumeMenu ==
    /\ MenuFrame
    /\ Resume
    /\ UNCHANGED <<quit, overtaken>>

\* Mutant: the quit is deferred for any machine with a control channel.
AnyLive == live
\* machine.canSuspend
CanSuspend == P!CanSuspend

\* applicationShouldTerminate().
Quit ==
    /\ MenuFrame
    /\ \/ CanSuspend /\ quit' = "later" /\ \E s \in Slots : Take(s, "quitDrop")
       \/ ~CanSuspend /\ quit' = "now" /\ UNCHANGED job
    /\ UNCHANGED <<machine, history>>

-----------------------------------------------------------------------------
(* The tasks.                                                              *)

\* The guest lets go of the shares: the spare line's shell ran the unmount.
Unmount ==
    /\ Running
    /\ phase = "up" /\ shares /\ shares' = FALSE
    /\ \E s \in Slots : job[s] \in Drops
    /\ UNCHANGED <<machine, job, scene, seen, quit, history>>

\* What its caller does when the call in slot s has come back.
Returned(s) ==
    /\ Become(s, "off")
    /\ quit' = IF job[s] \in {"quitDrop", "quitPause"} THEN "replied" ELSE quit

\* unmountShares() returns and background() is called: past its guard, or
\* back at once.
CallBackground(s) ==
    /\ Running
    /\ job[s] \in Drops
    /\ \/ /\ P!Background(s)
          /\ Become(s, IF job[s] = "drop" THEN "pause" ELSE "quitPause")
          /\ UNCHANGED quit
       \/ /\ ~P!CanSuspend /\ UNCHANGED machine
          /\ Returned(s)
    /\ UNCHANGED <<scene, seen, shares, history>>

\* Mutant: the reply to the quit is only sent for a machine that was saved.
RepliedIfSaved(s) ==
    /\ Running
    /\ P!Ends(s)
    /\ Become(s, "off")
    /\ quit' = IF job[s] = "quitPause" /\ phase' = "paused" THEN "replied" ELSE quit
    /\ UNCHANGED <<scene, seen, shares, history>>

\* Mutant: the task goes on only after a successful save.
TokenKept(s) ==
    /\ Running
    /\ P!Ends(s)
    /\ IF phase' = "paused" \/ op[s] = "fg" THEN Returned(s) ELSE UNCHANGED <<job, quit>>
    /\ UNCHANGED <<scene, seen, shares, history>>

CallEnds(s) ==
    /\ Running
    /\ P!Ends(s)
    /\ Returned(s)
    /\ UNCHANGED <<scene, seen, shares, history>>

Trap(s) ==
    /\ Running
    /\ P!Trap(s) /\ job[s] # "off"
    /\ UNCHANGED app

SimhExited == Running /\ P!Fail /\ UNCHANGED app

Task(s) == CallBackground(s) \/ CallEnds(s) \/ Trap(s)

Next ==
    \/ SceneChanges \/ \E w \in Windows : OnBackground(w) \/ OnActive(w)
    \/ SuspendMenu \/ ResumeMenu \/ Quit
    \/ Unmount \/ SimhExited \/ \E s \in Slots : Task(s)

\* Tasks come to their end (MachinePhase) and handlers are run.
Fairness ==
    /\ \A s \in Slots : WF_vars(Task(s))
    /\ \A w \in Windows : WF_vars(OnBackground(w) \/ OnActive(w))

Spec == Init /\ [][Next]_vars /\ Fairness

-----------------------------------------------------------------------------
(* Properties.                                                             *)

\* Every caller gets its answer: the iOS background task is ended, and the
\* quit of the Mac is replied to, whatever the machine does meanwhile.
CallersReturn ==
    /\ \A s \in Slots : job[s] # "off" ~> (job[s] = "off" \/ ~Running)
    /\ quit = "later" ~> (quit = "replied" \/ trapped)

\* The reply to a deferred quit is not sent into a handshake under way, its
\* own or one that the menu had begun (two resumes at once aside: they stop
\* the process, see WaitsAlone of Suspend).
QuitSettled ==
    quit = "replied" /\ ~twice => \A s \in Slots : op[s] = "off"

\* An app in front, its handlers run and its tasks done, is not left with a
\* paused machine, unless it came back before such a task had ended.
ActiveUnlessOvertaken ==
    /\ ~mac /\ scene = "active" /\ \A w \in Windows : seen[w] = scene
    /\ live /\ \A s \in Slots : job[s] = "off"
    /\ ~overtaken
    => phase # "paused"

\* `this is what puts them back': a resumed machine has its shares again.
SharesReturn ==
    (\E s \in Slots : job[s] = "resume") ~>
        (shares \/ scene = "background" \/ ~live \/ trapped)
=============================================================================
