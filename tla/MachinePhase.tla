---------------------------- MODULE MachinePhase -----------------------------
(***************************************************************************)
(* What background() and foreground() of app/ipnx/Machine.swift promise    *)
(* their callers, without the handshake behind them: how Machine.phase     *)
(* moves, and that every call comes to an end.  Module Suspend, which has  *)
(* the handshake, is checked to implement this specification; module       *)
(* AppLifecycle builds the callers on it.                                  *)
(***************************************************************************)
CONSTANT Tasks    \* calls that may be in flight together

VARIABLES
    phase,    \* Machine.phase: "up", "pausing", "paused" or "failed"
    op,       \* op[t]: "off", or the call in flight in slot t: "bg" or "fg"
    live,     \* control.isConnected: simhExited() has not come
    trapped   \* ConsoleLink's precondition stopped the process

\* The type invariant of what callers see.
TypeOK ==
    /\ phase \in {"up", "pausing", "paused", "failed"}
    /\ op \in [Tasks -> {"off", "bg", "fg"}]
    /\ live \in BOOLEAN /\ trapped \in BOOLEAN

Init ==
    /\ phase = "up" /\ op = [t \in Tasks |-> "off"]
    /\ live = TRUE /\ trapped = FALSE

CanSuspend == phase = "up" /\ live

InFlight == {t \in Tasks : op[t] # "off"}

\* The guard is passed: without one of its own a call returns at once.
Background(t) ==
    /\ ~trapped /\ op[t] = "off" /\ CanSuspend
    /\ phase' = "pausing" /\ op' = [op EXCEPT ![t] = "bg"]
    /\ UNCHANGED <<live, trapped>>

BackgroundEnds(t) ==
    /\ ~trapped /\ op[t] = "bg"
    /\ phase' \in {"paused", "up"} /\ op' = [op EXCEPT ![t] = "off"]
    /\ UNCHANGED <<live, trapped>>

Foreground(t) ==
    /\ ~trapped /\ op[t] = "off" /\ phase = "paused"
    /\ op' = [op EXCEPT ![t] = "fg"]
    /\ UNCHANGED <<phase, live, trapped>>

ForegroundEnds(t) ==
    /\ ~trapped /\ op[t] = "fg"
    /\ phase' = "up" /\ op' = [op EXCEPT ![t] = "off"]
    /\ UNCHANGED <<live, trapped>>

\* simhExited(): the calls in flight are not told.
Fail ==
    /\ ~trapped /\ live
    /\ live' = FALSE /\ phase' = "failed"
    /\ UNCHANGED <<op, trapped>>

\* A call that comes to wait while another one does.
Trap(t) ==
    /\ ~trapped
    /\ InFlight \ {t} # {} /\ (op[t] # "off" \/ CanSuspend)
    /\ trapped' = TRUE
    /\ UNCHANGED <<phase, op, live>>

Ends(t) == BackgroundEnds(t) \/ ForegroundEnds(t)

Next ==
    \/ \E t \in Tasks : Background(t) \/ Foreground(t) \/ Ends(t) \/ Trap(t)
    \/ Fail

\* A call in flight comes to its end, or to a wait it may not begin.
Fairness ==
    \A t \in Tasks : WF_<<phase, op, live, trapped>>(op[t] # "off" /\ (Ends(t) \/ Trap(t)))

Spec == Init /\ [][Next]_<<phase, op, live, trapped>> /\ Fairness
=============================================================================
