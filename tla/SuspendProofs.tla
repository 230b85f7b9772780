---------------------------- MODULE SuspendProofs ----------------------------
(***************************************************************************)
(* Proofs about module Suspend, for any number of calls in flight and any  *)
(* number of command lines unread.                                         *)
(***************************************************************************)
EXTENDS Suspend, SequenceTheorems, TLAPS

Calls == {"off"} \cup Waits \cup Resumed

\* WaitFor() leaves a well-formed link and a well-formed call.
LEMMA WaitForType ==
  ASSUME TypeOK, NEW t \in Tasks, NEW w \in Waits, WaitFor(t, w)
  PROVE  /\ hs' \in [Tasks -> Calls] /\ matchBuf' \subseteq Replies
         /\ \A u \in Tasks : u # t => hs'[u] = hs[u]
         /\ hs'[t] # "off"
  BY DEF TypeOK, WaitFor, Waits, Resumed, Calls, Answered, Emptied

\* What arrives may resume the calls that wait, and touches no others.
LEMMA DeliverType ==
  ASSUME TypeOK, NEW out \in SUBSET Replies, Deliver(out)
  PROVE  /\ hs' \in [Tasks -> Calls] /\ matchBuf' \subseteq Replies
         /\ \A u \in Tasks : hs'[u] = "off" <=> hs[u] = "off"
<1>1. CASE ~ctlUp
  BY <1>1 DEF TypeOK, Deliver, Calls
<1>2. CASE ctlUp
  <2> DEFINE buf == matchBuf \cup out
             hit == {t \in Waiting : Pattern[hs[t]] \in buf}
  <2>1. /\ hs' = [t \in Tasks |-> IF t \in hit THEN Answered[hs[t]] ELSE hs[t]]
        /\ matchBuf' = IF hit = {} THEN buf ELSE Emptied(buf)
    BY <1>2 DEF Deliver
  <2>2. matchBuf' \subseteq Replies
    BY <2>1 DEF TypeOK, Emptied
  <2>3. \A t \in hit : hs[t] \in Waits
    BY DEF Waiting
  <2>4. \A w \in Waits : Answered[w] \in Resumed
    BY DEF Waits, Resumed, Answered
  <2>5. \A t \in Tasks : hs[t] \in Calls
    BY DEF TypeOK, Calls
  <2>6. "off" \notin Resumed /\ "off" \notin Waits
    BY DEF Resumed, Waits
  <2>7. \A t \in Tasks : /\ hs'[t] \in Calls
                         /\ hs'[t] = "off" <=> hs[t] = "off"
    <3> TAKE t \in Tasks
    <3> HIDE DEF hit
    <3>1. CASE t \in hit
      BY <3>1, <2>1, <2>3, <2>4, <2>6 DEF Calls
    <3>2. CASE t \notin hit
      BY <3>2, <2>1, <2>5
    <3> QED
      BY <3>1, <3>2
  <2> QED
    BY <2>1, <2>2, <2>7
<1> QED
  BY <1>1, <1>2 DEF TypeOK

\* send() appends command lines to those that are unread.
LEMMA SentType ==
  ASSUME TypeOK
  PROVE  /\ Sent(<<"wru">>) \in Seq(Cmds)
         /\ Sent(<<"save", "echo">>) \in Seq(Cmds)
         /\ Sent(<<"continue">>) \in Seq(Cmds)
<1>1. <<"wru">> \in Seq(Cmds) /\ <<"save", "echo">> \in Seq(Cmds) /\ <<"continue">> \in Seq(Cmds)
  BY DEF Cmds
<1>2. cmds \in Seq(Cmds)
  BY DEF TypeOK
<1>3. ASSUME NEW lines \in Seq(Cmds) PROVE Sent(lines) \in Seq(Cmds)
  BY <1>2, ConcatProperties DEF Sent
<1> QED
  BY <1>1, <1>3

-----------------------------------------------------------------------------
(* The parts of the invariant.                                             *)

Flags == /\ ctlUp \in BOOLEAN /\ trapped \in BOOLEAN /\ late \in BOOLEAN
         /\ idled \in BOOLEAN /\ crossed \in BOOLEAN

Link == /\ hs \in [Tasks -> Calls]
        /\ matchBuf \subseteq Replies
        /\ cmds \in Seq(Cmds)

Files == /\ phase \in Phases
         /\ sim \in {"run", "stopped", "saving", "dead", "gone"}
         /\ sav \in {"none", "torn", "good", "stale"}

LEMMA TypeParts == TypeOK <=> Flags /\ Link /\ Files
  BY DEF TypeOK, Flags, Link, Files, Calls

\* Without crossing resumes there is one call in flight at a time, and while
\* there is one over a live link the phase lets no other in.
AloneInv ==
    ~crossed =>
      /\ ~trapped
      /\ \A t, u \in Tasks : hs[t] # "off" /\ hs[u] # "off" => t = u
      /\ \A t \in Tasks : hs[t] # "off" /\ ctlUp => phase # "up"

LEMMA InitAlone == Init => TypeOK /\ AloneInv
<1> SUFFICES ASSUME Init PROVE TypeOK /\ AloneInv
  OBVIOUS
<1>1. Flags
  BY Zenon DEF Init, Flags
<1>2. Link /\ Files
  BY DEF Init, Link, Files, Calls, Phases
<1>3. AloneInv
  BY DEF Init, AloneInv
<1> QED
  BY <1>1, <1>2, <1>3, TypeParts

LEMMA NextAlone == TypeOK /\ AloneInv /\ [Next]_vars => TypeOK' /\ AloneInv'
<1> SUFFICES ASSUME TypeOK, AloneInv, [Next]_vars PROVE TypeOK' /\ AloneInv'
  OBVIOUS
<1>0. Flags /\ Link /\ Files
  BY TypeParts
<1> SUFFICES Flags' /\ Link' /\ Files' /\ AloneInv'
  BY TypeParts DEF TypeOK, Flags, Link, Files, Calls
<1>1. ASSUME NEW t \in Tasks, Timeout(t) PROVE Flags' /\ Link' /\ Files' /\ AloneInv'
  <2> USE <1>0, <1>1 DEF Timeout
  <2>1. Flags'
    BY Zenon DEF Flags
  <2>2. Link'
    BY DEF Link, Calls, Waits, Resumed, TimedOut
  <2>3. Files'
    BY DEF Files
  <2>4. AloneInv'
    BY SMT DEF AloneInv, Waits
  <2> QED
    BY <2>1, <2>2, <2>3, <2>4
<1>2. ASSUME NEW t \in Tasks, Background(t) PROVE Flags' /\ Link' /\ Files' /\ AloneInv'
  <2> USE <1>0, <1>2 DEF Background, AppFrame, CanSuspend
  <2>w. /\ hs' \in [Tasks -> Calls] /\ matchBuf' \subseteq Replies
        /\ \A u \in Tasks : u # t => hs'[u] = hs[u]
        /\ hs'[t] # "off"
    BY WaitForType DEF Waits
  <2>1. Flags'
    BY Zenon DEF Flags
  <2>2. Link'
    BY <2>w, SentType DEF Link
  <2>3. Files'
    BY DEF Files, Phases
  <2>4. AloneInv'
    BY <2>w, SMT DEF AloneInv
  <2> QED
    BY <2>1, <2>2, <2>3, <2>4
<1>3. ASSUME NEW t \in Tasks, BackgroundSave(t) PROVE Flags' /\ Link' /\ Files' /\ AloneInv'
  <2> USE <1>0, <1>3 DEF BackgroundSave, AppFrame
  <2>w. /\ hs' \in [Tasks -> Calls] /\ matchBuf' \subseteq Replies
        /\ \A u \in Tasks : u # t => hs'[u] = hs[u]
        /\ hs'[t] # "off"
    BY WaitForType DEF Waits
  <2>1. Flags'
    BY Zenon DEF Flags
  <2>2. Link'
    BY <2>w, SentType DEF Link
  <2>3. Files'
    BY DEF Files
  <2>4. AloneInv'
    BY <2>w, SMT DEF AloneInv
  <2> QED
    BY <2>1, <2>2, <2>3, <2>4
<1>4. ASSUME NEW t \in Tasks, BackgroundEnds(t) PROVE Flags' /\ Link' /\ Files' /\ AloneInv'
  <2> USE <1>0, <1>4 DEF BackgroundEnds, AppFrame
  <2>1. Flags'
    BY Zenon DEF Flags
  <2>2. Link'
    BY SentType DEF Link, Calls
  <2>3. Files'
    BY DEF Files, Phases
  <2>4. AloneInv'
    BY SMT DEF AloneInv, Link
  <2> QED
    BY <2>1, <2>2, <2>3, <2>4
<1>5. ASSUME NEW t \in Tasks, Foreground(t) PROVE Flags' /\ Link' /\ Files' /\ AloneInv'
  <2> USE <1>0, <1>5 DEF Foreground, AppFrame
  <2>1. Flags'
    BY Zenon DEF Flags
  <2>2. Link'
    BY DEF Link, Calls, Resumed
  <2>3. Files'
    BY DEF Files
  <2>c. ~crossed' => ~crossed /\ \A u \in Tasks : hs[u] = "off"
    BY Zenon
  <2>4. AloneInv'
    BY <2>c, SMT DEF AloneInv
  <2> QED
    BY <2>1, <2>2, <2>3, <2>4
<1>6. ASSUME NEW t \in Tasks, ForegroundContinue(t) PROVE Flags' /\ Link' /\ Files' /\ AloneInv'
  <2> USE <1>0, <1>6 DEF ForegroundContinue, AppFrame
  <2>w. /\ hs' \in [Tasks -> Calls] /\ matchBuf' \subseteq Replies
        /\ \A u \in Tasks : u # t => hs'[u] = hs[u]
        /\ hs'[t] # "off"
    BY WaitForType DEF Waits
  <2>1. Flags'
    BY Zenon DEF Flags
  <2>2. Link'
    BY <2>w, SentType DEF Link
  <2>3. Files'
    BY DEF Files
  <2>4. AloneInv'
    BY <2>w, SMT DEF AloneInv
  <2> QED
    BY <2>1, <2>2, <2>3, <2>4
<1>7. ASSUME NEW t \in Tasks, ForegroundEnds(t) PROVE Flags' /\ Link' /\ Files' /\ AloneInv'
  <2> USE <1>0, <1>7 DEF ForegroundEnds, AppFrame
  <2>1. Flags'
    BY Zenon DEF Flags
  <2>2. Link'
    BY SentType DEF Link, Calls
  <2>3. Files'
    BY DEF Files, Phases
  <2>4. AloneInv'
    BY SMT DEF AloneInv, Link
  <2> QED
    BY <2>1, <2>2, <2>3, <2>4
<1>8. ASSUME NEW t \in Tasks, Trap(t) PROVE Flags' /\ Link' /\ Files' /\ AloneInv'
  <2> USE <1>0, <1>8 DEF Trap, Waiting, CanSuspend
  <2>1. Flags'
    BY Zenon DEF Flags
  <2>2. Link'
    BY DEF Link
  <2>3. Files'
    BY DEF Files
  <2>4. AloneInv'
    BY SMT DEF AloneInv, Waits
  <2> QED
    BY <2>1, <2>2, <2>3, <2>4
<1>9. CASE SimhExited
  <2> USE <1>0, <1>9 DEF SimhExited
  <2>1. Flags'
    BY Zenon DEF Flags
  <2>2. Link'
    BY DEF Link
  <2>3. Files'
    BY DEF Files, Phases
  <2>4. AloneInv'
    BY SMT DEF AloneInv
  <2> QED
    BY <2>1, <2>2, <2>3, <2>4
<1>10. CASE RemoteConsole
  <2> USE <1>0, <1>10 DEF RemoteConsole, SimFrame
  <2>w. /\ hs' \in [Tasks -> Calls] /\ matchBuf' \subseteq Replies
        /\ \A u \in Tasks : hs'[u] = "off" <=> hs[u] = "off"
    BY DeliverType DEF Replies, Link
  <2>1. Flags'
    BY Zenon DEF Flags
  <2>2. Link'
    BY <2>w DEF Link
  <2>3. Files'
    BY DEF Files
  <2>4. AloneInv'
    BY <2>w, SMT DEF AloneInv
  <2> QED
    BY <2>1, <2>2, <2>3, <2>4
<1>11. CASE Prompt
  <2> USE <1>0, <1>11 DEF Prompt, SimFrame
  <2>w. /\ hs' \in [Tasks -> Calls] /\ matchBuf' \subseteq Replies
        /\ \A u \in Tasks : hs'[u] = "off" <=> hs[u] = "off"
    BY DeliverType DEF Replies, Link
  <2>1. Flags'
    BY Zenon DEF Flags
  <2>2. Link'
    BY <2>w DEF Link
  <2>3. Files'
    BY DEF Files
  <2>4. AloneInv'
    BY <2>w, SMT DEF AloneInv
  <2> QED
    BY <2>1, <2>2, <2>3, <2>4
<1>12. CASE IdleContinue
  <2> USE <1>0, <1>12 DEF IdleContinue, SimFrame
  <2>w. /\ hs' \in [Tasks -> Calls] /\ matchBuf' \subseteq Replies
        /\ \A u \in Tasks : hs'[u] = "off" <=> hs[u] = "off"
    BY DeliverType DEF Replies, Link
  <2>1. Flags'
    BY Zenon DEF Flags
  <2>2. Link'
    BY <2>w DEF Link
  <2>3. Files'
    BY DEF Files
  <2>4. AloneInv'
    BY <2>w, SMT DEF AloneInv
  <2> QED
    BY <2>1, <2>2, <2>3, <2>4
<1>13. CASE GuestWrites
  <2> USE <1>0, <1>13 DEF GuestWrites, SimFrame
  <2>1. Flags'
    BY Zenon DEF Flags
  <2>2. Link'
    BY DEF Link
  <2>3. Files'
    BY DEF Files
  <2>4. AloneInv'
    BY SMT DEF AloneInv
  <2> QED
    BY <2>1, <2>2, <2>3, <2>4
<1>14. CASE SimDies
  <2> USE <1>0, <1>14 DEF SimDies, SimFrame
  <2>1. Flags'
    BY Zenon DEF Flags
  <2>2. Link'
    BY DEF Link
  <2>3. Files'
    BY DEF Files
  <2>4. AloneInv'
    BY SMT DEF AloneInv
  <2> QED
    BY <2>1, <2>2, <2>3, <2>4
<1>15. CASE UNCHANGED vars
  BY <1>0, <1>15 DEF vars, Flags, Link, Files, AloneInv
<1> QED
  BY <1>1, <1>2, <1>3, <1>4, <1>5, <1>6, <1>7, <1>8, <1>9, <1>10, <1>11, <1>12, <1>13, <1>14, <1>15 DEF Next, Task

\* The variables of the suspend and resume handshake keep their types.
THEOREM TypeCorrect == Spec => []TypeOK
  BY InitAlone, NextAlone, PTL DEF Spec

\* However many calls are made and however late SIMH answers: the precondition
\* of ConsoleLink.waitFor() fails only after a resume that crossed a call.
THEOREM OneWaitAtATime == Spec => []WaitsAlone
<1>1. AloneInv => WaitsAlone
  BY DEF AloneInv, WaitsAlone
<1> QED
  BY <1>1, InitAlone, NextAlone, PTL DEF Spec

-----------------------------------------------------------------------------
(* The handshake implements MachinePhase.                                  *)

\* The call in flight in each slot, as MachinePhase sees it.
opOf == [t \in Tasks |-> Call(hs[t])]

\* The control link is only ever closed when simhExited() has come.
LiveInv == sim # "gone" => ctlUp

LEMMA NextLive == LiveInv /\ [Next]_vars => LiveInv'
  BY DEF LiveInv, Next, vars, Task, Timeout, Background, BackgroundSave, BackgroundEnds,
     Foreground, ForegroundContinue, ForegroundEnds, Trap, AppFrame, SimhExited, SimFrame,
     RemoteConsole, Prompt, IdleContinue, GuestWrites, SimDies

\* A wait, its answer and its time-out belong to the same call.
LEMMA CallOfWait ==
  ASSUME NEW w \in Waits
  PROVE  Call(Answered[w]) = Call(w) /\ Call(TimedOut[w]) = Call(w) /\ Call(w) # "off"
  BY DEF Waits, Call, Answered, TimedOut

\* Output of the remote console begins and ends no call.
LEMMA DeliverKeeps ==
  ASSUME TypeOK, NEW out, Deliver(out)
  PROVE  opOf' = opOf
<1>1. CASE ~ctlUp
  BY <1>1 DEF Deliver, opOf
<1>2. CASE ctlUp
  <2>1. PICK hit \in SUBSET Waiting :
          hs' = [t \in Tasks |-> IF t \in hit THEN Answered[hs[t]] ELSE hs[t]]
    BY <1>2 DEF Deliver
  <2>2. \A t \in Tasks : Call(hs'[t]) = Call(hs[t])
    BY <2>1, CallOfWait DEF Waiting
  <2> QED
    BY <2>2 DEF opOf
<1> QED
  BY <1>1, <1>2 DEF TypeOK

\* waitFor() leaves the call that waits in flight.
LEMMA WaitForKeeps ==
  ASSUME TypeOK, NEW t \in Tasks, NEW w \in Waits, WaitFor(t, w)
  PROVE  opOf' = [opOf EXCEPT ![t] = Call(w)]
<1>1. /\ hs' = [hs EXCEPT ![t] = w] \/ hs' = [hs EXCEPT ![t] = Answered[w]]
      /\ hs \in [Tasks -> Calls]
  BY DEF WaitFor, TypeOK, Calls
<1>2. \A u \in Tasks : Call(hs'[u]) = IF u = t THEN Call(w) ELSE Call(hs[u])
  BY <1>1, CallOfWait
<1> QED
  BY <1>2 DEF opOf

\* Every step of the handshake is a step of MachinePhase or a stutter: one case
\* per action.
LEMMA StepRefines ==
  ASSUME TypeOK, LiveInv, [Next]_vars
  PROVE  [Abstract!Next]_<<phase, opOf, ctlUp, trapped>>
<1>0. hs \in [Tasks -> Calls] /\ opOf \in [Tasks -> {"off", "bg", "fg"}]
  BY DEF TypeOK, Calls, opOf, Call
<1>1. ASSUME NEW t \in Tasks, Timeout(t) PROVE UNCHANGED <<phase, opOf, ctlUp, trapped>>
  <2>1. \A u \in Tasks : Call(hs'[u]) = Call(hs[u])
    BY <1>0, <1>1, CallOfWait DEF Timeout
  <2> QED
    BY <1>1, <2>1 DEF Timeout, opOf
<1>2. ASSUME NEW t \in Tasks, Background(t) PROVE Abstract!Background(t)
  <2>1. opOf' = [opOf EXCEPT ![t] = "bg"]
    BY <1>2, WaitForKeeps DEF Background, Waits, Call
  <2> QED
    BY <1>0, <1>2, <2>1 DEF Background, AppFrame, CanSuspend, opOf, Call, Abstract!Background,
       Abstract!CanSuspend
<1>3. ASSUME NEW t \in Tasks, BackgroundSave(t) PROVE UNCHANGED <<phase, opOf, ctlUp, trapped>>
  <2>1. opOf' = [opOf EXCEPT ![t] = "bg"] /\ opOf[t] = "bg"
    BY <1>3, WaitForKeeps DEF BackgroundSave, Waits, Call, opOf
  <2> QED
    BY <1>0, <1>3, <2>1 DEF BackgroundSave, AppFrame
<1>4. ASSUME NEW t \in Tasks, BackgroundEnds(t) PROVE Abstract!BackgroundEnds(t)
  <2>1. opOf' = [opOf EXCEPT ![t] = "off"] /\ opOf[t] = "bg"
    BY <1>0, <1>4 DEF BackgroundEnds, Call, opOf
  <2> QED
    BY <1>4, <2>1 DEF BackgroundEnds, AppFrame, opOf, Abstract!BackgroundEnds
<1>5. ASSUME NEW t \in Tasks, Foreground(t) PROVE Abstract!Foreground(t)
  <2>1. opOf' = [opOf EXCEPT ![t] = "fg"] /\ opOf[t] = "off"
    BY <1>0, <1>5 DEF Foreground, Call, opOf
  <2> QED
    BY <1>5, <2>1 DEF Foreground, AppFrame, opOf, Abstract!Foreground
<1>6. ASSUME NEW t \in Tasks, ForegroundContinue(t)
      PROVE  UNCHANGED <<phase, opOf, ctlUp, trapped>>
  <2>1. opOf' = [opOf EXCEPT ![t] = "fg"] /\ opOf[t] = "fg"
    BY <1>6, WaitForKeeps DEF ForegroundContinue, Waits, Call, opOf
  <2> QED
    BY <1>0, <1>6, <2>1 DEF ForegroundContinue, AppFrame
<1>7. ASSUME NEW t \in Tasks, ForegroundEnds(t) PROVE Abstract!ForegroundEnds(t)
  <2>1. opOf' = [opOf EXCEPT ![t] = "off"] /\ opOf[t] = "fg"
    BY <1>0, <1>7 DEF ForegroundEnds, Call, opOf
  <2> QED
    BY <1>7, <2>1 DEF ForegroundEnds, AppFrame, opOf, Abstract!ForegroundEnds
<1>8. ASSUME NEW t \in Tasks, Trap(t) PROVE Abstract!Trap(t)
  <2>1. \A u \in Waiting : u \in Tasks /\ opOf[u] # "off"
    BY CallOfWait DEF Waiting, opOf
  <2>2. opOf[t] # "off" \/ CanSuspend
    BY <1>8 DEF Trap, opOf, Call
  <2> QED
    BY <1>8, <2>1, <2>2 DEF Trap, CanSuspend, opOf, Abstract!Trap, Abstract!InFlight,
       Abstract!CanSuspend
<1>9. CASE SimhExited
  <2>1. ~trapped /\ ctlUp /\ ctlUp' = FALSE /\ phase' = "failed" /\ UNCHANGED trapped
    BY <1>9 DEF SimhExited, LiveInv
  <2>2. UNCHANGED opOf
    BY <1>9 DEF SimhExited, opOf
  <2> QED
    BY <2>1, <2>2 DEF Abstract!Fail, Abstract!Next, opOf
<1>10. CASE RemoteConsole
  <2>1. opOf' = opOf
    BY <1>10, DeliverKeeps DEF RemoteConsole, opOf
  <2> QED
    BY <1>10, <2>1 DEF RemoteConsole, SimFrame
<1>11. CASE Prompt \/ IdleContinue
  BY <1>11, DeliverKeeps DEF Prompt, IdleContinue, SimFrame
<1>12. CASE GuestWrites \/ SimDies
  BY <1>12 DEF GuestWrites, SimDies, SimFrame, opOf
<1>13. CASE UNCHANGED vars
  BY <1>13 DEF vars, opOf
<1> QED
  BY <1>1, <1>2, <1>3, <1>4, <1>5, <1>6, <1>7, <1>8, <1>9, <1>10, <1>11, <1>12, <1>13
     DEF Next, Task, Abstract!Next, Abstract!Ends, opOf

\* Callers may take background() and foreground() for the actions of
\* MachinePhase: whatever SIMH answers and when, the handshake starts in its
\* initial state and every step moves the phase as it says, or not at all.
THEOREM PhaseSafety ==
  Spec => Abstract!Init /\ [][Abstract!Next]_<<phase, opOf, ctlUp, trapped>>
<1>1. Init => Abstract!Init /\ LiveInv
  BY DEF Init, Abstract!Init, LiveInv, Call
<1>2. TypeOK /\ LiveInv /\ [Next]_vars => [Abstract!Next]_<<phase, opOf, ctlUp, trapped>>
  BY StepRefines
<1> QED
  BY <1>1, <1>2, NextLive, TypeCorrect, PTL DEF Spec

-----------------------------------------------------------------------------
(* What a call that nothing has disturbed knows of SIMH and of its queue.  *)
(* A call that gave up a wait leaves its command lines unread, so a queue  *)
(* begins with what earlier calls have left there, all of it ^E and        *)
(* continue, and ends with what the call in flight has sent.               *)

Stopping == {"bgSim", "bgSimOk", "bgSimTo"}
Resuming == {"fgNew", "fgRun", "fgRunOk", "fgRunTo"}
Alive    == sim \in {"run", "stopped", "saving"}

\* The first n command lines write no snapshot.
Harmless(n) == \A i \in 1 .. n : cmds[i] \in {"wru", "continue"}

\* ^E is the last line that is unread, or has stopped the VAX.
StopSent ==
    /\ sav = "none" /\ sim # "saving" /\ Harmless(Len(cmds))
    /\ Alive => IF cmds = <<>> THEN sim = "stopped" ELSE cmds[Len(cmds)] = "wru"

\* The save and its echo are the last lines that are unread, behind the ^E of
\* the same call or on a VAX that it has stopped.
SaveSent ==
    LET n == Len(cmds)
    IN  Alive => /\ n > 0 /\ cmds[n] = "echo"
                 /\ n > 1 => cmds[n-1] = "save"
                 /\ n > 2 => cmds[n-2] = "wru" /\ Harmless(n-2) /\ sim # "saving"
                 /\ n <= 2 => sim # "run"
                 /\ n = 1 => sim = "stopped"
                 /\ sav = IF sim = "saving" THEN "torn" ELSE IF n = 1 THEN "good" ELSE "none"

Saved == sim \in {"stopped", "dead", "gone"} /\ sav = "good" /\ cmds = <<>>

PhaseLeft == \A t \in Tasks : hs[t] # "off" => phase # "up"
CallKnows ==
    \A t \in Tasks : /\ hs[t] \in Stopping => StopSent
                     /\ hs[t] = "bgSav"    => SaveSent
                     /\ hs[t] = "bgSavOk"  => Saved
NoOldSaved == (\A t \in Tasks : hs[t] # "bgSavTo") => "SAVED" \notin matchBuf
NoneSaves ==
    (\A t \in Tasks : hs[t] \in {"off"} \cup Resuming) => sim # "saving" /\ Harmless(Len(cmds))
PausedSaved ==
    phase = "paused" /\ (\A t \in Tasks : hs[t] \in {"off", "fgNew"}) /\ ~idled => Saved
UpUnsaved == phase = "up" => sav = "none"

Handshake == PhaseLeft /\ CallKnows /\ NoOldSaved /\ NoneSaves /\ PausedSaved /\ UpUnsaved
HandInv   == ~late /\ ~crossed => Handshake

\* waitFor() answers at once only what is in the buffer.
LEMMA WaitForWhat ==
  ASSUME TypeOK, NEW t \in Tasks, NEW w \in Waits, WaitFor(t, w)
  PROVE  /\ hs'[t] = w \/ (hs'[t] = Answered[w] /\ Pattern[w] \in matchBuf)
         /\ \A u \in Tasks : u # t => hs'[u] = hs[u]
         /\ matchBuf' \subseteq matchBuf
  BY DEF TypeOK, WaitFor, Emptied

\* What arrives answers the calls that wait for it and is else kept.
LEMMA DeliverWhat ==
  ASSUME TypeOK, NEW out, Deliver(out)
  PROVE  /\ \A u \in Tasks : \/ hs'[u] = hs[u]
                             \/ /\ hs[u] \in Waits /\ Pattern[hs[u]] \in matchBuf \cup out
                                /\ hs'[u] = Answered[hs[u]] /\ matchBuf' = {}
         /\ \A u \in Tasks : ctlUp /\ hs[u] \in Waits /\ Pattern[hs[u]] \in out =>
                               hs'[u] = Answered[hs[u]] /\ matchBuf' = {}
         /\ matchBuf' \subseteq matchBuf \cup out
<1>1. CASE ~ctlUp
  BY <1>1 DEF Deliver
<1>2. CASE ctlUp
  <2> DEFINE buf == matchBuf \cup out
             hit == {t \in Waiting : Pattern[hs[t]] \in buf}
  <2>1. /\ hs' = [t \in Tasks |-> IF t \in hit THEN Answered[hs[t]] ELSE hs[t]]
        /\ matchBuf' = IF hit = {} THEN buf ELSE {}
    BY <1>2 DEF Deliver, Emptied
  <2>2. \A u \in hit : hs[u] \in Waits /\ Pattern[hs[u]] \in matchBuf \cup out
    BY DEF Waiting
  <2>3. \A u \in Tasks : hs[u] \in Waits /\ Pattern[hs[u]] \in out => u \in hit
    BY DEF Waiting
  <2> HIDE DEF hit
  <2> QED
    BY <2>1, <2>2, <2>3
<1> QED
  BY <1>1, <1>2

\* The remote console has read a line.
LEMMA LineRead ==
  ASSUME TypeOK, cmds # <<>>, cmds' = Tail(cmds)
  PROVE  /\ Len(cmds) \in Nat \ {0} /\ Len(cmds') = Len(cmds) - 1
         /\ Head(cmds) = cmds[1]
         /\ \A i \in 1 .. Len(cmds') : cmds'[i] = cmds[i+1]
         /\ cmds' = <<>> <=> Len(cmds') = 0
<1>1. cmds \in Seq(Cmds)
  BY DEF TypeOK
<1>2. /\ Tail(cmds) \in Seq(Cmds) /\ Len(Tail(cmds)) = Len(cmds) - 1
      /\ \A i \in 1 .. Len(Tail(cmds)) : Tail(cmds)[i] = cmds[i+1]
  BY <1>1, HeadTailProperties
<1>3. /\ Len(cmds) \in Nat \ {0}
      /\ Tail(cmds) = <<>> <=> Len(Tail(cmds)) = 0
  BY <1>1, <1>2, EmptySeq
<1>4. Head(cmds) = cmds[1]
  BY <1>1
<1> QED
  BY <1>2, <1>3, <1>4

\* send() has appended its lines.
LEMMA LinesSent ==
  ASSUME TypeOK, NEW lines \in Seq(Cmds), ctlUp, cmds' = Sent(lines)
  PROVE  /\ Len(cmds) \in Nat /\ Len(lines) \in Nat /\ Len(cmds') = Len(cmds) + Len(lines)
         /\ \A i \in 1 .. Len(cmds) : cmds'[i] = cmds[i]
         /\ \A i \in 1 .. Len(lines) : cmds'[Len(cmds) + i] = lines[i]
         /\ Len(lines) > 0 => cmds' # <<>>
<1>1. cmds \in Seq(Cmds)
  BY DEF TypeOK
<1>2. cmds' = cmds \o lines
  BY DEF Sent
<1>3. Len(cmds) \in Nat /\ Len(lines) \in Nat
  BY <1>1, LenProperties
<1>4. /\ Len(cmds') = Len(cmds) + Len(lines)
      /\ \A i \in 1 .. Len(cmds) + Len(lines) :
             cmds'[i] = IF i <= Len(cmds) THEN cmds[i] ELSE lines[i - Len(cmds)]
  BY <1>1, <1>2, ConcatProperties
<1> QED
  BY <1>3, <1>4, EmptySeq

\* Without a resume that crossed it a call is alone.
LEMMA OtherCalls ==
  ASSUME AloneInv, ~crossed, NEW t \in Tasks, hs[t] # "off"
  PROVE  \A u \in Tasks : u # t => hs[u] = "off"
  BY DEF AloneInv

\* The timer gives a wait up: for "SAVED" that is told when the call ends.
LEMMA TimeoutHands ==
  ASSUME TypeOK, AloneInv, Handshake, ~late, ~crossed, NEW t \in Tasks, Timeout(t)
  PROVE  Handshake'
<1>1. /\ hs[t] \in Waits /\ hs'[t] = TimedOut[hs[t]] /\ \A u \in Tasks : u # t => hs'[u] = hs[u]
      /\ UNCHANGED <<phase, cmds, sim, sav, matchBuf, idled>>
  BY DEF Timeout, TypeOK
<1>2. hs[t] # "off" /\ hs'[t] \in {"bgSimTo", "bgSavTo", "fgRunTo"}
  BY <1>1 DEF Waits, TimedOut
<1>3. hs'[t] = "bgSimTo" => hs[t] = "bgSim"
  BY <1>1 DEF Waits, TimedOut
<1>4. hs'[t] = "fgRunTo" => hs[t] = "fgRun"
  BY <1>1 DEF Waits, TimedOut
<1>5. UNCHANGED <<StopSent, SaveSent, Saved, sim, Harmless(Len(cmds))>>
  BY <1>1 DEF StopSent, SaveSent, Saved, Harmless, Alive
<1> USE DEF Handshake
<1>6. PhaseLeft' /\ UpUnsaved'
  BY <1>1, <1>2 DEF PhaseLeft, UpUnsaved
<1>7. CallKnows'
  BY <1>1, <1>2, <1>3, <1>5 DEF CallKnows, Stopping
<1>8. NoOldSaved'
  BY <1>1, <1>2 DEF NoOldSaved, Waits
<1>9. NoneSaves'
  BY <1>1, <1>2, <1>4, <1>5 DEF NoneSaves, Resuming
<1>10. PausedSaved'
  BY <1>1, <1>2 DEF PausedSaved
<1> QED
  BY <1>6, <1>7, <1>8, <1>9, <1>10

\* A suspend begins where nothing saves and nothing is saved, and sends its ^E.
LEMMA BackgroundHands ==
  ASSUME TypeOK, AloneInv, Handshake, ~late, ~crossed, NEW t \in Tasks, Background(t)
  PROVE  Handshake'
<1>1. /\ hs[t] = "off" /\ phase = "up" /\ ctlUp /\ phase' = "pausing" /\ cmds' = Sent(<<"wru">>)
      /\ WaitFor(t, "bgSim") /\ UNCHANGED <<sim, sav, idled>>
  BY DEF Background, AppFrame, CanSuspend
<1>2. \A u \in Tasks : hs[u] = "off"
  BY <1>1 DEF Handshake, PhaseLeft
<1>3. /\ hs'[t] \in {"bgSim", "bgSimOk"} /\ \A u \in Tasks : u # t => hs'[u] = "off"
      /\ matchBuf' \subseteq matchBuf
  BY <1>1, <1>2, WaitForWhat DEF Waits, Answered
<1>4. sav = "none" /\ sim # "saving" /\ Harmless(Len(cmds)) /\ "SAVED" \notin matchBuf
  BY <1>1, <1>2 DEF Handshake, UpUnsaved, NoneSaves, NoOldSaved
<1>5. <<"wru">> \in Seq(Cmds) /\ Len(<<"wru">>) = 1 /\ <<"wru">>[1] = "wru"
  BY DEF Cmds
<1>6. /\ Len(cmds) \in Nat /\ Len(cmds') = Len(cmds) + 1 /\ cmds' # <<>>
      /\ cmds'[Len(cmds) + 1] = "wru" /\ \A i \in 1 .. Len(cmds) : cmds'[i] = cmds[i]
  <2> DEFINE lines == <<"wru">>
  <2>1. cmds' = Sent(lines) /\ lines \in Seq(Cmds) /\ Len(lines) = 1 /\ lines[1] = "wru"
    BY <1>1, <1>5
  <2> HIDE DEF lines
  <2>2. /\ Len(cmds) \in Nat /\ Len(cmds') = Len(cmds) + Len(lines)
        /\ \A i \in 1 .. Len(cmds) : cmds'[i] = cmds[i]
        /\ \A i \in 1 .. Len(lines) : cmds'[Len(cmds) + i] = lines[i]
        /\ Len(lines) > 0 => cmds' # <<>>
    BY <1>1, <2>1, LinesSent
  <2> QED
    BY <2>1, <2>2
<1>7. StopSent'
  BY <1>1, <1>4, <1>6 DEF StopSent, Harmless, Alive
<1> QED
  BY <1>1, <1>3, <1>4, <1>7 DEF Handshake, PhaseLeft, CallKnows, NoOldSaved, NoneSaves, PausedSaved,
     UpUnsaved, Resuming

\* The save goes behind the ^E, or to a VAX that this has stopped.
LEMMA BackgroundSaveHands ==
  ASSUME TypeOK, AloneInv, LiveInv, Handshake, ~late, ~crossed, NEW t \in Tasks, BackgroundSave(t)
  PROVE  Handshake'
<1>1. /\ hs[t] = "bgSimOk" /\ cmds' = Sent(<<"save", "echo">>) /\ WaitFor(t, "bgSav")
      /\ UNCHANGED <<phase, sim, sav, idled, ctlUp>>
  BY DEF BackgroundSave, AppFrame
<1>2. \A u \in Tasks : u # t => hs[u] = "off"
  BY <1>1, OtherCalls
<1>3. phase # "up" /\ StopSent /\ "SAVED" \notin matchBuf
  BY <1>1, <1>2 DEF Handshake, PhaseLeft, CallKnows, Stopping, NoOldSaved
<1>4. /\ hs'[t] = "bgSav" /\ \A u \in Tasks : u # t => hs'[u] = "off"
      /\ matchBuf' \subseteq matchBuf
  BY <1>1, <1>2, <1>3, WaitForWhat DEF Waits, Answered, Pattern
<1>5. SaveSent'
  <2>1. CASE ~Alive
    BY <2>1, <1>1 DEF SaveSent, Alive
  <2>2. CASE Alive
    <3>1. ctlUp
      BY <2>2 DEF Alive, LiveInv
    <3>2. /\ <<"save", "echo">> \in Seq(Cmds) /\ Len(<<"save", "echo">>) = 2
          /\ <<"save", "echo">>[1] = "save" /\ <<"save", "echo">>[2] = "echo"
      BY DEF Cmds
    <3>3. /\ Len(cmds) \in Nat /\ Len(cmds') = Len(cmds) + 2
          /\ cmds'[Len(cmds) + 1] = "save" /\ cmds'[Len(cmds) + 2] = "echo"
          /\ \A i \in 1 .. Len(cmds) : cmds'[i] = cmds[i]
      <4> DEFINE lines == <<"save", "echo">>
      <4>1. /\ cmds' = Sent(lines) /\ lines \in Seq(Cmds) /\ Len(lines) = 2
            /\ lines[1] = "save" /\ lines[2] = "echo"
        BY <1>1, <3>2
      <4> HIDE DEF lines
      <4>2. /\ Len(cmds) \in Nat /\ Len(cmds') = Len(cmds) + Len(lines)
            /\ \A i \in 1 .. Len(cmds) : cmds'[i] = cmds[i]
            /\ \A i \in 1 .. Len(lines) : cmds'[Len(cmds) + i] = lines[i]
        BY <3>1, <4>1, LinesSent
      <4> QED
        BY <4>1, <4>2
    <3>4. Len(cmds) = 0 <=> cmds = <<>>
      BY EmptySeq DEF TypeOK
    <3>5. CASE cmds = <<>>
      <4>1. sav' = "none" /\ sim' = "stopped" /\ Len(cmds') = 2
        BY <1>1, <1>3, <2>2, <3>3, <3>4, <3>5 DEF StopSent, Alive
      <4> QED
        BY <4>1, <3>3, <3>4, <3>5 DEF SaveSent
    <3>6. CASE cmds # <<>>
      <4>1. /\ sav' = "none" /\ sim' # "saving" /\ cmds[Len(cmds)] = "wru" /\ Len(cmds) > 0
            /\ \A i \in 1 .. Len(cmds) : cmds[i] \in {"wru", "continue"}
        BY <1>1, <1>3, <2>2, <3>3, <3>4, <3>6 DEF StopSent, Alive, Harmless
      <4>2. /\ Len(cmds') = Len(cmds) + 2 /\ cmds'[Len(cmds)] = "wru"
            /\ \A i \in 1 .. Len(cmds) : cmds'[i] \in {"wru", "continue"}
        BY <3>3, <4>1
      <4> QED
        BY <3>3, <4>1, <4>2 DEF SaveSent, Harmless
    <3> QED
      BY <3>5, <3>6
  <2> QED
    BY <2>1, <2>2
<1> QED
  BY <1>1, <1>3, <1>4, <1>5 DEF Handshake, PhaseLeft, CallKnows, NoOldSaved, NoneSaves, PausedSaved,
     UpUnsaved, Stopping, Resuming

\* A suspend ends: nothing was saved, or everything, or the failure is late.
LEMMA BackgroundEndsHands ==
  ASSUME TypeOK, AloneInv, Handshake, ~late, ~crossed, NEW t \in Tasks, BackgroundEnds(t), ~late'
  PROVE  Handshake'
<1>1. /\ \/ hs[t] = "bgSimTo" /\ phase' = "up"
         \/ hs[t] = "bgSavOk" /\ phase' = "paused"
      /\ hs'[t] = "off" /\ \A u \in Tasks : u # t => hs'[u] = hs[u]
      /\ UNCHANGED <<cmds, matchBuf, sim, sav, idled>>
  BY DEF BackgroundEnds, AppFrame, TypeOK
<1>2. \A u \in Tasks : u # t => hs[u] = "off"
  BY <1>1, OtherCalls
<1>3. \A u \in Tasks : hs'[u] = "off"
  BY <1>1, <1>2
<1>4. "SAVED" \notin matchBuf
  BY <1>1, <1>2 DEF Handshake, NoOldSaved
<1>5. CASE hs[t] = "bgSimTo"
  <2>1. StopSent
    BY <1>5 DEF Handshake, CallKnows, Stopping
  <2> QED
    BY <1>1, <1>3, <1>4, <1>5, <2>1 DEF Handshake, PhaseLeft, CallKnows, NoOldSaved, NoneSaves,
       PausedSaved, UpUnsaved, StopSent, Stopping, Harmless
<1>6. CASE hs[t] = "bgSavOk"
  <2>1. Saved
    BY <1>6 DEF Handshake, CallKnows
  <2>2. Harmless(Len(cmds))
    BY <2>1 DEF Saved, Harmless
  <2> QED
    BY <1>1, <1>3, <1>4, <1>6, <2>1, <2>2 DEF Handshake, PhaseLeft, CallKnows, NoOldSaved, NoneSaves,
       PausedSaved, UpUnsaved, Saved, Stopping, Harmless
<1> QED
  BY <1>1, <1>5, <1>6

\* A resume is asked for: nothing but the task is new.
LEMMA ForegroundHands ==
  ASSUME TypeOK, AloneInv, Handshake, ~late, ~crossed, NEW t \in Tasks, Foreground(t), ~crossed'
  PROVE  Handshake'
<1>1. /\ phase = "paused" /\ hs[t] = "off" /\ \A u \in Tasks : hs[u] = "off"
      /\ hs'[t] = "fgNew" /\ \A u \in Tasks : u # t => hs'[u] = "off"
      /\ UNCHANGED <<phase, cmds, matchBuf, sim, sav, idled>>
  BY DEF Foreground, AppFrame, TypeOK
<1>2. UNCHANGED <<Saved, Harmless(Len(cmds))>>
  BY <1>1 DEF Saved, Harmless
<1> QED
  BY <1>1, <1>2 DEF Handshake, PhaseLeft, CallKnows, NoOldSaved, NoneSaves, PausedSaved,
     UpUnsaved, Stopping, Resuming

\* One more `continue' saves nothing.
LEMMA ContinueHarmless ==
  ASSUME TypeOK, Harmless(Len(cmds)), cmds' = Sent(<<"continue">>)
  PROVE  Harmless(Len(cmds))'
<1>1. CASE ~ctlUp
  BY <1>1 DEF Sent, Harmless
<1>2. CASE ctlUp
  <2> DEFINE lines == <<"continue">>
  <2>1. cmds' = Sent(lines) /\ lines \in Seq(Cmds) /\ Len(lines) = 1 /\ lines[1] = "continue"
    BY DEF Cmds
  <2> HIDE DEF lines
  <2>2. /\ Len(cmds) \in Nat /\ Len(cmds') = Len(cmds) + Len(lines)
        /\ \A i \in 1 .. Len(cmds) : cmds'[i] = cmds[i]
        /\ \A i \in 1 .. Len(lines) : cmds'[Len(cmds) + i] = lines[i]
    BY <1>2, <2>1, LinesSent
  <2>3. /\ Len(cmds) \in Nat /\ Len(cmds') = Len(cmds) + 1 /\ cmds'[Len(cmds) + 1] = "continue"
        /\ \A i \in 1 .. Len(cmds) : cmds'[i] = cmds[i]
    BY <2>1, <2>2
  <2> QED
    BY <2>3 DEF Harmless
<1> QED
  BY <1>1, <1>2

LEMMA ForegroundContinueHands ==
  ASSUME TypeOK, AloneInv, Handshake, ~late, ~crossed, NEW t \in Tasks, ForegroundContinue(t)
  PROVE  Handshake'
<1>1. /\ hs[t] = "fgNew" /\ cmds' = Sent(<<"continue">>) /\ WaitFor(t, "fgRun")
      /\ UNCHANGED <<phase, sim, sav, idled>>
  BY DEF ForegroundContinue, AppFrame
<1>2. \A u \in Tasks : u # t => hs[u] = "off"
  BY <1>1, OtherCalls
<1>3. /\ hs'[t] \in {"fgRun", "fgRunOk"} /\ \A u \in Tasks : u # t => hs'[u] = "off"
      /\ matchBuf' \subseteq matchBuf
  BY <1>1, <1>2, WaitForWhat DEF Waits, Answered
<1>4. phase # "up" /\ "SAVED" \notin matchBuf /\ sim # "saving" /\ Harmless(Len(cmds))
  BY <1>1, <1>2 DEF Handshake, PhaseLeft, NoOldSaved, NoneSaves, Resuming
<1>5. Harmless(Len(cmds))'
  BY <1>1, <1>4, ContinueHarmless
<1> QED
  BY <1>1, <1>3, <1>4, <1>5 DEF Handshake, PhaseLeft, CallKnows, NoOldSaved, NoneSaves, PausedSaved,
     UpUnsaved, Stopping, Resuming

\* consumeSnapshot(), whether the resume was acknowledged or not.
LEMMA ForegroundEndsHands ==
  ASSUME TypeOK, AloneInv, Handshake, ~late, ~crossed, NEW t \in Tasks, ForegroundEnds(t)
  PROVE  Handshake'
<1>1. /\ hs[t] \in {"fgRunOk", "fgRunTo"} /\ (cmds' = cmds \/ cmds' = Sent(<<"continue">>))
      /\ hs'[t] = "off" /\ \A u \in Tasks : u # t => hs'[u] = hs[u]
      /\ phase' = "up" /\ sav' = "none" /\ UNCHANGED <<matchBuf, sim, idled>>
  BY DEF ForegroundEnds, AppFrame, TypeOK
<1>2. hs[t] # "off" /\ \A u \in Tasks : u # t => hs[u] = "off"
  BY <1>1, OtherCalls
<1>3. \A u \in Tasks : hs'[u] = "off"
  BY <1>1, <1>2
<1>4. "SAVED" \notin matchBuf /\ sim # "saving" /\ Harmless(Len(cmds))
  BY <1>1, <1>2 DEF Handshake, NoOldSaved, NoneSaves, Resuming
<1>5. Harmless(Len(cmds))'
  BY <1>1, <1>4, ContinueHarmless DEF Harmless
<1> QED
  BY <1>1, <1>3, <1>4, <1>5 DEF Handshake, PhaseLeft, CallKnows, NoOldSaved, NoneSaves, PausedSaved,
     UpUnsaved, Stopping, Resuming

\* The simulator dies, or its exit is noticed: what was saved stays saved.
LEMMA DeathHands ==
  ASSUME TypeOK, Handshake, SimDies \/ SimhExited
  PROVE  Handshake'
<1>1. /\ UNCHANGED <<hs, matchBuf, sav, idled>>
      /\ \/ sim' = "dead" /\ UNCHANGED <<phase, cmds>>
         \/ sim = "dead" /\ sim' = "gone" /\ phase' = "failed" /\ cmds' = <<>>
      /\ sim' \in {"dead", "gone"}
  BY DEF SimDies, SimFrame, SimhExited
<1>2. SaveSent' /\ (Saved => Saved') /\ (StopSent => StopSent')
  BY <1>1 DEF SaveSent, Saved, StopSent, Harmless, Alive
<1>3. Harmless(Len(cmds)) => Harmless(Len(cmds))'
  BY <1>1 DEF Harmless
<1> QED
  BY <1>1, <1>2, <1>3 DEF Handshake, PhaseLeft, CallKnows, NoOldSaved, NoneSaves, PausedSaved, UpUnsaved

\* A running guest makes only an old snapshot stale.
LEMMA GuestWritesHands ==
  ASSUME TypeOK, Handshake, GuestWrites
  PROVE  Handshake'
<1>1. /\ sim = "run" /\ sav = "good" /\ UNCHANGED <<hs, matchBuf, idled, phase, cmds, sim>>
  BY DEF GuestWrites, SimFrame
<1>2. ~Saved /\ ~StopSent
  BY <1>1 DEF Saved, StopSent
<1>3. ~SaveSent
  <2>1. Len(cmds) \in Nat
    BY DEF TypeOK
  <2> QED
    BY <1>1, <2>1 DEF SaveSent, Alive
<1>4. Harmless(Len(cmds)) => Harmless(Len(cmds))'
  BY <1>1 DEF Harmless
<1> QED
  BY <1>1, <1>2, <1>3, <1>4 DEF Handshake, PhaseLeft, CallKnows, NoOldSaved, NoneSaves, PausedSaved,
     UpUnsaved

\* What a step may do to the calls that prints no SAVED.
HeardOnly ==
    /\ \A u \in Tasks : /\ hs'[u] = "off" <=> hs[u] = "off"
                        /\ hs'[u] \in Stopping => hs[u] \in Stopping
                        /\ hs'[u] \in Resuming => hs[u] \in Resuming
                        /\ \A h \in {"bgSav", "bgSavOk", "fgNew"} : hs'[u] = h => hs[u] = h
                        /\ hs[u] = "bgSavTo" => hs'[u] = "bgSavTo"
    /\ "SAVED" \in matchBuf' => "SAVED" \in matchBuf

\* A save is only answered by its own echo.
LEMMA HeardNoSaved ==
  ASSUME TypeOK, AloneInv, ~crossed, Handshake, NEW out \in SUBSET {"sim>", "Running"}, Deliver(out)
  PROVE  HeardOnly
<1>1. /\ \A u \in Tasks : \/ hs'[u] = hs[u]
                          \/ /\ hs[u] \in Waits /\ Pattern[hs[u]] \in matchBuf \cup out
                             /\ hs'[u] = Answered[hs[u]]
      /\ matchBuf' \subseteq matchBuf \cup out
  BY DeliverWhat
<1>2. ASSUME NEW u \in Tasks, hs[u] = "bgSav"
      PROVE  hs'[u] = hs[u]
  <2>1. "SAVED" \notin matchBuf
    BY <1>2, OtherCalls DEF Handshake, NoOldSaved
  <2>2. Pattern[hs[u]] \notin matchBuf \cup out
    BY <1>2, <2>1 DEF Pattern
  <2> QED
    BY <1>1, <2>2
<1>3. \A u \in Tasks : \/ hs'[u] = hs[u]
                       \/ hs[u] = "bgSim" /\ hs'[u] = "bgSimOk"
                       \/ hs[u] = "fgRun" /\ hs'[u] = "fgRunOk"
  BY <1>1, <1>2 DEF Waits, Answered
<1> QED
  BY <1>1, <1>3 DEF HeardOnly, Stopping, Resuming

LEMMA HeardHands ==
  ASSUME Handshake, HeardOnly, UNCHANGED <<phase, sav, idled>>,
         StopSent => StopSent', SaveSent => SaveSent', Saved => Saved',
         sim # "saving" /\ Harmless(Len(cmds)) => (sim # "saving" /\ Harmless(Len(cmds)))'
  PROVE  Handshake'
<1> USE DEF Handshake
<1>1. PhaseLeft' /\ UpUnsaved'
  BY DEF PhaseLeft, UpUnsaved, HeardOnly
<1>2. CallKnows'
  BY DEF CallKnows, HeardOnly
<1>3. NoOldSaved'
  BY DEF NoOldSaved, HeardOnly
<1>4. NoneSaves'
  BY DEF NoneSaves, HeardOnly
<1>5. PausedSaved'
  BY DEF PausedSaved, HeardOnly
<1> QED
  BY <1>1, <1>2, <1>3, <1>4, <1>5

LEMMA PromptHands ==
  ASSUME TypeOK, AloneInv, ~crossed, Handshake, Prompt
  PROVE  Handshake'
<1>1. /\ Deliver({"sim>"}) /\ UNCHANGED <<phase, sav, idled, sim, cmds>>
  BY DEF Prompt, SimFrame
<1>2. HeardOnly
  BY <1>1, HeardNoSaved
<1> QED
  BY <1>1, <1>2, HeardHands DEF StopSent, SaveSent, Saved, Harmless, Alive

LEMMA IdleContinueHands ==
  ASSUME TypeOK, AloneInv, ~crossed, Handshake, IdleContinue
  PROVE  Handshake'
<1>1. /\ \A u \in Tasks : hs[u] = "off"
      /\ Deliver({"Running"}) /\ UNCHANGED <<phase, sav, cmds>> /\ idled' /\ sim' = "run"
  BY DEF IdleContinue, SimFrame
<1>2. HeardOnly
  BY <1>1, HeardNoSaved
<1>3. \A u \in Tasks : hs'[u] = "off"
  BY <1>1, <1>2 DEF HeardOnly
<1>4. Harmless(Len(cmds))' /\ "SAVED" \notin matchBuf'
  BY <1>1, <1>2 DEF Handshake, NoneSaves, NoOldSaved, HeardOnly, Harmless
<1> QED
  BY <1>1, <1>3, <1>4 DEF Handshake, PhaseLeft, CallKnows, NoOldSaved, NoneSaves, PausedSaved,
     UpUnsaved, Stopping

\* A command line is executed: the queue's end is what the call in flight has
\* sent, whatever is executed before it.
LEMMA ConsoleHands ==
  ASSUME TypeOK, AloneInv, LiveInv, ~crossed, Handshake, RemoteConsole
  PROVE  Handshake'
<1>1. cmds # <<>> /\ Alive /\ ctlUp /\ UNCHANGED <<phase, idled>>
  BY DEF RemoteConsole, SimFrame, LiveInv, Alive
<1>2. Len(cmds) \in Nat \ {0} /\ Head(cmds) = cmds[1]
  BY <1>1, EmptySeq DEF TypeOK
<1>3. ~Saved
  BY <1>1 DEF Saved
<1>4. CASE /\ sim \in {"run", "stopped"} /\ Head(cmds) = "wru" /\ sim' = "stopped"
           /\ cmds' = Tail(cmds) /\ Deliver({"sim>"}) /\ UNCHANGED sav
  <2>1. HeardOnly
    BY <1>4, HeardNoSaved
  <2>2. /\ Len(cmds') = Len(cmds) - 1 /\ \A i \in 1 .. Len(cmds') : cmds'[i] = cmds[i+1]
        /\ cmds' = <<>> <=> Len(cmds') = 0
    BY <1>1, <1>4, LineRead
  <2>3. Harmless(Len(cmds)) => Harmless(Len(cmds))'
    BY <1>2, <2>2 DEF Harmless
  <2>4. StopSent => StopSent'
    BY <1>1, <1>2, <1>4, <2>2, <2>3 DEF StopSent, Alive
  <2>5. SaveSent => SaveSent'
    BY <1>1, <1>2, <1>4, <2>2 DEF SaveSent, Alive, Harmless
  <2> QED
    BY <1>1, <1>3, <1>4, <2>1, <2>3, <2>4, <2>5, HeardHands
<1>5. CASE /\ sim = "stopped" /\ Head(cmds) = "save" /\ sim' = "saving" /\ sav' = "torn"
           /\ UNCHANGED <<cmds, hs, matchBuf>>
  <2>1. ~Harmless(Len(cmds)) /\ ~StopSent
    BY <1>2, <1>5 DEF Harmless, StopSent
  <2>2. SaveSent => SaveSent'
    BY <1>1, <1>2, <1>5 DEF SaveSent, Alive, Harmless
  <2>3. ~(\A t \in Tasks : hs[t] \in {"off"} \cup Resuming)
    BY <2>1 DEF Handshake, NoneSaves
  <2>4. phase # "up"
    BY <2>3 DEF Handshake, PhaseLeft
  <2> QED
    BY <1>1, <1>3, <1>5, <2>1, <2>2, <2>3, <2>4 DEF Handshake, PhaseLeft, CallKnows, NoOldSaved,
       NoneSaves, PausedSaved, UpUnsaved, Resuming
<1>6. CASE /\ sim = "saving" /\ sim' = "stopped" /\ cmds' = Tail(cmds)
           /\ sav' = IF sav = "none" THEN "none" ELSE "good"
           /\ UNCHANGED <<hs, matchBuf>>
  <2>1. ~StopSent
    BY <1>6 DEF StopSent
  <2>2. /\ Len(cmds') = Len(cmds) - 1 /\ \A i \in 1 .. Len(cmds') : cmds'[i] = cmds[i+1]
    BY <1>1, <1>6, LineRead
  <2>3. SaveSent => SaveSent'
    BY <1>1, <1>2, <1>6, <2>2 DEF SaveSent, Alive
  <2>4. ~(\A t \in Tasks : hs[t] \in {"off"} \cup Resuming)
    BY <1>6 DEF Handshake, NoneSaves
  <2>5. phase # "up"
    BY <2>4 DEF Handshake, PhaseLeft
  <2> QED
    BY <1>1, <1>3, <1>6, <2>1, <2>3, <2>4, <2>5 DEF Handshake, PhaseLeft, CallKnows, NoOldSaved,
       NoneSaves, PausedSaved, UpUnsaved, Resuming
<1>7. CASE /\ sim \in {"run", "stopped"} /\ Head(cmds) = "echo" /\ cmds' = Tail(cmds)
           /\ Deliver({"SAVED"}) /\ UNCHANGED <<sim, sav>>
  <2>1. ~Harmless(Len(cmds)) /\ ~StopSent
    BY <1>2, <1>7 DEF Harmless, StopSent
  <2>2. PICK t \in Tasks : hs[t] \notin {"off"} \cup Resuming
    BY <2>1 DEF Handshake, NoneSaves
  <2>3. hs[t] \in {"bgSav", "bgSavTo"} /\ phase # "up"
    <3>1. hs[t] \notin Stopping /\ hs[t] # "bgSavOk" /\ hs[t] # "off"
      BY <1>3, <2>1, <2>2 DEF Handshake, CallKnows
    <3>2. hs[t] \in {"off"} \cup Waits \cup Resumed
      BY DEF TypeOK
    <3>3. hs[t] \in {"bgSav", "bgSavTo"}
      BY <2>2, <3>1, <3>2, Zenon DEF Stopping, Resuming, Waits, Resumed
    <3> QED
      BY <3>1, <3>3 DEF Handshake, PhaseLeft
  <2>4. \A u \in Tasks : u # t => hs[u] = "off"
    BY <2>3, OtherCalls
  <2>5. /\ \A u \in Tasks : u # t => hs'[u] = "off"
        /\ hs[t] = "bgSav" => hs'[t] = "bgSavOk" /\ matchBuf' = {}
        /\ hs[t] = "bgSavTo" => hs'[t] = "bgSavTo"
    BY <1>1, <1>7, <2>4, DeliverWhat DEF Waits, Pattern, Answered
  <2>6. /\ Len(cmds') = Len(cmds) - 1 /\ cmds' = <<>> <=> Len(cmds') = 0
    BY <1>1, <1>7, LineRead
  <2>7. SaveSent => Saved'
    BY <1>1, <1>2, <1>7, <2>6 DEF SaveSent, Saved, Alive, Harmless
  <2>8. hs[t] = "bgSav" => Saved'
    BY <2>7 DEF Handshake, CallKnows
  <2> QED
    BY <1>1, <1>7, <2>3, <2>5, <2>8 DEF Handshake, PhaseLeft, CallKnows, NoOldSaved,
       NoneSaves, PausedSaved, UpUnsaved, Resuming, Stopping
<1>8. CASE /\ sim = "stopped" /\ Head(cmds) = "continue" /\ sim' = "run"
           /\ cmds' = Tail(cmds) /\ Deliver({"Running"}) /\ UNCHANGED sav
  <2>1. HeardOnly
    BY <1>8, HeardNoSaved
  <2>2. /\ Len(cmds') = Len(cmds) - 1 /\ \A i \in 1 .. Len(cmds') : cmds'[i] = cmds[i+1]
        /\ cmds' = <<>> <=> Len(cmds') = 0
    BY <1>1, <1>8, LineRead
  <2>3. Harmless(Len(cmds)) => Harmless(Len(cmds))'
    BY <1>2, <2>2 DEF Harmless
  <2>4. StopSent => StopSent'
    BY <1>1, <1>2, <1>8, <2>2, <2>3 DEF StopSent, Alive
  <2>5. SaveSent => SaveSent'
    BY <1>1, <1>2, <1>8, <2>2 DEF SaveSent, Alive, Harmless
  <2> QED
    BY <1>1, <1>3, <1>8, <2>1, <2>3, <2>4, <2>5, HeardHands
<1>9. CASE /\ sim = "run" /\ Head(cmds) \in {"save", "continue"} /\ cmds' = Tail(cmds)
           /\ UNCHANGED <<sim, sav, hs, matchBuf>>
  <2>1. HeardOnly
    BY <1>9 DEF HeardOnly
  <2>2. /\ Len(cmds') = Len(cmds) - 1 /\ \A i \in 1 .. Len(cmds') : cmds'[i] = cmds[i+1]
        /\ cmds' = <<>> <=> Len(cmds') = 0
    BY <1>1, <1>9, LineRead
  <2>3. Harmless(Len(cmds)) => Harmless(Len(cmds))'
    BY <1>2, <2>2 DEF Harmless
  <2>4. StopSent => StopSent'
    BY <1>1, <1>2, <1>9, <2>2, <2>3 DEF StopSent, Alive
  <2>5. ASSUME SaveSent, Alive  PROVE  SaveSent'
    <3>1. /\ Len(cmds) > 2 /\ cmds[Len(cmds) - 2] = "wru" /\ Harmless(Len(cmds) - 2)
          /\ cmds[Len(cmds)] = "echo" /\ cmds[Len(cmds) - 1] = "save" /\ sav = "none"
      BY <1>1, <1>2, <1>9, <2>5 DEF SaveSent
    <3>2. cmds[1] # "wru" /\ Len(cmds) \in Nat
      BY <1>1, <1>2, <1>9
    <3>3. Len(cmds) - 2 # 1
      BY <3>1, <3>2
    <3>4. Len(cmds') > 2 /\ Len(cmds') \in Nat
      BY <2>2, <3>1, <3>2, <3>3
    <3>5. /\ cmds'[Len(cmds')] = "echo" /\ cmds'[Len(cmds') - 1] = "save"
          /\ cmds'[Len(cmds') - 2] = "wru"
      BY <2>2, <3>1, <3>4
    <3>6. \A i \in 1 .. Len(cmds') - 2 : cmds'[i] \in {"wru", "continue"}
      BY <2>2, <3>1, <3>4 DEF Harmless
    <3> QED
      BY <1>9, <3>1, <3>4, <3>5, <3>6 DEF SaveSent, Harmless
  <2>6. SaveSent => SaveSent'
    BY <1>9, <2>5 DEF SaveSent, Alive
  <2> QED
    BY <1>1, <1>3, <1>9, <2>1, <2>3, <2>4, <2>6, HeardHands
<1> QED
  BY <1>4, <1>5, <1>6, <1>7, <1>8, <1>9 DEF RemoteConsole

LEMMA InitHands == Init => HandInv
<1> SUFFICES ASSUME Init PROVE Handshake
  BY DEF HandInv
<1> QED
  BY DEF Init, Handshake, PhaseLeft, CallKnows, NoOldSaved, NoneSaves, PausedSaved, UpUnsaved,
     Stopping, Resuming, Harmless

\* What is excepted stays so.
LEMMA ExceptionsLast == TypeOK /\ [Next]_vars => (late => late') /\ (crossed => crossed')
<1> SUFFICES ASSUME TypeOK, [Next]_vars
             PROVE  (late => late') /\ (crossed => crossed')
  OBVIOUS
<1>1. ASSUME NEW t \in Tasks, Background(t) \/ Foreground(t)
      PROVE  (late => late') /\ (crossed => crossed')
  <2>1. crossed' = (crossed \/ \E u \in Tasks : hs[u] # "off") \/ crossed' = crossed
    BY <1>1 DEF Background, Foreground
  <2>2. late' = late
    BY <1>1 DEF Background, Foreground
  <2> QED
    BY <2>1, <2>2 DEF TypeOK
<1>2. ASSUME NEW t \in Tasks, Task(t)
      PROVE  (late => late') /\ (crossed => crossed')
  BY <1>2 DEF Task, BackgroundSave, BackgroundEnds, ForegroundContinue, ForegroundEnds, Trap
<1>3. ASSUME NEW t \in Tasks, Timeout(t) \/ Trap(t)
      PROVE  (late => late') /\ (crossed => crossed')
  BY <1>3 DEF Timeout, Trap
<1>4. CASE RemoteConsole \/ Prompt \/ IdleContinue \/ GuestWrites \/ SimDies
  BY <1>4 DEF RemoteConsole, Prompt, IdleContinue, GuestWrites, SimDies, SimFrame
<1>5. CASE SimhExited \/ UNCHANGED vars
  BY <1>5 DEF SimhExited, vars
<1> QED
  BY <1>1, <1>2, <1>3, <1>4, <1>5 DEF Next

LEMMA NextHands == TypeOK /\ AloneInv /\ LiveInv /\ HandInv /\ [Next]_vars => HandInv'
<1> SUFFICES ASSUME TypeOK, AloneInv, LiveInv, HandInv, [Next]_vars, ~late', ~crossed'
             PROVE  Handshake'
  BY DEF HandInv
<1>0. ~late /\ ~crossed /\ Handshake
  BY ExceptionsLast DEF HandInv
<1>1. ASSUME NEW t \in Tasks, Background(t) PROVE Handshake'
  BY <1>0, <1>1, BackgroundHands
<1>2. ASSUME NEW t \in Tasks, BackgroundSave(t) PROVE Handshake'
  BY <1>0, <1>2, BackgroundSaveHands
<1>3. ASSUME NEW t \in Tasks, BackgroundEnds(t) PROVE Handshake'
  BY <1>0, <1>3, BackgroundEndsHands
<1>4. ASSUME NEW t \in Tasks, Foreground(t) PROVE Handshake'
  BY <1>0, <1>4, ForegroundHands
<1>5. ASSUME NEW t \in Tasks, ForegroundContinue(t) PROVE Handshake'
  BY <1>0, <1>5, ForegroundContinueHands
<1>6. ASSUME NEW t \in Tasks, ForegroundEnds(t) PROVE Handshake'
  BY <1>0, <1>6, ForegroundEndsHands
<1>7. ASSUME NEW t \in Tasks, Timeout(t) PROVE Handshake'
  BY <1>0, <1>7, TimeoutHands
<1>8. ASSUME UNCHANGED <<phase, hs, matchBuf, cmds, sim, sav, idled>> PROVE Handshake'
  BY <1>0, <1>8 DEF Handshake, PhaseLeft, CallKnows, NoOldSaved, NoneSaves, PausedSaved, UpUnsaved,
     StopSent, SaveSent, Saved, Harmless, Alive
<1>9. ASSUME NEW t \in Tasks, Trap(t) PROVE Handshake'
  BY <1>8, <1>9 DEF Trap
<1>10. CASE SimhExited \/ SimDies
  BY <1>0, <1>10, DeathHands
<1>11. CASE RemoteConsole
  BY <1>0, <1>11, ConsoleHands
<1>12. CASE Prompt
  BY <1>0, <1>12, PromptHands
<1>13. CASE IdleContinue
  BY <1>0, <1>13, IdleContinueHands
<1>14. CASE GuestWrites
  BY <1>0, <1>14, GuestWritesHands
<1>15. CASE UNCHANGED vars
  BY <1>8, <1>15 DEF vars
<1> QED
  BY <1>1, <1>2, <1>3, <1>4, <1>5, <1>6, <1>7, <1>9, <1>10, <1>11, <1>12, <1>13, <1>14, <1>15
     DEF Next, Task

LEMMA HandsHold == Spec => []HandInv
<1>1. Init => LiveInv
  BY DEF Init, LiveInv
<1> QED
  BY <1>1, InitAlone, NextAlone, NextLive, InitHands, NextHands, PTL DEF Spec

\* However many command lines earlier calls have left unread: a paused machine
\* is stopped, with a complete snapshot and an empty queue, unless a save went
\* unanswered, the idle timeout expired or a resume crossed a call.
THEOREM PausedIsSaved == Spec => []SavedWhilePaused
<1>1. HandInv => SavedWhilePaused
  BY DEF HandInv, Handshake, PausedSaved, Saved, SavedWhilePaused
<1> QED
  BY <1>1, HandsHold, PTL

\* A machine that is up has no snapshot for the next start to restore, with
\* the exceptions of NoSnapshotUp: what background() wrote before it failed,
\* no call of it can have left.
THEOREM UpHasNoSnapshot == Spec => []NoSnapshotUp
<1>1. HandInv => NoSnapshotUp
  BY DEF HandInv, Handshake, UpUnsaved, NoSnapshotUp
<1> QED
  BY <1>1, HandsHold, PTL

=============================================================================
