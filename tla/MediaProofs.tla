---------------------------- MODULE MediaProofs ------------------------------
(***************************************************************************)
(* Proofs about module Media, for every choice of Staging and AppUpdates   *)
(* and any number of process lives.                                        *)
(***************************************************************************)
EXTENDS Media, TLAPS

\* A fresh installation with no process satisfies the invariant.
LEMMA InitIInv == Init => IInv
  BY DEF Init, IInv, TypeOK, FlagsOK, ControlInv, MarkerInv, SnapshotInv, Machines, Live,
         Running, Fresh, Provisioning, Staged, Consuming, Window, ResumeInFlight,
         SwapInFlight

\* Every step keeps it: one case per action, one step per part.
LEMMA NextIInv == IInv /\ [Next]_vars => IInv'
<1> SUFFICES ASSUME IInv, [Next]_vars PROVE IInv'
  OBVIOUS
<1> USE DEF IInv, stage, history, Machines, Live, Running
<1>1. CASE Launch
  <2> USE <1>1 DEF Launch
  <2>0. FlagsOK'
    BY Zenon DEF TypeOK, FlagsOK
  <2>1. TypeOK'
    BY <2>0 DEF TypeOK, Provisioning, Staged, Consuming
  <2>2. ControlInv'
    BY DEF TypeOK, ControlInv, Provisioning, Staged, Consuming, Fresh
  <2>3. MarkerInv'
    BY DEF TypeOK, FlagsOK, ControlInv, MarkerInv, Provisioning, Consuming, Fresh
  <2>4. SnapshotInv'
    BY DEF TypeOK, FlagsOK, ControlInv, MarkerInv, SnapshotInv, Provisioning, Consuming,
           Fresh, Window, ResumeInFlight, SwapInFlight
  <2> QED
    BY <2>1, <2>2, <2>3, <2>4
<1>2. CASE Kill
  <2> USE <1>2 DEF Kill, Window, ResumeInFlight, SwapInFlight
  <2>0. FlagsOK'
    BY Zenon DEF TypeOK, FlagsOK
  <2>1. TypeOK'
    BY <2>0 DEF TypeOK, Provisioning, Staged, Consuming
  <2>2. ControlInv'
    BY DEF TypeOK, ControlInv, Provisioning, Staged, Consuming, Fresh
  <2>3. MarkerInv'
    BY DEF TypeOK, FlagsOK, ControlInv, MarkerInv, Provisioning, Consuming, Fresh
  <2>4. SnapshotInv'
    BY DEF TypeOK, FlagsOK, ControlInv, MarkerInv, SnapshotInv, Provisioning, Consuming,
           Fresh, Window, ResumeInFlight, SwapInFlight
  <2> QED
    BY <2>1, <2>2, <2>3, <2>4
<1>3. CASE ApplyReset
  <2> USE <1>3 DEF ApplyReset, Goto, RemoveDisk, RemoveSav, KeepSav, DropSnapshot, Aged
  <2>0. FlagsOK'
    BY Zenon DEF TypeOK, FlagsOK
  <2>1. TypeOK'
    BY <2>0 DEF TypeOK, Provisioning, Staged, Consuming
  <2>2. ControlInv'
    BY DEF TypeOK, ControlInv, Provisioning, Staged, Consuming, Fresh
  <2>3. MarkerInv'
    BY DEF TypeOK, FlagsOK, ControlInv, MarkerInv, Provisioning, Consuming, Fresh
  <2>4. SnapshotInv'
    BY DEF TypeOK, FlagsOK, ControlInv, MarkerInv, SnapshotInv, Provisioning, Consuming,
           Fresh, Window, ResumeInFlight, SwapInFlight
  <2> QED
    BY <2>1, <2>2, <2>3, <2>4
<1>4. CASE ApplyImport
  <2> USE <1>4 DEF ApplyImport, Goto, RemoveDisk, RemoveSav, KeepSav, DropSnapshot, Aged
  <2>0. FlagsOK'
    BY Zenon DEF TypeOK, FlagsOK
  <2>1. TypeOK'
    BY <2>0 DEF TypeOK, Provisioning, Staged, Consuming
  <2>2. ControlInv'
    BY DEF TypeOK, ControlInv, Provisioning, Staged, Consuming, Fresh
  <2>3. MarkerInv'
    BY DEF TypeOK, FlagsOK, ControlInv, MarkerInv, Provisioning, Consuming, Fresh
  <2>4. SnapshotInv'
    BY DEF TypeOK, FlagsOK, ControlInv, MarkerInv, SnapshotInv, Provisioning, Consuming,
           Fresh, Window, ResumeInFlight, SwapInFlight
  <2> QED
    BY <2>1, <2>2, <2>3, <2>4
<1>5. CASE SupersedeImage
  <2> USE <1>5 DEF SupersedeImage, Goto, RemoveDisk, RemoveSav, KeepSav, DropSnapshot, Aged, Superseded
  <2>0. FlagsOK'
    BY Zenon DEF TypeOK, FlagsOK
  <2>1. TypeOK'
    BY <2>0 DEF TypeOK, Provisioning, Staged, Consuming
  <2>2. ControlInv'
    BY DEF TypeOK, ControlInv, Provisioning, Staged, Consuming, Fresh
  <2>3. MarkerInv'
    BY DEF TypeOK, FlagsOK, ControlInv, MarkerInv, Provisioning, Consuming, Fresh
  <2>4. SnapshotInv'
    BY DEF TypeOK, FlagsOK, ControlInv, MarkerInv, SnapshotInv, Provisioning, Consuming,
           Fresh, Window, ResumeInFlight, SwapInFlight
  <2> QED
    BY <2>1, <2>2, <2>3, <2>4
<1>6. CASE CopyBundled
  <2> USE <1>6 DEF CopyBundled
  <2>0. FlagsOK'
    BY Zenon DEF TypeOK, FlagsOK
  <2>1. TypeOK'
    BY <2>0 DEF TypeOK, Provisioning, Staged, Consuming
  <2>2. ControlInv'
    BY DEF TypeOK, ControlInv, Provisioning, Staged, Consuming, Fresh
  <2>3. MarkerInv'
    BY DEF TypeOK, FlagsOK, ControlInv, MarkerInv, Provisioning, Consuming, Fresh
  <2>4. SnapshotInv'
    BY DEF TypeOK, FlagsOK, ControlInv, MarkerInv, SnapshotInv, Provisioning, Consuming,
           Fresh, Window, ResumeInFlight, SwapInFlight
  <2> QED
    BY <2>1, <2>2, <2>3, <2>4
<1>7. CASE ProvisionThrows
  <2> USE <1>7 DEF ProvisionThrows
  <2>0. FlagsOK'
    BY Zenon DEF TypeOK, FlagsOK
  <2>1. TypeOK'
    BY <2>0 DEF TypeOK, Provisioning, Staged, Consuming
  <2>2. ControlInv'
    BY DEF TypeOK, ControlInv, Provisioning, Staged, Consuming, Fresh
  <2>3. MarkerInv'
    BY DEF TypeOK, FlagsOK, ControlInv, MarkerInv, Provisioning, Consuming, Fresh
  <2>4. SnapshotInv'
    BY DEF TypeOK, FlagsOK, ControlInv, MarkerInv, SnapshotInv, Provisioning, Consuming,
           Fresh, Window, ResumeInFlight, SwapInFlight
  <2> QED
    BY <2>1, <2>2, <2>3, <2>4
<1>8. CASE Decide
  <2> USE <1>8 DEF Decide, Goto, RemoveSav, KeepSav, CreateAttempt, RemoveAttempt
  <2>0. FlagsOK'
    BY Zenon DEF TypeOK, FlagsOK
  <2>1. TypeOK'
    BY <2>0 DEF TypeOK, Provisioning, Staged, Consuming
  <2>2. ControlInv'
    BY DEF TypeOK, ControlInv, Provisioning, Staged, Consuming, Fresh
  <2>3. MarkerInv'
    BY DEF TypeOK, FlagsOK, ControlInv, MarkerInv, Provisioning, Consuming, Fresh
  <2>4. SnapshotInv'
    BY DEF TypeOK, FlagsOK, ControlInv, MarkerInv, SnapshotInv, Provisioning, Consuming,
           Fresh, Window, ResumeInFlight, SwapInFlight
  <2> QED
    BY <2>1, <2>2, <2>3, <2>4
<1>9. CASE LaunchSimh
  <2> USE <1>9 DEF LaunchSimh
  <2>0. FlagsOK'
    BY Zenon DEF TypeOK, FlagsOK
  <2>1. TypeOK'
    BY <2>0 DEF TypeOK, Provisioning, Staged, Consuming
  <2>2. ControlInv'
    BY DEF TypeOK, ControlInv, Provisioning, Staged, Consuming, Fresh
  <2>3. MarkerInv'
    BY DEF TypeOK, FlagsOK, ControlInv, MarkerInv, Provisioning, Consuming, Fresh
  <2>4. SnapshotInv'
    BY DEF TypeOK, FlagsOK, ControlInv, MarkerInv, SnapshotInv, Provisioning, Consuming,
           Fresh, Window, ResumeInFlight, SwapInFlight
  <2> QED
    BY <2>1, <2>2, <2>3, <2>4
<1>10. CASE SimhStarts
  <2> USE <1>10 DEF SimhStarts, MachineFrame
  <2>0. FlagsOK'
    BY Zenon DEF TypeOK, FlagsOK
  <2>1. TypeOK'
    BY <2>0 DEF TypeOK, Provisioning, Staged, Consuming
  <2>2. ControlInv'
    BY DEF TypeOK, ControlInv, Provisioning, Staged, Consuming, Fresh
  <2>3. MarkerInv'
    BY DEF TypeOK, FlagsOK, ControlInv, MarkerInv, Provisioning, Consuming, Fresh
  <2>4. SnapshotInv'
    BY DEF TypeOK, FlagsOK, ControlInv, MarkerInv, SnapshotInv, Provisioning, Consuming,
           Fresh, Window, ResumeInFlight, SwapInFlight
  <2> QED
    BY <2>1, <2>2, <2>3, <2>4
<1>11. CASE Booted
  <2> USE <1>11 DEF Booted, MachineFrame, MainFree
  <2>0. FlagsOK'
    BY Zenon DEF TypeOK, FlagsOK
  <2>1. TypeOK'
    BY <2>0 DEF TypeOK, Provisioning, Staged, Consuming
  <2>2. ControlInv'
    BY DEF TypeOK, ControlInv, Provisioning, Staged, Consuming, Fresh
  <2>3. MarkerInv'
    BY DEF TypeOK, FlagsOK, ControlInv, MarkerInv, Provisioning, Consuming, Fresh
  <2>4. SnapshotInv'
    BY DEF TypeOK, FlagsOK, ControlInv, MarkerInv, SnapshotInv, Provisioning, Consuming,
           Fresh, Window, ResumeInFlight, SwapInFlight
  <2> QED
    BY <2>1, <2>2, <2>3, <2>4
<1>12. CASE BringUpFails
  <2> USE <1>12 DEF BringUpFails, MachineFrame, MainFree
  <2>0. FlagsOK'
    BY Zenon DEF TypeOK, FlagsOK
  <2>1. TypeOK'
    BY <2>0 DEF TypeOK, Provisioning, Staged, Consuming
  <2>2. ControlInv'
    BY DEF TypeOK, ControlInv, Provisioning, Staged, Consuming, Fresh
  <2>3. MarkerInv'
    BY DEF TypeOK, FlagsOK, ControlInv, MarkerInv, Provisioning, Consuming, Fresh
  <2>4. SnapshotInv'
    BY DEF TypeOK, FlagsOK, ControlInv, MarkerInv, SnapshotInv, Provisioning, Consuming,
           Fresh, Window, ResumeInFlight, SwapInFlight
  <2> QED
    BY <2>1, <2>2, <2>3, <2>4
<1>13. CASE Probed
  <2> USE <1>13 DEF Probed, MachineFrame, MainFree
  <2>0. FlagsOK'
    BY Zenon DEF TypeOK, FlagsOK
  <2>1. TypeOK'
    BY <2>0 DEF TypeOK, Provisioning, Staged, Consuming
  <2>2. ControlInv'
    BY DEF TypeOK, ControlInv, Provisioning, Staged, Consuming, Fresh
  <2>3. MarkerInv'
    BY DEF TypeOK, FlagsOK, ControlInv, MarkerInv, Provisioning, Consuming, Fresh
  <2>4. SnapshotInv'
    BY DEF TypeOK, FlagsOK, ControlInv, MarkerInv, SnapshotInv, Provisioning, Consuming,
           Fresh, Window, ResumeInFlight, SwapInFlight
  <2> QED
    BY <2>1, <2>2, <2>3, <2>4
<1>14. CASE SimhExited
  <2> USE <1>14 DEF SimhExited, MachineFrame, MainFree
  <2>0. FlagsOK'
    BY Zenon DEF TypeOK, FlagsOK
  <2>1. TypeOK'
    BY <2>0 DEF TypeOK, Provisioning, Staged, Consuming
  <2>2. ControlInv'
    BY DEF TypeOK, ControlInv, Provisioning, Staged, Consuming, Fresh
  <2>3. MarkerInv'
    BY DEF TypeOK, FlagsOK, ControlInv, MarkerInv, Provisioning, Consuming, Fresh
  <2>4. SnapshotInv'
    BY DEF TypeOK, FlagsOK, ControlInv, MarkerInv, SnapshotInv, Provisioning, Consuming,
           Fresh, Window, ResumeInFlight, SwapInFlight
  <2> QED
    BY <2>1, <2>2, <2>3, <2>4
<1>15. CASE GuestWrites
  <2> USE <1>15 DEF GuestWrites, MachineFrame
  <2>0. FlagsOK'
    BY Zenon DEF TypeOK, FlagsOK
  <2>1. TypeOK'
    BY <2>0 DEF TypeOK, Provisioning, Staged, Consuming
  <2>2. ControlInv'
    BY DEF TypeOK, ControlInv, Provisioning, Staged, Consuming, Fresh
  <2>3. MarkerInv'
    BY DEF TypeOK, FlagsOK, ControlInv, MarkerInv, Provisioning, Consuming, Fresh
  <2>4. SnapshotInv'
    BY DEF TypeOK, FlagsOK, ControlInv, MarkerInv, SnapshotInv, Provisioning, Consuming,
           Fresh, Window, ResumeInFlight, SwapInFlight
  <2> QED
    BY <2>1, <2>2, <2>3, <2>4
<1>16. CASE Background
  <2> USE <1>16 DEF Background, MachineFrame, MainFree
  <2>0. FlagsOK'
    BY Zenon DEF TypeOK, FlagsOK
  <2>1. TypeOK'
    BY <2>0 DEF TypeOK, Provisioning, Staged, Consuming
  <2>2. ControlInv'
    BY DEF TypeOK, ControlInv, Provisioning, Staged, Consuming, Fresh
  <2>3. MarkerInv'
    BY DEF TypeOK, FlagsOK, ControlInv, MarkerInv, Provisioning, Consuming, Fresh
  <2>4. SnapshotInv'
    BY DEF TypeOK, FlagsOK, ControlInv, MarkerInv, SnapshotInv, Provisioning, Consuming,
           Fresh, Window, ResumeInFlight, SwapInFlight
  <2> QED
    BY <2>1, <2>2, <2>3, <2>4
<1>17. CASE Foreground
  <2> USE <1>17 DEF Foreground, MachineFrame, MainFree
  <2>0. FlagsOK'
    BY Zenon DEF TypeOK, FlagsOK
  <2>1. TypeOK'
    BY <2>0 DEF TypeOK, Provisioning, Staged, Consuming
  <2>2. ControlInv'
    BY DEF TypeOK, ControlInv, Provisioning, Staged, Consuming, Fresh
  <2>3. MarkerInv'
    BY DEF TypeOK, FlagsOK, ControlInv, MarkerInv, Provisioning, Consuming, Fresh
  <2>4. SnapshotInv'
    BY DEF TypeOK, FlagsOK, ControlInv, MarkerInv, SnapshotInv, Provisioning, Consuming,
           Fresh, Window, ResumeInFlight, SwapInFlight
  <2> QED
    BY <2>1, <2>2, <2>3, <2>4
<1>18. CASE IdleContinue
  <2> USE <1>18 DEF IdleContinue, MachineFrame
  <2>0. FlagsOK'
    BY Zenon DEF TypeOK, FlagsOK
  <2>1. TypeOK'
    BY <2>0 DEF TypeOK, Provisioning, Staged, Consuming
  <2>2. ControlInv'
    BY DEF TypeOK, ControlInv, Provisioning, Staged, Consuming, Fresh
  <2>3. MarkerInv'
    BY DEF TypeOK, FlagsOK, ControlInv, MarkerInv, Provisioning, Consuming, Fresh
  <2>4. SnapshotInv'
    BY DEF TypeOK, FlagsOK, ControlInv, MarkerInv, SnapshotInv, Provisioning, Consuming,
           Fresh, Window, ResumeInFlight, SwapInFlight
  <2> QED
    BY <2>1, <2>2, <2>3, <2>4
<1>19. CASE ConsumeSnapshot
  <2> USE <1>19 DEF ConsumeSnapshot, ConsumeFrame, RemoveSav, KeepSav, RemoveAttempt, Consuming
  <2>0. FlagsOK'
    BY Zenon DEF TypeOK, FlagsOK
  <2>1. TypeOK'
    BY <2>0 DEF TypeOK, Provisioning, Staged, Consuming
  <2>2. ControlInv'
    <3> USE DEF ControlInv, Provisioning, Staged, Fresh
    <3>1. CASE pc = "rmSav"
      <4>1. /\ UNCHANGED <<proc, copying, resuming, history, then, fg, machine>>
            /\ pc' = "rmAttempt"
        BY <3>1
      <4> HIDE DEF ConsumeSnapshot
      <4> QED
        BY <3>1, <4>1
    <3>2. CASE pc = "rmAttempt" /\ then = "up"
      BY <3>2 DEF TypeOK
    <3>3. CASE pc = "rmAttempt" /\ then = "failed"
      <4>1. /\ UNCHANGED <<proc, copying, resuming, history, fg>>
            /\ pc' = "free" /\ then' = "none" /\ machine' = "adrift"
        BY <3>3
      <4> HIDE DEF ConsumeSnapshot
      <4> QED
        BY <3>3, <4>1
    <3>4. CASE pc = "rmAttempt" /\ then = "none"
      <4>1. /\ UNCHANGED <<proc, copying, resuming, history, fg, machine>>
            /\ pc' = "free" /\ then' = "none"
        BY <3>4
      <4> HIDE DEF ConsumeSnapshot
      <4> QED
        BY <3>4, <4>1
    <3>5. CASE pc = "rmAttempt" /\ then = "restart"
      <4>1. /\ UNCHANGED <<proc, copying, resuming, history, fg, machine>>
            /\ pc' = "reset" /\ then' = "none"
        BY <3>5
      <4> HIDE DEF ConsumeSnapshot
      <4> QED
        BY <3>5, <4>1
    <3> QED
      BY <3>1, <3>2, <3>3, <3>4, <3>5 DEF TypeOK
  <2>3. MarkerInv'
    BY DEF TypeOK, FlagsOK, ControlInv, MarkerInv, Provisioning, Consuming, Fresh
  <2>4. SnapshotInv'
    BY DEF TypeOK, FlagsOK, ControlInv, MarkerInv, SnapshotInv, Provisioning, Consuming,
           Fresh, Window, ResumeInFlight, SwapInFlight
  <2> QED
    BY <2>1, <2>2, <2>3, <2>4
<1>20. CASE Settings
  <2> USE <1>20 DEF Settings, SettingsFrame, MainFree
  <2>0. FlagsOK'
    BY Zenon DEF TypeOK, FlagsOK
  <2>1. TypeOK'
    BY <2>0 DEF TypeOK, Provisioning, Staged, Consuming
  <2>2. ControlInv'
    BY DEF TypeOK, ControlInv, Provisioning, Staged, Consuming, Fresh
  <2>3. MarkerInv'
    BY DEF TypeOK, FlagsOK, ControlInv, MarkerInv, Provisioning, Consuming, Fresh
  <2>4. SnapshotInv'
    BY DEF TypeOK, FlagsOK, ControlInv, MarkerInv, SnapshotInv, Provisioning, Consuming,
           Fresh, Window, ResumeInFlight, SwapInFlight
  <2> QED
    BY <2>1, <2>2, <2>3, <2>4
<1>21. CASE StageImport
  <2> USE <1>21 DEF StageImport, SettingsFrame
  <2>0. FlagsOK'
    BY Zenon DEF TypeOK, FlagsOK
  <2>1. TypeOK'
    BY <2>0 DEF TypeOK, Provisioning, Staged, Consuming
  <2>2. ControlInv'
    BY DEF TypeOK, ControlInv, Provisioning, Staged, Consuming, Fresh
  <2>3. MarkerInv'
    BY DEF TypeOK, FlagsOK, ControlInv, MarkerInv, Provisioning, Consuming, Fresh
  <2>4. SnapshotInv'
    BY DEF TypeOK, FlagsOK, ControlInv, MarkerInv, SnapshotInv, Provisioning, Consuming,
           Fresh, Window, ResumeInFlight, SwapInFlight
  <2> QED
    BY <2>1, <2>2, <2>3, <2>4
<1>22. CASE StageReset
  <2> USE <1>22 DEF StageReset, SettingsFrame
  <2>0. FlagsOK'
    BY Zenon DEF TypeOK, FlagsOK
  <2>1. TypeOK'
    BY <2>0 DEF TypeOK, Provisioning, Staged, Consuming
  <2>2. ControlInv'
    BY DEF TypeOK, ControlInv, Provisioning, Staged, Consuming, Fresh
  <2>3. MarkerInv'
    BY DEF TypeOK, FlagsOK, ControlInv, MarkerInv, Provisioning, Consuming, Fresh
  <2>4. SnapshotInv'
    BY DEF TypeOK, FlagsOK, ControlInv, MarkerInv, SnapshotInv, Provisioning, Consuming,
           Fresh, Window, ResumeInFlight, SwapInFlight
  <2> QED
    BY <2>1, <2>2, <2>3, <2>4
<1>23. CASE CancelStagedChanges
  <2> USE <1>23 DEF CancelStagedChanges, SettingsFrame
  <2>0. FlagsOK'
    BY Zenon DEF TypeOK, FlagsOK
  <2>1. TypeOK'
    BY <2>0 DEF TypeOK, Provisioning, Staged, Consuming
  <2>2. ControlInv'
    BY DEF TypeOK, ControlInv, Provisioning, Staged, Consuming, Fresh
  <2>3. MarkerInv'
    BY DEF TypeOK, FlagsOK, ControlInv, MarkerInv, Provisioning, Consuming, Fresh
  <2>4. SnapshotInv'
    BY DEF TypeOK, FlagsOK, ControlInv, MarkerInv, SnapshotInv, Provisioning, Consuming,
           Fresh, Window, ResumeInFlight, SwapInFlight
  <2> QED
    BY <2>1, <2>2, <2>3, <2>4
<1>24. CASE UNCHANGED vars
  BY <1>24 DEF vars, TypeOK, FlagsOK, ControlInv, MarkerInv, SnapshotInv, Window,
     ResumeInFlight, SwapInFlight
<1> QED
  BY <1>1, <1>2, <1>3, <1>4, <1>5, <1>6, <1>7, <1>8,
     <1>9, <1>10, <1>11, <1>12, <1>13, <1>14, <1>15, <1>16,
     <1>17, <1>18, <1>19, <1>20, <1>21, <1>22, <1>23, <1>24 DEF Next

\* Whatever dies when, the four parts of the inductive invariant hold in
\* every reachable state of the files and of the machine.
THEOREM Invariant == Spec => []IInv
  BY InitIInv, NextIInv, PTL DEF Spec

\* provision() hands a saved session to `restore' at most once, for every
\* number of launches and kills: no crash loop on a bad snapshot.
THEOREM OneShot == Spec => []OneShotRestore
<1>1. IInv => OneShotRestore
  BY DEF IInv, MarkerInv, OneShotRestore
<1> QED
  BY <1>1, Invariant, PTL

\* A snapshot is restored over a disk that has moved on only if some process
\* died in one of the named windows of foreground(), provision() or SIMH.
THEOREM StaleOnlyIfExposed == Spec => []StaleRestoreExposed
<1>1. IInv => StaleRestoreExposed
  BY DEF IInv, SnapshotInv, StaleRestoreExposed
<1> QED
  BY <1>1, Invariant, PTL

\* What background() saved is not thrown away by the next provision().
THEOREM SavedIsKept == Spec => []SavedSessionKept
<1>1. IInv => SavedSessionKept
  BY DEF IInv, MarkerInv, SavedSessionKept
<1> QED
  BY <1>1, Invariant, PTL

\* No step of Settings, provision() or a restart replaces v8.disk while a
\* simulator is attached to it.
THEOREM NeverUnderARunningMachine == Spec => MediaAtRest
<1>1. ASSUME IInv, [Next]_vars
      PROVE  [disk' # disk => machine \notin Live]_vars
  <2> SUFFICES ASSUME Next, disk' # disk PROVE machine = "off"
    BY <1>1 DEF Live, vars
  <2> USE DEF IInv, ControlInv, Provisioning
  <2>1. CASE ApplyReset
    BY <1>1, <2>1 DEF ApplyReset
  <2>2. CASE ApplyImport
    BY <1>1, <2>2 DEF ApplyImport
  <2>3. CASE SupersedeImage
    BY <1>1, <2>3 DEF SupersedeImage
  <2>4. CASE CopyBundled
    BY <1>1, <2>4 DEF CopyBundled
  <2> QED
    BY <2>1, <2>2, <2>3, <2>4 DEF Next, Launch, Kill, ProvisionThrows, Decide,
       LaunchSimh, SimhStarts, Booted, BringUpFails, Probed, SimhExited,
       GuestWrites, Background, Foreground, IdleContinue, MachineFrame,
       ConsumeSnapshot, ConsumeFrame, Settings, StageImport, StageReset,
       CancelStagedChanges, SettingsFrame
<1> QED
  BY <1>1, Invariant, PTL DEF Spec, MediaAtRest

\* Without staged changes: every disk that is not whole lacks the stamp, and
\* is removed by the next provision() before anything looks for a disk.
CopyInv ==
    /\ pending = "none" /\ ~reset
    /\ pc \notin Staged \cup {"resetMark", "resetSav", "pendMove", "pendSav"}
    /\ disk = "none" => stamp # "current"
    /\ disk = "torn" => /\ stamp # "current"
                        /\ copying = "yes" \/ pc \in {"idle", "reset", "pend", "image"}
    /\ copying = "yes" => disk = "torn"
    /\ copying = "done" => stamp # "current" /\ disk = "golden"
    /\ pc = "stamp" => disk = "golden"

LEMMA NextCopyInv ==
  ASSUME Staging = {}, IInv, CopyInv, [Next]_vars
  PROVE  CopyInv'
<1> USE DEF CopyInv, Staged
<1>1. CASE Launch
  BY <1>1 DEF Launch, stage, IInv, ControlInv
<1>2. CASE Kill
  BY <1>2 DEF Kill, stage
<1>3. CASE ApplyReset
  BY <1>3 DEF ApplyReset, Goto, KeepSav
<1>4. CASE ApplyImport
  BY <1>4 DEF ApplyImport, Goto, KeepSav
<1>5. CASE SupersedeImage
  BY <1>5 DEF SupersedeImage, Superseded, Goto, RemoveDisk, stage, IInv, ControlInv,
     Provisioning
<1>6. CASE CopyBundled
  BY <1>6 DEF CopyBundled, stage, IInv, TypeOK, ControlInv, Provisioning
<1>7. CASE ProvisionThrows
  BY <1>7 DEF ProvisionThrows, stage, IInv, ControlInv, Provisioning
<1>8. CASE Decide
  BY <1>8 DEF Decide, Goto, stage
<1>9. CASE LaunchSimh
  BY <1>9 DEF LaunchSimh, stage, IInv, ControlInv, Provisioning
<1>10. CASE SimhStarts \/ Booted \/ BringUpFails \/ GuestWrites \/ Background \/ IdleContinue
  BY <1>10 DEF SimhStarts, Booted, BringUpFails, GuestWrites, Background, IdleContinue,
     MachineFrame, stage
<1>11. CASE Probed \/ SimhExited \/ Foreground
  BY <1>11 DEF Probed, SimhExited, Foreground, MachineFrame, MainFree, stage
<1>12. CASE ConsumeSnapshot
  BY <1>12 DEF ConsumeSnapshot, ConsumeFrame, stage
<1>13. CASE Settings
  BY <1>13 DEF Settings, SettingsFrame, MainFree, stage
<1>14. CASE StageImport \/ StageReset \/ CancelStagedChanges
  BY <1>14 DEF StageImport, StageReset, CancelStagedChanges
<1>15. CASE UNCHANGED vars
  BY <1>15 DEF vars
<1> QED
  BY <1>1, <1>2, <1>3, <1>4, <1>5, <1>6, <1>7, <1>8, <1>9, <1>10, <1>11, <1>12,
     <1>13, <1>14, <1>15 DEF Next

\* `Stamp AFTER the copy succeeds': with nothing staged, SIMH is never
\* attached to a disk whose copy was cut short, whenever the copier died.
THEOREM NoTornDiskUnstaged ==
  ASSUME Staging = {}
  PROVE  Spec => []TornNotBooted
<1>1. Init => CopyInv
  BY DEF Init, CopyInv, Staged
<1>2. IInv /\ CopyInv /\ [Next]_vars => CopyInv'
  BY NextCopyInv
<1>3. IInv /\ CopyInv => TornNotBooted
  BY DEF IInv, ControlInv, CopyInv, TornNotBooted, Provisioning, Live
<1> QED
  BY <1>1, <1>2, <1>3, Invariant, PTL DEF Spec
=============================================================================
