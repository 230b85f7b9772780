-------------------------------- MODULE Media --------------------------------
(***************************************************************************)
(* The files of one machine over many lives of the process: v8.disk, its   *)
(* stamp image.id, the staged v8.disk.pending and reset.pending, the saved *)
(* session state.sav and the one-shot marker restore.attempt.  They are    *)
(* written by provision(), the staging calls of Settings and               *)
(* consumeSnapshot() in app/ipnx/Machine.swift, and by SIMH.               *)
(*                                                                         *)
(* The code is @MainActor: between two `await's no other task of the app   *)
(* runs, but the process may die between any two file operations and the   *)
(* SIMH thread runs on.  A synchronous section is therefore a sequence of  *)
(* steps, one per file operation, that excludes the other sections         *)
(* (MainFree) and excludes neither Kill nor the simulator.                 *)
(*                                                                         *)
(* Abstractions.                                                           *)
(*  - A file is what a restore can tell about it: state.sav is "good" when *)
(*    it describes the disk as it is and "stale" once the disk changed.    *)
(*  - Phases and the handshake with SIMH are reduced to what they do to    *)
(*    files; modules BringUp and Suspend have their detail.                *)
(*  - The files `provisioned' and `screenmarker' are only ever removed in  *)
(*    this version of the app and are left out.  Removals succeed.         *)
(***************************************************************************)
CONSTANTS
    Staging,     \* what the user may stage: a subset of {"import", "reset"}
    AppUpdates   \* whether an app update may bring a new system image

ASSUME StagingAssumption == Staging \subseteq {"import", "reset"}
ASSUME UpdatesAssumption == AppUpdates \in BOOLEAN

VARIABLES
    disk,       \* v8.disk: "none", "torn" (half copied), "golden" or "import"
    stamp,      \* image.id: "none", "current" (this build's image) or "old"
    pending,    \* v8.disk.pending: "none", "torn" or "whole"
    reset,      \* reset.pending exists
    sav,        \* state.sav: "none", "torn", "good" or "stale"
    attempt,    \* restore.attempt exists
    proc,       \* the process is alive
    pc,         \* where the main actor is: "free", or the next file operation
    copying,    \* bringUp() awaits the detached copy of the bundled disk
    then,       \* what follows consumeSnapshot()
    fg,         \* a foreground() task is between `continue' and its end
    machine,    \* phase and simulator: see Machines
    resuming,   \* what provision() returned
    tried,      \* history: this state.sav has been given to `restore'
    late,       \* history: background() stopped waiting for "SAVED"
    idled,      \* history: the idle remote console resumed the VAX by itself
    exposed     \* history: a process died in an exposure window

stage   == <<pending, reset>>
history == <<late, idled, exposed>>
vars    == <<disk, stamp, pending, reset, sav, attempt, proc, pc, copying, then,
             fg, machine, resuming, tried, late, idled, exposed>>

\* The machine as the files see it.  "config": SIMH reads its config file;
\* "probing": restored, not yet trusted; "corrupt": the same, from a stale
\* snapshot; "stopped", "saving", "saved": background(); "paused": stopped
\* with a snapshot; "awake": phase .paused over a VAX that runs; "adrift":
\* phase .failed over a simulator that still runs; "failed": without one.
Machines == {"off", "config", "booting", "probing", "corrupt", "up", "stopped",
             "saving", "saved", "paused", "awake", "adrift", "failed"}
Live     == Machines \ {"off", "failed"}
\* The guest executes, and so writes its disk.
Running  == {"booting", "probing", "corrupt", "up", "awake", "adrift"}

Provisioning == {"reset", "resetMark", "resetSav", "pend", "pendMove", "pendSav",
                 "image", "imageSav", "copy", "stamp", "decide", "dropAttempt",
                 "launch"}
Staged       == {"impRm", "impCopy", "impCopying", "impReset", "rstRm", "rstMark",
                 "canRm", "canReset"}
Consuming    == {"rmSav", "rmAttempt"}

FlagsOK ==
    /\ reset \in BOOLEAN
    /\ attempt \in BOOLEAN
    /\ proc \in BOOLEAN
    /\ fg \in BOOLEAN
    /\ resuming \in BOOLEAN
    /\ tried \in BOOLEAN
    /\ late \in BOOLEAN
    /\ idled \in BOOLEAN
    /\ exposed \in BOOLEAN

\* The type invariant.
TypeOK ==
    /\ disk \in {"none", "torn", "golden", "import"}
    /\ stamp \in {"none", "current", "old"}
    /\ pending \in {"none", "torn", "whole"}
    /\ sav \in {"none", "torn", "good", "stale"}
    /\ pc \in {"free", "idle"} \cup Provisioning \cup Staged \cup Consuming
    /\ copying \in {"no", "yes", "done"}
    /\ then \in {"none", "up", "failed", "restart"}
    /\ machine \in Machines
    /\ FlagsOK

Init ==
    /\ disk = "none" /\ stamp = "none" /\ pending = "none" /\ reset = FALSE
    /\ sav = "none" /\ attempt = FALSE
    /\ proc = FALSE /\ pc = "idle" /\ copying = "no" /\ then = "none"
    /\ fg = FALSE /\ machine = "off" /\ resuming = FALSE
    /\ tried = FALSE /\ late = FALSE /\ idled = FALSE /\ exposed = FALSE

\* The main actor is between sections.
MainFree == proc /\ pc = "free"

\* The disk changes under whatever snapshot there is.
Aged(s) == IF s = "good" THEN "stale" ELSE s

-----------------------------------------------------------------------------
(* The life of the process.                                                *)

\* A launch, and start(): the first section is provision().  An app update
\* may have replaced the bundled image since.
Launch ==
    /\ ~proc
    /\ proc' = TRUE
    /\ pc' = "reset"
    /\ stamp' \in {stamp} \cup (IF AppUpdates /\ stamp = "current" THEN {"old"} ELSE {})
    /\ UNCHANGED <<disk, stage, sav, attempt, copying, then, fg, machine,
                   resuming, tried, history>>

\* Where a death leaves a snapshot on disk that is stale and not marked:
\* from foreground()'s `continue' to its consumeSnapshot(); from the removal
\* of the disk in provision() to that of the snapshot; and after the two
\* ways SIMH may run the VAX while the app believes something else.
ResumeInFlight == fg
SwapInFlight   == pc \in {"resetMark", "resetSav", "pendMove", "pendSav", "imageSav"}
Window         == ResumeInFlight \/ SwapInFlight \/ late \/ idled

\* iOS or the user kills the process, it crashes, or the Mac's
\* applicationShouldTerminate answers .terminateNow: at any moment.
Kill ==
    /\ proc
    /\ proc' = FALSE /\ pc' = "idle" /\ copying' = "no" /\ then' = "none"
    /\ fg' = FALSE /\ machine' = "off" /\ resuming' = FALSE
    /\ late' = FALSE /\ idled' = FALSE
    /\ exposed' = (exposed \/ Window)
    /\ UNCHANGED <<disk, stamp, stage, sav, attempt, tried>>

-----------------------------------------------------------------------------
(* provision(), one file operation per step.                               *)

Goto(l) == proc /\ pc' = l /\ UNCHANGED <<proc, copying, then, fg, machine, history>>

\* removeItem(at: disk), removeItem(at: snapshotURL).
RemoveDisk == disk' = "none" /\ sav' = Aged(sav) /\ UNCHANGED tried
RemoveSav  == sav' = "none" /\ tried' = FALSE
KeepSav    == UNCHANGED <<sav, tried>>

\* Mutant: the disk is replaced and its snapshot is kept.
SnapshotKept == KeepSav
\* Keep both or discard both: dropSnapshot(), after each change of the disk.
DropSnapshot == RemoveSav

ApplyReset ==
    /\ UNCHANGED <<stamp, pending, attempt, resuming>>
    /\ \/ pc = "reset" /\ ~reset /\ KeepSav /\ Goto("pend") /\ UNCHANGED <<disk, reset>>
       \/ pc = "reset" /\ reset /\ RemoveDisk /\ Goto("resetMark") /\ reset' = reset
       \/ pc = "resetMark" /\ reset' = FALSE /\ KeepSav /\ Goto("resetSav") /\ disk' = disk
       \/ pc = "resetSav" /\ DropSnapshot /\ Goto("pend") /\ UNCHANGED <<disk, reset>>

ApplyImport ==
    /\ UNCHANGED <<stamp, reset, attempt, resuming>>
    /\ \/ /\ pc = "pend" /\ pending = "none"
          /\ KeepSav /\ Goto("image") /\ UNCHANGED <<disk, pending>>
       \/ /\ pc = "pend" /\ pending # "none"
          /\ RemoveDisk /\ Goto("pendMove") /\ UNCHANGED pending
       \/ /\ pc = "pendMove"
          /\ disk' = IF pending = "whole" THEN "import" ELSE "torn"
          /\ pending' = "none" /\ KeepSav /\ Goto("pendSav")
       \/ /\ pc = "pendSav"
          /\ DropSnapshot /\ Goto("image") /\ UNCHANGED <<disk, pending>>

\* A rebuilt system image supersedes the working copy.
Superseded == disk # "none" /\ stamp # "current"

SupersedeImage ==
    /\ UNCHANGED <<stamp, stage, attempt, resuming>>
    /\ \/ pc = "image" /\ ~Superseded /\ KeepSav /\ Goto("copy") /\ disk' = disk
       \/ pc = "image" /\ Superseded /\ RemoveDisk /\ Goto("imageSav")
       \/ pc = "imageSav" /\ DropSnapshot /\ Goto("copy") /\ disk' = disk

\* Mutant: image.id is written before the copy.
StampFirst ==
    /\ proc
    /\ UNCHANGED <<stage, sav, attempt, proc, then, fg, resuming, tried, history, machine>>
    /\ \/ /\ pc = "copy" /\ disk # "none"
          /\ pc' = "decide" /\ UNCHANGED <<disk, stamp, copying>>
       \/ /\ pc = "copy" /\ disk = "none" /\ stamp' = "current"
          /\ disk' = "torn" /\ copying' = "yes" /\ pc' = "free"
       \/ /\ copying = "yes"
          /\ disk' = "golden" /\ copying' = "done" /\ UNCHANGED <<stamp, pc>>
       \/ /\ pc = "free" /\ copying = "done"
          /\ pc' = "decide" /\ copying' = "no" /\ UNCHANGED <<disk, stamp>>

\* No disk: a detached task copies the bundled one while the main actor is
\* free; image.id is written when the copy has succeeded.
CopyBundled ==
    /\ proc
    /\ UNCHANGED <<stage, sav, attempt, proc, then, fg, resuming, tried, history>>
    /\ \/ /\ pc = "copy" /\ disk # "none"
          /\ pc' = "decide" /\ UNCHANGED <<disk, stamp, copying, machine>>
       \/ /\ pc = "copy" /\ disk = "none"
          /\ disk' = "torn" /\ copying' = "yes" /\ pc' = "free"
          /\ UNCHANGED <<stamp, machine>>
       \/ /\ copying = "yes"
          /\ disk' = "golden" /\ copying' = "done" /\ UNCHANGED <<stamp, pc, machine>>
       \/ /\ pc = "free" /\ copying = "yes"            \* it throws
          /\ disk' = "none" /\ copying' = "no" /\ machine' = "failed"
          /\ UNCHANGED <<stamp, pc>>
       \/ /\ pc = "free" /\ copying = "done"
          /\ pc' = "stamp" /\ copying' = "no" /\ UNCHANGED <<disk, stamp, machine>>
       \/ /\ pc = "stamp"
          /\ stamp' = "current" /\ pc' = "decide" /\ UNCHANGED <<disk, copying, machine>>

\* Copying the boot file or writing the configs throws.
ProvisionThrows ==
    /\ proc /\ pc = "decide"
    /\ machine' = "failed" /\ pc' = "free"
    /\ UNCHANGED <<disk, stamp, stage, sav, attempt, proc, copying, then, fg,
                   resuming, tried, history>>

\* Mutant: the marker is not written.
MarkForgotten == UNCHANGED attempt
\* createFile(at: attemptURL), removeItem(at: attemptURL).
CreateAttempt == attempt' = TRUE
RemoveAttempt == attempt' = FALSE

\* One-shot restore attempts: a marker that is still there means that the
\* last attempt died.
Decide ==
    /\ UNCHANGED <<disk, stamp, stage>>
    /\ \/ /\ pc = "decide" /\ sav = "none"
          /\ RemoveAttempt /\ resuming' = FALSE /\ KeepSav /\ Goto("launch")
       \/ /\ pc = "decide" /\ sav # "none" /\ attempt
          /\ RemoveSav /\ Goto("dropAttempt") /\ UNCHANGED <<attempt, resuming>>
       \/ /\ pc = "dropAttempt"
          /\ RemoveAttempt /\ resuming' = FALSE /\ KeepSav /\ Goto("launch")
       \/ /\ pc = "decide" /\ sav # "none" /\ ~attempt
          /\ CreateAttempt /\ resuming' = TRUE /\ KeepSav /\ Goto("launch")

\* launchSimhThread(config:).
LaunchSimh ==
    /\ proc /\ pc = "launch"
    /\ machine' = "config" /\ pc' = "free"
    /\ UNCHANGED <<disk, stamp, stage, sav, attempt, proc, copying, then, fg,
                   resuming, tried, history>>

-----------------------------------------------------------------------------
(* The machine.                                                            *)

MachineFrame == /\ proc
                /\ UNCHANGED <<disk, stamp, stage, attempt, proc, copying, resuming>>

\* The SIMH thread executes its config: a cold boot, or `restore'.  A failed
\* restore leaves scp running garbage, which is what the probe is for.
SimhStarts ==
    /\ MachineFrame
    /\ machine = "config"
    /\ \/ ~resuming /\ machine' = "booting" /\ tried' = tried
       \/ /\ resuming /\ tried' = (sav # "none")
          /\ machine' = IF sav = "stale" THEN "corrupt" ELSE "probing"
    /\ UNCHANGED <<sav, pc, then, history, fg>>

\* "login:" on the console: phase = .up.
Booted ==
    /\ MachineFrame
    /\ MainFree
    /\ machine = "booting"
    /\ machine' = "up"
    /\ UNCHANGED <<sav, pc, then, tried, history, fg>>

\* A link cannot be dialled, or no login prompt comes: bringUp() gives up
\* over a simulator that has executed its config and runs.
BringUpFails ==
    /\ MachineFrame
    /\ MainFree
    /\ machine \in {"booting", "probing", "corrupt"}
    /\ machine' = "adrift"
    /\ UNCHANGED <<sav, pc, then, tried, history, fg>>

\* Console output within ten seconds: consume the snapshot, phase = .up.
\* No output: consume it and fail.
Probed ==
    /\ MachineFrame
    /\ MainFree
    /\ machine \in {"probing", "corrupt"}
    /\ pc' = "rmSav" /\ then' \in {"up", "failed"}
    /\ UNCHANGED <<sav, machine, tried, history, fg>>

\* simh_vax780_run() returns.  During a restore the snapshot is consumed and
\* bringUp() starts over; otherwise the machine has failed.
SimhExited ==
    /\ MachineFrame
    /\ MainFree
    /\ machine \in Live
    /\ LET restoring == machine \in {"config", "probing", "corrupt"} /\ sav # "none"
       IN \/ restoring /\ machine' = "off" /\ pc' = "rmSav" /\ then' = "restart"
          \/ ~restoring /\ machine' = "failed" /\ UNCHANGED <<pc, then>>
    /\ UNCHANGED <<sav, fg, tried, history>>

GuestWrites ==
    /\ MachineFrame
    /\ machine \in Running /\ sav = "good"
    /\ sav' = "stale"
    /\ UNCHANGED <<pc, then, machine, tried, history, fg>>

\* background(): ^E stops the VAX; `save' writes the file; SAVED is seen, or
\* given up on, and then `continue' is sent and the phase is .up again.
Background ==
    /\ MachineFrame
    /\ \/ /\ MainFree /\ machine = "up"
          /\ machine' = "stopped" /\ UNCHANGED <<sav, tried, late>>
       \/ /\ MainFree /\ machine = "stopped"        \* no sim> in time
          /\ machine' = "up" /\ UNCHANGED <<sav, tried, late>>
       \/ /\ machine = "stopped"
          /\ machine' = "saving" /\ sav' = "torn" /\ tried' = FALSE /\ late' = late
       \/ /\ machine = "saving"
          /\ machine' = "saved" /\ UNCHANGED <<tried, late>>
          /\ sav' = IF sav = "none" THEN "none" ELSE "good"   \* unlinked meanwhile
       \/ /\ MainFree /\ machine = "saved"
          /\ machine' = "paused" /\ UNCHANGED <<sav, tried, late>>
       \/ /\ MainFree /\ machine = "saved"
          /\ machine' = "up" /\ late' = TRUE /\ UNCHANGED <<sav, tried>>
    /\ UNCHANGED <<pc, then, idled, exposed, fg>>

\* foreground(): `continue' is sent, the VAX runs, and, acknowledged or not,
\* the snapshot is consumed.  The phase stays .paused until then.
Foreground ==
    /\ MachineFrame
    /\ \/ /\ MainFree /\ machine \in {"paused", "awake"} /\ ~fg
          /\ fg' = TRUE /\ UNCHANGED <<pc, then, machine>>
       \/ /\ machine = "paused" /\ fg
          /\ machine' = "awake" /\ UNCHANGED <<pc, then, fg>>
       \/ /\ MainFree /\ fg
          /\ pc' = "rmSav" /\ then' = "up" /\ UNCHANGED <<machine, fg>>
    /\ UNCHANGED <<sav, tried, history>>

\* `set remote timeout=600': command mode left idle continues by itself.
IdleContinue ==
    /\ MachineFrame
    /\ machine = "paused" /\ ~fg
    /\ machine' = "awake" /\ idled' = TRUE
    /\ UNCHANGED <<sav, pc, then, fg, tried, late, exposed>>

-----------------------------------------------------------------------------
(* consumeSnapshot(), and the buttons of Settings.                         *)

ConsumeFrame == /\ proc
                /\ UNCHANGED <<disk, stamp, stage, proc, copying, resuming, history>>

\* The snapshot goes first and its marker second; then what the caller does.
ConsumeSnapshot ==
    /\ ConsumeFrame
    /\ \/ /\ pc = "rmSav"
          /\ RemoveSav /\ pc' = "rmAttempt" /\ UNCHANGED <<attempt, then, fg, machine>>
       \/ /\ pc = "rmAttempt"
          /\ RemoveAttempt /\ then' = "none" /\ KeepSav
          /\ pc' = IF then = "restart" THEN "reset" ELSE "free"
          /\ \/ /\ then = "up" /\ fg' = FALSE
                /\ machine' = IF machine \in Live THEN "up" ELSE machine
             \/ then = "failed" /\ machine' = "adrift" /\ UNCHANGED fg
             \/ then \in {"none", "restart"} /\ UNCHANGED <<fg, machine>>

SettingsFrame == /\ proc
                 /\ UNCHANGED <<disk, stamp, sav, attempt, proc, copying, then, fg,
                                machine, resuming, tried, history>>

\* stageImport(from:), stageReset(), cancelStagedChanges(), discardSnapshot().
Settings ==
    /\ SettingsFrame
    /\ MainFree
    /\ \/ "import" \in Staging /\ pc' = "impRm"
       \/ "reset" \in Staging /\ pc' = "rstRm"
       \/ (pending # "none" \/ reset) /\ pc' = "canRm"
       \/ sav # "none" /\ pc' = "rmSav"
    /\ UNCHANGED stage

StageImport ==
    /\ SettingsFrame
    /\ \/ pc = "impRm" /\ pc' = "impCopy" /\ pending' = "none" /\ reset' = reset
       \/ pc = "impCopy" /\ pc' = "impCopying" /\ pending' = "torn" /\ reset' = reset
       \/ pc = "impCopying" /\ pc' = "impReset" /\ pending' = "whole" /\ reset' = reset
       \/ pc = "impCopying" /\ pc' = "free" /\ pending' = "none" /\ reset' = reset
       \/ pc = "impReset" /\ pc' = "rmSav" /\ reset' = FALSE /\ UNCHANGED pending

StageReset ==
    /\ SettingsFrame
    /\ \/ pc = "rstRm" /\ pc' = "rstMark" /\ pending' = "none" /\ reset' = reset
       \/ pc = "rstMark" /\ pc' = "rmSav" /\ reset' = TRUE /\ UNCHANGED pending

CancelStagedChanges ==
    /\ SettingsFrame
    /\ \/ pc = "canRm" /\ pc' = "canReset" /\ pending' = "none" /\ reset' = reset
       \/ pc = "canReset" /\ pc' = "free" /\ reset' = FALSE /\ UNCHANGED pending

-----------------------------------------------------------------------------
Next ==
    \/ Launch \/ Kill
    \/ ApplyReset \/ ApplyImport \/ SupersedeImage \/ CopyBundled
    \/ ProvisionThrows \/ Decide \/ LaunchSimh
    \/ SimhStarts \/ Booted \/ BringUpFails \/ Probed \/ SimhExited \/ GuestWrites
    \/ Background \/ Foreground \/ IdleContinue
    \/ ConsumeSnapshot \/ Settings \/ StageImport \/ StageReset
    \/ CancelStagedChanges

Spec == Init /\ [][Next]_vars

-----------------------------------------------------------------------------
(* Properties.                                                             *)

\* A saved session is handed to `restore' at most once, whatever dies in
\* between: restore.attempt is created before and removed after state.sav.
OneShotRestore == machine = "config" /\ resuming => ~tried

\* A stale snapshot is restored only if an earlier process died in one of
\* the named exposure windows: every other kill is safe.
StaleRestoreExposed == machine = "corrupt" => exposed

\* v8.disk is only ever replaced while no simulator is attached to it.
MediaAtRest == [][disk' # disk => machine \notin Live]_vars

\* A session that background() saved carries no marker that would make the
\* next launch throw it away.
SavedSessionKept == machine \in {"saved", "paused"} => ~attempt

\* SIMH is never attached to a half-copied disk.
TornNotBooted == machine \in Live => disk # "torn"

\* The inductive invariant behind the safety properties, part by part.
\* Control: which section may run in which state of the machine.
Fresh      == {"off", "config", "booting", "probing", "corrupt"}
ControlInv ==
    /\ proc = (pc # "idle")
    /\ ~proc => machine = "off" /\ copying = "no" /\ then = "none"
    /\ pc \in Provisioning \/ copying # "no" => machine = "off"
    /\ pc \in Provisioning => copying = "no" /\ then = "none"
    /\ machine \in Fresh \/ ~proc => ~fg /\ ~late /\ ~idled
    /\ fg => machine \in {"paused", "awake", "failed"}
    /\ then # "none" => pc \in Consuming /\ copying = "no"
    /\ then = "restart" => machine = "off"
    /\ then = "failed" => machine \in {"probing", "corrupt"}
    /\ then = "up" => machine \in {"probing", "corrupt", "paused", "awake", "failed"}
    /\ machine \in {"probing", "corrupt"} => resuming

\* restore.attempt guards every snapshot that SIMH has been given, and no
\* snapshot that a session under way has written.
MarkerInv ==
    /\ tried => attempt /\ sav # "none"
    /\ pc = "dropAttempt" => sav = "none"
    /\ pc = "rmAttempt" /\ machine \notin {"stopped", "saving", "saved"} => sav = "none"
    /\ pc = "launch" \/ machine = "config" =>
         IF resuming THEN ~tried /\ (attempt \/ sav = "none")
                     ELSE ~attempt /\ sav = "none"
    /\ machine = "booting" => ~attempt /\ sav = "none"
    /\ machine \in {"probing", "corrupt", "adrift"} => attempt \/ sav = "none"
    /\ machine \in {"up", "stopped", "saving", "saved", "paused", "awake"} => ~attempt

\* A snapshot that is stale, or about to become so, is marked, or a window
\* is open, or some process has already died in one.
SnapshotInv ==
    /\ sav = "stale" => attempt \/ Window \/ exposed
    /\ sav = "good" /\ machine \in Running => attempt \/ Window \/ exposed
    /\ sav = "stale" /\ (pc = "launch" \/ machine = "config") => exposed
    /\ machine \in {"up", "stopped"} => sav = "none" \/ late \/ exposed
    /\ machine = "awake" => fg \/ idled
    /\ machine = "corrupt" => exposed

IInv == TypeOK /\ ControlInv /\ MarkerInv /\ SnapshotInv
=============================================================================
