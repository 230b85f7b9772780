# Verification of ipnx

ipnx runs restored Research Unix (V8, V10) on an emulated VAX-11/780 inside a
Swift app, with AT&T 5620 terminals, host folders served to the guest over two
network file protocols, and a save and restore of the whole machine when the app
leaves the foreground. The directories `v8/` and `v10/` are the restored guest
systems; the program's own logic is in `app/ipnx`, `netfs/`, `libsimh/`,
`libdmd/` and the parts of the guests that were written for it or that it stands
on: V10's `9pfs.c` with `libnetb`, the kernel's client of netfs in V8 (`neta.c`,
`iget.c`, `nami.c`), the drivers of the Interlan board in both (`ill.c`,
`ni1010a.c`), and V8's terminal lines (`dz.c`, init, getty).

This directory holds TLA+ modules of that logic, TLC configurations that check
them on small instances, and TLAPS proofs for every value of the constants.
`tlc -config MCMedia.cfg Media` checks a module; `tlapm MediaProofs.tla` checks
its proofs. PROJECT.json maps every definition to the lines it models.

1. [Inventory](#inventory)
2. [Modules and the code](#modules-and-the-code)
3. [Runs](#runs)
4. [Fairness](#fairness)
5. [Proofs](#proofs)
6. [What the checks say about the code](#what-the-checks-say-about-the-code)
7. [Not modelled](#not-modelled)
8. [Plan](#plan)

## Inventory

| Component | State it keeps | Operations | Interacts with | What is hard | What makes it correct |
|---|---|---|---|---|---|
| Machine files (`Machine.swift`, buttons of `SettingsView.swift`) | `v8.disk`, `image.id`, `v8.disk.pending`, `reset.pending`, `state.sav`, `restore.attempt` | `provision`, `stageImport`, `stageReset`, `cancelStagedChanges`, `discardSnapshot`, `consumeSnapshot` | SIMH attaches the disk, reads and writes the snapshot | process death between any two file operations; a SIMH thread that writes meanwhile | a snapshot is restored once, over the disk it was taken from; the disk is only replaced at rest |
| Machine start (`Machine.swift`, `simh_shim.c`) | `phase`, `started`, `restartedAfterFailedRestore`, the two links | `start`, `bringUp`, `launchSimhThread`, `simhExited` | ConsoleLink, SIMH's thread, the files | a simulator that fails a restore, dies, or comes up late; a second `bringUp` over the first | one simulator at a time; `.up` means that the guest answers; every start ends |
| Suspend and resume (`Machine.swift`) | `phase`, what `background`/`foreground` wait for | `background`, `foreground` | ConsoleLink, SIMH's remote console | answers that are late or belong to an earlier question; calls that overlap | paused means stopped, with a complete snapshot; resumed means running, without one |
| ConsoleLink | connection, match buffer, the one expectation and its generation | `connect`, `waitFor`, `waitForAnyOutput`, `send`, `close`, `consume` | SIMH's console and remote console ports | one expectation per link; a buffer that outlives what it was meant for | a wait is answered by its own answer |
| Callers (`IpnxApp.swift`, parts of `Session.swift`) | tasks in flight, the deferred quit | `onChange(of: scenePhase)`, Suspend/Resume menu, `applicationShouldTerminate`, `unmountShares`, `mountShares` | Machine, SessionStore, UIKit/Cocoa | every window runs the handlers; seconds pass between a decision and its effect | the machine follows the scene; a quit waits for the save; the reply is given |
| DMD 5620 (`Terminal5620.swift`) | `state`, stop flag, NVRAM, the dmd thread | `start`, `stop`, `restart`, `threadMain` | dmd_core (one per process), SIMH's DZ line 0 | one stop flag for all threads, tested only now and then | one thread on the core; settings survive; off costs nothing |
| Sessions and lines (`Session.swift`, `SessionWindow.swift`; V8's `dz.c`, init, getty) | open sessions, their line and connection; who SIMH serves on a line, carrier, what runs on it | `start`, `stop`, `open`, `close`, `machineIsUp`, `onSpareLine`; `dzscan`, `dzopen`, `dfork` | SIMH's DZ lines, the shares | stop during a dial; two callers choose one line; a driver that looks every two seconds; prompts told apart by one character | a connection has an owner; no shell is inherited; a borrow's commands are run |
| TelnetFilter | state of the IAC parser | `filter` | ConsoleLink, Session | sequences cut at any byte | data bytes come through whole, once, in order |
| Host shares: life cycle (`FileShare.swift`, `ShareServer.swift`) | listener, settings | `start`, `stop`, `restart`, `adopt` | netfs and 9P servers | connections that outlive `stop`; the first byte selects the protocol | what is served is what the settings say |
| netfs client (V8's `neta.c`, `streamio.c`, `iget.c`, `nami.c`, `sys2.c`, `sys4.c`) | the key of the connection, transaction numbers, in-core inodes with their tags | `send`, `istread`, `istwrite`; `iget`, `iput`, open, creat, link, unlink, close, read, write | the netfs server over one stream | processes that wait for the key; waits given up; a number and its tag in two messages | a reply is the request's own; an inode has its file's tag |
| netfs server (`Server.swift`, `Export.swift`, `Wire.swift`, `CaseMap.swift`, `Host.swift`) | tags, handles, synthetic inodes, names | the requests of V8's network file system | the guest's kernel, the host's file system | paths under open handles; inode reuse; the 16-bit inode space; a torn request | a tag means one file for as long as the guest holds it |
| 9P server and client (`NineServer.swift`, `NineExport.swift`, `NineP.swift`, `9pfs.c`, libnetb's `funcs.c`) | the fid tables of both ends, the files the kernel holds by tag | the T-messages of 9P2000; the file-system calls of V10 | each other, over one stream | partial walks, failed creates, removes that clunk, version resets | both ends agree on which fids are in use |
| NI1010 (`pdp11_il.c`) | receive queue, buffers, pending interrupts | commands and frames | SIMH's bus and network, the guest's driver | chaining, exhausted buffers, one request for several completions | no frame is lost or told of twice |
| Drivers of the NI1010 (V8's `ill.c`, V10's `ni1010a.c`) | the blocks supplied, the command in progress, the channels' queues | `ilrint`, `ilcint`, put, open, `ilinit` | the board, the stream code | interrupts taken late, the receive handler in the middle of a transmission, blocks running short | driver and board agree on every buffer; packets are whole |
| Provisioner, DiskTransfer, MachineSpec, image builders, web terminal, views | - | - | - | - | see [Not modelled](#not-modelled) |

The parts meet in four places. The app talks to SIMH only through TCP: the VAX
console, the remote console (the "control link") and the DZ lines. Machine and
SIMH share the files of the machine. Machine and its callers share `phase`, the
callers deciding on what it was and acting on what it has become. And the guest
reaches the host's folders through its own kernel's client of one of the two
file protocols, and the network through its driver of the emulated board. Everything above SIMH is `@MainActor`: a function runs to its
next `await` without another of them running in between, and at every `await`
all of them may.

## Modules and the code

| Module | Models | State | Actions |
|---|---|---|---|
| `Media` | provision(), Settings' staging calls, consumeSnapshot(), what bringUp(), background(), foreground() and SIMH do to the files | each file by what a restore can tell about it; `pc` is the next file operation of the synchronous section under way | one per file operation, `Kill` between any two, the simulator beside them |
| `BringUp` | start(), bringUp(), simhExited() and its one restart, connect(), waitFor(), waitForAnyOutput() | `bu[r]`: the await the r-th bringUp() task is at; `sim[r]`: the simulator it launched | one per stretch between two awaits |
| `Suspend` | background(), foreground(), the control link, the remote console | `hs[t]`: the await of the task in slot t; `matchBuf`, `cmds`, `sim`, `sav` | one per stretch between two awaits, the timers, SIMH's execution of a command line |
| `MachinePhase` | abstract: what background() and foreground() promise | `phase`, the call in flight per slot, whether SIMH lives | a call begins, ends; SIMH fails |
| `AppLifecycle` | the handlers, menus and quit, on an INSTANCE of `MachinePhase` | one slot per task, `scene` and what each window has seen of it, the shares, the quit | one per handler, menu item and stretch between awaits |
| `Terminal5620` | start(), stop(), restart(), threadMain() | `th[t]` per dmd thread, the stop flag, line, core and file | one per main-actor call and per stretch of the thread between two tests of the flag |
| `NineServer` | a 9P connection of the server and the host's directory under it | `tree`: what each name means now; `srv`: path, mode and open object per fid | one operator per T-message, used by its sender's step; the host's user; the connection falls |
| `NineClient` | 9pfs.c and libnetb's requests, on `NineServer` | `alloc`: fidmap; `held`: the Rfile per tag; `op`: the request under way and the message it sends next | one per request of the kernel, one per message with the code up to the next |
| `Streams` | what the drivers take of the kernels' stream code: blocks of two sizes, packets from above, packets passed up | `scarce`, what is being put, `got` | the large blocks run out or return |
| `NI1010` | the board: every command the drivers give, receive chaining, the two interrupts, il_svc() | `hw`: the queue of buffers, the frame under way, what is in memory, pending requests | one operator per command, used by the driver's step; `Svc` |
| `Ill`, `Ni1010a` | V8's and V10's driver | `v8`, `v10`: blocks supplied, command in progress, queues | attach or open, put, one per interrupt handler |
| `Interlan` | the board, the stream code and one of the two drivers | `guest`: which system was booted | all of them |
| `Neta` | send() of V8's kernel for each of its processes, on istread() and istwrite(), and the server's framing | `key`, `pc[p]`, `x[p]`, the stream both ways, in pieces that can be torn | one per stretch of send(), a wait given up, `Serve`, a desynchronised server, hang-up |
| `Export` | one export of the netfs server: synthetic inodes, tags, handles | `export`; `tree`: what each name is on the host | one operator per request; the host's user |
| `Inodes` | the in-core inodes and the calls above them, on `Export` | `core[i]`: tag; `file[p]`, `op[p]` | one per message with the code up to the next |
| `DzLine` | a line of the guest: SIMH's listener, dz.c, init, getty, the shell | `dz[l]` | one operator per event on a line |
| `Lines` | tabs and the borrows of onSpareLine() on those lines | `tab[l]`, `bw[b]` | one per stretch between two awaits, dials, time-outs; the guest's steps, `Scan` |
| `MediaProofs`, `SuspendProofs`, `AppProofs`, `NineProofs`, `NetaProofs`, `InodesProofs`, `LinesProofs`, `InterlanProofs` | - | - | proofs |

`Suspend` implements `MachinePhase` (`ImplementsPhase`: `op` maps to the call
that `hs[t]` belongs to, `live` to the control link), and `AppLifecycle` is
built on `MachinePhase`, so what is checked of the callers holds over the real
handshake. `NineClient` EXTENDS `NineServer`: a message and its answer are one step, since
9pfs waits for each answer, and the steps of a request interleave with the host's
user. `Media` reduces the handshake to what it does to the files; `Suspend`
and `BringUp` leave out the death of the process, which is the subject of
`Media`.

`Interlan` EXTENDS both drivers and so both kernels' use of one board, since the
board's source states its contract against the two of them (`pdp11_il.c`, lines
11-49). A handler is one step. It may be: il_svc(), which alone runs beside it,
touches what a handler touches only through the commands the handler gives.
`Neta` and `Inodes` divide V8's netfs between them: `Neta` shows that one process
is in send() at a time, which is why a request and its answer are one step of
`Inodes`, as they are in `NineClient`. `Inodes` leaves the connection whole;
what a desynchronised one does is in `Neta`. `Lines` takes a borrow's
commands as it finds them; `AppLifecycle` has the callers, for whom a borrow is
its outcome.

Abstractions that matter: a file is "good", "stale" or "torn" relative to the
disk rather than bytes; the match buffer is the set of patterns present; a timer
may fire at any time while its wait is pending (no clock); the link delivers in
order, and lateness is in when SIMH executes a command. Each module's header
lists its own.

History variables (`tried`, `exposed`, `idled`, `crossed`, `overtaken`, `twice`,
`moved`, `late`, `wrong`, `lost`, `clashed`, `early`, `own`, `quick`, `full`, `got`) record that a
named thing has happened; no guard reads them. They let a property say "unless X
happened", and X is then the subject of a finding or of an observation below.

## Runs

Twelve runs: ten that TLC must find without error, each the whole of one
module, and two in which TLC must find the stated violation.

| Run | Bounds | Distinct states | Shows |
|---|---|---|---|
| `media` | both kinds of staging, app updates | 35 344 | at most one `restore` per snapshot; a stale restore only after a death in a named window |
| `bringup` | one launch and one restart (the code allows no more) | 1 561 | one simulator at a time; `.up` was answered; every start ends |
| `suspend` | 2 calls, 2 unread command lines when a call begins | 213 518 | paused means stopped and saved; up means no snapshot; one wait at a time unless a resume crossed a call; both calls end; refines `MachinePhase` |
| `lifecycle` | 3 calls, 2 windows, both platforms | 11 200 | callers return; the quit's reply is not sent into a handshake; an app in front has its machine unless it overtook its suspend |
| `terminal` | 4 threads, 2 pending restarts, windows that close | 50 090 | the core is not re-initialised under a thread, settings survive, off is off, a restart ends with a terminal |
| `nine` | 2 names, 2 objects made, 2 tags (one the root's), 6 fids | 577 409 | both ends agree on the fids; no fid is leaked or has two owners; control fids stay walkable; data reaches the file meant unless its name was taken away; the table suffices; every request ends |
| `interlan` | 3 buffers on the board, 2 frames of 2 lengths, 2 channels, 2 packets of up to 2 blocks | 694 025 | board and driver agree on the buffers; frames and packets are whole, once and in order; every completion is reported; the receive path does not close; what was put goes out; the panics have their cause |
| `neta` | 2 processes, 3 requests, numbers up to 1 | 938 594 | one process in send(); replies are the request's own until a wait is given up; the key is given up |
| `inodes` | 2 names, 2 files, 2 tags, 2 processes | 891 351 | an inode that is held has its file's tag unless one of four events took it; transfers reach that file; names made and removed are those meant |
| `lines` | 1 line, 2 borrows of 1 command, 2 greetings, 2 dials | 245 113 | connections have owners; no shell is inherited; a borrow that saw its logout has had its command run; the line comes back to getty |
| `lifecycle_shares`, `neta_resync` | smaller, the same as `neta` | - | the two findings below |

Why the bounds are enough. `Media` has no bound at all: its state space is
finite, with any number of launches and kills. `BringUp` has none either. In
`Suspend`, `MaxCmds` limits the command lines still unread when a call *begins*
(the calls add to them freely): with 2, the `echo` of a save that was given up and
the `continue` sent after it are both unread when the next call sends its own,
which is the case in which answers get confused. Two slots give every pair of
calls, and a slot is free again when its call ends, so sequences are unbounded.
In `Lifecycle`, three slots hold a suspend, a resume and a quit at once; two
windows give the second handler that the code does not expect. In `Terminal`,
four threads are four starts in a history, enough for a restart over a restart
and one more, and the liveness property excuses a history that has used them up.

In `nine`, the sizes keep the code's proportion, two fids per tag and two for the
request under way (`TableAssumption`; 512 and 100 in the code), and `NFid` is the
least that satisfies it, so a single leak is felt. Two tags are the root's and
one more, so the table is full whenever a file is held; two objects let a name
change its file under a held handle, two names let it be renamed.

In `interlan` the byte sizes are scaled with their order kept: a small block (64
in both) is just too small for the short frame (68), a long
one (210) takes four; a V8 buffer asks for `Mtu` bytes
(188; 1500), which is more than the large block (128; 1024), so that its
buffers are split as the code's are; V10 keeps two MTUs of bytes (376; 3000) in
at most 3 buffers (16) for a board that queues 3 (16). Two frames are a burst, in which one
request stands for two completions; two packets of two blocks on two channels
are what could be mixed; and the large blocks run out or come back once in a history, at any
moment of it (`MaxTurns`).

In `neta`, two processes wait for one key; three requests are the late one, the
one that meets its reply and one that must not. `MaxTran` limits how far the
kernel's count runs ahead of the numbers in use (system calls of other mounts
raise it too). In `inodes`, two files let a name or a
host inode pass from one to the other, and two processes let each message of
one call fall between two of the other. Its symmetry is sound: files and processes
are only compared with each other, and the properties are safety properties.

In `lines`, one line is enough for what is checked: lines share nothing but the choice of the
lowest free one, and two borrows on one line are the case that choice makes hard;
the proofs hold for any number. `MaxGreets` is 5 in the code (a greeting differs
from the next in nothing but that it is not the last), `NCmd` 1 for the two to four
commands of a borrow, `MaxUnread` limits what may be left on a line by others when
a borrow begins, and `MaxDials` the dials of one tab in flight.

Deadlock is checked for `media`, `nine`, `inodes` and `lines`. In the other
modules the system really may stop: the simulator dead and nothing left to call,
the process stopped by a failed precondition, a guest that has panicked, or all
the bounded requests made and answered. Their cfgs say `CHECK_DEADLOCK FALSE`.

Every property of a passing run has a mutant in PROJECT.json, a definition
changed the way a plausible bug would change the code (`BufferKept`: the match
buffer survives a match; `MarkForgotten`: the one-shot marker is not written;
`SvcOvertaking`: a frame is taken while one is under way), which TLC
finds to violate it.

## Fairness

- **Tasks** (`Task`, `Timeout`, `Borrowing`, `Enter`): a continuation that has been resumed runs, and a
  timer that is pending fires. The main actor is never blocked by the modelled
  code, and `Task.sleep` ends. A process that iOS freezes takes no steps at all,
  which weak fairness of a whole life excludes; what a process killed while
  frozen leaves behind is in `Media`.
- **simhExited()**: it is posted to the main actor by the thread that ran
  `simh_main`, and delivered.
- **RemoteConsole** (`Suspend`): SIMH polls its remote console and executes what
  it reads; the code sets no bound on how long that takes, and neither does the
  model. SIMH may die instead.
- **Threads** (`Terminal5620`): scheduled by the system; a dial ends, since its
  socket has a time-out.
- **Handlers** (`AppLifecycle`): SwiftUI runs `onChange` in each window.
- **Requests** (`Serve` of `NineClient`): 9pfs runs, and the server answers the message it has
  read or the read of the answer fails; `NineConnection.run()` replies to every
  message, an error included. A share that hangs inside a host call is excluded.
- **Send(p)** (`Neta`): a process that can run does, and each wait inside send()
  ends after thirty seconds at most (streamio.c:325). The server owes nothing.
- **il_svc() and the interrupts** (`Interlan`): SIMH schedules the unit for ever,
  and a guest that has not panicked lowers its priority again. The two conditions
  are written out as `[]<>~Due \/ []<><<A>>_vars`, which is what weak fairness
  says where `Due` is when A can be taken, since TLC takes too long over their ENABLED.
- **Lines**: the driver scans, init forks a getty for a line without one, dials
  end. Nothing is assumed of the guest's other processes: a command of a borrow may
  take for ever, and the borrow still ends.
- Nothing is assumed of the user, of the guest's boot, of a restore that works,
  or of the ten minutes after which SIMH's idle console resumes the VAX. `Inodes`
  has no liveness property and no fairness.

## Proofs

Eight modules. Each has an inductive invariant `IInv` (or one per theorem), one
lemma per action or per group of actions that disturb the same part, and
theorems that follow by PTL.

`MediaProofs`, for any `Staging` and `AppUpdates`, from the assumptions that the
first is a set of the two kinds and the second a Boolean.

- `Invariant`: `Spec => []IInv`, with `IInv` the conjunction of four parts, each
  needed by the others. `TypeOK`. `ControlInv` says which section may run in
  which state of the machine (no provisioning under a simulator, no
  consumeSnapshot() but where it is called). `MarkerInv` is the discipline of
  `restore.attempt`: a snapshot SIMH has been given stays marked until it is
  gone, and one that a running session writes is not marked. It is not inductive
  alone: that the marker is removed last is only known from `pc`. `SnapshotInv`
  says where a stale snapshot can be: marked, in an open window, or after a death
  in one.
- From it `OneShot`, `StaleOnlyIfExposed`, `SavedIsKept` (what background() saved
  is not marked) and, as an action property, `NeverUnderARunningMachine`.
- `NoTornDiskUnstaged`: with `Staging = {}` a half-copied disk is never booted.
  The strengthening `CopyInv` ties a torn disk to a stamp that is not current.
  With a reset staged it is false: see the observations below.

`SuspendProofs`, for any set of calls and any `MaxCmds \in Nat`.

- `TypeCorrect`: command queue included.
- `OneWaitAtATime`: `Spec => []WaitsAlone`. The strengthening `AloneInv`: as long
  as no resume crossed a call, at most one call is in flight and the phase is not
  `.up` during it (unless SIMH is gone, when `canSuspend` is false anyway).
- `PhaseSafety`: the initial states and every step map to `MachinePhase`, with
  `LiveInv` (the link is only closed once simhExited() came) as the invariant the
  refinement needs.
- `PausedIsSaved` and `UpHasNoSnapshot`. The strengthening `HandInv` is about a
  history without a late answer and without crossed calls: it says what each
  position of a call knows of SIMH, of its snapshot and of the commands still unread
  (`CallKnows`), that no SAVED of an earlier call is left to be taken for this
  one's (`NoOldSaved`), and that while no suspend is under way nothing unread would
  save or stop the machine (`Harmless`).

`AppProofs`, for any slots and windows, over `MachinePhase`: every
call in flight belongs to a task that waits for it (`JobsMatch`), handlers belong to
their platform, one call at a time unless a second resume was asked for, and what
the scene was when a task began. From it `QuitIsSettled` and `NotLeftPaused`.

`AppProofs` also has the terminal, for any threads and clicks: `TerminalInv` says that unless a
start() crossed a sleeping restart(), the stop flag is up while a restart() sleeps
and while a terminal that has been on is off, at most one thread lives once SIMH
listens, and a setting that was made is in the file or in the core of a thread
that will save it. From it
`OneDmd` and `SettingsAreKept`.

`NineProofs`, for any names, objects and any `NTag`, `NFid` with
`NFid >= 2 * NTag + 2`, which 512 and 100 satisfy. The invariant gives every fid of
fidmap one owner at every message of every request: an Rfile (control or I/O fid), or the
request under way in the part that its position gives it. The server has exactly the fids of
fidmap but for the one it has not been told of yet, and a fid's mode is what
its owner thinks it is. From it `FidsAgreed`, `OneOwner`, `TwoFidsKept`, and by counting owners
`FidsAlwaysSuffice`, which no run could show for the real sizes. `DataIsItsOwn` needs
`DataInv` besides: a control fid is of the name that its file was found by and an I/O fid was
opened by that name or came with it from a Tcreate, so that each leads to the file
unless the host's user took the name away (`Meant`), and so do the fids that the request
is about to make a file's (`OpMeant`); a read or a write finds its I/O fid open (`Ready`).

`NetaProofs`, for any processes, `MaxSends` and `MaxTran`: the key is set while anybody
is in send() or sleeps on it, nothing is in the stream to the server after a hang-up, and until
a wait is given up what is in the stream is the holder's own request or the rest of its own
reply (`Alone`, by the holder's position). From it `KeySerialises` and
`RepliesInTime`.

`InodesProofs`, for any names, files, tags and processes (as many tags as files at
least): handles and handleByIno are inverse to each other (`TablesAgree`), each call holds
what its position says it does, what is held is in core, and a tag in core is its file's
unless the inode is in `lost`. The count of iput() is a cardinality, so the
step for it goes through "the last holder is the only one". From it `TagsAgreed`.
The second invariant, `Led`, says of each handle that its path leads to its file and that its
descriptor is of that file, unless the file has lost a name to the host's user. Every
request is shown to keep it through handleForPath(), handleForIno(), open and revalidation.
From both `TagsKept` and the action property `NamesAreMeant`.

`LinesProofs`, for any lines, borrows and commands: for each line, who SIMH serves
against who believes to be served, the carrier against the process, and whose input is on the
stream; nothing in it relates two lines but the borrow that chose one. From it `EveryLineAccounted` and
`NoShellIsInherited`. `WorkIsDone` rests on `DoneInv`: nothing that waits for a getty was meant for a shell and
what has a borrow's name on it was typed by the line's holder (`CleanLines`), and
what a borrow has heard and counted follows the process it talks to (`Following`): while it
works, its unread commands are the last of the queue and no exit is before them, so that the
`login:' after its exit comes when each of them has been executed.

`LinesProofs` also has `BringUp`, which waits for the same prompt and has no constants:
`OneByOne` orders the two bringUp() tasks and their simulators, `Answers` says what a task
that has not been through a restart knows of the guest it waits for. From them
`OneSimulatorAtATime` and `UpMeansReady`.

`InterlanProofs`, for any sizes of blocks, frames and of the board's queue, any numbers of
channels, packets and pieces, from the assumptions that the queue holds what V10's driver
supplies (`RingAssumption`), that blocks may be chained (their sizes are multiples of 8) and
that a frame is at most a small block longer than ETHERMTU (`FrameAssumption`; it is 22
bytes longer in the code). The invariant `IInv` has a half for each direction, and each
command is shown to keep one half and to leave what the other needs.

- Receiving (`Ringed`, `SoFar`): the driver's chain is the blocks it has taken, those the board
  has filled without having reported them, and the board's queue; the filled blocks hold
  frames in the order of their arrival, each part going on where the one before ended
  (`Parts`), and the frame under way is what the last of them did not get (`InFlight`). What the driver
  still expects of a packet is the length in its first block less the blocks
  taken. V10's counts of buffers are those of its chain (`Buffers10`, a sum over
  a chain whose both ends move). From it `RingsAgree` and `FramesAreWhole`.
- Sending (`Flows`): for each channel the pieces on their way, from the protocol through the
  queue to the board, follow each other (`Flow`: each block of the queue is given the
  packet, the piece and the count of ends that have passed before it), only the channel in
  the middle of a packet has loaded pieces, and numbers of packets are used once (`Ledger`). From it
  `PacketsAreWhole`, and from both `PanicsAreExplained`.

Of V8 the proof shows why one buffer is enough: a buffer is supplied for the rest of the
packet, and one whose size forbids chaining only when that rest fits. TLC
checks the four properties on the run and not `IInv`, whose sequences of stages are
too many to enumerate.

Only model-checked: all liveness, with it the fairness half of
`ImplementsPhase` (the prover has no ENABLED).

## What the checks say about the code

Two places where the code does something a comment or document says it does
not, each with the run that shows it (`findings` in PROJECT.json has the quotes):

1. `lifecycle_shares`: shares dropped before a suspend do not come back when the
   machine is resumed in the same process.
2. `neta_resync`: after a wait that was given up, send() takes the late reply to
   another process's request for its own. The number it compares was copied
   before the process waited for the key, so two waiting processes have the same one.

What else the models show. Most of it is an exception that a passing property
names, so the run would report it if the exception were dropped.

Snapshots and disks. A `SAVED` that is not seen within 30 seconds leaves the
snapshot under a machine that runs on, and so does a death between `continue` and
consumeSnapshot() (`exposed`; Machine.swift:760, 768). stageReset() removes the
disk but not `image.id`, so a copy that dies halfway is taken for current
(Machine.swift:538 against 597-599; the theorem `NoTornDiskUnstaged` needs
`Staging = {}`). The remote console's idle timeout resumes a paused VAX by itself
(`idled`). A `sim>` later than eight seconds leaves a stopped VAX under `.up`.

Calls. foreground() does not leave `.paused` until its wait ends, and a
second one then fails ConsoleLink's precondition (`crossed` in `WaitsAlone`). Quit during a Suspend
terminates at once, in the save. A call that waits when the
simulator dies sets `.up` over a dead one when it ends (`MachinePhase` lets a call
end in `.up` after `Fail`). An app that is active again
before the suspend it scheduled has ended is suspended in front of its user, and
nothing resumes it (`overtaken` in `ActiveUnlessOvertaken`): the handler at
IpnxApp.swift:117 unmounts for seconds before it calls background(). The Suspend
menu does not unmount the shares. A bringUp() left behind by the restart may fire
`onRestored` for a cold boot, and the restart calls `simh_main` a
second time in one process (`aborted` in `StartEnds`).

The 5620. Two clicks on Restart Terminal within half a second start two threads on one
dmd_core (`crossed` in `OneDmdUncrossed`): Terminal5620.swift:95 leaves the state
at `.running` meanwhile.

Lines. restart() drops the terminal's line for half a second and V8's driver looks
at the carrier every two (dz.c:492), so it usually sees nothing: mux or the shell
goes on, where Terminal5620.swift:82-87 and docs/a3-notes.md:57-62 count on a
hang-up. The same holds for a tab closed and opened again, and for a tab opened
right after a borrow that ended without its logout, which finds a root shell
(`quick` in `NoShellInherited`). Two borrows choose the same line; the second is
refused by SIMH, waits for a `login:` that does not come, and skips its unmount
(`clashed`). A tab opened on a borrowed line is `.up` over a dead connection. stop()
during a dial leaves a closed tab that holds the line (`early`), and a second dial
over the first leaks a connection (`twice`). A fortune may contain the `#` that the
borrow waits for; LoggedOutMeansDone holds all the same, since the last wait is for
`login:` (whose result the code ignores).

9P. creat() of a file that exists on a V10 share fails with EEXIST:
9pfs sends Tcreate where open.2 promises a truncation, and the server opens
with O_EXCL. A handle whose name has been given to another file reopens onto that file, since
n9io() resolves the path again and only fsstat() compares identities (`moved` in
`DataOfItsOwn`); `rmdir` of a regular file removes it, since NI_RMDIR asks no
type and Tremove serves both; and libnetb's tag is the low 16 bits of a qid.path
that the server never reuses, so after 65 536 files two of them share a tag
(outside the model's bound).

netfs, the connection. docs/netfs-protocol.md:455-456 calls the numbers
monotonically increasing; they repeat and go back (`RepliesInTime` is proved
without it). Line 464 tears the connection down on a number from the future; send() returns EIO
and the connection stays. The data behind a stale NREAD reply is not read off
unless the current request is an NREAD too, and then parses as a header. istwrite() of nothing,
meant to shut the connection down, does nothing, and a torn request is completed with the bytes of
the next.

netfs, the files. `ln` on a V8 share makes the link and reports EEXIST
(Server.swift:433-436 with nami.c:88-96). Deleting a second hard link by its name
unlinks the path of the file's handle, which may be the first. A delete releases a
tag that the kernel may hold (`lost`), after which an open file answers ENOENT. naget() does not look at the
number in NGET's answer, so two in-core inodes may have one tag; and when NGET
fails, its iput() sends NPUT with whatever i_tag the slot had, which releases
another file's tag. `rm` that loses its race with a last close makes the kernel
use a null inode (`Panicked` in `Inodes`; neta.c:493-498).

NI1010. V10's driver panics ("il0int") when a frame needs a further buffer
while the command that would supply it is unanswered (`PanicsExplained`). A save
leaves out rxq, rxq_head and the two interrupt enables, so a guest restored in the
middle of a burst differs from the one that was saved (docs/n-track-notes.md:527-529 has it
that the registers are all that matters; found by reading, not by a run).

## Not modelled

- `MachineSpec` and `Settings` are tables and stored values; `DiskTransfer` is one
  file-copy dialogue without state of its own; nothing calls the code of
  `Provisioner` in this version.
- The SwiftUI views, fonts and Metal rendering keep no protocol of their own.
- SIMH and dmd_core are external: their behaviour is what the app's use of them
  shows, and such definitions are marked external in the map. The
  order in which SIMH takes the board's two interrupts is left open.
- The image builders and the web terminal are developer's aids.
- The rest of the guests' kernels and commands is the system that is run and
  not the program. V10's client of netfs (`netb`) and its `dz` driver belong to it.
- TelnetFilter, the case map and the 14-byte names are pure functions, tested by
  tables and by inputs cut at every byte.
- The listener of the shares: in which order Network.framework ends one and
  accepts on the next is not in the source.
- Of 9P: contents, offsets and directory bytes, the 14-byte fallback of names,
  links and devices, Tversion in mid-connection, Tauth and Tflush, which 9pfs never
  sends; path names of several components, whose intermediate fids are walked and
  dropped like the last one's.
- Of netfs: subdirectories and symbolic links, attributes and times, mknod and
  mkdir, read-only shares, the exhaustion of the 65 534 numbers, several exports on one
  server, payload sizes, and garbage that happens to be a valid command.
- Of the NI1010: FLUSH, PRMSC, loopback and the address filter, OFFLINE, save and
  restore; of its drivers, ioctl (with ENIOCMD), types that do not match, closing a
  channel that transmits, a reboot in the middle of a reception.
- Of the lines: the CR that wakes a new tab, the console's and the 5620's own
  sessions, transcripts, read-only locks, and SIMH's death, after which no tab
  dials again.

## Plan

Done: media, start, suspend, callers, terminal, 9P, netfs (connection and files), the
board with both drivers, tabs and lines, and the proofs listed above.

What could come next, in order of what it would add:

1. An abstract specification of a share (a set of open files) that both
   `NineClient` and `Inodes` implement, in place of their agreement invariants.
2. `Inodes` on a connection that falls and is mounted again, and with directories.
3. "never leave it stopped" (Machine.swift:760) as a property of every way a call
   of `Suspend` can end.
4. The board's FLUSH, OFFLINE and what a save keeps of it, with a restore in the
   middle of a burst.
