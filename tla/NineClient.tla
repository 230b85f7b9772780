----------------------------- MODULE NineClient ------------------------------
(***************************************************************************)
(* The guest's end of a 9P share: v10/usr/src/build/src/9pfs.c, the        *)
(* callbacks that libnetb (funcs.c, tag.c) calls for the requests of V10's *)
(* kernel, over the server of NineServer.                                  *)
(*                                                                         *)
(* One request is served at a time, and a request is a sequence of         *)
(* messages, each answered before the next is sent.  op is the request     *)
(* under way and op.at the message it sends next; a step is one message    *)
(* with the code up to the next one.  Between two of them the host's user  *)
(* may change the share and the connection may fall.                       *)
(*                                                                         *)
(* A file the kernel holds is an Rfile in held, indexed as libnetb does by *)
(* (ino, dev), which is the object: a control fid that is never opened,    *)
(* and an I/O fid cloned from it and opened when it is first needed.       *)
(*                                                                         *)
(* Abstractions.                                                           *)
(*  - Path names have one component: the fids of the directories between   *)
(*    are walked and dropped like the last one's.                          *)
(*  - Permission checks pass; the server's may still refuse.  malloc()     *)
(*    does not fail.                                                       *)
(***************************************************************************)
EXTENDS NineServer

CONSTANTS
    NFid,    \* the size of fidmap
    NTag     \* the size of libnetb's tag table, the root's entry included

\* `512 fids in flight; V10 gives us 100 tags': two fids for every tag, and
\* two for the request under way.
ASSUME TableAssumption == NTag \in Nat \ {0} /\ NFid \in Nat /\ NFid >= 2 * NTag + 2

VARIABLES
    alloc,   \* fidmap: the fids in use, as the client sees it
    held,    \* held[o]: the Rfile of object o, which the kernel holds
    op,      \* the request under way
    full     \* history: fidalloc() has found no fid

client == <<alloc, held, op, full>>
vars   == <<tree, made, isdir, moved, ro, conn, srv, alloc, held, op, full>>

Fids  == 0 .. NFid - 1
NoFid == -1
Rfile == [fid : Fids, io : Fids \cup {NoFid}, omode : {"r", "w"}]

Lookups == {"search", "creat", "nxcreat", "delete"}
Handles == {"stat", "read", "write", "trunc", "dirread"}
Steps   == {"walk", "stat", "unwalk", "dropio", "drop", "clone", "create", "unclone",
            "rmwalk", "remove", "ioclunk", "ioclone", "ioopen", "io", "fstat", "wstat"}
Request == [do : Lookups \cup Handles \cup {"mkdir", "rmdir", "put"}, at : Steps,
            tag : Objects \cup {Root}, name : Paths,
            nf : Fids \cup {NoFid}, cf : Fids \cup {NoFid},
            then : {"end", "create", "rm", "io", "undo"}]
Idle    == [do |-> "idle"]

\* The type invariant of both ends.
TypeOK ==
    /\ tree \in [Names -> Objects \cup {None}] /\ made \in 0 .. MaxObj
    /\ isdir \subseteq Objects /\ moved \subseteq Objects
    /\ ro \in BOOLEAN /\ conn \in BOOLEAN
    /\ DOMAIN srv \subseteq Fids /\ \A f \in DOMAIN srv : srv[f] \in Entry
    /\ alloc \subseteq Fids
    /\ DOMAIN held \subseteq Objects \cup {Root} /\ \A o \in DOMAIN held : held[o] \in Rfile
    /\ op \in Request \cup {Idle}
    /\ full \in BOOLEAN

\* fsinit() has attached the root, whose fid 0 is never freed.
Init ==
    /\ ServerInit
    /\ alloc = {0}
    /\ held = [o \in {Root} |-> [fid |-> 0, io |-> NoFid, omode |-> "r"]]
    /\ op = Idle /\ full = FALSE

-----------------------------------------------------------------------------
(* How a request goes on.                                                  *)

\* fidalloc(): the lowest fid not in A becomes field x of request r, which
\* goes on at step a; without one it goes on as r2.
Fidalloc(A, r, x, a, r2) ==
    LET free == {f \in Fids \ {0} : f \notin A}
        f    == CHOOSE g \in free : \A h \in free : g <= h
    IN IF free = {}
       THEN alloc' = A /\ op' = r2 /\ full' = TRUE
       ELSE alloc' = A \cup {f} /\ op' = [r EXCEPT ![x] = f, !.at = a] /\ UNCHANGED full

\* The request is over, or goes on at step a; A are the fids in use.
Ends(A)       == op' = Idle /\ alloc' = A /\ UNCHANGED full
Goes(A, r, a) == op' = [r EXCEPT !.at = a] /\ alloc' = A /\ UNCHANGED full

\* What follows a walk of the request that has come to nothing, or whose
\* Rfile has been dropped.
Proceed(A, r) ==
    LET s == [r EXCEPT !.nf = NoFid]
    IN CASE r.then = "end"    -> Ends(A)
         [] r.then = "create" -> Fidalloc(A, s, "cf", "clone", Idle)
         [] r.then = "rm"     -> Fidalloc(A, s, "nf", "rmwalk", Idle)
         [] r.then = "io"     -> Goes(A, s, "io")
         [] r.then = "undo"   -> Goes(A, s, "unclone")

\* fswalk() returned NULL.
Missing(r) ==
    [r EXCEPT !.then = CASE r.cf # NoFid              -> "undo"
                         [] r.cf = NoFid /\ r.do \in {"creat", "nxcreat"} -> "create"
                         [] r.do = "dirread"          -> "io"
                         [] OTHER                     -> "end"]

\* fswalk() returned a file that is not kept: what comes after fsdone().
Found(r, o) ==
    [r EXCEPT !.then = CASE r.do = "creat" /\ r.cf = NoFid      -> "create"
                         [] r.do = "delete" /\ o \notin isdir -> "rm"
                         [] r.do = "dirread"                    -> "io"
                         [] OTHER                               -> "end"]

Start(d, t, n) == [do |-> d, at |-> "walk", tag |-> t, name |-> n, nf |-> NoFid,
                   cf |-> NoFid, then |-> "end"]

-----------------------------------------------------------------------------
(* The requests of the kernel: NBNAMI and those on a file it holds.        *)

Kernel == op = Idle /\ UNCHANGED server

Lookup(d, n) ==
    /\ Kernel /\ UNCHANGED held
    /\ Fidalloc(alloc, Start(d, Root, n), "nf", "walk", Idle)

Mkdir(n) ==
    /\ Kernel /\ UNCHANGED held
    /\ Fidalloc(alloc, Start("mkdir", Root, n), "cf", "clone", Idle)

Rmdir(n) ==
    /\ Kernel /\ UNCHANGED held
    /\ Fidalloc(alloc, Start("rmdir", Root, n), "nf", "rmwalk", Idle)

\* fsdone() of the file of tag t.
Fsdone(t) == Goes(alloc, [Start("put", Root, Top) EXCEPT !.nf = held[t].fid, !.cf = held[t].io],
                  IF held[t].io = NoFid THEN "drop" ELSE "dropio")

\* NBPUT: the tag goes first.
Put(t) ==
    /\ Kernel /\ t \in DOMAIN held \ {Root}
    /\ held' = [o \in DOMAIN held \ {t} |-> held[o]]
    /\ Fsdone(t)

\* fsstat() and fsupdate() use the control fid.
OnControl(t) ==
    /\ Kernel /\ UNCHANGED held
    /\ t \in DOMAIN held
    /\ \/ Goes(alloc, Start("stat", t, Top), "fstat")
       \/ Goes(alloc, Start("trunc", t, Top), "wstat")

\* The I/O fid is open for what is wanted; the code's fsdirread() of the root
\* walks nowhere for its "..".
IoReady(A, r) ==
    IF r.do = "dirread" /\ r.tag # Root
    THEN Fidalloc(A, r, "nf", "walk", [r EXCEPT !.at = "io"])
    ELSE Goes(A, r, "io")

\* Mutant: an open I/O fid is taken as it is.
IoAnyMode(d, t) ==
    LET r == [Start(d, t, Top) EXCEPT !.then = "io"]
    IN /\ Kernel /\ UNCHANGED held
       /\ t \in DOMAIN held
       /\ d = "dirread" <=> t \in isdir \cup {Root}
       /\ IF held[t].io = NoFid THEN Fidalloc(alloc, r, "cf", "ioclone", Idle)
                                ELSE IoReady(alloc, r)

\* n9io(): an I/O fid open for reading is not good for a write.
Io(d, t) ==
    LET r == [Start(d, t, Top) EXCEPT !.then = "io"]
    IN /\ Kernel /\ UNCHANGED held
       /\ t \in DOMAIN held
       /\ d = "dirread" <=> t \in isdir \cup {Root}
       /\ CASE held[t].io = NoFid -> Fidalloc(alloc, r, "cf", "ioclone", Idle)
            [] held[t].io # NoFid /\ d = "write" /\ held[t].omode = "r" ->
                   Goes(alloc, r, "ioclunk")
            [] OTHER -> IoReady(alloc, r)

-----------------------------------------------------------------------------
(* The messages of a request, one step each.                               *)

Sends(a) == op # Idle /\ op.at = a

\* fswalk(): Twalk, then mkfile()'s Tstat.
Walk ==
    /\ Sends("walk") /\ UNCHANGED held
    /\ \E ok \in BOOLEAN :
         /\ Twalk(held[op.tag].fid, op.nf, op.name, ok)
         /\ IF ok THEN Goes(alloc, op, "stat") ELSE Proceed(alloc \ {op.nf}, Missing(op))

\* Mutant: of a file that the kernel holds already, only the Rfile is freed.
StatUnclunked ==
    /\ Sends("stat")
    /\ \E o \in Objects \cup {Root, None} :
         /\ Tstat(op.nf, o)
         /\ CASE o = None -> Goes(alloc, Missing(op), "unwalk") /\ UNCHANGED held
              [] o \in DOMAIN held /\ op.do = "search" -> Ends(alloc) /\ UNCHANGED held
              [] o \notin DOMAIN held \cup {None} /\ op.do = "search"
                 /\ Cardinality(DOMAIN held) < NTag ->
                   /\ held' = [p \in DOMAIN held \cup {o} |-> IF p = o
                                 THEN [fid |-> op.nf, io |-> op.cf, omode |-> "w"]
                                 ELSE held[p]]
                   /\ Ends(alloc)
              [] OTHER -> /\ Goes(alloc, Found(op, o), IF op.cf = NoFid THEN "drop" ELSE "dropio")
                          /\ UNCHANGED held

\* A file that is new to the kernel gets a tag; one that it holds already, or
\* for which the table has no room, is given back.
Stat ==
    /\ Sends("stat")
    /\ \E o \in Objects \cup {Root, None} :
         /\ Tstat(op.nf, o)
         /\ CASE o = None -> Goes(alloc, Missing(op), "unwalk") /\ UNCHANGED held
              [] o # None /\ (op.do = "search" \/ op.cf # NoFid)
                 /\ o \notin DOMAIN held /\ Cardinality(DOMAIN held) < NTag ->
                   /\ held' = [p \in DOMAIN held \cup {o} |-> IF p = o
                                 THEN [fid |-> op.nf, io |-> op.cf, omode |-> "w"]
                                 ELSE held[p]]
                   /\ Ends(alloc)
              [] OTHER -> /\ Goes(alloc, Found(op, o), IF op.cf = NoFid THEN "drop" ELSE "dropio")
                          /\ UNCHANGED held

\* n9clunk() and fidfree(), whatever the answer.
Clunk(f) == Tclunk(f) /\ UNCHANGED held

Unwalk  == Sends("unwalk")  /\ Clunk(op.nf) /\ Proceed(alloc \ {op.nf}, op)
DropIo  == Sends("dropio")  /\ Clunk(op.cf) /\ Goes(alloc \ {op.cf}, [op EXCEPT !.cf = NoFid], "drop")
Drop    == Sends("drop")    /\ Clunk(op.nf) /\ Proceed(alloc \ {op.nf}, op)
Unclone == Sends("unclone") /\ Clunk(op.cf) /\ Ends(alloc \ {op.cf})

\* fscreate() and fsmkdir(): Tcreate consumes the fid it is given.
Clone ==
    /\ Sends("clone") /\ UNCHANGED held
    /\ \E ok \in BOOLEAN :
         /\ Tclone(held[Root].fid, op.cf, ok)
         /\ IF ok THEN Goes(alloc, op, "create") ELSE Ends(alloc \ {op.cf})

Create ==
    /\ Sends("create") /\ UNCHANGED held
    /\ \E ok \in BOOLEAN :
         /\ Tcreate(op.cf, op.name, op.do = "mkdir", ok)
         /\ IF ok /\ op.do # "mkdir"
            THEN Fidalloc(alloc, op, "nf", "walk", [op EXCEPT !.at = "unclone"])
            ELSE Goes(alloc, op, "unclone")

\* Mutant: the walk is tried until it works.
RmRetried ==
    /\ Sends("rmwalk") /\ UNCHANGED held
    /\ \E ok \in BOOLEAN :
         /\ Twalk(held[Root].fid, op.nf, op.name, ok)
         /\ Goes(alloc, op, IF ok THEN "remove" ELSE "rmwalk")

\* n9rm(): the fid is gone with the answer, and its number free again.
RmWalk ==
    /\ Sends("rmwalk") /\ UNCHANGED held
    /\ \E ok \in BOOLEAN :
         /\ Twalk(held[Root].fid, op.nf, op.name, ok)
         /\ IF ok THEN Goes(alloc, op, "remove") ELSE Ends(alloc \ {op.nf})

Remove ==
    /\ Sends("remove") /\ UNCHANGED held
    /\ Tremove(op.nf) /\ Ends(alloc \ {op.nf})

\* n9io().
IoClunk ==
    /\ Sends("ioclunk")
    /\ Tclunk(held[op.tag].io)
    /\ held' = [held EXCEPT ![op.tag].io = NoFid]
    /\ Fidalloc(alloc \ {held[op.tag].io}, op, "cf", "ioclone", Idle)

IoClone ==
    /\ Sends("ioclone") /\ UNCHANGED held
    /\ \E ok \in BOOLEAN :
         /\ Tclone(held[op.tag].fid, op.cf, ok)
         /\ IF ok THEN Goes(alloc, op, "ioopen") ELSE Ends(alloc \ {op.cf})

\* Mutants: the clone that could not be opened is forgotten; the control fid
\* itself is opened.
OpenUnfreed ==
    /\ Sends("ioopen")
    /\ \E ok \in BOOLEAN :
         /\ Topen(op.cf, IF op.do = "write" THEN "w" ELSE "r", ok)
         /\ IF ok THEN /\ held' = [held EXCEPT ![op.tag].io = op.cf,
                                              ![op.tag].omode = IF op.do = "write" THEN "w" ELSE "r"]
                       /\ IoReady(alloc, [op EXCEPT !.cf = NoFid])
                  ELSE Ends(alloc) /\ UNCHANGED held
OpenControl ==
    /\ Sends("ioopen") /\ UNCHANGED held
    /\ \E ok \in BOOLEAN :
         /\ Topen(held[op.tag].fid, IF op.do = "write" THEN "w" ELSE "r", ok)
         /\ Goes(alloc, op, "unclone")

IoOpen ==
    LET mode == IF op.do = "write" THEN "w" ELSE "r"
    IN /\ Sends("ioopen")
       /\ \E ok \in BOOLEAN :
            /\ Topen(op.cf, mode, ok)
            /\ IF ok THEN /\ held' = [held EXCEPT ![op.tag].io = op.cf, ![op.tag].omode = mode]
                          /\ IoReady(alloc, [op EXCEPT !.cf = NoFid])
                     ELSE Goes(alloc, op, "unclone") /\ UNCHANGED held

\* Tread, Twrite, Tstat and Twstat of a file that is held.
Data ==
    /\ op # Idle /\ op.at \in {"io", "fstat", "wstat"}
    /\ Ends(alloc) /\ UNCHANGED server /\ UNCHANGED held

-----------------------------------------------------------------------------
Serve == \/ Walk \/ Stat \/ Unwalk \/ DropIo \/ Drop \/ Unclone \/ Clone \/ Create
         \/ RmWalk \/ Remove \/ IoClunk \/ IoClone \/ IoOpen \/ Data

Next ==
    \/ \E n \in Names : Mkdir(n) \/ Rmdir(n) \/ \E d \in Lookups : Lookup(d, n)
    \/ \E t \in DOMAIN held : Put(t) \/ OnControl(t) \/ \E d \in {"read", "write", "dirread"} : Io(d, t)
    \/ Serve
    \/ Host /\ UNCHANGED client

\* 9pfs runs, and a server that is there answers.
Spec == Init /\ [][Next]_vars /\ WF_vars(Serve)

-----------------------------------------------------------------------------
(* What is checked.                                                        *)

\* The two ends agree on which fids exist: the server has no fid that the
\* client thinks free, whatever was refused half way, and between requests the
\* client has none in use that the server has forgotten.
FidsAgree == conn => /\ DOMAIN srv \subseteq alloc
                     /\ op = Idle => alloc = DOMAIN srv

\* The fids that the request under way has of its own.
OpFids == IF op = Idle THEN {} ELSE {op.nf, op.cf} \ {NoFid}

\* Every fid in use has one owner, a file that the kernel holds or the request
\* under way: no error path of 9pfs.c loses a fid, and no path gives one away
\* that something still uses.
FidOwners ==
    /\ alloc = OpFids \cup {held[o].fid : o \in DOMAIN held}
                      \cup ({held[o].io : o \in DOMAIN held} \ {NoFid})
    /\ \A o, p \in DOMAIN held :
         /\ o # p => {held[o].fid, held[o].io} \cap {held[p].fid, held[p].io} \subseteq {NoFid}
         /\ held[o].fid # held[o].io
         /\ {held[o].fid, held[o].io} \cap OpFids = {}

\* `Two fids per file': the control fid of a file that is held can still be
\* walked from, as an open one cannot, and its I/O fid is open in the mode
\* that the client remembers.
TwoFids == conn => \A o \in DOMAIN held :
    /\ held[o].fid \in DOMAIN srv /\ srv[held[o].fid].mode = "shut"
    /\ held[o].io # NoFid => /\ held[o].io \in DOMAIN srv
                             /\ srv[held[o].io].mode = held[o].omode

\* A read or a write that is about to be sent reaches the file the kernel
\* means, in a mode that allows it, unless the host's user has taken the name
\* of that file, or of the one reached, away.
DataOfItsOwn == (op # Idle /\ op.at = "io" /\ conn) =>
    LET f == held[op.tag].io
    IN /\ f \in DOMAIN srv
       /\ op.do = "write" => srv[f].mode = "w"
       /\ srv[f].obj = op.tag \/ {srv[f].obj, op.tag} \cap moved # {}

\* fidmap is never too small for the tags there can be.
FidsSuffice == ~full

\* Every request is answered, whatever the share and the connection do.
CallsEnd == op # Idle ~> op = Idle
=============================================================================
