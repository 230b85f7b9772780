-------------------------------- MODULE Inodes -------------------------------
(***************************************************************************)
(* The files of an Export as V8's kernel holds them: the in-core inodes of *)
(* usr/sys/sys/iget.c under the calls of sys2.c and sys4.c, with nanami(), *)
(* naget() and naput() of neta.c.                                          *)
(*                                                                         *)
(* A process is at one message of its call; the kernel's connection lock   *)
(* (module Neta) lets one message and its answer pass at a time, so a step *)
(* is a message, its answer and the code up to the next one.  An inode is  *)
(* in core as long as somebody holds it; its count is the number of those  *)
(* who do.                                                                 *)
(*                                                                         *)
(* Abstractions.                                                           *)
(*  - A process has one file open.  Permissions are granted, tables have   *)
(*    room.                                                                *)
(*  - A lock that is taken, used for one message and given back is part of *)
(*    that step; where a second message follows it is held in between.     *)
(*  - NUPDAT, NFREE and NSTAT change nothing that is modelled.             *)
(***************************************************************************)
EXTENDS Export, Sequences, TLC

CONSTANT Procs

ASSUME ProcsAssumption == IsFiniteSet(Procs)

VARIABLES
    core,     \* core[i]: the tag in the in-core inode i, None if it is not in
              \* core; a tag that the server has released is Dead
    file,     \* file[p]: the inode p has open, or None
    op,       \* op[p]: the call p is in and the message it sends next
    lost      \* history: inodes in core that have not the tag of their file

kernel == <<core, file, op, lost>>
vars   == <<tree, export, core, file, op, lost>>

Symmetry == Permutations(Objects) \cup Permutations(Procs)

Dead  == -1
Calls == {"open", "creat", "unlink", "link"}
Steps == {"iget", "trunc", "nlink", "eexist", "dget", "stray", "put", "panic"}
Lists == {<< >>} \cup {<<i>> : i \in Objects} \cup {<<i, j>> : i, j \in Objects}
Call  == [do : Calls, at : Steps, ino : Objects, refs : Lists]
Idle  == [do |-> "idle"]

\* The inodes that the call of p holds, in the order it puts them.
Refs(p) == IF op[p] = Idle THEN << >> ELSE op[p].refs

TypeOK ==
    /\ tree \in [Names -> Objects \cup {None}]
    /\ export \in Export
    /\ core \in [Objects -> Tags \cup {None, Dead}] /\ file \in [Procs -> Objects \cup {None}]
    /\ op \in [Procs -> Call \cup {Idle}] /\ lost \subseteq Objects

Init ==
    /\ ShareInit
    /\ core = [i \in Objects |-> None] /\ file = [p \in Procs |-> None]
    /\ op = [p \in Procs |-> Idle] /\ lost = {}

At(p, s)  == op[p] # Idle /\ op[p].at = s
Panicked  == \E p \in Procs : At(p, "panic")
Running   == ~Panicked

\* i_count of inode i: it counts the files open and the references of calls.
Openers(i) == {p \in Procs : file[p] = i}
Users(i)   == {r \in Procs \X {1, 2} : r[2] \in DOMAIN Refs(r[1]) /\ Refs(r[1])[r[2]] = i}
Count(i)   == Cardinality(Openers(i)) + Cardinality(Users(i))

\* Somebody has i locked over more than one message.
Locked(i) == \E p \in Procs : op[p] # Idle /\ op[p].ino = i /\ op[p].at \in {"trunc", "stray"}

\* unlink() keeps the directory locked while it looks after the inode.
DirLocked == \E p \in Procs : op[p] # Idle /\ op[p].do = "unlink"

\* The tag the server gives next: it counts up, so it is one nobody has.
NewTag == CHOOSE t \in Tags : ~Live(export, t)

\* The core c after a request that may have released a tag.
After(c) == [i \in Objects |-> IF c[i] \in Tags /\ ~Live(export', c[i]) THEN Dead ELSE c[i]]

\* The number that an answer with a tag gives.
Ino(tag) == export'.handles[tag].ino

Goes(p, c) == op' = [op EXCEPT ![p] = c]
Ends(p)    == Goes(p, Idle)

-----------------------------------------------------------------------------
(* iget() and iput().                                                      *)

\* Inode i is in core with the tag t: it is lost if that is another file's.
Entered(i, t) ==
    /\ core' = [core EXCEPT ![i] = t]
    /\ lost' = IF Ino(t) = i THEN lost ELSE lost \cup {i}

\* Mutant: every put gives the tag back.
IputEach(i) ==
    /\ Nput(core[i])
    /\ core' = After(IF Count(i) = 1 THEN [core EXCEPT ![i] = None] ELSE core)
    /\ lost' = (lost \cup {j \in Objects \ {i} : core[j] = core[i]})
               \ (IF Count(i) = 1 THEN {i} ELSE {})

\* iput() of the last reference: naput() gives the tag back, and the inode
\* leaves the core.  If the tag was another file's, that one has lost it.
Iput(i) ==
    IF Count(i) = 1
    THEN /\ Nput(core[i])
         /\ core' = After([core EXCEPT ![i] = None])
         /\ lost' = (lost \cup {j \in Objects : core[j] = core[i]}) \ {i}
    ELSE UNCHANGED <<share, core, lost>>

\* What p does with the inode that iget() gave it.
Holds(p) ==
    LET c == op[p]
    IN CASE c.do = "open"    -> Ends(p) /\ file' = [file EXCEPT ![p] = c.ino]
         [] c.do = "creat"   -> /\ Goes(p, [c EXCEPT !.at = "trunc", !.refs = <<c.ino>>])
                                /\ UNCHANGED file
         [] c.at = "eexist"   -> /\ Goes(p, [c EXCEPT !.at = "put", !.refs = <<c.ino, @[1]>>])
                                /\ UNCHANGED file
         [] c.do = "link" /\ c.at = "iget"
                             -> /\ Goes(p, [c EXCEPT !.at = "nlink", !.refs = <<c.ino>>])
                                /\ UNCHANGED file
         [] c.do = "unlink"  -> /\ IF core[c.ino] # None THEN Ends(p)
                                   ELSE Goes(p, [c EXCEPT !.at = "put", !.refs = <<c.ino>>])
                                /\ UNCHANGED file

\* iget(): the inode in core, once it is unlocked, or NGET.  naget() does not
\* look at the number in the answer; if there is none it calls iput().
Iget(p) ==
    LET i == op[p].ino
    IN /\ Running /\ op[p] # Idle /\ op[p].at \in {"iget", "eexist", "dget"} /\ ~Locked(i)
       /\ IF core[i] # None
          THEN Holds(p) /\ UNCHANGED <<share, core, lost>>
          ELSE \E t \in Tags \cup {None} :
                 /\ Nget(i, NewTag, t)
                 /\ IF t = None
                    THEN Goes(p, [op[p] EXCEPT !.at = "stray"]) /\ UNCHANGED <<core, file, lost>>
                    ELSE /\ Holds(p)
                         /\ Entered(i, t)

\* That iput() sends NPUT with what the slot's last inode left in i_tag, which
\* may be a disk address.  Then nanami() uses the inode that unlink() has not.
Stray(p) ==
    /\ Running /\ At(p, "stray")
    /\ \E t \in Tags \cup {None} :
         /\ Nput(t)
         /\ core' = After(core)
         /\ lost' = lost \cup {j \in Objects : core[j] = t /\ t # None}
    /\ IF op[p].do = "unlink" THEN Goes(p, [op[p] EXCEPT !.at = "panic"])
       ELSE IF op[p].refs = << >> THEN Ends(p)
       ELSE Goes(p, [op[p] EXCEPT !.at = "put"])
    /\ UNCHANGED file

Put(p) ==
    /\ Running /\ At(p, "put")
    /\ Iput(Head(op[p].refs))
    /\ IF Len(op[p].refs) = 1 THEN Ends(p) ELSE Goes(p, [op[p] EXCEPT !.refs = <<@[2]>>])
    /\ UNCHANGED file

-----------------------------------------------------------------------------
(* The calls.                                                              *)

Begins(p) == Running /\ op[p] = Idle /\ file[p] = None /\ ~DirLocked

Enter(p, d, i, s) == Goes(p, [do |-> d, at |-> s, ino |-> i, refs |-> << >>])

\* Some process's path crosses the mount point, the root not being in core.
Cross == Running /\ ~DirLocked /\ NgetRoot /\ UNCHANGED kernel

\* namei() in open(), creat(), and for link()'s first name.
Lookup(p, d, n) ==
    /\ Begins(p)
    /\ \E t \in Tags \cup {None} :
         /\ IF d = "creat" THEN NnamiCreat(n, NewTag, t) ELSE Nnami(n, NewTag, t)
         /\ IF t = None THEN UNCHANGED op ELSE Enter(p, d, Ino(t), "iget")
    /\ UNCHANGED <<core, file, lost>>

\* open1() of creat(): the file that is made is truncated like one that was
\* there, since the answer has not NOMATCH in its flags.
Trunc(p) ==
    LET i == op[p].ino
    IN /\ Running /\ At(p, "trunc")
       /\ \E o \in Objects \cup {None} :
            /\ Ntrunc(core[i], o)
            /\ IF o = None THEN Goes(p, [op[p] EXCEPT !.at = "put"]) /\ UNCHANGED file
               ELSE Ends(p) /\ file' = [file EXCEPT ![p] = i]
       /\ UNCHANGED <<core, lost>>

\* namei() of link()'s second name.  A link that has been made is answered
\* like a name that was there: either way the inode is got and the call fails.
\* A tag that is dead may have been when NUPDAT came, which ends the call.
Nlink(p) ==
    /\ Running /\ At(p, "nlink") /\ ~DirLocked
    /\ \/ \E n \in Names, t \in Tags \cup {None} :
            /\ NnamiLink(n, op[p].ino, NewTag, t)
            /\ Goes(p, IF t = None THEN [op[p] EXCEPT !.at = "put"]
                       ELSE [op[p] EXCEPT !.at = "eexist", !.ino = Ino(t)])
       \/ /\ core[op[p].ino] = Dead
          /\ Goes(p, [op[p] EXCEPT !.at = "put"]) /\ UNCHANGED share
    /\ UNCHANGED <<core, file, lost>>

\* ifind(): i is in core, or has a slot that another process is filling.
Findable(i) == core[i] # None \/ Locked(i)
Filling(i)  == \E q \in Procs : op[q] # Idle /\ op[q].at \in {"iget", "eexist"} /\ op[q].ino = i

\* unlink(): what is in core is got, after whoever has it locked.
Unlink(p, n) ==
    /\ Begins(p)
    /\ \E i \in Objects \cup {None} :
         /\ NnamiDel(n, NewTag, i)
         /\ core' = After(core)
         /\ IF i = None THEN UNCHANGED <<op, lost>>
            ELSE /\ \/ (Findable(i) \/ Filling(i)) /\ Enter(p, "unlink", i, "dget")
                    \/ ~Findable(i) /\ UNCHANGED op
                 /\ lost' = lost \cup {j \in Objects : core[j] # None
                                                       /\ core[j] = export.handleByIno[i]}
    /\ UNCHANGED file

Uses(p) == Running /\ op[p] = Idle /\ file[p] # None /\ ~Locked(file[p])

Close(p) ==
    /\ Uses(p)
    /\ Iput(file[p])
    /\ file' = [file EXCEPT ![p] = None] /\ UNCHANGED op

Read(p, o)  == Uses(p) /\ UNCHANGED kernel /\ Nread(core[file[p]], o)
Write(p, o) == Uses(p) /\ UNCHANGED kernel /\ Nwrt(core[file[p]], o)

Continue(p) == Iget(p) \/ Stray(p) \/ Put(p) \/ Trunc(p) \/ Nlink(p)

Begin(p) ==
    \/ \E n \in Names : Unlink(p, n) \/ \E d \in Calls \ {"unlink"} : Lookup(p, d, n)
    \/ Close(p)
    \/ \E o \in Objects \cup {None} : Read(p, o) \/ Write(p, o)

HostStep == Host /\ UNCHANGED kernel

Next == HostStep \/ Cross \/ (\E p \in Procs : Begin(p) \/ Continue(p))

Spec == Init /\ [][Next]_vars

-----------------------------------------------------------------------------
(* Properties.                                                             *)

\* The inodes that p holds: open, or in the course of a call.
Holding(p) == ({file[p]} \ {None}) \cup {Refs(p)[k] : k \in DOMAIN Refs(p)}

\* Whatever opens, closes, links, removes and the host's user do between each
\* other's messages, an inode that somebody holds is in core, and its tag is a
\* live handle of its file, unless one of four things has taken it (lost): a
\* remove released it, the NPUT of a failed naget() named it, the file's name
\* was given to another between the lookup and NGET, or the other inode of
\* such a pair was put.  Export.swift:239-257, iget.c:73-223, neta.c:122-190.
TagsAgree ==
    /\ \A p \in Procs : \A i \in Holding(p) : core[i] # None
    /\ \A i \in Objects : core[i] # None /\ i \notin lost =>
           Live(export, core[i]) /\ export.handles[core[i]].ino = i

Strayed(o) == export.handleByIno[o] # None /\ export.handles[export.handleByIno[o]].moved

\* Whatever the host's user has done since the last transfer, the next one by
\* a tag reaches the file the tag was given for, and the one that the path, and
\* so NSTAT, has now: a descriptor that is open is not used for another.  The
\* exceptions are a file that has lost a name, for which only the second holds,
\* and a path with no file, for which only the first.  Export.swift:59-87,
\* 399-454.
TagsKeepFile ==
    \A p \in Procs : Uses(p) /\ Live(export, core[file[p]]) =>
        LET h == export.handles[core[file[p]]]
        IN \A o \in {Reading(h).fd, Opened(h).fd} :
             (o = h.ino \/ h.moved) /\ tree[h.path] \in {o, None}

\* A name that unlink() takes away is one of the file it was called for, and a
\* name that link() makes is one of the file it looked up, unless the host's
\* user has moved the file, or its tag was lost.  That unlink() may take the
\* file's other name is seen in the run: the handle's path is unlinked.
\* Server.swift:412-447, Export.swift:217-233, 517-527.
NamesMeant ==
    [][tree' # tree => \A p \in Procs :
         /\ \A n \in Names : Unlink(p, n) =>
              \/ Strayed(tree[n])
              \/ \E m \in Names : tree[m] = tree[n] /\ tree' = [tree EXCEPT ![m] = None]
         /\ Nlink(p) =>
              \/ Strayed(op[p].ino) \/ op[p].ino \in lost
              \/ \E n \in Names : tree[n] = None /\ tree' = [tree EXCEPT ![n] = op[p].ino]]_vars
=============================================================================
