-------------------------------- MODULE Export -------------------------------
(***************************************************************************)
(* One mounted netfs export of the server for V8's kernel:                 *)
(* netfs/Sources/NetFS/Export.swift and the requests of Server.swift.      *)
(*                                                                         *)
(* A host file is known to the guest by a synthetic 16-bit inode number,   *)
(* which stands for the host's (dev, ino) and is never forgotten, and      *)
(* while the guest holds it by a tag, the number of a Handle.  A Handle    *)
(* keeps the path it was made with.  Requests are served one at a time, so *)
(* each is an operator that its sender's step uses, with the answer among  *)
(* its arguments.                                                          *)
(*                                                                         *)
(* Abstractions.                                                           *)
(*  - The share is one directory of regular files, not read-only.  Its own *)
(*    handle, made by the mount and never released, is left out.           *)
(*  - A file is its host inode, and its synthetic number is named for it:  *)
(*    inoByHost is injective, only grows, and is not exhausted.            *)
(*  - Contents, attributes, times and the 14-byte names are left out, and  *)
(*    with them NSTAT, NUPDAT and NFREE, which change nothing else.        *)
(***************************************************************************)
EXTENDS Integers, FiniteSets

CONSTANTS
    NName,     \* names in the share, in the order a listing has them
    Objects,   \* host inodes
    NTag       \* tags told apart: at least one for each file

ASSUME SizeAssumption ==
    NName \in Nat /\ NTag \in Nat /\ 0 \notin Objects
    /\ IsFiniteSet(Objects) /\ NTag >= Cardinality(Objects)

VARIABLES
    tree,     \* tree[n]: the file called n, or None
    export    \* the Export object

share == <<tree, export>>

None    == 0
Names   == 1 .. NName
Tags    == 1 .. NTag

\* moved is history: the file has lost a name to the host's user, or to a
\* delete that meant another, since the handle was made.
Handle  == [ino : Objects, path : Names, fd : Objects \cup {None}, moved : BOOLEAN]
Closed  == [ino |-> None]

Export == [pathByIno   : [Objects -> Names \cup {None}],
           handles     : [Tags -> Handle \cup {Closed}],
           handleByIno : [Objects -> Tags \cup {None}]]

Live(e, t) == t \in Tags /\ e.handles[t] # Closed
Open(e)    == {t \in Tags : Live(e, t)}

\* Files that exist: those with a name, and those a handle has open.
Existing == {tree[n] : n \in Names} \cup {export.handles[t].fd : t \in Open(export)}

\* buildDirImage() of the root: inoFor() gives every file of the share a
\* number, and the last of its names as its path.
Listed(e, t) ==
    [e EXCEPT !.pathByIno = [o \in Objects |->
        IF \E n \in Names : t[n] = o
        THEN CHOOSE n \in Names : t[n] = o /\ \A m \in Names : t[m] = o => m <= n
        ELSE @[o]]]

\* handle(forPath:): number the file, and find or make its handle (under the
\* tag new).  An existing handle keeps its path.
HandleForPath(e, t, n, new) ==
    LET o == t[n]
        f == [e EXCEPT !.pathByIno[o] = n]
    IN IF o = None THEN [tag |-> None, export |-> e]
       ELSE IF e.handleByIno[o] # None THEN [tag |-> e.handleByIno[o], export |-> f]
       ELSE [tag    |-> new,
             export |-> [f EXCEPT !.handleByIno[o] = new,
                                  !.handles[new] = [ino |-> o, path |-> n,
                                                    fd |-> None, moved |-> FALSE]]]

\* handle(forIno:)
HandleForIno(e, t, i, new) ==
    IF e.handleByIno[i] # None THEN [tag |-> e.handleByIno[i], export |-> e]
    ELSE IF e.pathByIno[i] = None THEN [tag |-> None, export |-> e]
    ELSE HandleForPath(e, t, e.pathByIno[i], new)

\* release(tag:)
Released(e, tag) ==
    IF Live(e, tag)
    THEN [e EXCEPT !.handles[tag] = Closed, !.handleByIno[e.handles[tag].ino] = None]
    ELSE e

\* The files S have lost a name.
Lose(e, S) ==
    [e EXCEPT !.handles = [t \in Tags |-> IF Live(e, t) /\ @[t].ino \in S
                                          THEN [@[t] EXCEPT !.moved = TRUE] ELSE @[t]]]

ShareInit ==
    /\ tree \in [Names -> Objects \cup {None}]
    /\ export = Listed([pathByIno |-> [o \in Objects |-> None],
                        handles |-> [t \in Tags |-> Closed],
                        handleByIno |-> [o \in Objects |-> None]], tree)

-----------------------------------------------------------------------------
(* The host's user.                                                        *)

\* A new file takes the name n, perhaps in the inode of one that is gone.
HostMakes(n) ==
    /\ \E o \in Objects \ Existing : tree' = [tree EXCEPT ![n] = o]
    /\ export' = Lose(export, {tree[n]})

HostRemoves(n) ==
    /\ tree[n] # None
    /\ tree' = [tree EXCEPT ![n] = None]
    /\ export' = Lose(export, {tree[n]})

HostRenames(m, n) ==
    /\ tree[m] # None /\ tree[n] # tree[m]
    /\ tree' = [tree EXCEPT ![n] = tree[m], ![m] = None]
    /\ export' = Lose(export, {tree[m], tree[n]})

Host == \/ \E n \in Names : HostMakes(n) \/ HostRemoves(n)
        \/ \E m, n \in Names : HostRenames(m, n)

-----------------------------------------------------------------------------
(* The requests.  Answers: the tag of the handle, or None for an error.    *)

Answer(a, tag) == tag = a.tag /\ export' = a.export

\* NGET of the root: it lists the directory again.
NgetRoot == export' = Listed(export, tree) /\ UNCHANGED tree

Nget(i, new, tag) ==
    /\ Answer(HandleForIno(export, tree, i, new), tag)
    /\ UNCHANGED tree

\* NPUT.
Nput(tag) == export' = Released(export, tag) /\ UNCHANGED tree

\* NNAMI of a name; it is not there (NOMATCH) or found.
Nnami(n, new, tag) ==
    /\ Answer(HandleForPath(export, tree, n, new), tag)
    /\ UNCHANGED tree

\* NNAMI with NCREAT: the file is made when there is none.
NnamiCreat(n, new, tag) ==
    IF tree[n] # None THEN Nnami(n, new, tag)
    ELSE \E o \in Objects \ Existing :
           LET t == [tree EXCEPT ![n] = o]
               a == HandleForPath(export, t, n, new)
           IN tree' = t /\ tag = a.tag /\ export' = Listed(a.export, t)

\* NNAMI with NLINK: a second name for the path of i's handle.
NnamiLink(n, i, new, tag) ==
    LET src == HandleForIno(export, tree, i, new)
        o   == tree[src.export.handles[src.tag].path]
        t   == [tree EXCEPT ![n] = o]
    IN IF tree[n] # None THEN Nnami(n, new, tag)
       ELSE IF src.tag = None \/ o = None
            THEN tag = None /\ export' = src.export /\ UNCHANGED tree
       ELSE tree' = t /\ Answer(HandleForPath(src.export, t, n, new), tag)

\* Mutant: the deleted file's tag is not released.
NnamiDelOnly(n, new, i) ==
    LET a == HandleForPath(export, tree, n, new)
        h == a.export.handles[a.tag]
        t == [tree EXCEPT ![h.path] = None]
    IN IF a.tag = None \/ tree[h.path] = None
       THEN i = None /\ export' = a.export /\ UNCHANGED tree
       ELSE /\ i = h.ino /\ tree' = t
            /\ export' = Lose(Listed(a.export, t), {tree[h.path]} \ {i})

\* NNAMI with NDEL: what is unlinked is the path of the handle.  The tag is
\* released, held or not.  i is the number in the answer.
NnamiDel(n, new, i) ==
    LET a == HandleForPath(export, tree, n, new)
        h == a.export.handles[a.tag]
        t == [tree EXCEPT ![h.path] = None]
    IN IF a.tag = None \/ tree[h.path] = None
       THEN i = None /\ export' = a.export /\ UNCHANGED tree
       ELSE /\ i = h.ino /\ tree' = t
            /\ export' = Released(Lose(Listed(a.export, t), {tree[h.path]} \ {i}), a.tag)

-----------------------------------------------------------------------------
(* Data.  o is the file that is reached, None when the request fails.      *)

\* Mutant: a descriptor is kept as long as its handle.
Unrevalidated(h) == h

\* revalidate(): a descriptor is dropped when its path has another file.
Revalidated(h) ==
    IF h.fd # None /\ tree[h.path] \notin {None, h.fd} THEN [h EXCEPT !.fd = None] ELSE h

Opened(h) == [h EXCEPT !.fd = tree[h.path]]

Reading(h) == IF Revalidated(h).fd # None THEN Revalidated(h) ELSE Opened(h)

Transfer(tag, h, o) ==
    /\ o = h.fd
    /\ export' = [export EXCEPT !.handles[tag] = h] /\ UNCHANGED tree

Nread(tag, o) ==
    IF Live(export, tag) THEN Transfer(tag, Reading(export.handles[tag]), o)
    ELSE o = None /\ UNCHANGED share

\* A descriptor that is open may be for reading only: it is opened again.
Nwrt(tag, o) ==
    \/ Nread(tag, o)
    \/ Live(export, tag) /\ Transfer(tag, Opened(export.handles[tag]), o)

\* NTRUNC goes by the path.
Ntrunc(tag, o) ==
    /\ o = IF Live(export, tag) THEN tree[export.handles[tag].path] ELSE None
    /\ UNCHANGED share
=============================================================================
