----------------------------- MODULE NineServer ------------------------------
(***************************************************************************)
(* The 9P2000.u server of a share, seen from one connection:               *)
(* netfs/Sources/NetFS/NineServer.swift over NineExport.swift.             *)
(*                                                                         *)
(* A fid is a number the client chose for a path; the path is looked up    *)
(* again by every message, while the descriptor of an open fid stays with  *)
(* the file it was opened on.  Messages are answered one at a time, in the *)
(* order they come, so a message is an operator that its sender's step     *)
(* uses, with the answer (Rerror or not) as its last argument.  The share  *)
(* is a directory of the host, which the host's user changes as he likes.  *)
(*                                                                         *)
(* Abstractions.                                                           *)
(*  - The share is one directory; directories in it are empty.             *)
(*  - A file is an object, numbered in the order of creation: the number   *)
(*    stands for qid.path, which is as unique as the host's (dev, ino).    *)
(*  - Contents, offsets, times and the 14-byte names are left out.         *)
(***************************************************************************)
EXTENDS Integers, FiniteSets

CONSTANTS
    Names,    \* names in the share
    MaxObj    \* bound: files and directories ever made in it

ASSUME MaxObjAssumption == MaxObj \in Nat

VARIABLES
    tree,     \* tree[n]: the object called n, or None
    made,     \* how many objects there have been
    isdir,    \* the objects that are directories
    moved,    \* history: objects that have lost their name
    ro,       \* NineConfig.readOnly
    conn,     \* the connection is up
    srv       \* the fids: path, mode ("shut" until opened) and open object

server == <<tree, made, isdir, moved, ro, conn, srv>>

None    == -1
Root    == 0                 \* the exported directory itself, as an object
Objects == 1 .. MaxObj
Top     == "/"               \* its path
Paths   == Names \cup {Top}
Modes   == {"shut", "r", "w"}
Entry   == [path : Paths, mode : Modes, obj : Objects \cup {Root, None}]

\* The object that a path names now, None when there is none.
At(p) == IF p = Top THEN Root ELSE tree[p]

Fresh(p)     == [path |-> p, mode |-> "shut", obj |-> None]
With(f, e)   == [g \in DOMAIN srv \cup {f} |-> IF g = f THEN e ELSE srv[g]]
Without(f)   == [g \in DOMAIN srv \ {f} |-> srv[g]]

\* get() and `fid is open'.
Shut(f) == conn /\ f \in DOMAIN srv /\ srv[f].mode = "shut"

ServerInit ==
    /\ tree = [n \in Names |-> None] /\ made = 0 /\ isdir = {} /\ moved = {}
    /\ ro \in BOOLEAN /\ conn = TRUE
    /\ srv = [f \in {0} |-> Fresh(Top)]

-----------------------------------------------------------------------------
(* The host: its file system, and the network.                             *)

\* Name n is given to object o; what had it before has lost it.
Give(n, o) ==
    /\ tree' = [tree EXCEPT ![n] = o]
    /\ moved' = moved \cup ({tree[n]} \ {None})

HostMakes(n) ==
    /\ made < MaxObj
    /\ Give(n, made + 1)
    /\ made' = made + 1
    /\ isdir' \in {isdir, isdir \cup {made + 1}}
    /\ UNCHANGED <<ro, conn, srv>>

HostRemoves(n) ==
    /\ tree[n] # None
    /\ Give(n, None)
    /\ UNCHANGED <<made, isdir, ro, conn, srv>>

\* rename(): the old name is free and the new one may have been taken.
HostRenames(m, n) ==
    /\ m # n /\ tree[m] # None
    /\ tree' = [tree EXCEPT ![n] = tree[m], ![m] = None]
    /\ moved' = moved \cup ({tree[n], tree[m]} \ {None})
    /\ UNCHANGED <<made, isdir, ro, conn, srv>>

\* run() ends: forgetAll().
LinkDown ==
    /\ conn
    /\ conn' = FALSE /\ srv' = [f \in {} |-> Fresh(Top)]
    /\ UNCHANGED <<tree, made, isdir, moved, ro>>

Host == \/ \E n \in Names : HostMakes(n) \/ HostRemoves(n)
        \/ \E m, n \in Names : HostRenames(m, n)
        \/ LinkDown

-----------------------------------------------------------------------------
(* The messages.                                                           *)

\* Twalk of one name, or of "..".
Twalk(f, new, p, ok) ==
    /\ ok = (Shut(f) /\ new \notin DOMAIN srv /\ At(p) # None)
    /\ srv' = IF ok THEN With(new, Fresh(p)) ELSE srv
    /\ UNCHANGED <<tree, made, isdir, moved, ro, conn>>

\* Twalk of no name: the path is copied, and nothing is asked of it.
Tclone(f, new, ok) ==
    /\ ok = (Shut(f) /\ new \notin DOMAIN srv)
    /\ srv' = IF ok THEN With(new, Fresh(srv[f].path)) ELSE srv
    /\ UNCHANGED <<tree, made, isdir, moved, ro, conn>>

\* The answer names the object the path has now.
Tstat(f, o) ==
    /\ o = IF conn /\ f \in DOMAIN srv THEN At(srv[f].path) ELSE None
    /\ UNCHANGED server

\* The fid is open before its qid is asked for: if the host takes the name
\* away in between, the answer is Rerror and the fid stays open.
Topen(f, mode, ok) ==
    LET p   == srv[f].path
        can == /\ Shut(f) /\ At(p) # None
               /\ mode = "w" => ~ro /\ At(p) \in Objects \ isdir
    IN /\ srv' = IF can THEN [srv EXCEPT ![f].mode = mode, ![f].obj = At(p)] ELSE srv
       /\ \/ ok = can /\ UNCHANGED <<tree, moved>>
          \/ can /\ ok = FALSE /\ p # Top /\ Give(p, None)
       /\ UNCHANGED <<made, isdir, ro, conn>>

\* O_CREAT | O_EXCL, or mkdir().  The directory's fid becomes the new file's.
Tcreate(f, n, dir, ok) ==
    LET can == Shut(f) /\ srv[f].path = Top /\ ~ro /\ tree[n] = None /\ made < MaxObj
        new == [path |-> n, mode |-> IF dir THEN "r" ELSE "w", obj |-> made + 1]
    IN IF can
       THEN /\ made' = made + 1
            /\ isdir' = IF dir THEN isdir \cup {made + 1} ELSE isdir
            /\ srv' = With(f, new)
            /\ \/ ok = TRUE /\ tree' = [tree EXCEPT ![n] = made + 1] /\ UNCHANGED moved
               \/ ok = FALSE /\ UNCHANGED tree /\ moved' = moved \cup {made + 1}
            /\ UNCHANGED <<ro, conn>>
       ELSE ok = FALSE /\ UNCHANGED server

\* Mutant: `easy to get wrong by returning early'.
RemoveFirst(f) ==
    LET p == IF conn /\ f \in DOMAIN srv THEN srv[f].path ELSE Top
    IN /\ IF p # Top /\ ~ro /\ tree[p] # None
          THEN Give(p, None) /\ srv' = Without(f)
          ELSE UNCHANGED <<tree, moved, srv>>
       /\ UNCHANGED <<made, isdir, ro, conn>>

\* The fid is clunked whether or not the file goes.
Tremove(f) ==
    /\ LET p == IF conn /\ f \in DOMAIN srv THEN srv[f].path ELSE Top
       IN IF p # Top /\ ~ro /\ tree[p] # None
          THEN Give(p, None)
          ELSE UNCHANGED <<tree, moved>>
    /\ srv' = Without(f)
    /\ UNCHANGED <<made, isdir, ro, conn>>

Tclunk(f) ==
    /\ srv' = Without(f)
    /\ UNCHANGED <<tree, made, isdir, moved, ro, conn>>

\* Tread and Twrite go to srv[f].obj, Twstat to what the path names; what they
\* do to contents is not in the model.
=============================================================================
