------------------------------ MODULE NineProofs ------------------------------
(***************************************************************************)
(* Theorems about NineClient, for any share and any sizes of the two       *)
(* tables that keep the code's proportion: every fid has one owner, both   *)
(* ends agree on the fids, fidmap never runs out, and what is read or      *)
(* written is the file that the kernel means.                              *)
(***************************************************************************)
EXTENDS NineClient, TLAPS, FiniteSetTheorems, WellFoundedInduction

\* What a message may do to the server's side.
ServerTyped ==
    /\ tree \in [Names -> Objects \cup {None}] /\ made \in 0 .. MaxObj
    /\ isdir \subseteq Objects /\ moved \subseteq Objects
    /\ ro \in BOOLEAN /\ conn \in BOOLEAN
    /\ \A f \in DOMAIN srv : srv[f] \in Entry

\* The Rfiles h of the kernel's files: the root is one of them, with fid 0.
HeldOK(h) ==
    /\ DOMAIN h \subseteq Objects \cup {Root} /\ \A o \in DOMAIN h : h[o] \in Rfile
    /\ Root \in DOMAIN h /\ h[Root].fid = 0
    /\ Cardinality(DOMAIN h) <= NTag

\* Which fids the request r has at each of its messages, and how it goes on.
Shape(h, r) ==
    /\ r \in Request
    /\ r.at \in {"walk", "stat", "unwalk", "dropio", "drop", "rmwalk", "remove"} <=> r.nf # NoFid
    /\ r.at \in {"dropio", "clone", "create", "unclone", "ioclone", "ioopen"} => r.cf # NoFid
    /\ r.at \in {"drop", "rmwalk", "remove", "ioclunk", "io", "fstat", "wstat"} => r.cf = NoFid
    /\ r.at \in {"walk", "stat", "unwalk"} /\ r.cf # NoFid => r.do \in {"creat", "nxcreat"}
    /\ r.at \in {"clone", "create"} => r.do \in {"creat", "nxcreat", "mkdir"}
    /\ r.at = "dropio" => r.then = "end"
    /\ r.at \in {"unwalk", "drop"} => /\ r.then = "undo" <=> r.cf # NoFid
                                      /\ r.then = "create" => r.do \in {"creat", "nxcreat"}
    /\ r.at \in {"ioclunk", "ioclone", "ioopen"} =>
           r.tag \in DOMAIN h /\ (r.at = "ioclunk" <=> h[r.tag].io # NoFid)

OpFidsOf(r) == IF r = Idle THEN {} ELSE {r.nf, r.cf} \ {NoFid}

Owner(h, o, f) == f = h[o].fid \/ f = h[o].io

Owned(h) == {f \in Fids : \E o \in DOMAIN h : Owner(h, o, f)}

\* The fids A are those of the files h and of the request r, each with one
\* owner.
Owns(A, h, r) ==
    /\ A = OpFidsOf(r) \cup Owned(h)
    /\ \A f \in Fids : \A o, p \in DOMAIN h : Owner(h, o, f) /\ Owner(h, p, f) => o = p
    /\ \A o \in DOMAIN h : h[o].fid # h[o].io
    /\ \A f \in OpFidsOf(r) : f \notin Owned(h)
    /\ r # Idle /\ r.nf = r.cf => r.nf = NoFid

\* The fid that r has chosen and the server has not heard of.
WaitingOf(r) ==
    IF r = Idle THEN {}
    ELSE IF r.at \in {"walk", "rmwalk"} THEN {r.nf}
    ELSE IF r.at \in {"clone", "ioclone"} THEN {r.cf} ELSE {}

\* The server's fids are A, or none when the connection is down.
Settled(A, s, c) == DOMAIN s = IF c THEN A ELSE {}

HeldModes(h, s) ==
    \A o \in DOMAIN h : /\ s[h[o].fid].mode = "shut"
                        /\ h[o].io # NoFid => s[h[o].io].mode = h[o].omode

OpModes(r, s) ==
    r # Idle => /\ r.at = "stat" => s[r.nf].mode = "shut"
                /\ r.at \in {"walk", "stat"} /\ r.cf # NoFid => s[r.cf].mode = "w"

ClientOK(A, h, r, s, c) ==
    /\ HeldOK(h)
    /\ r = Idle \/ Shape(h, r)
    /\ Owns(A, h, r)
    /\ Settled(A \ WaitingOf(r), s, c)
    /\ c => HeldModes(h, s) /\ OpModes(r, s)

IInv == ServerTyped /\ full = FALSE /\ ClientOK(alloc, held, op, srv, conn)

-----------------------------------------------------------------------------
(* There is always a fid.                                                  *)

\* A set of fids that is not empty has a lowest one.
LEMMA LowestFid ==
  ASSUME NEW S \in SUBSET Fids, S # {}
  PROVE  \E n \in S : \A m \in S : n <= m
<1> DEFINE Upto(n) == {m \in S : m <= n}
           F == {Upto(n) : n \in S}
<1>1. IsFiniteSet(Fids) /\ Fids \subseteq Int
  BY FS_Interval, TableAssumption DEF Fids
<1>2. F \subseteq FiniteSubsetsOf(Fids) /\ F # {}
  <2>1. \A n \in S : Upto(n) \in SUBSET Fids
    OBVIOUS
  <2>2. F \subseteq SUBSET Fids /\ F # {}
    <3> HIDE DEF Upto
    <3> QED
      BY <2>1
  <2> QED
    BY <1>1, <2>2, FS_FiniteSubsetsOfFinite
<1>3. PICK x \in F : \A y \in F : <<y, x>> \notin StrictSubsetOrdering(Fids)
  <2>1. IsWellFoundedOn(StrictSubsetOrdering(Fids), FiniteSubsetsOf(Fids))
    BY FS_StrictSubsetOrderingWellFounded
  <2> HIDE DEF F
  <2> QED
    BY <1>2, <2>1, WFMin
<1>4. PICK n \in S : x = Upto(n)
  BY <1>3
<1>5. ASSUME NEW m \in S, ~(n <= m)
      PROVE  FALSE
  <2>1. m \in Int /\ n \in Int /\ \A k \in S : k \in Int
    BY <1>1
  <2>2. m < n /\ n \in Upto(n) /\ n \notin Upto(m)
    BY <1>5, <2>1
  <2>3. ASSUME NEW k \in Upto(m)
        PROVE  k \in Upto(n)
    BY <2>1, <2>2
  <2>4. Upto(m) \in F /\ Upto(m) \subseteq Fids /\ Upto(n) \subseteq Fids
    OBVIOUS
  <2> QED
    BY <2>2, <2>3, <2>4, <1>3, <1>4 DEF StrictSubsetOrdering
<1> QED
  BY <1>5

\* Two fids for each file and one for the request leave one free.
LEMMA Room ==
  ASSUME NEW h, HeldOK(h), NEW y, NEW A, A \subseteq {y} \cup Owned(h)
  PROVE  \E f \in Fids : f \notin A
<1> DEFINE D == DOMAIN h
           C == {h[o].fid : o \in D}
           I == {h[o].io : o \in D}
<1>1. IsFiniteSet(D) /\ Cardinality(D) \in Nat /\ Cardinality(D) <= NTag
  <2>1. IsFiniteSet(0 .. MaxObj)
    BY FS_Interval, MaxObjAssumption
  <2>2. D \in SUBSET (0 .. MaxObj)
    BY MaxObjAssumption DEF HeldOK, Objects, Root
  <2> QED
    BY <2>1, <2>2, FS_Subset, FS_CardinalityType DEF HeldOK
<1>2. IsFiniteSet(C) /\ Cardinality(C) \in Nat /\ Cardinality(C) <= NTag
  <2>1. [o \in D |-> h[o].fid] \in Surjection(D, C)
    BY DEF Surjection
  <2> HIDE DEF D, C
  <2>2. IsFiniteSet(C) /\ Cardinality(C) <= Cardinality(D)
    BY <1>1, <2>1, FS_Surjection
  <2> QED
    BY <1>1, <2>2, FS_CardinalityType, TableAssumption
<1>3. IsFiniteSet(I) /\ Cardinality(I) \in Nat /\ Cardinality(I) <= NTag
  <2>1. [o \in D |-> h[o].io] \in Surjection(D, I)
    BY DEF Surjection
  <2> HIDE DEF D, I
  <2>2. IsFiniteSet(I) /\ Cardinality(I) <= Cardinality(D)
    BY <1>1, <2>1, FS_Surjection
  <2> QED
    BY <1>1, <2>2, FS_CardinalityType, TableAssumption
<1> DEFINE U == C \cup I
           V == U \cup {y}
<1>4. IsFiniteSet(U) /\ Cardinality(U) \in Nat /\ Cardinality(U) <= 2 * NTag
  <2> HIDE DEF C, I
  <2>1. IsFiniteSet(C \cap I) /\ Cardinality(C \cap I) \in Nat
    BY <1>2, FS_Subset, FS_CardinalityType
  <2>2. /\ IsFiniteSet(U)
        /\ Cardinality(U) = Cardinality(C) + Cardinality(I) - Cardinality(C \cap I)
    BY <1>2, <1>3, FS_Union
  <2> QED
    BY <1>2, <1>3, <2>1, <2>2, FS_CardinalityType, TableAssumption
<1>5. IsFiniteSet(V) /\ Cardinality(V) \in Nat /\ Cardinality(V) <= 2 * NTag + 1
  <2> HIDE DEF U
  <2>1. IsFiniteSet(V) /\ Cardinality(V) <= Cardinality(U) + 1
    BY <1>4, FS_AddElement
  <2> QED
    BY <1>4, <2>1, FS_CardinalityType, TableAssumption
<1>6. Cardinality(Fids) = NFid /\ IsFiniteSet(Fids)
  BY FS_Interval, TableAssumption DEF Fids
<1>7. A \subseteq V
  BY DEF Owned, Owner
<1>8. CASE Fids \subseteq A
  <2>1. Fids \in SUBSET V
    BY <1>7, <1>8
  <2> HIDE DEF V
  <2>2. Cardinality(Fids) <= Cardinality(V)
    BY <1>5, <2>1, FS_Subset
  <2> QED
    BY <1>5, <1>6, <2>2, TableAssumption
<1> QED
  BY <1>8

\* fidalloc() finds a fid, which nobody has.
LEMMA Allocated ==
  ASSUME NEW h, HeldOK(h), NEW y, NEW A, A \subseteq {y} \cup Owned(h), Owned(h) \subseteq A
  PROVE  LET free == {f \in Fids \ {0} : f \notin A}
             g    == CHOOSE k \in free : \A m \in free : k <= m
         IN free # {} /\ g \in Fids /\ g \notin A
<1> DEFINE free == {f \in Fids \ {0} : f \notin A}
           g    == CHOOSE k \in free : \A m \in free : k <= m
<1>1. 0 \in A
  <2>1. 0 \in Fids
    BY TableAssumption DEF Fids
  <2> QED
    BY <2>1 DEF HeldOK, Owned, Owner
<1>2. free # {}
  BY <1>1, Room
<1>3. \E k \in free : \A m \in free : k <= m
  BY <1>2, LowestFid
<1>4. g \in free
  BY <1>3
<1> QED
  BY <1>2, <1>4

-----------------------------------------------------------------------------
(* The messages.                                                           *)

\* What every message leaves: fids other than f are as they were.
Others(f) == \A g \in DOMAIN srv \ {f} : g \in DOMAIN srv' /\ srv'[g] = srv[g]

\* Twalk and Tclone give the fid new to the server, or do nothing.
LEMMA NewFid ==
  ASSUME ServerTyped, NEW f, NEW new, NEW p \in Paths, NEW ok \in BOOLEAN,
         Twalk(f, new, p, ok) \/ Tclone(f, new, ok)
  PROVE  /\ ServerTyped' /\ conn' = conn /\ Others(new)
         /\ ok => conn /\ DOMAIN srv' = DOMAIN srv \cup {new} /\ srv'[new].mode = "shut"
<1>1. /\ ok => conn /\ f \in DOMAIN srv /\ new \notin DOMAIN srv
      /\ \E q : srv' = (IF ok THEN With(new, Fresh(q)) ELSE srv) /\ (ok => q \in Paths)
      /\ UNCHANGED <<tree, made, isdir, moved, ro, conn>>
  BY DEF Twalk, Tclone, Shut, ServerTyped, Entry
<1>2. PICK q : srv' = (IF ok THEN With(new, Fresh(q)) ELSE srv) /\ (ok => q \in Paths)
  BY <1>1
<1>3. CASE ok
  <2>1. Fresh(q) \in Entry /\ Fresh(q).mode = "shut"
    BY <1>2, <1>3 DEF Fresh, Entry, Modes
  <2>2. srv' = [g \in DOMAIN srv \cup {new} |-> IF g = new THEN Fresh(q) ELSE srv[g]]
    BY <1>2, <1>3 DEF With
  <2>3. /\ DOMAIN srv' = DOMAIN srv \cup {new} /\ srv'[new] = Fresh(q)
        /\ \A g \in DOMAIN srv \ {new} : srv'[g] = srv[g]
    BY <2>2
  <2> QED
    BY <1>1, <1>3, <2>1, <2>3 DEF ServerTyped, Others
<1>4. CASE ~ok
  BY <1>1, <1>2, <1>4 DEF ServerTyped, Others
<1> QED
  BY <1>3, <1>4

LEMMA NewClone ==
  ASSUME ServerTyped, NEW f, NEW new, NEW ok \in BOOLEAN, Tclone(f, new, ok)
  PROVE  /\ ServerTyped' /\ conn' = conn /\ Others(new)
         /\ ok => conn /\ DOMAIN srv' = DOMAIN srv \cup {new} /\ srv'[new].mode = "shut"
<1>1. Top \in Paths /\ (Twalk(f, new, Top, ok) \/ Tclone(f, new, ok))
  BY DEF Paths
<1> QED
  BY <1>1, NewFid

\* Tclunk and Tremove: the fid is gone.
LEMMA FidGone ==
  ASSUME ServerTyped, NEW f, Tclunk(f) \/ Tremove(f)
  PROVE  /\ ServerTyped' /\ conn' = conn /\ Others(f) /\ DOMAIN srv' = DOMAIN srv \ {f}
<1>1. srv' = [g \in DOMAIN srv \ {f} |-> srv[g]] /\ UNCHANGED <<made, isdir, ro, conn>>
  BY DEF Tclunk, Tremove, Without
<1>2. tree' \in [Names -> Objects \cup {None}] /\ moved' \subseteq Objects
  <2>1. CASE Tclunk(f)
    BY <2>1 DEF Tclunk, ServerTyped
  <2>2. CASE Tremove(f)
    <3> DEFINE p == IF conn /\ f \in DOMAIN srv THEN srv[f].path ELSE Top
    <3>1. p \in Paths
      BY DEF ServerTyped, Entry, Paths
    <3>2. IF p # Top /\ ~ro /\ tree[p] # None THEN Give(p, None) ELSE UNCHANGED <<tree, moved>>
      BY <2>2 DEF Tremove
    <3> HIDE DEF p
    <3> QED
      BY <3>1, <3>2 DEF ServerTyped, Give, Paths
  <2> QED
    BY <2>1, <2>2
<1>3. /\ DOMAIN srv' = DOMAIN srv \ {f}
      /\ \A g \in DOMAIN srv \ {f} : srv'[g] = srv[g]
  BY <1>1
<1> QED
  BY <1>1, <1>2, <1>3 DEF ServerTyped, Others

\* Topen: an answer that is not an error says that the fid is open.
LEMMA Opened ==
  ASSUME ServerTyped, NEW f, NEW mode \in {"r", "w"}, NEW ok \in BOOLEAN, Topen(f, mode, ok)
  PROVE  /\ ServerTyped' /\ conn' = conn /\ Others(f) /\ DOMAIN srv' = DOMAIN srv
         /\ ok => conn /\ srv'[f].mode = mode
<1> DEFINE p   == srv[f].path
           can == /\ Shut(f) /\ At(p) # None
                  /\ mode = "w" => ~ro /\ At(p) \in Objects \ isdir
           e   == [srv[f] EXCEPT !.mode = mode, !.obj = At(p)]
<1>1. /\ srv' = IF can THEN [srv EXCEPT ![f].mode = mode, ![f].obj = At(p)] ELSE srv
      /\ \/ ok = can /\ UNCHANGED <<tree, moved>>
         \/ can /\ ok = FALSE /\ p # Top /\ Give(p, None)
      /\ UNCHANGED <<made, isdir, ro, conn>>
  BY DEF Topen
<1>2. can => conn /\ f \in DOMAIN srv /\ srv[f] \in Entry /\ p \in Paths
  BY DEF Shut, ServerTyped, Entry
<1>3. ASSUME can
      PROVE  /\ srv' = [srv EXCEPT ![f] = e]
             /\ e \in Entry /\ e.mode = mode
  <2>1. At(p) \in Objects \cup {Root, None}
    BY <1>2, <1>3 DEF At, ServerTyped, Paths
  <2>2. srv' = [srv EXCEPT ![f].mode = mode, ![f].obj = At(p)]
    BY <1>1, <1>3
  <2>3. e \in Entry /\ e.mode = mode
    <3>1. srv[f] \in Entry
      BY <1>2, <1>3
    <3> HIDE DEF p, can
    <3> QED
      BY <3>1, <2>1 DEF Entry, Modes
  <2> QED
    BY <2>2, <2>3
<1>4. tree' \in [Names -> Objects \cup {None}] /\ moved' \subseteq Objects
  <2> HIDE DEF can
  <2>1. CASE UNCHANGED <<tree, moved>>
    BY <2>1 DEF ServerTyped
  <2>2. CASE can /\ p # Top /\ Give(p, None)
    <3>1. p \in Names
      BY <1>2, <2>2 DEF Paths
    <3> HIDE DEF p
    <3> QED
      BY <3>1, <2>2 DEF ServerTyped, Give
  <2> QED
    BY <1>1, <2>1, <2>2
<1> HIDE DEF can, e
<1>5. CASE can
  <2>1. DOMAIN srv' = DOMAIN srv /\ srv'[f] = e /\ \A g \in DOMAIN srv \ {f} : srv'[g] = srv[g]
    BY <1>2, <1>3, <1>5
  <2> QED
    BY <1>1, <1>2, <1>3, <1>4, <1>5, <2>1 DEF ServerTyped, Others
<1>6. CASE ~can
  <2>1. srv' = srv /\ ~ok
    BY <1>1, <1>6
  <2> QED
    BY <1>1, <1>4, <2>1 DEF ServerTyped, Others
<1> QED
  BY <1>5, <1>6

\* Tcreate: the fid of the directory becomes the new file's, open.
LEMMA Created ==
  ASSUME ServerTyped, NEW f, NEW n \in Paths, NEW dir \in BOOLEAN, NEW ok \in BOOLEAN,
         Tcreate(f, n, dir, ok)
  PROVE  /\ ServerTyped' /\ conn' = conn /\ Others(f) /\ DOMAIN srv' = DOMAIN srv
         /\ ok => conn /\ (~dir => srv'[f].mode = "w")
<1> DEFINE new == [path |-> n, mode |-> IF dir THEN "r" ELSE "w", obj |-> made + 1]
           can == Shut(f) /\ srv[f].path = Top /\ ~ro /\ tree[n] = None /\ made < MaxObj
<1>1. CASE can
  <2>1. /\ made' = made + 1
        /\ isdir' = IF dir THEN isdir \cup {made + 1} ELSE isdir
        /\ srv' = With(f, new)
        /\ \/ ok = TRUE /\ tree' = [tree EXCEPT ![n] = made + 1] /\ UNCHANGED moved
           \/ ok = FALSE /\ UNCHANGED tree /\ moved' = moved \cup {made + 1}
        /\ UNCHANGED <<ro, conn>>
    BY <1>1 DEF Tcreate
  <2>2. made + 1 \in Objects /\ made' \in 0 .. MaxObj
    BY <1>1, <2>1, MaxObjAssumption DEF ServerTyped, Objects
  <2>3. new \in Entry /\ conn /\ f \in DOMAIN srv
    BY <1>1, <2>2 DEF Entry, Modes, Shut
  <2>4. srv' = [g \in DOMAIN srv \cup {f} |-> IF g = f THEN new ELSE srv[g]]
    BY <2>1 DEF With
  <2>5. /\ DOMAIN srv' = DOMAIN srv /\ srv'[f] = new
        /\ \A g \in DOMAIN srv \ {f} : srv'[g] = srv[g]
    <3> HIDE DEF new, can
    <3> QED
      BY <2>3, <2>4
  <2>6. /\ tree' \in [Names -> Objects \cup {None}] /\ moved' \subseteq Objects
        /\ isdir' \subseteq Objects
    <3> HIDE DEF new, can
    <3> QED
      BY <2>1, <2>2 DEF ServerTyped
  <2>7. ~dir => new.mode = "w"
    OBVIOUS
  <2> HIDE DEF new, can
  <2> QED
    BY <2>1, <2>2, <2>3, <2>5, <2>6, <2>7 DEF ServerTyped, Others
<1>2. CASE ~can
  BY <1>2 DEF Tcreate, server, ServerTyped, Others
<1> QED
  BY <1>1, <1>2

\* The host's user changes no fid; when the connection falls they all go.
LEMMA HostServer ==
  ASSUME ServerTyped, Host
  PROVE  /\ ServerTyped'
         /\ \/ srv' = srv /\ conn' = conn
            \/ conn' = FALSE /\ DOMAIN srv' = {}
<1>1. ASSUME NEW n \in Names, NEW o \in Objects \cup {None}, Give(n, o)
      PROVE  tree' \in [Names -> Objects \cup {None}] /\ moved' \subseteq Objects
  BY <1>1 DEF Give, ServerTyped
<1>2. ASSUME NEW n \in Names, HostMakes(n)
      PROVE  ServerTyped' /\ srv' = srv /\ conn' = conn
  <2>1. made + 1 \in Objects /\ made' \in 0 .. MaxObj
    BY <1>2, MaxObjAssumption DEF HostMakes, ServerTyped, Objects
  <2>2. isdir' \subseteq Objects
    BY <1>2, <2>1 DEF HostMakes, ServerTyped
  <2> QED
    BY <1>1, <1>2, <2>1, <2>2 DEF HostMakes, ServerTyped
<1>3. ASSUME NEW n \in Names, HostRemoves(n)
      PROVE  ServerTyped' /\ srv' = srv /\ conn' = conn
  BY <1>1, <1>3 DEF HostRemoves, ServerTyped
<1>4. ASSUME NEW m \in Names, NEW n \in Names, HostRenames(m, n)
      PROVE  ServerTyped' /\ srv' = srv /\ conn' = conn
  BY <1>4 DEF HostRenames, ServerTyped
<1>5. CASE LinkDown
  BY <1>5 DEF LinkDown, ServerTyped
<1> QED
  BY <1>2, <1>3, <1>4, <1>5 DEF Host

-----------------------------------------------------------------------------
(* How a request goes on.                                                  *)

\* A message has been answered; the fids in use are A, those of r among them,
\* and the server has heard of all.
Answered(A, r) ==
    /\ ServerTyped' /\ full = FALSE
    /\ HeldOK(held') /\ Owns(A, held', r)
    /\ Settled(A, srv', conn')
    /\ conn' => HeldModes(held', srv')

LEMMA IdleIsNoRequest == Idle \notin Request
BY DEF Idle, Request, Lookups, Handles

LEMMA NoFidIsNone == NoFid \notin Fids
BY TableAssumption DEF NoFid, Fids

LEMMA EndsWell ==
  ASSUME NEW A, NEW r, Answered(A, r), OpFidsOf(r) = {}, Ends(A)
  PROVE  IInv'
<1>1. op' = Idle /\ alloc' = A /\ full' = full
  BY DEF Ends
<1>2. Owns(A, held', Idle)
  BY DEF Answered, Owns, OpFidsOf
<1>3. A \ WaitingOf(Idle) = A /\ OpModes(Idle, srv')
  BY DEF WaitingOf, OpModes
<1>4. ClientOK(A, held', Idle, srv', conn')
  BY <1>2, <1>3 DEF ClientOK, Answered
<1> QED
  BY <1>1, <1>4 DEF IInv, Answered, ClientOK, HeldOK, Owns, Settled, HeldModes, OpModes

LEMMA GoesWell ==
  ASSUME NEW A, NEW r \in Request, Answered(A, r), NEW a, Goes(A, r, a),
         Shape(held', [r EXCEPT !.at = a]), a \notin {"walk", "rmwalk", "clone", "ioclone"},
         conn' /\ a = "stat" => srv'[r.nf].mode = "shut" /\ (r.cf # NoFid => srv'[r.cf].mode = "w")
  PROVE  IInv'
<1> DEFINE c == [r EXCEPT !.at = a]
<1>1. op' = c /\ alloc' = A /\ full' = full
  BY DEF Goes
<1>2. c \in Request /\ c.nf = r.nf /\ c.cf = r.cf /\ c.at = a
  BY DEF Shape, Request
<1> HIDE DEF c
<1>3. c # Idle /\ r # Idle
  BY <1>2, IdleIsNoRequest
<1>4. OpFidsOf(c) = OpFidsOf(r)
  BY <1>2, <1>3 DEF OpFidsOf
<1>5. Owns(A, held', c)
  BY <1>2, <1>3, <1>4 DEF Answered, Owns
<1>6. A \ WaitingOf(c) = A
  BY <1>2, <1>3 DEF WaitingOf
<1>7. conn' => OpModes(c, srv')
  BY <1>2 DEF OpModes
<1>8. ClientOK(A, held', c, srv', conn')
  BY <1>5, <1>6, <1>7 DEF ClientOK, Answered, c
<1> QED
  BY <1>1, <1>8 DEF IInv, Answered

LEMMA AllocatesNf ==
  ASSUME NEW A, NEW r \in Request, Answered(A, r), r.nf = NoFid, NEW a \in {"walk", "rmwalk"},
         NEW r2, Fidalloc(A, r, "nf", a, r2),
         \A f \in Fids : Shape(held', [r EXCEPT !.nf = f, !.at = a]),
         conn' /\ r.cf # NoFid => srv'[r.cf].mode = "w"
  PROVE  IInv'
<1>0. r # Idle /\ NoFid \notin Fids
  BY IdleIsNoRequest, NoFidIsNone
<1>1. A \subseteq {r.cf} \cup Owned(held') /\ Owned(held') \subseteq A
  BY <1>0 DEF Answered, Owns, OpFidsOf
<1>2. PICK f \in Fids : /\ f \notin A /\ alloc' = A \cup {f}
                        /\ op' = [r EXCEPT !["nf"] = f, !.at = a] /\ full' = full
  BY <1>1, Allocated DEF Answered, Fidalloc
<1> DEFINE c == [r EXCEPT !["nf"] = f, !.at = a]
<1>3. Shape(held', c)
  OBVIOUS
<1>4. c \in Request /\ c.nf = f /\ c.cf = r.cf /\ c.at = a
  BY <1>3 DEF Shape, Request
<1> HIDE DEF c
<1>5. c # Idle
  BY <1>4, IdleIsNoRequest
<1>6. OpFidsOf(c) = OpFidsOf(r) \cup {f} /\ WaitingOf(c) = {f}
  BY <1>0, <1>4, <1>5 DEF OpFidsOf, WaitingOf
<1>7. Owns(A \cup {f}, held', c)
  BY <1>0, <1>2, <1>4, <1>6 DEF Answered, Owns, OpFidsOf
<1>8. (A \cup {f}) \ WaitingOf(c) = A
  BY <1>2, <1>6
<1>9. conn' => OpModes(c, srv')
  BY <1>4 DEF OpModes
<1>10. ClientOK(A \cup {f}, held', c, srv', conn')
  BY <1>3, <1>7, <1>8, <1>9 DEF ClientOK, Answered
<1>11. op' = c
  BY <1>2 DEF c
<1> QED
  BY <1>2, <1>10, <1>11 DEF IInv, Answered

LEMMA AllocatesCf ==
  ASSUME NEW A, NEW r \in Request, Answered(A, r), r.cf = NoFid, NEW a \in {"clone", "ioclone"},
         NEW r2, Fidalloc(A, r, "cf", a, r2),
         \A f \in Fids : Shape(held', [r EXCEPT !.cf = f, !.at = a])
  PROVE  IInv'
<1>0. r # Idle /\ NoFid \notin Fids
  BY IdleIsNoRequest, NoFidIsNone
<1>1. A \subseteq {r.nf} \cup Owned(held') /\ Owned(held') \subseteq A
  BY <1>0 DEF Answered, Owns, OpFidsOf
<1>2. PICK f \in Fids : /\ f \notin A /\ alloc' = A \cup {f}
                        /\ op' = [r EXCEPT !["cf"] = f, !.at = a] /\ full' = full
  BY <1>1, Allocated DEF Answered, Fidalloc
<1> DEFINE c == [r EXCEPT !["cf"] = f, !.at = a]
<1>3. Shape(held', c)
  OBVIOUS
<1>4. c \in Request /\ c.nf = r.nf /\ c.cf = f /\ c.at = a
  BY <1>3 DEF Shape, Request
<1> HIDE DEF c
<1>5. c # Idle
  BY <1>4, IdleIsNoRequest
<1>6. OpFidsOf(c) = OpFidsOf(r) \cup {f} /\ WaitingOf(c) = {f}
  BY <1>0, <1>4, <1>5 DEF OpFidsOf, WaitingOf
<1>7. Owns(A \cup {f}, held', c)
  BY <1>0, <1>2, <1>4, <1>6 DEF Answered, Owns, OpFidsOf
<1>8. (A \cup {f}) \ WaitingOf(c) = A
  BY <1>2, <1>6
<1>9. conn' => OpModes(c, srv')
  BY <1>4 DEF OpModes
<1>10. ClientOK(A \cup {f}, held', c, srv', conn')
  BY <1>3, <1>7, <1>8, <1>9 DEF ClientOK, Answered
<1>11. op' = c
  BY <1>2 DEF c
<1> QED
  BY <1>2, <1>10, <1>11 DEF IInv, Answered

\* After a walk that came to nothing or a file that was dropped.
LEMMA Proceeds ==
  ASSUME NEW A, NEW r \in Request, Answered(A, [r EXCEPT !.nf = NoFid]), Proceed(A, r),
         r.then = "undo" <=> r.cf # NoFid, r.then = "create" => r.do \in {"creat", "nxcreat"}
  PROVE  IInv'
<1> DEFINE s == [r EXCEPT !.nf = NoFid]
<1>1. /\ s \in Request /\ s.nf = NoFid /\ s.cf = r.cf /\ s.then = r.then /\ s.do = r.do
      /\ Answered(A, s)
  BY DEF Request
<1>2. r.then \in {"end", "create", "rm", "io", "undo"}
  BY DEF Request
<1>3. CASE r.then = "end"
  <2>1. Ends(A)
    BY <1>3 DEF Proceed
  <2>2. OpFidsOf(s) = {}
    BY <1>1, <1>3 DEF OpFidsOf
  <2> HIDE DEF s
  <2> QED
    BY <1>1, <2>1, <2>2, EndsWell
<1>4. CASE r.then = "create"
  <2>1. Fidalloc(A, s, "cf", "clone", Idle) /\ s.cf = NoFid
    BY <1>1, <1>4 DEF Proceed
  <2>2. ASSUME NEW f \in Fids
        PROVE  Shape(held', [s EXCEPT !.cf = f, !.at = "clone"])
    <3> DEFINE c == [s EXCEPT !.cf = f, !.at = "clone"]
    <3> HIDE DEF s
    <3>1. /\ c \in Request /\ c.nf = NoFid /\ c.cf = f /\ c.at = "clone"
          /\ c.do \in {"creat", "nxcreat"} /\ f # NoFid
      BY <1>1, <1>4, NoFidIsNone DEF Request, Steps
    <3> HIDE DEF c
    <3>2. Shape(held', c)
      BY <3>1 DEF Shape
    <3> QED
      BY <3>2 DEF c
  <2> HIDE DEF s
  <2> QED
    BY <1>1, <2>1, <2>2, AllocatesCf
<1>5. CASE r.then = "rm"
  <2>1. Fidalloc(A, s, "nf", "rmwalk", Idle) /\ s.cf = NoFid
    BY <1>1, <1>5 DEF Proceed
  <2>2. \A f \in Fids : Shape(held', [s EXCEPT !.nf = f, !.at = "rmwalk"])
    <3> HIDE DEF s
    <3> QED
      BY <1>1, <1>5, <2>1, NoFidIsNone DEF Shape, Request, Steps
  <2> HIDE DEF s
  <2> QED
    BY <1>1, <2>1, <2>2, AllocatesNf
<1>6. CASE r.then = "io"
  <2>1. Goes(A, s, "io") /\ s.cf = NoFid
    BY <1>1, <1>6 DEF Proceed
  <2> HIDE DEF s
  <2>2. Shape(held', [s EXCEPT !.at = "io"])
    BY <1>1, <2>1 DEF Shape, Request, Steps
  <2> QED
    BY <1>1, <2>1, <2>2, GoesWell
<1>7. CASE r.then = "undo"
  <2>1. Goes(A, s, "unclone") /\ s.cf # NoFid
    BY <1>1, <1>7 DEF Proceed
  <2> HIDE DEF s
  <2>2. Shape(held', [s EXCEPT !.at = "unclone"])
    BY <1>1, <2>1 DEF Shape, Request, Steps
  <2> QED
    BY <1>1, <2>1, <2>2, GoesWell
<1> QED
  BY <1>2, <1>3, <1>4, <1>5, <1>6, <1>7

\* The I/O fid of the file is open; `..' of a directory is walked to first.
LEMMA IoReadies ==
  ASSUME NEW A, NEW r \in Request, Answered(A, r), r.nf = NoFid, r.cf = NoFid, IoReady(A, r)
  PROVE  IInv'
<1>1. CASE Fidalloc(A, r, "nf", "walk", [r EXCEPT !.at = "io"])
  <2>1. \A f \in Fids : Shape(held', [r EXCEPT !.nf = f, !.at = "walk"])
    BY NoFidIsNone DEF Shape, Request, Steps
  <2> QED
    BY <1>1, <2>1, AllocatesNf
<1>2. CASE Goes(A, r, "io")
  <2>1. Shape(held', [r EXCEPT !.at = "io"])
    BY DEF Shape, Request, Steps
  <2> QED
    BY <1>2, <2>1, GoesWell
<1> QED
  BY <1>1, <1>2 DEF IoReady

-----------------------------------------------------------------------------
(* The requests.                                                           *)

LEMMA Now ==
  ASSUME IInv
  PROVE  /\ ServerTyped /\ full = FALSE /\ HeldOK(held) /\ (op = Idle \/ Shape(held, op))
         /\ Owns(alloc, held, op) /\ Settled(alloc \ WaitingOf(op), srv, conn)
         /\ conn => HeldModes(held, srv) /\ OpModes(op, srv)
BY DEF IInv, ClientOK

LEMMA HeldFinite ==
  ASSUME NEW h, HeldOK(h)
  PROVE  IsFiniteSet(DOMAIN h) /\ Cardinality(DOMAIN h) \in Nat
<1>1. IsFiniteSet(0 .. MaxObj)
  BY FS_Interval, MaxObjAssumption
<1>2. DOMAIN h \in SUBSET (0 .. MaxObj)
  BY MaxObjAssumption DEF HeldOK, Objects, Root
<1> QED
  BY <1>1, <1>2, FS_Subset, FS_CardinalityType

\* What the kernel asks for is no message yet.
LEMMA Asked ==
  ASSUME IInv, Kernel, UNCHANGED held, NEW r \in Request, r.nf = NoFid, r.cf = NoFid
  PROVE  Answered(alloc, r)
<1>1. /\ op = Idle /\ held' = held
      /\ UNCHANGED <<tree, made, isdir, moved, ro, conn, srv>>
  BY DEF Kernel, server
<1>2. ServerTyped'
  BY <1>1, Now DEF ServerTyped
<1>3. alloc \ WaitingOf(op) = alloc /\ OpFidsOf(op) = {} /\ OpFidsOf(r) = {} /\ r # Idle
  BY <1>1, IdleIsNoRequest DEF WaitingOf, OpFidsOf
<1>4. Owns(alloc, held, r)
  BY <1>3, Now DEF Owns
<1> QED
  BY <1>1, <1>2, <1>3, <1>4, Now DEF Answered

LEMMA StartTyped ==
  ASSUME NEW d \in Lookups \cup Handles \cup {"mkdir", "rmdir", "put"},
         NEW t \in Objects \cup {Root}, NEW n \in Paths
  PROVE  /\ Start(d, t, n) \in Request
         /\ Start(d, t, n).nf = NoFid /\ Start(d, t, n).cf = NoFid
         /\ Start(d, t, n).do = d /\ Start(d, t, n).tag = t
BY DEF Start, Request, Steps

LEMMA LookupKeeps ==
  ASSUME IInv, NEW n \in Names,
         Mkdir(n) \/ Rmdir(n) \/ \E d \in Lookups : Lookup(d, n)
  PROVE  IInv'
<1>0. n \in Paths /\ Root \in Objects \cup {Root}
  BY DEF Paths
<1>1. ASSUME NEW d \in Lookups, Lookup(d, n)
      PROVE  IInv'
  <2> DEFINE r == Start(d, Root, n)
  <2>1. r \in Request /\ r.nf = NoFid /\ r.cf = NoFid
    BY <1>0, StartTyped
  <2>2. Kernel /\ UNCHANGED held /\ Fidalloc(alloc, r, "nf", "walk", Idle)
    BY <1>1 DEF Lookup
  <2> HIDE DEF r
  <2>3. \A f \in Fids : Shape(held', [r EXCEPT !.nf = f, !.at = "walk"])
    BY <2>1, NoFidIsNone DEF Shape, Request, Steps
  <2> QED
    BY <2>1, <2>2, <2>3, Asked, AllocatesNf
<1>2. CASE Mkdir(n)
  <2> DEFINE r == Start("mkdir", Root, n)
  <2>1. r \in Request /\ r.nf = NoFid /\ r.cf = NoFid /\ r.do = "mkdir"
    BY <1>0, StartTyped
  <2>2. Kernel /\ UNCHANGED held /\ Fidalloc(alloc, r, "cf", "clone", Idle)
    BY <1>2 DEF Mkdir
  <2> HIDE DEF r
  <2>3. \A f \in Fids : Shape(held', [r EXCEPT !.cf = f, !.at = "clone"])
    BY <2>1, NoFidIsNone DEF Shape, Request, Steps
  <2> QED
    BY <2>1, <2>2, <2>3, Asked, AllocatesCf
<1>3. CASE Rmdir(n)
  <2> DEFINE r == Start("rmdir", Root, n)
  <2>1. r \in Request /\ r.nf = NoFid /\ r.cf = NoFid
    BY <1>0, StartTyped
  <2>2. Kernel /\ UNCHANGED held /\ Fidalloc(alloc, r, "nf", "rmwalk", Idle)
    BY <1>3 DEF Rmdir
  <2> HIDE DEF r
  <2>3. \A f \in Fids : Shape(held', [r EXCEPT !.nf = f, !.at = "rmwalk"])
    BY <2>1, NoFidIsNone DEF Shape, Request, Steps
  <2> QED
    BY <2>1, <2>2, <2>3, Asked, AllocatesNf
<1> QED
  BY <1>1, <1>2, <1>3

LEMMA ControlKeeps ==
  ASSUME IInv, NEW t \in DOMAIN held, OnControl(t)
  PROVE  IInv'
<1>1. ASSUME NEW d \in {"stat", "trunc"}, NEW a \in {"fstat", "wstat"},
             Goes(alloc, Start(d, t, Top), a)
      PROVE  IInv'
  <2> DEFINE r == Start(d, t, Top)
  <2>1. r \in Request /\ r.nf = NoFid /\ r.cf = NoFid
    BY StartTyped, Now DEF HeldOK, Handles, Paths
  <2> HIDE DEF r
  <2>2. Shape(held', [r EXCEPT !.at = a])
    BY <2>1 DEF Shape, Request, Steps
  <2>3. Kernel /\ UNCHANGED held
    BY DEF OnControl
  <2> QED
    BY <1>1, <2>1, <2>2, <2>3, Asked, GoesWell DEF r
<1> QED
  BY <1>1 DEF OnControl

LEMMA IoKeeps ==
  ASSUME IInv, NEW t \in DOMAIN held, NEW d \in {"read", "write", "dirread"}, Io(d, t)
  PROVE  IInv'
<1> DEFINE r == [Start(d, t, Top) EXCEPT !.then = "io"]
<1>1. r \in Request /\ r.nf = NoFid /\ r.cf = NoFid /\ r.tag = t
  <2> DEFINE c == Start(d, t, Top)
  <2>1. c \in Request /\ c.nf = NoFid /\ c.cf = NoFid /\ c.tag = t
    <3>1. d \in Lookups \cup Handles \cup {"mkdir", "rmdir", "put"} /\ Top \in Paths
      BY DEF Handles, Paths
    <3>2. t \in Objects \cup {Root}
      BY Now DEF HeldOK
    <3> HIDE DEF c
    <3> QED
      BY <3>1, <3>2, StartTyped DEF c
  <2> HIDE DEF c
  <2>2. r = [c EXCEPT !.then = "io"]
    BY DEF c
  <2> QED
    BY <2>1, <2>2 DEF Request
<1>2. /\ Kernel /\ UNCHANGED held
      /\ \/ held[t].io = NoFid /\ Fidalloc(alloc, r, "cf", "ioclone", Idle)
         \/ held[t].io # NoFid /\ Goes(alloc, r, "ioclunk")
         \/ IoReady(alloc, r)
  BY DEF Io
<1> HIDE DEF r
<1>3. Answered(alloc, r)
  BY <1>1, <1>2, Asked
<1>4. CASE held[t].io = NoFid /\ Fidalloc(alloc, r, "cf", "ioclone", Idle)
  <2>1. \A f \in Fids : Shape(held', [r EXCEPT !.cf = f, !.at = "ioclone"])
    BY <1>1, <1>2, <1>4, NoFidIsNone DEF Shape, Request, Steps
  <2> QED
    BY <1>1, <1>3, <1>4, <2>1, AllocatesCf
<1>5. CASE held[t].io # NoFid /\ Goes(alloc, r, "ioclunk")
  <2>1. Shape(held', [r EXCEPT !.at = "ioclunk"])
    BY <1>1, <1>2, <1>5 DEF Shape, Request, Steps
  <2> QED
    BY <1>1, <1>3, <1>5, <2>1, GoesWell
<1>6. CASE IoReady(alloc, r)
  BY <1>1, <1>3, <1>6, IoReadies
<1> QED
  BY <1>2, <1>4, <1>5, <1>6

\* NBPUT: the file's fids are the request's.
LEMMA PutKeeps ==
  ASSUME IInv, NEW t \in DOMAIN held \ {Root}, Put(t)
  PROVE  IInv'
<1> DEFINE r == [Start("put", Root, Top) EXCEPT !.nf = held[t].fid, !.cf = held[t].io]
           a == IF held[t].io = NoFid THEN "drop" ELSE "dropio"
<1>1. held[t] \in Rfile /\ held[t].fid \in Fids /\ held[t].io \in Fids \cup {NoFid}
  BY Now DEF HeldOK, Rfile
<1>2. /\ r \in Request /\ r.nf = held[t].fid /\ r.cf = held[t].io /\ r.then = "end"
      /\ r.do = "put"
  <2>1. Start("put", Root, Top) \in Request /\ Start("put", Root, Top).then = "end"
        /\ Start("put", Root, Top).do = "put"
    BY DEF Start, Request, Steps, Paths
  <2> QED
    BY <1>1, <2>1 DEF Request
<1>3. op = Idle /\ UNCHANGED server /\ Goes(alloc, r, a)
  BY DEF Put, Kernel, Fsdone
<1>4. /\ DOMAIN held' = DOMAIN held \ {t}
      /\ \A o \in DOMAIN held' : held'[o] = held[o]
  BY DEF Put
<1> HIDE DEF r, a
<1>5. r # Idle /\ r.nf # NoFid
  BY <1>1, <1>2, IdleIsNoRequest, NoFidIsNone
<1>6. HeldOK(held')
  <2>1. Cardinality(DOMAIN held \ {t}) <= NTag
    <3>1. IsFiniteSet(DOMAIN held) /\ Cardinality(DOMAIN held) \in Nat
          /\ Cardinality(DOMAIN held) <= NTag /\ t \in DOMAIN held
      BY Now, HeldFinite DEF HeldOK
    <3>2. Cardinality(DOMAIN held \ {t}) = Cardinality(DOMAIN held) - 1
      BY <3>1, FS_RemoveElement
    <3> QED
      BY <3>1, <3>2, TableAssumption
  <2> QED
    BY <1>4, <2>1, Now DEF HeldOK
<1>7. Owns(alloc, held', r)
  <2>1. OpFidsOf(op) = {} /\ OpFidsOf(r) = {held[t].fid, held[t].io} \ {NoFid}
    BY <1>2, <1>3, <1>5 DEF OpFidsOf
  <2>2. \A f \in Fids, o \in DOMAIN held' : Owner(held', o, f) <=> Owner(held, o, f)
    BY <1>4 DEF Owner
  <2>3. \A f \in Fids : Owner(held, t, f) <=> f \in OpFidsOf(r)
    BY <2>1, NoFidIsNone DEF Owner
  <2>4. OpFidsOf(r) \subseteq Fids
    BY <1>1, <2>1
  <2>5. \A f \in Fids : f \in Owned(held') <=> f \in Owned(held) /\ f \notin OpFidsOf(r)
    BY <1>4, <2>2, <2>3, Now DEF Owns, Owned
  <2>6. alloc = OpFidsOf(r) \cup Owned(held')
    <3>1. OpFidsOf(r) \subseteq Owned(held) /\ Owned(held) \subseteq Fids /\ Owned(held') \subseteq Fids
      BY <2>3, <2>4 DEF Owned
    <3> QED
      BY <2>1, <2>5, <3>1, Now DEF Owns
  <2>7. \A o \in DOMAIN held' : held'[o].fid # held'[o].io
    BY <1>4, Now DEF Owns
  <2>8. r.nf # r.cf
    BY <1>2, Now DEF Owns
  <2>9. \A f \in Fids : \A o, p \in DOMAIN held' : Owner(held', o, f) /\ Owner(held', p, f) => o = p
    BY <1>4, <2>2, Now DEF Owns
  <2> QED
    BY <2>4, <2>5, <2>6, <2>7, <2>8, <2>9 DEF Owns
<1>8. Answered(alloc, r)
  <2>1. UNCHANGED <<tree, made, isdir, moved, ro, conn, srv>>
    BY <1>3 DEF server
  <2>2. ServerTyped'
    BY <2>1, Now DEF ServerTyped
  <2>3. alloc \ WaitingOf(op) = alloc
    BY <1>3 DEF WaitingOf
  <2>4. conn' => HeldModes(held', srv')
    BY <1>4, <2>1, Now DEF HeldModes
  <2> QED
    BY <1>6, <1>7, <2>1, <2>2, <2>3, <2>4, Now DEF Answered
<1>9. Shape(held', [r EXCEPT !.at = a])
  BY <1>2, <1>5 DEF Shape, Request, Steps, a
<1> QED
  BY <1>2, <1>3, <1>8, <1>9, GoesWell DEF a

-----------------------------------------------------------------------------
(* The steps of a request.                                                 *)

LEMMA Sent ==
  ASSUME IInv, NEW a, Sends(a)
  PROVE  op # Idle /\ op.at = a /\ op \in Request /\ Shape(held, op)
BY Now DEF Sends, Shape

\* The fids of the files are on the server, and none of the request's.
LEMMA HeldFids ==
  ASSUME IInv, NEW o \in DOMAIN held
  PROVE  /\ held[o].fid \in Fids /\ held[o].fid \notin OpFidsOf(op) \cup WaitingOf(op)
         /\ held[o].io # NoFid =>
              held[o].io \in Fids /\ held[o].io \notin OpFidsOf(op) \cup WaitingOf(op)
         /\ conn => /\ held[o].fid \in DOMAIN srv
                    /\ held[o].io # NoFid => held[o].io \in DOMAIN srv
<1>1. held[o].fid \in Fids /\ (held[o].io # NoFid => held[o].io \in Fids)
  BY Now DEF HeldOK, Rfile
<1>2. held[o].fid \in Owned(held) /\ (held[o].io # NoFid => held[o].io \in Owned(held))
  BY <1>1 DEF Owned, Owner
<1>3. WaitingOf(op) \cap Fids \subseteq OpFidsOf(op)
  BY NoFidIsNone DEF WaitingOf, OpFidsOf
<1> QED
  BY <1>1, <1>2, <1>3, Now DEF Owns, Settled

\* A message about the request's fid f has been answered.
LEMMA Answers ==
  ASSUME IInv, NEW f \in OpFidsOf(op), UNCHANGED held,
         ServerTyped', conn' = conn, Others(f),
         NEW A, NEW r, Owns(A, held, r), Settled(A, srv', conn)
  PROVE  Answered(A, r)
<1>1. ASSUME conn
      PROVE  HeldModes(held, srv')
  <2>1. \A o \in DOMAIN held : /\ srv'[held[o].fid] = srv[held[o].fid]
                               /\ held[o].io # NoFid => srv'[held[o].io] = srv[held[o].io]
    BY <1>1, HeldFids DEF Others
  <2> QED
    BY <1>1, <2>1, Now DEF HeldModes
<1> QED
  BY <1>1, Now DEF Answered

\* The request gives up its fid f.
LEMMA Fewer ==
  ASSUME NEW A, NEW h, NEW r, Owns(A, h, r), NEW f, NEW s,
         OpFidsOf(s) = OpFidsOf(r) \ {f}, f \in OpFidsOf(r),
         s # Idle /\ s.nf = s.cf => s.nf = NoFid
  PROVE  Owns(A \ {f}, h, s)
BY DEF Owns

LEMMA Same ==
  ASSUME NEW A, NEW h, NEW r, Owns(A, h, r), r # Idle, NEW s, s # Idle,
         s.nf = r.nf, s.cf = r.cf
  PROVE  Owns(A, h, s)
BY DEF Owns, OpFidsOf

\* The fid nf is given up and the request proceeds.
LEMMA GivesNf ==
  ASSUME IInv, op # Idle, op.nf # NoFid, UNCHANGED held,
         ServerTyped', conn' = conn, Others(op.nf), DOMAIN srv' = DOMAIN srv \ {op.nf},
         WaitingOf(op) \subseteq {op.nf},
         NEW r \in Request, r.nf = NoFid, r.cf = op.cf
  PROVE  Answered(alloc \ {op.nf}, r)
<1>1. r # Idle
  BY IdleIsNoRequest
<1>2. op.nf \in OpFidsOf(op) /\ op.nf # op.cf
  BY Now DEF OpFidsOf, Owns
<1>3. OpFidsOf(r) = OpFidsOf(op) \ {op.nf}
  BY <1>1, <1>2 DEF OpFidsOf
<1>4. Owns(alloc \ {op.nf}, held, r)
  BY <1>2, <1>3, Fewer, Now
<1>5. Settled(alloc \ {op.nf}, srv', conn)
  BY Now DEF Settled
<1> QED
  BY <1>2, <1>4, <1>5, Answers

LEMMA GivesCf ==
  ASSUME IInv, op # Idle, op.cf # NoFid, UNCHANGED held,
         ServerTyped', conn' = conn, Others(op.cf), DOMAIN srv' = DOMAIN srv \ {op.cf},
         WaitingOf(op) \subseteq {op.cf},
         NEW r \in Request, r.nf = op.nf, r.cf = NoFid
  PROVE  Answered(alloc \ {op.cf}, r)
<1>1. r # Idle
  BY IdleIsNoRequest
<1>2. op.cf \in OpFidsOf(op) /\ op.nf # op.cf
  BY Now DEF OpFidsOf, Owns
<1>3. OpFidsOf(r) = OpFidsOf(op) \ {op.cf}
  BY <1>1, <1>2 DEF OpFidsOf
<1>4. Owns(alloc \ {op.cf}, held, r)
  BY <1>2, <1>3, Fewer, Now
<1>5. Settled(alloc \ {op.cf}, srv', conn)
  BY Now DEF Settled
<1> QED
  BY <1>2, <1>4, <1>5, Answers

\* The request keeps its fids, and the server has them all.
LEMMA KeepsFids ==
  ASSUME IInv, op # Idle, NEW f \in OpFidsOf(op), UNCHANGED held,
         ServerTyped', conn' = conn, Others(f), Settled(alloc, srv', conn),
         NEW r \in Request, r.nf = op.nf, r.cf = op.cf
  PROVE  Answered(alloc, r)
<1>1. r # Idle
  BY IdleIsNoRequest
<1>2. Owns(alloc, held, r)
  BY <1>1, Same, Now
<1> QED
  BY <1>2, Answers

\* A walk that came to nothing leaves a request that can go on.
LEMMA MissingThen ==
  ASSUME NEW r \in Request, r.cf # NoFid => r.do \in {"creat", "nxcreat"}
  PROVE  LET m == Missing(r)
         IN /\ m \in Request /\ m.nf = r.nf /\ m.cf = r.cf /\ m.do = r.do /\ m.tag = r.tag
            /\ m.then = "io" => r.do = "dirread"
            /\ m.then = "undo" <=> r.cf # NoFid
            /\ m.then = "create" => r.do \in {"creat", "nxcreat"}
<1> DEFINE v == CASE r.cf # NoFid              -> "undo"
                  [] r.cf = NoFid /\ r.do \in {"creat", "nxcreat"} -> "create"
                  [] r.do = "dirread"          -> "io"
                  [] OTHER                     -> "end"
<1>1. /\ v \in {"undo", "create", "io", "end"}
      /\ v = "io" => r.do = "dirread"
      /\ v = "undo" <=> r.cf # NoFid
      /\ v = "create" => r.do \in {"creat", "nxcreat"}
  <2>1. CASE r.cf # NoFid
    <3>1. v = "undo"
      BY <2>1
    <3> HIDE DEF v
    <3> QED
      BY <2>1, <3>1
  <2>2. CASE r.cf = NoFid /\ r.do \in {"creat", "nxcreat"}
    <3>1. v = "create"
      BY <2>2
    <3> HIDE DEF v
    <3> QED
      BY <2>2, <3>1
  <2>3. CASE r.cf = NoFid /\ r.do \notin {"creat", "nxcreat"}
    <3>1. v = IF r.do = "dirread" THEN "io" ELSE "end"
      BY <2>3
    <3> HIDE DEF v
    <3> QED
      BY <2>3, <3>1
  <2> QED
    BY <2>1, <2>2, <2>3
<1>2. Missing(r) = [r EXCEPT !.then = v]
  BY DEF Missing
<1> HIDE DEF v
<1> QED
  BY <1>1, <1>2 DEF Request

\* A file that is found and not kept is dropped, the clone first.
LEMMA FoundThen ==
  ASSUME NEW r \in Request, NEW o, r.cf # NoFid => r.do \in {"creat", "nxcreat"}
  PROVE  LET m == Found(r, o)
         IN /\ m \in Request /\ m.nf = r.nf /\ m.cf = r.cf /\ m.do = r.do /\ m.tag = r.tag
            /\ m.then = "io" => r.do = "dirread"
            /\ r.cf # NoFid => m.then = "end"
            /\ m.then # "undo"
            /\ m.then = "create" => r.do \in {"creat", "nxcreat"}
<1> DEFINE v == CASE r.do = "creat" /\ r.cf = NoFid      -> "create"
                  [] r.do = "delete" /\ o \notin isdir -> "rm"
                  [] r.do = "dirread"                    -> "io"
                  [] OTHER                               -> "end"
<1>1. /\ v \in {"create", "rm", "io", "end"}
      /\ v = "io" => r.do = "dirread"
      /\ r.cf # NoFid => v = "end"
      /\ v = "create" => r.do \in {"creat", "nxcreat"}
  <2>1. CASE r.do = "creat"
    <3>1. v = IF r.cf = NoFid THEN "create" ELSE "end"
      BY <2>1
    <3> HIDE DEF v
    <3> QED
      BY <2>1, <3>1
  <2>2. CASE r.do = "delete"
    <3>1. v = IF o \notin isdir THEN "rm" ELSE "end"
      BY <2>2
    <3> HIDE DEF v
    <3> QED
      BY <2>2, <3>1
  <2>3. CASE r.do \notin {"creat", "delete"}
    <3>1. v = IF r.do = "dirread" THEN "io" ELSE "end"
      BY <2>3
    <3> HIDE DEF v
    <3> QED
      BY <2>3, <3>1
  <2> QED
    BY <2>1, <2>2, <2>3
<1>2. Found(r, o) = [r EXCEPT !.then = v]
  BY DEF Found
<1> HIDE DEF v
<1> QED
  BY <1>1, <1>2 DEF Request

LEMMA WalkKeeps ==
  ASSUME IInv, Walk
  PROVE  IInv'
<1>1. /\ op # Idle /\ op.at = "walk" /\ op \in Request /\ Shape(held, op) /\ UNCHANGED held
      /\ op.nf # NoFid /\ op.name \in Paths /\ WaitingOf(op) = {op.nf}
  BY Sent DEF Walk, Request, Shape, WaitingOf
<1>2. PICK ok \in BOOLEAN :
        /\ Twalk(held[op.tag].fid, op.nf, op.name, ok)
        /\ IF ok THEN Goes(alloc, op, "stat") ELSE Proceed(alloc \ {op.nf}, Missing(op))
  BY DEF Walk
<1>3. /\ ServerTyped' /\ conn' = conn /\ Others(op.nf)
      /\ ok => conn /\ DOMAIN srv' = DOMAIN srv \cup {op.nf} /\ srv'[op.nf].mode = "shut"
      /\ ok \/ srv' = srv
  <2>1. Twalk(held[op.tag].fid, op.nf, op.name, ok) /\ op.name \in Paths /\ ServerTyped
    BY <1>1, <1>2, Now
  <2>2. ok \/ srv' = srv
    BY <2>1 DEF Twalk
  <2> QED
    BY <2>1, <2>2, NewFid
<1>4. /\ op.nf \in OpFidsOf(op) /\ OpFidsOf(op) \subseteq alloc
      /\ op.cf # NoFid => op.cf \in OpFidsOf(op) /\ op.cf # op.nf
  BY <1>1, Now DEF OpFidsOf, Owns
<1>5. CASE ok
  <2>1. Settled(alloc, srv', conn)
    BY <1>1, <1>3, <1>4, <1>5, Now DEF Settled
  <2>2. Answered(alloc, op)
    BY <1>1, <1>3, <1>4, <2>1, KeepsFids
  <2>3. Shape(held', [op EXCEPT !.at = "stat"])
    BY <1>1 DEF Shape, Request, Steps
  <2>4. op.cf # NoFid => srv'[op.cf].mode = "w"
    <3>1. op.cf # NoFid => op.cf \in DOMAIN srv /\ srv[op.cf].mode = "w"
      BY <1>1, <1>3, <1>4, <1>5, Now DEF Settled, OpModes
    <3> QED
      BY <1>3, <1>4, <3>1 DEF Others
  <2> QED
    BY <1>1, <1>2, <1>3, <1>5, <2>2, <2>3, <2>4, GoesWell
<1>6. CASE ~ok
  <2> DEFINE r == Missing(op)
  <2>1. /\ r \in Request /\ r.cf = op.cf /\ r.do = op.do
        /\ r.then = "undo" <=> r.cf # NoFid
        /\ r.then = "create" => r.do \in {"creat", "nxcreat"}
    BY <1>1, MissingThen DEF Shape
  <2> HIDE DEF r
  <2> DEFINE s == [r EXCEPT !.nf = NoFid]
  <2>2. s \in Request /\ s.nf = NoFid /\ s.cf = op.cf
    BY <2>1 DEF Request
  <2> HIDE DEF s
  <2>3. DOMAIN srv' = DOMAIN srv \ {op.nf}
    BY <1>1, <1>3, <1>6, Now DEF Settled
  <2>4. Answered(alloc \ {op.nf}, s)
    BY <1>1, <1>3, <2>2, <2>3, GivesNf
  <2>5. Proceed(alloc \ {op.nf}, r)
    BY <1>2, <1>6 DEF r
  <2> QED
    BY <2>1, <2>4, <2>5, Proceeds DEF s
<1> QED
  BY <1>5, <1>6

\* Unwalk and Drop.
LEMMA DropKeeps ==
  ASSUME IInv, Unwalk \/ Drop
  PROVE  IInv'
<1>1. /\ op # Idle /\ op.at \in {"unwalk", "drop"} /\ op \in Request /\ Shape(held, op)
      /\ UNCHANGED held /\ Tclunk(op.nf) /\ Proceed(alloc \ {op.nf}, op)
  BY Sent DEF Unwalk, Drop, Clunk
<1>2. op.nf # NoFid /\ WaitingOf(op) = {}
  BY <1>1 DEF Shape, WaitingOf
<1>3. ServerTyped' /\ conn' = conn /\ Others(op.nf) /\ DOMAIN srv' = DOMAIN srv \ {op.nf}
  BY <1>1, FidGone, Now
<1> DEFINE s == [op EXCEPT !.nf = NoFid]
<1>4. s \in Request /\ s.nf = NoFid /\ s.cf = op.cf
  BY <1>1 DEF Request
<1> HIDE DEF s
<1>5. Answered(alloc \ {op.nf}, s)
  BY <1>1, <1>2, <1>3, <1>4, GivesNf
<1>6. /\ op.then = "undo" <=> op.cf # NoFid
      /\ op.then = "create" => op.do \in {"creat", "nxcreat"}
  BY <1>1 DEF Shape
<1> QED
  BY <1>1, <1>5, <1>6, Proceeds DEF s

LEMMA DropIoKeeps ==
  ASSUME IInv, DropIo
  PROVE  IInv'
<1>1. /\ op # Idle /\ op.at = "dropio" /\ op \in Request /\ Shape(held, op)
      /\ UNCHANGED held /\ Tclunk(op.cf)
      /\ Goes(alloc \ {op.cf}, [op EXCEPT !.cf = NoFid], "drop")
  BY Sent DEF DropIo, Clunk
<1>2. op.cf # NoFid /\ WaitingOf(op) = {} /\ op.nf # NoFid /\ op.then = "end"
  BY <1>1 DEF Shape, WaitingOf
<1>3. ServerTyped' /\ conn' = conn /\ Others(op.cf) /\ DOMAIN srv' = DOMAIN srv \ {op.cf}
  BY <1>1, FidGone, Now
<1> DEFINE s == [op EXCEPT !.cf = NoFid]
<1>4. s \in Request /\ s.nf = op.nf /\ s.cf = NoFid /\ s.then = "end"
  BY <1>1, <1>2 DEF Request
<1> HIDE DEF s
<1>5. Answered(alloc \ {op.cf}, s)
  BY <1>1, <1>2, <1>3, <1>4, GivesCf
<1>6. Shape(held', [s EXCEPT !.at = "drop"])
  BY <1>2, <1>4 DEF Shape, Request, Steps
<1>7. Goes(alloc \ {op.cf}, s, "drop")
  BY <1>1 DEF s
<1> QED
  BY <1>4, <1>5, <1>6, <1>7, GoesWell

LEMMA UncloneKeeps ==
  ASSUME IInv, Unclone
  PROVE  IInv'
<1>1. /\ op # Idle /\ op.at = "unclone" /\ op \in Request /\ Shape(held, op)
      /\ UNCHANGED held /\ Tclunk(op.cf) /\ Ends(alloc \ {op.cf})
  BY Sent DEF Unclone, Clunk
<1>2. op.cf # NoFid /\ WaitingOf(op) = {} /\ op.nf = NoFid
  BY <1>1 DEF Shape, WaitingOf
<1>3. ServerTyped' /\ conn' = conn /\ Others(op.cf) /\ DOMAIN srv' = DOMAIN srv \ {op.cf}
  BY <1>1, FidGone, Now
<1> DEFINE s == [op EXCEPT !.cf = NoFid]
<1>4. s \in Request /\ s.nf = NoFid /\ s.cf = NoFid /\ s.nf = op.nf
  BY <1>1, <1>2 DEF Request
<1> HIDE DEF s
<1>5. Answered(alloc \ {op.cf}, s) /\ OpFidsOf(s) = {}
  BY <1>1, <1>2, <1>3, <1>4, GivesCf DEF OpFidsOf
<1> QED
  BY <1>1, <1>5, EndsWell

LEMMA CloneKeeps ==
  ASSUME IInv, Clone
  PROVE  IInv'
<1>1. /\ op # Idle /\ op.at = "clone" /\ op \in Request /\ Shape(held, op) /\ UNCHANGED held
      /\ op.cf # NoFid /\ op.nf = NoFid /\ WaitingOf(op) = {op.cf}
  BY Sent DEF Clone, Shape, WaitingOf
<1>2. PICK ok \in BOOLEAN :
        /\ Tclone(held[Root].fid, op.cf, ok)
        /\ IF ok THEN Goes(alloc, op, "create") ELSE Ends(alloc \ {op.cf})
  BY DEF Clone
<1>3. /\ ServerTyped' /\ conn' = conn /\ Others(op.cf)
      /\ ok => conn /\ DOMAIN srv' = DOMAIN srv \cup {op.cf} /\ srv'[op.cf].mode = "shut"
      /\ ok \/ srv' = srv
  <2>1. Tclone(held[Root].fid, op.cf, ok) /\ ServerTyped
    BY <1>2, Now
  <2>2. ok \/ srv' = srv
    BY <2>1 DEF Tclone
  <2> QED
    BY <2>1, <2>2, NewClone
<1>4. op.cf \in OpFidsOf(op) /\ OpFidsOf(op) \subseteq alloc
  BY <1>1, Now DEF OpFidsOf, Owns
<1>5. CASE ok
  <2>1. Settled(alloc, srv', conn)
    BY <1>1, <1>3, <1>4, <1>5, Now DEF Settled
  <2>2. Answered(alloc, op)
    BY <1>1, <1>3, <1>4, <2>1, KeepsFids
  <2>3. Shape(held', [op EXCEPT !.at = "create"])
    BY <1>1 DEF Shape, Request, Steps
  <2> QED
    BY <1>1, <1>2, <1>5, <2>2, <2>3, GoesWell
<1>6. CASE ~ok
  <2> DEFINE s == [op EXCEPT !.cf = NoFid]
  <2>1. s \in Request /\ s.nf = op.nf /\ s.nf = NoFid /\ s.cf = NoFid
    BY <1>1 DEF Request
  <2> HIDE DEF s
  <2>2. DOMAIN srv' = DOMAIN srv \ {op.cf}
    BY <1>1, <1>3, <1>6, Now DEF Settled
  <2>3. Answered(alloc \ {op.cf}, s) /\ OpFidsOf(s) = {}
    BY <1>1, <1>3, <2>1, <2>2, GivesCf DEF OpFidsOf
  <2> QED
    BY <1>2, <1>6, <2>3, EndsWell
<1> QED
  BY <1>5, <1>6

\* The new file is walked to with a fid of its own, or the clone is given back.
LEMMA CreateKeeps ==
  ASSUME IInv, Create
  PROVE  IInv'
<1>1. /\ op # Idle /\ op.at = "create" /\ op \in Request /\ Shape(held, op) /\ UNCHANGED held
      /\ op.cf # NoFid /\ op.nf = NoFid /\ WaitingOf(op) = {} /\ op.name \in Paths
      /\ op.do \in {"creat", "nxcreat", "mkdir"}
  BY Sent DEF Create, Shape, WaitingOf, Request
<1>2. PICK ok \in BOOLEAN :
        /\ Tcreate(op.cf, op.name, op.do = "mkdir", ok)
        /\ IF ok /\ op.do # "mkdir"
           THEN Fidalloc(alloc, op, "nf", "walk", [op EXCEPT !.at = "unclone"])
           ELSE Goes(alloc, op, "unclone")
  BY DEF Create
<1>3. /\ ServerTyped' /\ conn' = conn /\ Others(op.cf) /\ DOMAIN srv' = DOMAIN srv
      /\ ok => conn /\ (op.do # "mkdir" => srv'[op.cf].mode = "w")
  <2>1. PICK dir \in BOOLEAN : dir <=> op.do = "mkdir"
    OBVIOUS
  <2>2. dir = (op.do = "mkdir")
    BY <2>1
  <2>3. Tcreate(op.cf, op.name, dir, ok)
    BY <1>2, <2>2
  <2> QED
    BY <1>1, <2>1, <2>3, Created, Now
<1>4. op.cf \in OpFidsOf(op)
  BY <1>1 DEF OpFidsOf
<1>5. Settled(alloc, srv', conn)
  BY <1>1, <1>3, Now DEF Settled
<1>6. Answered(alloc, op)
  BY <1>1, <1>3, <1>4, <1>5, KeepsFids
<1>7. CASE ok /\ op.do # "mkdir"
  <2>1. Fidalloc(alloc, op, "nf", "walk", [op EXCEPT !.at = "unclone"])
    BY <1>2, <1>7
  <2>2. ASSUME NEW f \in Fids
        PROVE  Shape(held', [op EXCEPT !.nf = f, !.at = "walk"])
    <3> DEFINE c == [op EXCEPT !.nf = f, !.at = "walk"]
    <3>1. /\ c \in Request /\ c.nf = f /\ f # NoFid /\ c.at = "walk"
          /\ c.do \in {"creat", "nxcreat"}
      BY <1>1, <1>7, NoFidIsNone DEF Request, Steps
    <3> HIDE DEF c
    <3>2. Shape(held', c)
      BY <3>1 DEF Shape
    <3> QED
      BY <3>2 DEF c
  <2>3. srv'[op.cf].mode = "w"
    BY <1>3, <1>7
  <2> QED
    BY <1>1, <1>6, <2>1, <2>2, <2>3, AllocatesNf
<1>8. CASE ~(ok /\ op.do # "mkdir")
  <2>1. Shape(held', [op EXCEPT !.at = "unclone"])
    BY <1>1 DEF Shape, Request, Steps
  <2>2. Goes(alloc, op, "unclone")
    BY <1>2, <1>8
  <2> QED
    BY <1>1, <1>6, <2>1, <2>2, GoesWell
<1> QED
  BY <1>7, <1>8

LEMMA RmWalkKeeps ==
  ASSUME IInv, RmWalk
  PROVE  IInv'
<1>1. /\ op # Idle /\ op.at = "rmwalk" /\ op \in Request /\ Shape(held, op) /\ UNCHANGED held
      /\ op.nf # NoFid /\ op.cf = NoFid /\ op.name \in Paths /\ WaitingOf(op) = {op.nf}
  BY Sent DEF RmWalk, Request, Shape, WaitingOf
<1>2. PICK ok \in BOOLEAN :
        /\ Twalk(held[Root].fid, op.nf, op.name, ok)
        /\ Goes(alloc, op, "remove") \/ ok = FALSE
        /\ Ends(alloc \ {op.nf}) \/ ok = TRUE
  BY DEF RmWalk
<1>3. /\ ServerTyped' /\ conn' = conn /\ Others(op.nf)
      /\ ok => conn /\ DOMAIN srv' = DOMAIN srv \cup {op.nf} /\ srv'[op.nf].mode = "shut"
      /\ ok \/ srv' = srv
  <2>1. Twalk(held[Root].fid, op.nf, op.name, ok) /\ op.name \in Paths /\ ServerTyped
    BY <1>1, <1>2, Now
  <2>2. ok \/ srv' = srv
    BY <2>1 DEF Twalk
  <2> QED
    BY <2>1, <2>2, NewFid
<1>4. op.nf \in OpFidsOf(op) /\ OpFidsOf(op) \subseteq alloc
  BY <1>1, Now DEF OpFidsOf, Owns
<1>5. CASE ok = TRUE
  <2>1. Settled(alloc, srv', conn)
    BY <1>1, <1>3, <1>4, <1>5, Now DEF Settled
  <2>2. Answered(alloc, op)
    BY <1>1, <1>3, <1>4, <2>1, KeepsFids
  <2>3. Shape(held', [op EXCEPT !.at = "remove"])
    BY <1>1 DEF Shape, Request, Steps
  <2> QED
    BY <1>1, <1>2, <1>5, <2>2, <2>3, GoesWell
<1>6. CASE ok = FALSE
  <2> DEFINE s == [op EXCEPT !.nf = NoFid]
  <2>1. s \in Request /\ s.nf = NoFid /\ s.cf = op.cf
    BY <1>1 DEF Request
  <2> HIDE DEF s
  <2>2. DOMAIN srv' = DOMAIN srv \ {op.nf}
    BY <1>1, <1>3, <1>6, Now DEF Settled
  <2>3. Answered(alloc \ {op.nf}, s) /\ OpFidsOf(s) = {}
    BY <1>1, <1>3, <2>1, <2>2, GivesNf DEF OpFidsOf
  <2> QED
    BY <1>2, <1>6, <2>3, EndsWell
<1> QED
  BY <1>5, <1>6

LEMMA RemoveKeeps ==
  ASSUME IInv, Remove
  PROVE  IInv'
<1>1. /\ op # Idle /\ op.at = "remove" /\ op \in Request /\ Shape(held, op)
      /\ UNCHANGED held /\ Tremove(op.nf) /\ Ends(alloc \ {op.nf})
  BY Sent DEF Remove
<1>2. op.nf # NoFid /\ WaitingOf(op) = {} /\ op.cf = NoFid
  BY <1>1 DEF Shape, WaitingOf
<1>3. ServerTyped' /\ conn' = conn /\ Others(op.nf) /\ DOMAIN srv' = DOMAIN srv \ {op.nf}
  BY <1>1, FidGone, Now
<1> DEFINE s == [op EXCEPT !.nf = NoFid]
<1>4. s \in Request /\ s.nf = NoFid /\ s.cf = op.cf
  BY <1>1 DEF Request
<1> HIDE DEF s
<1>5. Answered(alloc \ {op.nf}, s) /\ OpFidsOf(s) = {}
  BY <1>1, <1>2, <1>3, <1>4, GivesNf DEF OpFidsOf
<1> QED
  BY <1>1, <1>5, EndsWell

LEMMA IoCloneKeeps ==
  ASSUME IInv, IoClone
  PROVE  IInv'
<1>1. /\ op # Idle /\ op.at = "ioclone" /\ op \in Request /\ Shape(held, op) /\ UNCHANGED held
      /\ op.cf # NoFid /\ op.nf = NoFid /\ WaitingOf(op) = {op.cf}
  BY Sent DEF IoClone, Shape, WaitingOf
<1>2. PICK ok \in BOOLEAN :
        /\ Tclone(held[op.tag].fid, op.cf, ok)
        /\ IF ok THEN Goes(alloc, op, "ioopen") ELSE Ends(alloc \ {op.cf})
  BY DEF IoClone
<1>3. /\ ServerTyped' /\ conn' = conn /\ Others(op.cf)
      /\ ok => conn /\ DOMAIN srv' = DOMAIN srv \cup {op.cf} /\ srv'[op.cf].mode = "shut"
      /\ ok \/ srv' = srv
  <2>1. Tclone(held[op.tag].fid, op.cf, ok) /\ ServerTyped
    BY <1>2, Now
  <2>2. ok \/ srv' = srv
    BY <2>1 DEF Tclone
  <2> QED
    BY <2>1, <2>2, NewClone
<1>4. op.cf \in OpFidsOf(op) /\ OpFidsOf(op) \subseteq alloc
  BY <1>1, Now DEF OpFidsOf, Owns
<1>5. CASE ok
  <2>1. Settled(alloc, srv', conn)
    BY <1>1, <1>3, <1>4, <1>5, Now DEF Settled
  <2>2. Answered(alloc, op)
    BY <1>1, <1>3, <1>4, <2>1, KeepsFids
  <2>3. Shape(held', [op EXCEPT !.at = "ioopen"])
    BY <1>1 DEF Shape, Request, Steps
  <2> QED
    BY <1>1, <1>2, <1>5, <2>2, <2>3, GoesWell
<1>6. CASE ~ok
  <2> DEFINE s == [op EXCEPT !.cf = NoFid]
  <2>1. s \in Request /\ s.nf = op.nf /\ s.nf = NoFid /\ s.cf = NoFid
    BY <1>1 DEF Request
  <2> HIDE DEF s
  <2>2. DOMAIN srv' = DOMAIN srv \ {op.cf}
    BY <1>1, <1>3, <1>6, Now DEF Settled
  <2>3. Answered(alloc \ {op.cf}, s) /\ OpFidsOf(s) = {}
    BY <1>1, <1>3, <2>1, <2>2, GivesCf DEF OpFidsOf
  <2> QED
    BY <1>2, <1>6, <2>3, EndsWell
<1> QED
  BY <1>5, <1>6

\* The answer of Tstat changes nothing on the server.
LEMMA StatKeeps ==
  ASSUME IInv, Stat
  PROVE  IInv'
<1>1. /\ op # Idle /\ op.at = "stat" /\ op \in Request /\ Shape(held, op)
      /\ op.nf \in Fids /\ op.cf \in Fids \cup {NoFid} /\ op.nf # NoFid /\ WaitingOf(op) = {}
      /\ op.cf # NoFid => op.do \in {"creat", "nxcreat"}
  BY Sent DEF Stat, Request, Shape, WaitingOf
<1>2. PICK o \in Objects \cup {Root, None} :
        /\ Tstat(op.nf, o)
        /\ \/ Goes(alloc, Missing(op), "unwalk") /\ UNCHANGED held
           \/ /\ o # None /\ o \notin DOMAIN held /\ Cardinality(DOMAIN held) < NTag
              /\ held' = [p \in DOMAIN held \cup {o} |-> IF p = o
                            THEN [fid |-> op.nf, io |-> op.cf, omode |-> "w"]
                            ELSE held[p]]
              /\ Ends(alloc)
           \/ /\ Goes(alloc, Found(op, o), IF op.cf = NoFid THEN "drop" ELSE "dropio")
              /\ UNCHANGED held
  BY DEF Stat
<1>3. UNCHANGED <<tree, made, isdir, moved, ro, conn, srv>>
  BY <1>2 DEF Tstat, server
<1>4. ServerTyped' /\ Others(op.nf) /\ Settled(alloc, srv', conn) /\ op.nf \in OpFidsOf(op)
  BY <1>1, <1>3, Now DEF ServerTyped, Others, Settled, OpFidsOf
<1>5. ASSUME UNCHANGED held, NEW r \in Request, r.nf = op.nf, r.cf = op.cf
      PROVE  Answered(alloc, r)
  BY <1>1, <1>3, <1>4, <1>5, KeepsFids
<1>6. CASE Goes(alloc, Missing(op), "unwalk") /\ UNCHANGED held
  <2> DEFINE m == Missing(op)
  <2>1. /\ m \in Request /\ m.nf = op.nf /\ m.cf = op.cf /\ m.do = op.do
        /\ m.then = "undo" <=> op.cf # NoFid
        /\ m.then = "create" => op.do \in {"creat", "nxcreat"}
    BY <1>1, MissingThen
  <2> HIDE DEF m
  <2>2. Answered(alloc, m)
    BY <1>5, <1>6, <2>1
  <2>3. Shape(held', [m EXCEPT !.at = "unwalk"])
    BY <1>1, <2>1 DEF Shape, Request, Steps
  <2>4. Goes(alloc, m, "unwalk")
    BY <1>6 DEF m
  <2> QED
    BY <2>1, <2>2, <2>3, <2>4, GoesWell
<1>7. CASE Goes(alloc, Found(op, o), IF op.cf = NoFid THEN "drop" ELSE "dropio")
           /\ UNCHANGED held
  <2> DEFINE r == Found(op, o)
             a == IF op.cf = NoFid THEN "drop" ELSE "dropio"
  <2>1. /\ r \in Request /\ r.nf = op.nf /\ r.cf = op.cf /\ r.do = op.do
        /\ op.cf # NoFid => r.then = "end"
        /\ r.then # "undo"
        /\ r.then = "create" => r.do \in {"creat", "nxcreat"}
    BY <1>1, FoundThen
  <2> HIDE DEF r
  <2>2. Answered(alloc, r)
    BY <1>5, <1>7, <2>1
  <2>3. Shape(held', [r EXCEPT !.at = a])
    BY <1>1, <2>1 DEF Shape, Request, Steps
  <2>4. Goes(alloc, r, a) /\ a \in {"drop", "dropio"}
    BY <1>7 DEF r
  <2> HIDE DEF a
  <2> QED
    BY <2>1, <2>2, <2>3, <2>4, GoesWell
<1>8. CASE /\ o # None /\ o \notin DOMAIN held /\ Cardinality(DOMAIN held) < NTag
           /\ held' = [p \in DOMAIN held \cup {o} |-> IF p = o
                         THEN [fid |-> op.nf, io |-> op.cf, omode |-> "w"]
                         ELSE held[p]]
           /\ Ends(alloc)
  <2>1. /\ DOMAIN held' = DOMAIN held \cup {o} /\ o \notin DOMAIN held
        /\ held'[o] = [fid |-> op.nf, io |-> op.cf, omode |-> "w"]
        /\ \A p \in DOMAIN held : held'[p] = held[p]
    BY <1>8
  <2>2. HeldOK(held')
    <3>1. o \in Objects
      BY <1>2, <1>8, Now DEF HeldOK
    <3>2. held'[o] \in Rfile
      BY <1>1, <2>1 DEF Rfile
    <3>3. Cardinality(DOMAIN held \cup {o}) <= NTag
      <4>1. IsFiniteSet(DOMAIN held) /\ Cardinality(DOMAIN held) \in Nat
        BY Now, HeldFinite
      <4>2. Cardinality(DOMAIN held \cup {o}) = Cardinality(DOMAIN held) + 1
        BY <2>1, <4>1, FS_AddElement
      <4> QED
        BY <1>8, <4>1, <4>2, TableAssumption
    <3> QED
      BY <2>1, <3>1, <3>2, <3>3, Now DEF HeldOK
  <2>3. Owns(alloc, held', Idle)
    <3>1. OpFidsOf(op) = {op.nf, op.cf} \ {NoFid} /\ OpFidsOf(op) \subseteq Fids
      BY <1>1 DEF OpFidsOf
    <3>2. \A f \in Fids : Owner(held', o, f) <=> f \in OpFidsOf(op)
      BY <2>1, <3>1, NoFidIsNone DEF Owner
    <3>3. \A f \in Fids, p \in DOMAIN held : Owner(held', p, f) <=> Owner(held, p, f)
      BY <2>1 DEF Owner
    <3>4. \A f \in Fids : f \in Owned(held') <=> f \in Owned(held) \/ f \in OpFidsOf(op)
      BY <2>1, <3>2, <3>3 DEF Owned
    <3>5. alloc = Owned(held') /\ OpFidsOf(Idle) = {}
      <4>1. alloc \subseteq Fids /\ Owned(held') \subseteq Fids /\ alloc = OpFidsOf(op) \cup Owned(held)
        BY <3>1, Now DEF Owns, Owned
      <4> QED
        BY <3>4, <4>1 DEF OpFidsOf
    <3>6. \A f \in Fids : \A p, q \in DOMAIN held' :
            Owner(held', p, f) /\ Owner(held', q, f) => p = q
      <4>1. \A f \in Fids, p \in DOMAIN held : ~(Owner(held', o, f) /\ Owner(held', p, f))
        BY <3>2, <3>3, Now DEF Owns, Owned
      <4> QED
        BY <2>1, <3>3, <4>1, Now DEF Owns
    <3>7. \A p \in DOMAIN held' : held'[p].fid # held'[p].io
      BY <1>1, <2>1, Now DEF Owns
    <3> QED
      BY <3>5, <3>6, <3>7 DEF Owns
  <2>4. ASSUME conn'
        PROVE  HeldModes(held', srv')
    <3>1. srv'[op.nf].mode = "shut" /\ (op.cf # NoFid => srv'[op.cf].mode = "w")
      BY <1>1, <1>3, <2>4, Now DEF OpModes
    <3> QED
      BY <1>3, <2>1, <2>4, <3>1, Now DEF HeldModes
  <2>5. Answered(alloc, Idle) /\ OpFidsOf(Idle) = {}
    BY <1>3, <1>4, <2>2, <2>3, <2>4, Now DEF Answered, OpFidsOf
  <2> QED
    BY <1>8, <2>5, EndsWell
<1> QED
  BY <1>2, <1>6, <1>7, <1>8

LEMMA IoClunkKeeps ==
  ASSUME IInv, IoClunk
  PROVE  IInv'
<1> DEFINE t == op.tag
           i == held[t].io
<1>1. /\ op # Idle /\ op.at = "ioclunk" /\ op \in Request /\ Shape(held, op)
      /\ op.nf = NoFid /\ op.cf = NoFid /\ t \in DOMAIN held /\ i # NoFid
      /\ WaitingOf(op) = {} /\ OpFidsOf(op) = {}
  BY Sent DEF IoClunk, Shape, WaitingOf, OpFidsOf
<1>2. /\ Tclunk(i) /\ held' = [held EXCEPT ![t].io = NoFid]
      /\ Fidalloc(alloc \ {i}, op, "cf", "ioclone", Idle)
  BY DEF IoClunk
<1>3. ServerTyped' /\ conn' = conn /\ Others(i) /\ DOMAIN srv' = DOMAIN srv \ {i}
  BY <1>2, FidGone, Now
<1>4. /\ DOMAIN held' = DOMAIN held
      /\ held'[t] = [held[t] EXCEPT !.io = NoFid]
      /\ \A o \in DOMAIN held \ {t} : held'[o] = held[o]
  BY <1>1, <1>2
<1>5. \A o \in DOMAIN held : held[o] \in Rfile
  BY Now DEF HeldOK
<1>6. /\ held'[t] \in Rfile /\ held'[t].fid = held[t].fid /\ held'[t].io = NoFid
      /\ i \in Fids /\ held[t].fid # i
  BY <1>1, <1>4, <1>5, Now DEF Rfile, Owns
<1> HIDE DEF t, i
<1>7. HeldOK(held')
  BY <1>1, <1>4, <1>6, Now DEF HeldOK
<1>8. Owns(alloc \ {i}, held', op)
  <2>1. \A f \in Fids, o \in DOMAIN held : Owner(held', o, f) <=> Owner(held, o, f) /\ f # i
    <3>1. Owner(held, t, i)
      BY DEF Owner, i
    <3>2. \A o \in DOMAIN held \ {t} : ~Owner(held, o, i)
      BY <1>1, <1>6, <3>1, Now DEF Owns
    <3>3. \A f \in Fids : Owner(held', t, f) <=> Owner(held, t, f) /\ f # i
      BY <1>6, NoFidIsNone DEF Owner, i
    <3> QED
      BY <1>4, <3>2, <3>3 DEF Owner
  <2>2. \A f \in Fids : f \in Owned(held') <=> f \in Owned(held) /\ f # i
    BY <1>4, <2>1 DEF Owned
  <2>3. alloc \ {i} = Owned(held')
    <3>1. alloc = Owned(held) /\ Owned(held) \subseteq Fids /\ Owned(held') \subseteq Fids
      BY <1>1, Now DEF Owns, Owned
    <3> QED
      BY <2>2, <3>1
  <2>4. \A o \in DOMAIN held' : held'[o].fid # held'[o].io
    <3>1. held[t].fid # NoFid
      BY <1>1, <1>5, NoFidIsNone DEF Rfile
    <3> QED
      BY <1>4, <1>6, <3>1, Now DEF Owns
  <2>5. \A f \in Fids : \A o, p \in DOMAIN held' :
          Owner(held', o, f) /\ Owner(held', p, f) => o = p
    BY <1>4, <2>1, Now DEF Owns
  <2> QED
    BY <1>1, <2>3, <2>4, <2>5 DEF Owns
<1>9. ASSUME conn'
      PROVE  HeldModes(held', srv')
  <2>1. \A o \in DOMAIN held :
          /\ held[o].fid # i /\ held[o].fid \in DOMAIN srv
          /\ o # t /\ held[o].io # NoFid => held[o].io # i /\ held[o].io \in DOMAIN srv
    <3>1. Owner(held, t, i)
      BY DEF Owner, i
    <3> QED
      BY <1>1, <1>3, <1>6, <1>9, <3>1, HeldFids, Now DEF Owns, Owner
  <2>2. \A o \in DOMAIN held : srv'[held[o].fid] = srv[held[o].fid]
    BY <1>3, <2>1 DEF Others
  <2>3. \A o \in DOMAIN held \ {t} : held[o].io # NoFid => srv'[held[o].io] = srv[held[o].io]
    BY <1>3, <2>1 DEF Others
  <2>4. HeldModes(held, srv)
    BY <1>3, <1>9, Now
  <2>5. srv'[held'[t].fid].mode = "shut" /\ held'[t].io = NoFid
    BY <1>1, <1>6, <2>2, <2>4 DEF HeldModes
  <2>6. ASSUME NEW o \in DOMAIN held \ {t}
        PROVE  /\ srv'[held'[o].fid].mode = "shut"
               /\ held'[o].io # NoFid => srv'[held'[o].io].mode = held'[o].omode
    <3>1. held'[o] = held[o]
      BY <1>4
    <3> QED
      BY <2>2, <2>3, <2>4, <3>1 DEF HeldModes
  <2> QED
    BY <1>4, <2>5, <2>6 DEF HeldModes
<1>10. Answered(alloc \ {i}, op)
  <2>1. Settled(alloc \ {i}, srv', conn')
    BY <1>1, <1>3, Now DEF Settled
  <2> QED
    BY <1>3, <1>7, <1>8, <1>9, <2>1, Now DEF Answered
<1>11. ASSUME NEW f \in Fids
       PROVE  Shape(held', [op EXCEPT !.cf = f, !.at = "ioclone"])
  <2> DEFINE c == [op EXCEPT !.cf = f, !.at = "ioclone"]
  <2>1. /\ c \in Request /\ c.nf = NoFid /\ c.cf = f /\ f # NoFid /\ c.at = "ioclone"
        /\ c.tag = t
    BY <1>1, NoFidIsNone DEF Request, Steps, t
  <2> HIDE DEF c
  <2>2. Shape(held', c)
    BY <1>1, <1>4, <1>6, <2>1 DEF Shape
  <2> QED
    BY <2>2 DEF c
<1> QED
  BY <1>1, <1>2, <1>10, <1>11, AllocatesCf

LEMMA IoOpenKeeps ==
  ASSUME IInv, IoOpen
  PROVE  IInv'
<1> DEFINE t    == op.tag
           i    == op.cf
           mode == IF op.do = "write" THEN "w" ELSE "r"
           r    == [op EXCEPT !.cf = NoFid]
<1>1. /\ op # Idle /\ op.at = "ioopen" /\ op \in Request /\ Shape(held, op)
      /\ op.nf = NoFid /\ i # NoFid /\ i \in Fids /\ t \in DOMAIN held /\ held[t].io = NoFid
      /\ WaitingOf(op) = {} /\ OpFidsOf(op) = {i}
  BY Sent DEF IoOpen, Shape, WaitingOf, OpFidsOf, Request
<1>2. PICK ok \in BOOLEAN :
        /\ Topen(i, mode, ok)
        /\ \/ /\ ok = TRUE
              /\ held' = [held EXCEPT ![t].io = i, ![t].omode = mode]
              /\ IoReady(alloc, r)
           \/ ok = FALSE /\ Goes(alloc, op, "unclone") /\ UNCHANGED held
  BY DEF IoOpen
<1>3. mode \in {"r", "w"}
  OBVIOUS
<1>4. r \in Request /\ r.nf = NoFid /\ r.cf = NoFid
  BY <1>1 DEF Request
<1> HIDE DEF mode, r
<1>5. /\ ServerTyped' /\ conn' = conn /\ Others(i) /\ DOMAIN srv' = DOMAIN srv
      /\ ok => conn /\ srv'[i].mode = mode
  BY <1>2, <1>3, Opened, Now
<1>6. Settled(alloc, srv', conn')
  BY <1>1, <1>5, Now DEF Settled
<1>7. CASE ok = FALSE /\ Goes(alloc, op, "unclone") /\ UNCHANGED held
  <2>1. Answered(alloc, op)
    BY <1>1, <1>5, <1>6, <1>7, KeepsFids
  <2>2. Shape(held', [op EXCEPT !.at = "unclone"])
    BY <1>1 DEF Shape, Request, Steps
  <2> QED
    BY <1>1, <1>7, <2>1, <2>2, GoesWell
<1>8. CASE /\ ok = TRUE
           /\ held' = [held EXCEPT ![t].io = i, ![t].omode = mode]
           /\ IoReady(alloc, r)
  <2>1. /\ DOMAIN held' = DOMAIN held
        /\ held'[t] = [held[t] EXCEPT !.io = i, !.omode = mode]
        /\ \A o \in DOMAIN held \ {t} : held'[o] = held[o]
    BY <1>1, <1>8
  <2>2. \A o \in DOMAIN held : held[o] \in Rfile
    BY Now DEF HeldOK
  <2>3. /\ held'[t] \in Rfile /\ held'[t].fid = held[t].fid
        /\ held'[t].io = i /\ held'[t].omode = mode
    BY <1>1, <1>3, <2>1, <2>2 DEF Rfile
  <2> HIDE DEF t, i
  <2>4. HeldOK(held')
    BY <1>1, <2>1, <2>3, Now DEF HeldOK
  <2>5. \A o \in DOMAIN held : ~Owner(held, o, i)
    BY <1>1, Now DEF Owns, Owned
  <2>6. Owns(alloc, held', r)
    <3>1. \A f \in Fids : Owner(held', t, f) <=> Owner(held, t, f) \/ f = i
      BY <1>1, <2>3, NoFidIsNone DEF Owner
    <3>2. \A f \in Fids, o \in DOMAIN held \ {t} : Owner(held', o, f) <=> Owner(held, o, f)
      BY <2>1 DEF Owner
    <3>3. \A f \in Fids : f \in Owned(held') <=> f \in Owned(held) \/ f = i
      BY <1>1, <2>1, <3>1, <3>2 DEF Owned
    <3>4. alloc = Owned(held') /\ OpFidsOf(r) = {}
      <4>1. alloc = {i} \cup Owned(held) /\ alloc \subseteq Fids /\ Owned(held') \subseteq Fids
        BY <1>1, Now DEF Owns, Owned
      <4> QED
        BY <1>4, <3>3, <4>1 DEF OpFidsOf
    <3>5. \A o \in DOMAIN held' : held'[o].fid # held'[o].io
      <4>1. held'[t].fid # held'[t].io
        BY <1>1, <2>3, <2>5 DEF Owner
      <4>2. ASSUME NEW o \in DOMAIN held \ {t}
            PROVE  held'[o].fid # held'[o].io
        BY <2>1, Now DEF Owns
      <4> QED
        BY <2>1, <4>1, <4>2
    <3>6. \A f \in Fids : \A o, p \in DOMAIN held' :
            Owner(held', o, f) /\ Owner(held', p, f) => o = p
      BY <2>1, <2>5, <3>1, <3>2, Now DEF Owns
    <3> QED
      BY <1>4, <3>4, <3>5, <3>6 DEF Owns
  <2>7. HeldModes(held', srv')
    <3>1. conn /\ srv'[i].mode = mode /\ HeldModes(held, srv)
      BY <1>5, <1>8, Now
    <3>2. \A o \in DOMAIN held :
            /\ srv'[held[o].fid] = srv[held[o].fid]
            /\ held[o].io # NoFid => srv'[held[o].io] = srv[held[o].io]
      BY <1>1, <1>5, <3>1, HeldFids DEF Others
    <3>3. srv'[held'[t].fid].mode = "shut" /\ srv'[held'[t].io].mode = held'[t].omode
      BY <1>1, <2>3, <3>1, <3>2 DEF HeldModes
    <3>4. ASSUME NEW o \in DOMAIN held \ {t}
          PROVE  /\ srv'[held'[o].fid].mode = "shut"
                 /\ held'[o].io # NoFid => srv'[held'[o].io].mode = held'[o].omode
      <4>1. held'[o] = held[o]
        BY <2>1
      <4> QED
        BY <3>1, <3>2, <4>1 DEF HeldModes
    <3> QED
      BY <2>1, <3>3, <3>4 DEF HeldModes
  <2>8. Answered(alloc, r)
    BY <1>5, <1>6, <2>4, <2>6, <2>7, Now DEF Answered
  <2> QED
    BY <1>4, <1>8, <2>8, IoReadies
<1> QED
  BY <1>2, <1>7, <1>8

\* What the request reads or writes changes no fid, and ends it.
LEMMA DataKeeps ==
  ASSUME IInv, Data
  PROVE  IInv'
<1>1. /\ op # Idle /\ op.at \in {"io", "fstat", "wstat"} /\ Shape(held, op)
      /\ UNCHANGED <<tree, made, isdir, moved, ro, conn, srv, held>> /\ Ends(alloc)
  BY Now DEF Data, server
<1>2. op.nf = NoFid /\ op.cf = NoFid /\ WaitingOf(op) = {} /\ OpFidsOf(op) = {}
  BY <1>1 DEF Shape, WaitingOf, OpFidsOf
<1>3. ServerTyped'
  BY <1>1, Now DEF ServerTyped
<1>4. Answered(alloc, op)
  BY <1>1, <1>2, <1>3, Now DEF Answered
<1> QED
  BY <1>1, <1>2, <1>4, EndsWell

LEMMA HostKeeps ==
  ASSUME IInv, Host, UNCHANGED client
  PROVE  IInv'
<1>1. UNCHANGED <<alloc, held, op, full>>
  BY DEF client
<1>2. /\ ServerTyped'
      /\ \/ srv' = srv /\ conn' = conn
         \/ conn' = FALSE /\ DOMAIN srv' = {}
  BY Now, HostServer
<1>3. CASE srv' = srv /\ conn' = conn
  BY <1>1, <1>2, <1>3 DEF IInv
<1>4. CASE conn' = FALSE /\ DOMAIN srv' = {}
  BY <1>1, <1>2, <1>4 DEF IInv, ClientOK, Settled
<1> QED
  BY <1>2, <1>3, <1>4

-----------------------------------------------------------------------------
(* The specification.                                                      *)

LEMMA Initially == Init => IInv
<1> SUFFICES ASSUME Init
             PROVE  IInv
  OBVIOUS
<1>1. /\ tree = [n \in Names |-> None] /\ made = 0 /\ isdir = {} /\ moved = {}
      /\ ro \in BOOLEAN /\ conn = TRUE /\ alloc = {0} /\ op = Idle /\ full = FALSE
      /\ DOMAIN srv = {0} /\ srv[0] = Fresh(Top)
      /\ DOMAIN held = {Root} /\ held[Root] = [fid |-> 0, io |-> NoFid, omode |-> "r"]
  BY DEF Init, ServerInit
<1>2. Fresh(Top) \in Entry /\ Fresh(Top).mode = "shut"
  BY DEF Fresh, Entry, Modes, Paths
<1>3. ServerTyped
  BY <1>1, <1>2, MaxObjAssumption DEF ServerTyped
<1>4. 0 \in Fids /\ NoFid # 0
  BY TableAssumption, NoFidIsNone DEF Fids
<1>5. HeldOK(held)
  <2>1. held[Root] \in Rfile
    BY <1>1, <1>4 DEF Rfile
  <2>2. Cardinality(DOMAIN held) = 1
    BY <1>1, FS_Singleton
  <2> QED
    BY <1>1, <2>1, <2>2, TableAssumption DEF HeldOK
<1>6. Owns(alloc, held, op)
  <2>1. \A f \in Fids : Owner(held, Root, f) <=> f = 0
    BY <1>1, <1>4, NoFidIsNone DEF Owner
  <2>2. Owned(held) = {0} /\ OpFidsOf(op) = {}
    BY <1>1, <1>4, <2>1 DEF Owned, OpFidsOf
  <2> QED
    BY <1>1, <1>4, <2>2 DEF Owns
<1>7. alloc \ WaitingOf(op) = {0} /\ OpModes(op, srv)
  BY <1>1 DEF WaitingOf, OpModes
<1>8. HeldModes(held, srv)
  BY <1>1, <1>2 DEF HeldModes
<1> QED
  BY <1>1, <1>3, <1>5, <1>6, <1>7, <1>8 DEF IInv, ClientOK, Settled

LEMMA Inductive == IInv /\ [Next]_vars => IInv'
<1> SUFFICES ASSUME IInv, [Next]_vars
             PROVE  IInv'
  OBVIOUS
<1>1. CASE \E n \in Names : Mkdir(n) \/ Rmdir(n) \/ \E d \in Lookups : Lookup(d, n)
  BY <1>1, LookupKeeps
<1>2. CASE \E t \in DOMAIN held :
             Put(t) \/ OnControl(t) \/ \E d \in {"read", "write", "dirread"} : Io(d, t)
  <2>1. PICK t \in DOMAIN held :
          Put(t) \/ OnControl(t) \/ \E d \in {"read", "write", "dirread"} : Io(d, t)
    BY <1>2
  <2>2. CASE Put(t)
    <3>1. t \in DOMAIN held \ {Root}
      BY <2>2 DEF Put
    <3> QED
      BY <2>2, <3>1, PutKeeps
  <2>3. CASE OnControl(t)
    BY <2>3, ControlKeeps
  <2>4. CASE \E d \in {"read", "write", "dirread"} : Io(d, t)
    BY <2>4, IoKeeps
  <2> QED
    BY <2>1, <2>2, <2>3, <2>4
<1>3. CASE Serve
  BY <1>3, WalkKeeps, StatKeeps, DropKeeps, DropIoKeeps, UncloneKeeps, CloneKeeps, CreateKeeps,
     RmWalkKeeps, RemoveKeeps, IoClunkKeeps, IoCloneKeeps, IoOpenKeeps, DataKeeps DEF Serve
<1>4. CASE Host /\ UNCHANGED client
  BY <1>4, HostKeeps
<1>5. CASE UNCHANGED vars
  BY <1>5 DEF vars, IInv, ServerTyped, ClientOK, HeldOK, Shape, Owns, OpFidsOf, Owned, Owner,
              WaitingOf, Settled, HeldModes, OpModes
<1> QED
  BY <1>1, <1>2, <1>3, <1>4, <1>5 DEF Next

\* The invariant on which the others rest: at every message of every request
\* each fid is owned by one file or by the request, in the part that the
\* request's position gives it, and the server has all but the one it has not
\* been told of yet.
THEOREM Invariance == Spec => []IInv
<1>1. Init => IInv
  BY Initially
<1>2. IInv /\ [Next]_vars => IInv'
  BY Inductive
<1> QED
  BY <1>1, <1>2, PTL DEF Spec

\* Every variable of both ends has its type, in particular the request that
\* 9pfs.c has under way and the Rfiles it keeps.
THEOREM TypeCorrect == Spec => []TypeOK
<1>1. IInv => TypeOK
  <2> SUFFICES ASSUME IInv
               PROVE  TypeOK
    OBVIOUS
  <2>1. OpFidsOf(op) \subseteq Fids
    BY Now DEF Shape, OpFidsOf, Request
  <2>2. alloc \subseteq Fids
    BY <2>1, Now DEF Owns, Owned
  <2>3. DOMAIN srv \subseteq Fids
    BY <2>2, Now DEF Settled
  <2>4. op \in Request \cup {Idle}
    BY Now DEF Shape
  <2> QED
    BY <2>2, <2>3, <2>4, Now DEF TypeOK, ServerTyped, HeldOK
<1> QED
  BY <1>1, Invariance, PTL

\* The two ends agree on the fids: NineServer has none that fidmap says is
\* free, and between requests fidmap has none that NineServer has forgotten.
THEOREM FidsAgreed == Spec => []FidsAgree
<1>1. IInv => FidsAgree
  <2> SUFFICES ASSUME IInv
               PROVE  FidsAgree
    OBVIOUS
  <2>1. op = Idle => WaitingOf(op) = {}
    BY DEF WaitingOf
  <2> QED
    BY <2>1, Now DEF FidsAgree, Settled
<1> QED
  BY <1>1, Invariance, PTL

\* No error path of 9pfs.c loses a fid, and none gives one away that a file
\* or the request still uses.
THEOREM OneOwner == Spec => []FidOwners
<1>1. IInv => FidOwners
  <2> SUFFICES ASSUME IInv
               PROVE  FidOwners
    OBVIOUS
  <2>1. OpFids = OpFidsOf(op)
    BY DEF OpFids, OpFidsOf
  <2>2. \A o \in DOMAIN held : held[o].fid \in Fids /\ held[o].io \in Fids \cup {NoFid}
    BY Now DEF HeldOK, Rfile
  <2>3. OpFidsOf(op) \subseteq Fids
    BY Now DEF Shape, OpFidsOf, Request
  <2>4. Owned(held) = {held[o].fid : o \in DOMAIN held}
                      \cup ({held[o].io : o \in DOMAIN held} \ {NoFid})
    BY <2>2, NoFidIsNone DEF Owned, Owner
  <2>5. ASSUME NEW o \in DOMAIN held, NEW p \in DOMAIN held, o # p
        PROVE  {held[o].fid, held[o].io} \cap {held[p].fid, held[p].io} \subseteq {NoFid}
    BY <2>2, <2>5, Now DEF Owns, Owner
  <2>6. ASSUME NEW o \in DOMAIN held
        PROVE  {held[o].fid, held[o].io} \cap OpFidsOf(op) = {}
    BY <2>2, <2>3, Now DEF Owns, Owned, Owner
  <2> QED
    BY <2>1, <2>4, <2>5, <2>6, Now DEF FidOwners, Owns
<1> QED
  BY <1>1, Invariance, PTL

\* `Two fids per file': while the connection is up, the control fid of a file
\* is never open and its I/O fid is open in the mode the client remembers.
THEOREM TwoFidsKept == Spec => []TwoFids
<1>1. IInv => TwoFids
  BY HeldFids, Now DEF TwoFids, HeldModes
<1> QED
  BY <1>1, Invariance, PTL

\* fidmap is large enough: with 512 fids and 100 tags, or any sizes in that
\* proportion, fidalloc() never finds it full.
THEOREM FidsAlwaysSuffice == Spec => []FidsSuffice
<1>1. IInv => FidsSuffice
  BY DEF IInv, FidsSuffice
<1> QED
  BY <1>1, Invariance, PTL

-----------------------------------------------------------------------------
(* The file that the kernel means.                                         *)

\* The request r reads or writes next, or once its walk to `..' is over.
Reads(r) == \/ r.at = "io"
            \/ r.at \in {"walk", "stat"} /\ r.do = "dirread"
            \/ r.at \in {"unwalk", "drop"} /\ r.then = "io"

\* Then its file has an I/O fid open for it.
Open(h, t, d) == /\ t \in DOMAIN h /\ h[t].io # NoFid
                 /\ d = "write" => h[t].omode = "w"

Ready == op # Idle /\ Reads(op) => Open(held, op.tag, op.do)

\* A control fid is of the name that its file was found by, and an I/O fid was
\* opened by that name or came with it from a Tcreate: each leads to the file
\* until the host's user takes the name away.
ItsName(o) == At(srv[held[o].fid].path) = o \/ o \in moved
ItsData(o) == held[o].io # NoFid =>
    srv[held[o].io].obj = o \/ {srv[held[o].io].obj, o} \cap moved # {}
Meant      == \A o \in DOMAIN held : ItsName(o) /\ ItsData(o)

\* So will those do that the request is about to make a file's: nf is of the
\* name that was walked, cf of the file made under it, or of the file's own name.
OpMeant == op # Idle =>
    /\ op.at = "stat" => srv[op.nf].path = op.name
    /\ op.at \in {"walk", "stat"} /\ op.cf # NoFid =>
           srv[op.cf].obj \in moved \/ At(op.name) \in {srv[op.cf].obj, Root} \ {None}
    /\ op.at = "ioopen" => srv[op.cf].path = srv[held[op.tag].fid].path

DataInv == Ready /\ (conn => Meant /\ OpMeant)

\* What a step may do to names: an object that loses its own is in moved.
Moves ==
    /\ moved \subseteq moved'
    /\ \A p \in Paths : At(p)' = At(p) \/ At(p) = None \/ At(p) \in moved'

LEMMA GiveMoves ==
  ASSUME ServerTyped, NEW n \in Names, NEW o, Give(n, o)
  PROVE  Moves
BY DEF Give, Moves, At, Paths, ServerTyped

LEMMA HostMoves ==
  ASSUME ServerTyped, Host
  PROVE  Moves
<1>1. ASSUME NEW n \in Names, HostMakes(n) \/ HostRemoves(n)
      PROVE  Moves
  BY <1>1, GiveMoves DEF HostMakes, HostRemoves
<1>2. ASSUME NEW m \in Names, NEW n \in Names, HostRenames(m, n)
      PROVE  Moves
  BY <1>2 DEF HostRenames, Moves, At, Paths, ServerTyped
<1>3. CASE LinkDown
  BY <1>3 DEF LinkDown, Moves, At
<1> QED
  BY <1>1, <1>2, <1>3 DEF Host

\* Twalk and Tclone: the new fid's path is the name walked, or f's.
LEMMA WalkMeans ==
  ASSUME NEW f, NEW new, NEW p, NEW ok \in BOOLEAN, Twalk(f, new, p, ok)
  PROVE  Moves /\ (ok => srv'[new].path = p)
<1>1. ok => srv' = With(new, Fresh(p))
  BY DEF Twalk
<1>2. ok => srv'[new] = Fresh(p)
  BY <1>1 DEF With
<1> QED
  BY <1>2 DEF Twalk, Moves, At, Fresh

LEMMA CloneMeans ==
  ASSUME NEW f, NEW new, NEW ok \in BOOLEAN, Tclone(f, new, ok)
  PROVE  Moves /\ (ok => new \notin DOMAIN srv /\ srv'[new].path = srv[f].path)
<1>1. ok => new \notin DOMAIN srv /\ srv' = With(new, Fresh(srv[f].path))
  BY DEF Tclone
<1>2. ok => srv'[new] = Fresh(srv[f].path)
  BY <1>1 DEF With
<1> QED
  BY <1>1, <1>2 DEF Tclone, Moves, At, Fresh

LEMMA GoneMoves ==
  ASSUME ServerTyped, NEW f, Tclunk(f) \/ Tremove(f)
  PROVE  Moves
<1>1. CASE UNCHANGED <<tree, moved>>
  BY <1>1 DEF Moves, At
<1>2. CASE Tremove(f) /\ ~UNCHANGED <<tree, moved>>
  <2> DEFINE p == IF conn /\ f \in DOMAIN srv THEN srv[f].path ELSE Top
  <2>1. p # Top /\ Give(p, None)
    BY <1>2 DEF Tremove
  <2>2. p \in Names
    BY <2>1 DEF ServerTyped, Entry, Paths
  <2> HIDE DEF p
  <2> QED
    BY <2>1, <2>2, GiveMoves
<1> QED
  BY <1>1, <1>2 DEF Tclunk

\* Topen: the object is the one that the path names.
LEMMA OpenMeans ==
  ASSUME ServerTyped, NEW f, NEW mode, NEW ok \in BOOLEAN, Topen(f, mode, ok)
  PROVE  Moves /\ (ok => srv'[f].obj = At(srv[f].path))
<1> DEFINE p   == srv[f].path
           can == /\ Shut(f) /\ At(p) # None
                  /\ mode = "w" => ~ro /\ At(p) \in Objects \ isdir
<1>1. /\ srv' = IF can THEN [srv EXCEPT ![f].mode = mode, ![f].obj = At(p)] ELSE srv
      /\ \/ ok = can /\ UNCHANGED <<tree, moved>>
         \/ can /\ ok = FALSE /\ p # Top /\ Give(p, None)
  BY DEF Topen
<1>2. can => f \in DOMAIN srv /\ srv[f] \in Entry /\ p \in Paths
  BY DEF Shut, ServerTyped, Entry
<1> HIDE DEF can
<1>3. Moves
  <2>1. CASE UNCHANGED <<tree, moved>>
    BY <2>1 DEF Moves, At
  <2>2. CASE can /\ p # Top /\ Give(p, None)
    <3>1. p \in Names
      BY <1>2, <2>2 DEF Paths
    <3> HIDE DEF p
    <3> QED
      BY <2>2, <3>1, GiveMoves
  <2> QED
    BY <1>1, <2>1, <2>2
<1>4. ASSUME ok
      PROVE  srv'[f].obj = At(p)
  <2>1. can
    BY <1>1, <1>4
  <2>2. srv'[f] = [srv[f] EXCEPT !.mode = mode, !.obj = At(p)]
    BY <1>1, <1>2, <2>1
  <2>3. srv[f] \in Entry
    BY <1>2, <2>1
  <2> HIDE DEF p
  <2> QED
    BY <2>2, <2>3 DEF Entry
<1> QED
  BY <1>3, <1>4

\* Tcreate: the name leads to what was made.
LEMMA CreateMeans ==
  ASSUME ServerTyped, NEW f, NEW n \in Paths, NEW dir \in BOOLEAN, NEW ok \in BOOLEAN,
         Tcreate(f, n, dir, ok)
  PROVE  Moves /\ (ok => At(n)' \in {srv'[f].obj, Root} \ {None})
<1> DEFINE new == [path |-> n, mode |-> IF dir THEN "r" ELSE "w", obj |-> made + 1]
           can == Shut(f) /\ srv[f].path = Top /\ ~ro /\ tree[n] = None /\ made < MaxObj
<1>1. CASE can
  <2>1. /\ srv' = With(f, new) /\ tree[n] = None
        /\ \/ ok = TRUE /\ tree' = [tree EXCEPT ![n] = made + 1] /\ UNCHANGED moved
           \/ ok = FALSE /\ UNCHANGED tree /\ moved' = moved \cup {made + 1}
    BY <1>1 DEF Tcreate
  <2>2. srv'[f] = new
    <3> HIDE DEF new
    <3> QED
      BY <2>1 DEF With
  <2>3. srv'[f].obj = made + 1
    BY <2>2
  <2> HIDE DEF new, can
  <2>4. Moves
    BY <2>1 DEF Moves, At, Paths, ServerTyped
  <2>5. ok => At(n)' \in {made + 1, Root} \ {None}
    <3>1. made + 1 # None /\ Root # None
      BY DEF ServerTyped, None, Root
    <3> QED
      BY <2>1, <3>1 DEF At, Paths, ServerTyped
  <2> QED
    BY <2>3, <2>4, <2>5
<1>2. CASE ~can
  BY <1>2 DEF Tcreate, server, Moves, At
<1> QED
  BY <1>1, <1>2

-----------------------------------------------------------------------------
(* What becomes of the files that are held.                                *)

\* Fids that a step leaves alone still lead to their file.
LEMMA NameKept ==
  ASSUME ServerTyped, Moves, NEW o \in Objects \cup {Root}, ItsName(o),
         held'[o].fid = held[o].fid, held[o].fid \in DOMAIN srv,
         srv'[held[o].fid] = srv[held[o].fid]
  PROVE  ItsName(o)'
<1> DEFINE p == srv[held[o].fid].path
<1>1. o # None /\ p \in Paths
  BY MaxObjAssumption DEF Objects, Root, None, ServerTyped, Entry
<1>2. srv'[held'[o].fid].path = p
  OBVIOUS
<1>3. At(p) = o \/ o \in moved
  BY DEF ItsName
<1> HIDE DEF p
<1>4. (IF p = Top THEN Root ELSE tree'[p]) = o \/ o \in moved'
  BY <1>1, <1>3 DEF Moves, At
<1> QED
  BY <1>2, <1>4 DEF ItsName, At

LEMMA DataKept ==
  ASSUME Moves, NEW o, ItsData(o), held'[o].io = held[o].io,
         held[o].io # NoFid => srv'[held[o].io] = srv[held[o].io]
  PROVE  ItsData(o)'
BY DEF ItsData, Moves

\* Files that keep their fids, of which the step's f is none.
LEMMA FileKept ==
  ASSUME IInv, conn, Meant, Moves, NEW f, Others(f), NEW o \in DOMAIN held,
         held'[o].fid = held[o].fid, held[o].fid # f,
         held'[o].io = held[o].io, held[o].io # NoFid => held[o].io # f
  PROVE  ItsName(o)' /\ ItsData(o)'
<1>1. /\ held[o].fid \in DOMAIN srv /\ srv'[held[o].fid] = srv[held[o].fid]
      /\ held[o].io # NoFid => srv'[held[o].io] = srv[held[o].io]
  BY HeldFids DEF Others
<1>2. o \in Objects \cup {Root} /\ ItsName(o) /\ ItsData(o) /\ ServerTyped
  BY Now DEF Meant, HeldOK
<1> QED
  BY <1>1, <1>2, NameKept, DataKept

LEMMA MeantKept ==
  ASSUME IInv, conn, Meant, Moves, UNCHANGED held, NEW f \in OpFidsOf(op), Others(f)
  PROVE  Meant'
<1>1. \A o \in DOMAIN held : held[o].fid # f /\ (held[o].io # NoFid => held[o].io # f)
  BY HeldFids
<1> QED
  BY <1>1, FileKept DEF Meant

-----------------------------------------------------------------------------
(* What becomes of the request.                                            *)

\* The request goes on as r, at step a.
As(r, a) == /\ op'.at = a /\ op'.do = r.do /\ op'.tag = r.tag
            /\ op'.name = r.name /\ op'.then = r.then

LEMMA GoesAs ==
  ASSUME NEW r \in Request, NEW A, NEW a, Goes(A, r, a)
  PROVE  As(r, a) /\ op'.nf = r.nf /\ op'.cf = r.cf
BY DEF Goes, As, Request

LEMMA AllocatesAs ==
  ASSUME NEW r \in Request, NEW A, NEW a, NEW r2
  PROVE  /\ Fidalloc(A, r, "nf", a, r2) => op' = r2 \/ (As(r, a) /\ op'.cf = r.cf)
         /\ Fidalloc(A, r, "cf", a, r2) => op' = r2 \/ (As(r, a) /\ op'.nf = r.nf)
<1> DEFINE free == {f \in Fids \ {0} : f \notin A}
           f    == CHOOSE g \in free : \A h \in free : g <= h
<1>1. /\ Fidalloc(A, r, "nf", a, r2) => op' = r2 \/ op' = [r EXCEPT !["nf"] = f, !.at = a]
      /\ Fidalloc(A, r, "cf", a, r2) => op' = r2 \/ op' = [r EXCEPT !["cf"] = f, !.at = a]
  BY DEF Fidalloc
<1> HIDE DEF f
<1> QED
  BY <1>1 DEF As, Request

\* At these steps there is nothing to show.
LEMMA Elsewhere ==
  ASSUME op' = Idle \/ op'.at \notin {"walk", "stat", "unwalk", "drop", "ioopen", "io"}
  PROVE  Ready' /\ OpMeant'
BY DEF Ready, OpMeant, Reads

LEMMA ProceedsReady ==
  ASSUME NEW r \in Request, NEW A, Proceed(A, r),
         r.then = "io" => Open(held', r.tag, r.do)
  PROVE  Ready' /\ OpMeant'
<1> DEFINE s == [r EXCEPT !.nf = NoFid]
<1>1. /\ s \in Request /\ s.tag = r.tag /\ s.do = r.do
      /\ r.then \in {"end", "create", "rm", "io", "undo"}
  BY DEF Request
<1>2. \/ Ends(A)
      \/ Fidalloc(A, s, "cf", "clone", Idle)
      \/ Fidalloc(A, s, "nf", "rmwalk", Idle)
      \/ r.then = "io" /\ Goes(A, s, "io")
      \/ Goes(A, s, "unclone")
  BY <1>1 DEF Proceed
<1> HIDE DEF s
<1>3. CASE Ends(A)
  BY <1>3, Elsewhere DEF Ends
<1>4. CASE Fidalloc(A, s, "cf", "clone", Idle)
  BY <1>1, <1>4, AllocatesAs, Elsewhere DEF As
<1>5. CASE Fidalloc(A, s, "nf", "rmwalk", Idle)
  BY <1>1, <1>5, AllocatesAs, Elsewhere DEF As
<1>6. CASE r.then = "io" /\ Goes(A, s, "io")
  <2>1. As(s, "io")
    BY <1>1, <1>6, GoesAs
  <2>2. op'.tag = r.tag /\ op'.do = r.do /\ op'.at = "io" /\ Open(held', r.tag, r.do)
    BY <1>1, <1>6, <2>1 DEF As
  <2> QED
    BY <2>2 DEF Ready, Open, OpMeant
<1>7. CASE Goes(A, s, "unclone")
  BY <1>1, <1>7, GoesAs, Elsewhere DEF As
<1> QED
  BY <1>2, <1>3, <1>4, <1>5, <1>6, <1>7

LEMMA IoReadyReady ==
  ASSUME NEW r \in Request, NEW A, IoReady(A, r), r.cf = NoFid, Open(held', r.tag, r.do)
  PROVE  Ready' /\ OpMeant'
<1>1. CASE Fidalloc(A, r, "nf", "walk", [r EXCEPT !.at = "io"])
  <2>1. \/ As(r, "io")
        \/ As(r, "walk") /\ op'.cf = NoFid
    BY <1>1, AllocatesAs DEF As, Request
  <2>2. Open(held', op'.tag, op'.do)
    BY <2>1 DEF As
  <2> QED
    BY <2>1, <2>2 DEF Ready, Open, OpMeant, As
<1>2. CASE Goes(A, r, "io")
  <2>1. As(r, "io")
    BY <1>2, GoesAs
  <2> QED
    BY <2>1 DEF Ready, Open, OpMeant, As
<1> QED
  BY <1>1, <1>2 DEF IoReady

-----------------------------------------------------------------------------
(* The steps.                                                              *)

LEMMA NothingMoved ==
  ASSUME UNCHANGED <<tree, moved, srv, held>>, Meant
  PROVE  Meant'
BY DEF Meant, ItsName, ItsData, At

\* A request that has just begun has no fid of its own.
LEMMA AskedMeans ==
  ASSUME IInv, DataInv, Kernel, UNCHANGED held, NEW d, NEW t, NEW n, NEW r,
         r = Start(d, t, n), r \in Request,
         \/ \E a \in {"walk", "rmwalk"} : Fidalloc(alloc, r, "nf", a, Idle) /\ d \in Lookups \cup {"rmdir"}
         \/ \E a \in {"clone", "ioclone"} : Fidalloc(alloc, r, "cf", a, Idle)
         \/ \E a \in {"fstat", "wstat"} : Goes(alloc, r, a)
  PROVE  DataInv'
<1>1. UNCHANGED <<tree, moved, conn, srv, held>>
  BY DEF Kernel, server
<1>2. r.cf = NoFid /\ r.do = d
  BY DEF Start
<1>3. Ready' /\ OpMeant'
  <2>1. ASSUME NEW a \in {"walk", "rmwalk"}, Fidalloc(alloc, r, "nf", a, Idle),
               d \in Lookups \cup {"rmdir"}
        PROVE  Ready' /\ OpMeant'
    <3>1. op' = Idle \/ (As(r, a) /\ op'.cf = NoFid)
      BY <1>2, <2>1, AllocatesAs
    <3>2. CASE op' = Idle
      BY <3>2, Elsewhere
    <3>3. CASE As(r, a) /\ op'.cf = NoFid
      <4>1. op'.at \in {"walk", "rmwalk"} /\ op'.do # "dirread" /\ op'.cf = NoFid
        BY <1>2, <2>1, <3>3 DEF As, Lookups
      <4> QED
        BY <4>1 DEF Ready, Reads, OpMeant
    <3> QED
      BY <3>1, <3>2, <3>3
  <2>2. ASSUME NEW a \in {"clone", "ioclone"}, Fidalloc(alloc, r, "cf", a, Idle)
        PROVE  Ready' /\ OpMeant'
    BY <2>2, AllocatesAs, Elsewhere DEF As
  <2>3. ASSUME NEW a \in {"fstat", "wstat"}, Goes(alloc, r, a)
        PROVE  Ready' /\ OpMeant'
    BY <2>3, GoesAs, Elsewhere DEF As
  <2> QED
    BY <2>1, <2>2, <2>3
<1> QED
  BY <1>1, <1>3, NothingMoved DEF DataInv

LEMMA LookupMeans ==
  ASSUME IInv, DataInv, NEW n \in Names,
         Mkdir(n) \/ Rmdir(n) \/ \E d \in Lookups : Lookup(d, n)
  PROVE  DataInv'
<1>1. n \in Paths /\ Root \in Objects \cup {Root}
  BY DEF Paths
<1>2. ASSUME NEW d \in Lookups, Lookup(d, n)
      PROVE  DataInv'
  BY <1>1, <1>2, StartTyped, AskedMeans DEF Lookup
<1>3. CASE Mkdir(n)
  BY <1>1, <1>3, StartTyped, AskedMeans DEF Mkdir
<1>4. CASE Rmdir(n)
  BY <1>1, <1>4, StartTyped, AskedMeans DEF Rmdir
<1> QED
  BY <1>2, <1>3, <1>4

LEMMA ControlMeans ==
  ASSUME IInv, DataInv, NEW t \in DOMAIN held, OnControl(t)
  PROVE  DataInv'
<1>1. t \in Objects \cup {Root} /\ Top \in Paths
  BY Now DEF HeldOK, Paths
<1>2. ASSUME NEW d \in {"stat", "trunc"}, NEW a \in {"fstat", "wstat"},
             Goes(alloc, Start(d, t, Top), a)
      PROVE  DataInv'
  <2>1. Start(d, t, Top) \in Request
    BY <1>1, StartTyped DEF Handles
  <2> QED
    BY <1>2, <2>1, AskedMeans DEF OnControl
<1> QED
  BY <1>2 DEF OnControl

\* An I/O fid that is open for reading only is no use to a write.
LEMMA IoMeans ==
  ASSUME IInv, DataInv, NEW t \in DOMAIN held, NEW d \in {"read", "write", "dirread"}, Io(d, t)
  PROVE  DataInv'
<1> DEFINE r == [Start(d, t, Top) EXCEPT !.then = "io"]
<1>1. r \in Request /\ r.cf = NoFid /\ r.tag = t /\ r.do = d
  <2> DEFINE c == Start(d, t, Top)
  <2>1. d \in Lookups \cup Handles \cup {"mkdir", "rmdir", "put"} /\ Top \in Paths
        /\ t \in Objects \cup {Root}
    BY Now DEF Handles, Paths, HeldOK
  <2>2. c \in Request /\ c.cf = NoFid /\ c.tag = t /\ c.do = d
    BY <2>1, StartTyped
  <2> HIDE DEF c
  <2>3. r = [c EXCEPT !.then = "io"]
    BY DEF c
  <2> QED
    BY <2>2, <2>3 DEF Request
<1>2. /\ Kernel /\ UNCHANGED held
      /\ \/ Fidalloc(alloc, r, "cf", "ioclone", Idle)
         \/ Goes(alloc, r, "ioclunk")
         \/ /\ held[t].io # NoFid /\ ~(d = "write" /\ held[t].omode = "r")
            /\ IoReady(alloc, r)
  BY DEF Io
<1> HIDE DEF r
<1>3. UNCHANGED <<tree, moved, conn, srv, held>>
  BY <1>2 DEF Kernel, server
<1>4. Ready' /\ OpMeant'
  <2>1. CASE Fidalloc(alloc, r, "cf", "ioclone", Idle)
    BY <1>1, <2>1, AllocatesAs, Elsewhere DEF As
  <2>2. CASE Goes(alloc, r, "ioclunk")
    BY <1>1, <2>2, GoesAs, Elsewhere DEF As
  <2>3. CASE /\ held[t].io # NoFid /\ ~(d = "write" /\ held[t].omode = "r")
             /\ IoReady(alloc, r)
    <3>1. held[t].omode \in {"r", "w"}
      BY Now DEF HeldOK, Rfile
    <3>2. Open(held', r.tag, r.do)
      BY <1>1, <1>3, <2>3, <3>1 DEF Open
    <3> QED
      BY <1>1, <2>3, <3>2, IoReadyReady
  <2> QED
    BY <1>2, <2>1, <2>2, <2>3
<1> QED
  BY <1>3, <1>4, NothingMoved DEF DataInv

LEMMA PutMeans ==
  ASSUME IInv, DataInv, NEW t \in DOMAIN held, Put(t)
  PROVE  DataInv'
<1>1. /\ UNCHANGED <<tree, moved, conn, srv>>
      /\ held' = [o \in DOMAIN held \ {t} |-> held[o]]
      /\ Fsdone(t)
  BY DEF Put, Kernel, server
<1>2. \A o \in DOMAIN held' : o \in DOMAIN held /\ held'[o] = held[o]
  BY <1>1
<1>3. Meant => Meant'
  BY <1>1, <1>2 DEF Meant, ItsName, ItsData, At
<1>4. Ready' /\ OpMeant'
  <2> DEFINE c == Start("put", Root, Top)
             r == [c EXCEPT !.nf = held[t].fid, !.cf = held[t].io]
             a == IF held[t].io = NoFid THEN "drop" ELSE "dropio"
  <2>1. op' = [r EXCEPT !.at = a]
    BY <1>1 DEF Fsdone, Goes
  <2>2. op'.at = a /\ op'.then = "end"
    BY <2>1 DEF Start
  <2>3. a \in {"drop", "dropio"}
    OBVIOUS
  <2> HIDE DEF a
  <2> QED
    BY <2>2, <2>3 DEF Ready, Reads, OpMeant
<1> QED
  BY <1>1, <1>3, <1>4 DEF DataInv

\* The name is walked to, with a fid that is the request's.
LEMMA WalkMeansIt ==
  ASSUME IInv, DataInv, Walk
  PROVE  DataInv'
<1>1. /\ op # Idle /\ op.at = "walk" /\ op \in Request /\ Shape(held, op) /\ UNCHANGED held
      /\ op.nf # NoFid /\ op.name \in Paths /\ op.nf \in OpFidsOf(op)
  BY Sent DEF Walk, Request, Shape, OpFidsOf
<1>2. PICK ok \in BOOLEAN :
        /\ Twalk(held[op.tag].fid, op.nf, op.name, ok)
        /\ IF ok THEN Goes(alloc, op, "stat") ELSE Proceed(alloc \ {op.nf}, Missing(op))
  BY DEF Walk
<1>3. /\ Moves /\ (ok => srv'[op.nf].path = op.name) /\ conn' = conn /\ Others(op.nf)
      /\ UNCHANGED <<tree, moved>>
  <2>1. Twalk(held[op.tag].fid, op.nf, op.name, ok) /\ op.name \in Paths /\ ServerTyped
    BY <1>1, <1>2, Now
  <2>2. Moves /\ (ok => srv'[op.nf].path = op.name)
    BY <2>1, WalkMeans
  <2>3. conn' = conn /\ Others(op.nf)
    BY <2>1, NewFid
  <2>4. UNCHANGED <<tree, moved>>
    BY <2>1 DEF Twalk
  <2> QED
    BY <2>2, <2>3, <2>4
<1>4. conn => Meant'
  BY <1>1, <1>3, MeantKept DEF DataInv
<1>5. CASE ok
  <2>1. As(op, "stat") /\ op'.nf = op.nf /\ op'.cf = op.cf
    BY <1>1, <1>2, <1>5, GoesAs
  <2>2. Ready'
    BY <1>1, <2>1 DEF DataInv, Ready, Reads, Open, As
  <2>3. ASSUME conn
        PROVE  OpMeant'
    <3>1. op.cf # NoFid =>
            /\ srv[op.cf].obj \in moved \/ At(op.name) \in {srv[op.cf].obj, Root} \ {None}
            /\ srv'[op.cf] = srv[op.cf]
      <4>1. op.cf # NoFid => op.cf # op.nf /\ op.cf \in DOMAIN srv
        BY <1>1, <2>3, Now DEF Settled, WaitingOf, OpFidsOf, Owns
      <4> QED
        BY <1>1, <1>3, <2>3, <4>1 DEF DataInv, OpMeant, Others
    <3> QED
      BY <1>3, <1>5, <2>1, <3>1 DEF OpMeant, As, At
  <2> QED
    BY <1>3, <1>4, <2>2, <2>3 DEF DataInv
<1>6. CASE ~ok
  <2> DEFINE r == Missing(op)
  <2>1. /\ r \in Request /\ r.do = op.do /\ r.tag = op.tag
        /\ r.then = "io" => r.do = "dirread"
    BY <1>1, MissingThen DEF Shape
  <2> HIDE DEF r
  <2>2. r.then = "io" => Open(held', r.tag, r.do)
    BY <1>1, <2>1 DEF DataInv, Ready, Reads
  <2>3. Proceed(alloc \ {op.nf}, r)
    BY <1>2, <1>6 DEF r
  <2>4. Ready' /\ OpMeant'
    BY <2>1, <2>2, <2>3, ProceedsReady
  <2> QED
    BY <1>3, <1>4, <2>4 DEF DataInv
<1> QED
  BY <1>5, <1>6

\* A file that is new to the kernel is the one its name leads to, and so is
\* the one that was made under that name.
LEMMA StatMeans ==
  ASSUME IInv, DataInv, Stat
  PROVE  DataInv'
<1>1. /\ op # Idle /\ op.at = "stat" /\ op \in Request /\ Shape(held, op)
      /\ op.nf \in Fids /\ op.nf # NoFid /\ WaitingOf(op) = {}
      /\ op.cf # NoFid => op.do \in {"creat", "nxcreat"}
  BY Sent DEF Stat, Request, Shape, WaitingOf
<1>2. PICK o \in Objects \cup {Root, None} :
        /\ Tstat(op.nf, o)
        /\ \/ Goes(alloc, Missing(op), "unwalk") /\ UNCHANGED held
           \/ /\ o # None /\ o \notin DOMAIN held
              /\ held' = [p \in DOMAIN held \cup {o} |-> IF p = o
                            THEN [fid |-> op.nf, io |-> op.cf, omode |-> "w"]
                            ELSE held[p]]
              /\ Ends(alloc)
           \/ /\ Goes(alloc, Found(op, o), IF op.cf = NoFid THEN "drop" ELSE "dropio")
              /\ UNCHANGED held
  BY DEF Stat
<1>3. UNCHANGED <<tree, moved, conn, srv>>
  BY <1>2 DEF Tstat, server
<1>4. ASSUME NEW r \in Request, r.do = op.do, r.tag = op.tag, r.then = "io" => r.do = "dirread",
             NEW a \in {"unwalk", "drop", "dropio"}, Goes(alloc, r, a), UNCHANGED held
      PROVE  DataInv'
  <2>1. As(r, a)
    BY <1>4, GoesAs
  <2>2. Ready' /\ OpMeant'
    BY <1>1, <1>4, <2>1 DEF DataInv, Ready, Reads, Open, OpMeant, As
  <2> QED
    BY <1>3, <1>4, <2>2, NothingMoved DEF DataInv
<1>5. CASE Goes(alloc, Missing(op), "unwalk") /\ UNCHANGED held
  BY <1>1, <1>4, <1>5, MissingThen
<1>6. CASE Goes(alloc, Found(op, o), IF op.cf = NoFid THEN "drop" ELSE "dropio")
           /\ UNCHANGED held
  BY <1>1, <1>4, <1>6, FoundThen
<1>7. CASE /\ o # None /\ o \notin DOMAIN held
           /\ held' = [p \in DOMAIN held \cup {o} |-> IF p = o
                         THEN [fid |-> op.nf, io |-> op.cf, omode |-> "w"]
                         ELSE held[p]]
           /\ Ends(alloc)
  <2>1. /\ DOMAIN held' = DOMAIN held \cup {o}
        /\ held'[o].fid = op.nf /\ held'[o].io = op.cf
        /\ \A p \in DOMAIN held : held'[p] = held[p]
    BY <1>7
  <2>2. Ready' /\ OpMeant'
    BY <1>7, Elsewhere DEF Ends
  <2>3. ASSUME conn
        PROVE  Meant'
    <3>1. Meant /\ OpMeant
      BY <2>3 DEF DataInv
    <3>2. \A p \in DOMAIN held : ItsName(p)' /\ ItsData(p)'
      BY <1>3, <2>1, <3>1 DEF Meant, ItsName, ItsData, At
    <3>3. At(op.name) = o /\ srv[op.nf].path = op.name /\ o # Root
      BY <1>1, <1>2, <1>7, <3>1, Now DEF Tstat, OpMeant, HeldOK
    <3>4. ItsName(o)'
      BY <1>3, <2>1, <3>3 DEF ItsName, At
    <3>5. op.cf # NoFid => srv[op.cf].obj \in moved \/ srv[op.cf].obj = o
      BY <1>1, <3>1, <3>3 DEF OpMeant
    <3>6. ItsData(o)'
      BY <1>3, <2>1, <3>5 DEF ItsData
    <3> QED
      BY <2>1, <3>2, <3>4, <3>6 DEF Meant
  <2> QED
    BY <1>3, <2>2, <2>3 DEF DataInv
<1> QED
  BY <1>2, <1>5, <1>6, <1>7

\* Steps that take a fid of the request's from the server.
LEMMA ClunkMeans ==
  ASSUME IInv, DataInv, Unwalk \/ Drop \/ DropIo \/ Unclone \/ Remove
  PROVE  DataInv'
<1>1. /\ op # Idle /\ op \in Request /\ Shape(held, op) /\ UNCHANGED held
      /\ op.nf \in Fids \cup {NoFid} /\ op.cf \in Fids \cup {NoFid}
  BY Sent DEF Unwalk, Drop, DropIo, Unclone, Remove, Clunk, Request
<1>2. PICK f \in OpFidsOf(op) : Tclunk(f) \/ Tremove(f)
  <2>1. /\ Unwalk \/ Drop \/ Remove => op.nf # NoFid /\ (Tclunk(op.nf) \/ Tremove(op.nf))
        /\ DropIo \/ Unclone => op.cf # NoFid /\ Tclunk(op.cf)
    BY <1>1 DEF Unwalk, Drop, DropIo, Unclone, Remove, Clunk, Shape, Sends
  <2> QED
    BY <1>1, <2>1 DEF OpFidsOf
<1>3. Moves /\ conn' = conn /\ Others(f)
  BY <1>2, GoneMoves, FidGone, Now
<1>4. conn => Meant'
  BY <1>1, <1>3, MeantKept DEF DataInv
<1>5. Ready' /\ OpMeant'
  <2>1. ASSUME Unwalk \/ Drop
        PROVE  Ready' /\ OpMeant'
    <3>1. op.at \in {"unwalk", "drop"} /\ Proceed(alloc \ {op.nf}, op)
      BY <2>1 DEF Unwalk, Drop, Sends
    <3>2. op.then = "io" => Open(held', op.tag, op.do)
      BY <1>1, <3>1 DEF DataInv, Ready, Reads
    <3> QED
      BY <1>1, <3>1, <3>2, ProceedsReady
  <2>2. ASSUME DropIo
        PROVE  Ready' /\ OpMeant'
    <3> DEFINE s == [op EXCEPT !.cf = NoFid]
    <3>1. s \in Request /\ s.then = op.then /\ Goes(alloc \ {op.cf}, s, "drop")
      BY <1>1, <2>2 DEF DropIo, Request
    <3>2. op.then = "end"
      BY <1>1, <2>2 DEF DropIo, Sends, Shape
    <3> HIDE DEF s
    <3>3. op'.at = "drop" /\ op'.then = "end"
      BY <3>1, <3>2, GoesAs DEF As
    <3> QED
      BY <3>3 DEF Ready, Reads, OpMeant
  <2>3. ASSUME Unclone \/ Remove
        PROVE  Ready' /\ OpMeant'
    BY <2>3, Elsewhere DEF Unclone, Remove, Ends
  <2> QED
    BY <2>1, <2>2, <2>3
<1> QED
  BY <1>3, <1>4, <1>5 DEF DataInv

\* The clone from which a file is made, and the walk to one that is removed.
LEMMA BeginMeans ==
  ASSUME IInv, DataInv, Clone \/ RmWalk
  PROVE  DataInv'
<1>1. /\ op # Idle /\ op \in Request /\ Shape(held, op) /\ UNCHANGED held
      /\ op.name \in Paths
  BY Sent DEF Clone, RmWalk, Request
<1>2. PICK f \in OpFidsOf(op) : \E ok \in BOOLEAN :
        Twalk(held[Root].fid, f, op.name, ok) \/ Tclone(held[Root].fid, f, ok)
  BY <1>1 DEF Clone, RmWalk, Sends, Shape, OpFidsOf
<1>3. Moves /\ conn' = conn /\ Others(f)
  <2>1. PICK ok \in BOOLEAN :
          Twalk(held[Root].fid, f, op.name, ok) \/ Tclone(held[Root].fid, f, ok)
    BY <1>2
  <2>2. Moves
    BY <2>1, WalkMeans, CloneMeans
  <2>3. conn' = conn /\ Others(f)
    BY <1>1, <2>1, NewFid, Now
  <2> QED
    BY <2>2, <2>3
<1>4. conn => Meant'
  BY <1>1, <1>3, MeantKept DEF DataInv
<1>5. \/ \E a \in {"create", "remove"} : Goes(alloc, op, a)
      \/ \E A : Ends(A)
  BY DEF Clone, RmWalk
<1>6. Ready' /\ OpMeant'
  <2>1. op' = Idle \/ op'.at \in {"create", "remove"}
    BY <1>1, <1>5, GoesAs DEF Ends, As
  <2> QED
    BY <2>1, Elsewhere
<1> QED
  BY <1>3, <1>4, <1>6 DEF DataInv

LEMMA CreateMeansIt ==
  ASSUME IInv, DataInv, Create
  PROVE  DataInv'
<1>1. /\ op # Idle /\ op.at = "create" /\ op \in Request /\ UNCHANGED held
      /\ op.cf # NoFid /\ op.name \in Paths /\ op.do \in {"creat", "nxcreat", "mkdir"}
      /\ op.cf \in OpFidsOf(op)
  BY Sent DEF Create, Shape, Request, OpFidsOf
<1>2. PICK ok \in BOOLEAN :
        /\ Tcreate(op.cf, op.name, op.do = "mkdir", ok)
        /\ \/ ok /\ Fidalloc(alloc, op, "nf", "walk", [op EXCEPT !.at = "unclone"])
           \/ Goes(alloc, op, "unclone")
  BY DEF Create
<1>3. /\ Moves /\ conn' = conn /\ Others(op.cf)
      /\ ok => At(op.name)' \in {srv'[op.cf].obj, Root} \ {None}
  <2>1. PICK dir \in BOOLEAN : dir <=> op.do = "mkdir"
    OBVIOUS
  <2>2. dir = (op.do = "mkdir")
    BY <2>1
  <2>3. Tcreate(op.cf, op.name, dir, ok)
    BY <1>2, <2>2
  <2>4. ServerTyped /\ op.name \in Paths
    BY <1>1, Now
  <2>5. conn' = conn /\ Others(op.cf)
    BY <2>3, <2>4, Created
  <2>6. PICK n \in Paths : n = op.name
    BY <2>4
  <2>7. Moves /\ (ok => At(n)' \in {srv'[op.cf].obj, Root} \ {None})
    BY <2>3, <2>4, <2>6, CreateMeans
  <2>8. op'.name = op.name
    <3>1. op' = [op EXCEPT !.at = "unclone"] \/ As(op, "walk") \/ As(op, "unclone")
      BY <1>1, <1>2, AllocatesAs, GoesAs
    <3> QED
      BY <1>1, <3>1 DEF As, Request
  <2> QED
    BY <2>5, <2>6, <2>7, <2>8 DEF At
<1>4. conn => Meant'
  BY <1>1, <1>3, MeantKept DEF DataInv
<1>5. CASE ok /\ Fidalloc(alloc, op, "nf", "walk", [op EXCEPT !.at = "unclone"])
  <2>1. \/ op' = [op EXCEPT !.at = "unclone"]
        \/ As(op, "walk") /\ op'.cf = op.cf
    BY <1>1, <1>5, AllocatesAs
  <2>2. CASE op' = [op EXCEPT !.at = "unclone"]
    <3>1. op'.at = "unclone"
      BY <1>1, <2>2 DEF Request
    <3> QED
      BY <1>3, <1>4, <3>1, Elsewhere DEF DataInv
  <2>3. CASE As(op, "walk") /\ op'.cf = op.cf
    <3>1. op'.at = "walk" /\ op'.do # "dirread" /\ op'.name = op.name
      BY <1>1, <2>3 DEF As
    <3>2. Ready'
      BY <3>1 DEF Ready, Reads
    <3>3. At(op.name)' \in {srv'[op'.cf].obj, Root} \ {None}
      BY <1>3, <1>5, <2>3
    <3>4. OpMeant'
      BY <3>1, <3>3 DEF OpMeant, At
    <3> QED
      BY <1>3, <1>4, <3>2, <3>4 DEF DataInv
  <2> QED
    BY <2>1, <2>2, <2>3
<1>6. CASE Goes(alloc, op, "unclone")
  <2>1. op'.at = "unclone"
    BY <1>1, <1>6, GoesAs DEF As
  <2> QED
    BY <1>3, <1>4, <2>1, Elsewhere DEF DataInv
<1> QED
  BY <1>2, <1>5, <1>6

\* The file has no I/O fid until it is open again.
LEMMA IoClunkMeans ==
  ASSUME IInv, DataInv, IoClunk
  PROVE  DataInv'
<1>0. PICK t : t = op.tag
  OBVIOUS
<1> DEFINE i == held[t].io
<1>1. /\ op # Idle /\ op \in Request /\ t \in DOMAIN held /\ i \in Fids /\ i # NoFid
  <2>1. op # Idle /\ op \in Request /\ t \in DOMAIN held /\ i # NoFid
    BY <1>0, Sent DEF IoClunk, Shape
  <2> QED
    BY <2>1, HeldFids
<1>2. /\ Tclunk(i) /\ held' = [held EXCEPT ![t].io = NoFid]
      /\ Fidalloc(alloc \ {i}, op, "cf", "ioclone", Idle)
  BY <1>0 DEF IoClunk
<1>3. Moves /\ conn' = conn /\ Others(i)
  BY <1>2, GoneMoves, FidGone, Now
<1>4. Ready' /\ OpMeant'
  BY <1>1, <1>2, AllocatesAs, Elsewhere DEF As
<1>5. \A o \in DOMAIN held : /\ held[o] \in Rfile /\ held[o].fid # i
                             /\ o # t => held[o].io # i
  <2>1. i = held[t].io /\ Owner(held, t, i)
    BY DEF Owner
  <2> HIDE DEF i
  <2> QED
    BY <1>1, <2>1, Now DEF Owns, Owner, HeldOK
<1>6. /\ DOMAIN held' = DOMAIN held
      /\ held'[t].fid = held[t].fid /\ held'[t].io = NoFid
      /\ \A o \in DOMAIN held \ {t} : held'[o] = held[o]
  <2>1. held'[t] = [held[t] EXCEPT !.io = NoFid] /\ held[t] \in Rfile
    BY <1>1, <1>2, <1>5
  <2> QED
    BY <1>2, <2>1 DEF Rfile
<1> HIDE DEF i
<1>7. ASSUME conn
      PROVE  Meant'
  <2>1. Meant
    BY <1>7 DEF DataInv
  <2>2. \A o \in DOMAIN held \ {t} : ItsName(o)' /\ ItsData(o)'
    BY <1>3, <1>5, <1>6, <1>7, <2>1, FileKept
  <2>3. ItsName(t)'
    <3>1. held[t].fid \in DOMAIN srv /\ srv'[held[t].fid] = srv[held[t].fid]
      BY <1>1, <1>3, <1>5, <1>7, HeldFids DEF Others
    <3>2. t \in Objects \cup {Root} /\ ItsName(t)
      BY <1>1, <2>1, Now DEF HeldOK, Meant
    <3> QED
      BY <1>3, <1>6, <3>1, <3>2, NameKept, Now
  <2>4. ItsData(t)'
    BY <1>6 DEF ItsData
  <2> QED
    BY <1>6, <2>2, <2>3, <2>4 DEF Meant
<1> QED
  BY <1>3, <1>4, <1>7 DEF DataInv

\* The clone has the path of the control fid.
LEMMA IoCloneMeans ==
  ASSUME IInv, DataInv, IoClone
  PROVE  DataInv'
<1>1. /\ op # Idle /\ op.at = "ioclone" /\ op \in Request /\ UNCHANGED held
      /\ op.cf # NoFid /\ op.cf \in OpFidsOf(op) /\ op.tag \in DOMAIN held
  BY Sent DEF IoClone, Shape, OpFidsOf
<1>2. PICK ok \in BOOLEAN :
        /\ Tclone(held[op.tag].fid, op.cf, ok)
        /\ IF ok THEN Goes(alloc, op, "ioopen") ELSE Ends(alloc \ {op.cf})
  BY DEF IoClone
<1>3. /\ Moves /\ conn' = conn /\ Others(op.cf)
      /\ ok => srv'[op.cf].path = srv[held[op.tag].fid].path
  <2>1. Tclone(held[op.tag].fid, op.cf, ok) /\ ServerTyped
    BY <1>2, Now
  <2>2. Moves /\ (ok => srv'[op.cf].path = srv[held[op.tag].fid].path)
    BY <2>1, CloneMeans
  <2>3. conn' = conn /\ Others(op.cf)
    BY <2>1, NewClone
  <2> QED
    BY <2>2, <2>3
<1>4. conn => Meant'
  BY <1>1, <1>3, MeantKept DEF DataInv
<1>5. CASE ok
  <2>1. op'.at = "ioopen" /\ op'.tag = op.tag /\ op'.cf = op.cf
    BY <1>1, <1>2, <1>5, GoesAs DEF As
  <2>2. Ready'
    BY <2>1 DEF Ready, Reads
  <2>3. ASSUME conn
        PROVE  OpMeant'
    <3>1. srv'[held[op.tag].fid] = srv[held[op.tag].fid]
      BY <1>1, <1>3, <2>3, HeldFids DEF Others
    <3> QED
      BY <1>1, <1>3, <1>5, <2>1, <3>1 DEF OpMeant
  <2> QED
    BY <1>3, <1>4, <2>2, <2>3 DEF DataInv
<1>6. CASE ~ok
  BY <1>2, <1>3, <1>4, <1>6, Elsewhere DEF Ends, DataInv
<1> QED
  BY <1>5, <1>6

\* What is opened is what the name of the file leads to.
LEMMA IoOpenMeans ==
  ASSUME IInv, DataInv, IoOpen
  PROVE  DataInv'
<1>0. PICK t : t = op.tag
  OBVIOUS
<1> DEFINE i    == op.cf
           mode == IF op.do = "write" THEN "w" ELSE "r"
           r    == [op EXCEPT !.cf = NoFid]
<1>1. /\ op # Idle /\ op.at = "ioopen" /\ op \in Request
      /\ i # NoFid /\ i \in Fids /\ i \in OpFidsOf(op) /\ t \in DOMAIN held
  BY <1>0, Sent DEF IoOpen, Shape, OpFidsOf, Request
<1>2. PICK ok \in BOOLEAN :
        /\ Topen(i, mode, ok)
        /\ \/ /\ ok = TRUE
              /\ held' = [held EXCEPT ![t].io = i, ![t].omode = mode]
              /\ IoReady(alloc, r)
           \/ ok = FALSE /\ Goes(alloc, op, "unclone") /\ UNCHANGED held
  BY <1>0 DEF IoOpen
<1>3. mode \in {"r", "w"} /\ (op.do = "write" => mode = "w")
  OBVIOUS
<1>4. r \in Request /\ r.cf = NoFid /\ r.tag = t /\ r.do = op.do
  BY <1>0, <1>1 DEF Request
<1> HIDE DEF mode, r
<1>5. Moves /\ conn' = conn /\ Others(i) /\ (ok => srv'[i].obj = At(srv[i].path))
  BY <1>2, <1>3, Opened, OpenMeans, Now
<1>6. CASE ok = FALSE /\ Goes(alloc, op, "unclone") /\ UNCHANGED held
  <2>1. op'.at = "unclone"
    BY <1>1, <1>6, GoesAs DEF As
  <2>2. conn => Meant'
    BY <1>1, <1>5, <1>6, MeantKept DEF DataInv
  <2> QED
    BY <1>5, <2>1, <2>2, Elsewhere DEF DataInv
<1>7. CASE /\ ok = TRUE
           /\ held' = [held EXCEPT ![t].io = i, ![t].omode = mode]
           /\ IoReady(alloc, r)
  <2>1. /\ DOMAIN held' = DOMAIN held
        /\ held'[t] = [held[t] EXCEPT !.io = i, !.omode = mode]
        /\ \A o \in DOMAIN held \ {t} : held'[o] = held[o]
    BY <1>1, <1>7
  <2>2. held[t] \in Rfile
    BY <1>1, Now DEF HeldOK
  <2>3. held'[t].fid = held[t].fid /\ held'[t].io = i /\ held'[t].omode = mode
    BY <2>1, <2>2 DEF Rfile
  <2>4. Open(held', r.tag, r.do)
    BY <1>1, <1>3, <1>4, <2>1, <2>3 DEF Open
  <2>5. Ready' /\ OpMeant'
    BY <1>4, <1>7, <2>4, IoReadyReady
  <2>6. ASSUME conn
        PROVE  Meant'
    <3>1. Meant /\ OpMeant
      BY <2>6 DEF DataInv
    <3>2. \A o \in DOMAIN held : held[o].fid # i /\ (held[o].io # NoFid => held[o].io # i)
      BY <1>1, HeldFids
    <3>3. \A o \in DOMAIN held \ {t} : ItsName(o)' /\ ItsData(o)'
      BY <1>5, <2>1, <2>6, <3>1, <3>2, FileKept
    <3>4. held[t].fid \in DOMAIN srv /\ srv'[held[t].fid] = srv[held[t].fid]
      BY <1>1, <1>5, <2>6, <3>2, HeldFids DEF Others
    <3>5. t \in Objects \cup {Root} /\ ItsName(t)
      BY <1>1, <3>1, Now DEF HeldOK, Meant
    <3>6. ItsName(t)'
      BY <1>5, <2>3, <3>4, <3>5, NameKept, Now
    <3>7. srv[i].path = srv[held[t].fid].path
      BY <1>0, <1>1, <3>1 DEF OpMeant
    <3>8. srv'[i].obj = t \/ t \in moved
      BY <1>5, <1>7, <3>5, <3>7 DEF ItsName
    <3>9. ItsData(t)'
      BY <1>5, <2>3, <3>8 DEF ItsData, Moves
    <3> QED
      BY <2>1, <3>3, <3>6, <3>9 DEF Meant
  <2> QED
    BY <1>5, <2>5, <2>6 DEF DataInv
<1> QED
  BY <1>2, <1>6, <1>7

LEMMA DataMeans ==
  ASSUME IInv, DataInv, Data
  PROVE  DataInv'
<1>1. op' = Idle /\ UNCHANGED <<tree, moved, conn, srv, held>>
  BY DEF Data, Ends, server
<1> QED
  BY <1>1, NothingMoved, Elsewhere DEF DataInv

\* The host's user changes what names lead to, never what is open.
LEMMA HostMeans ==
  ASSUME IInv, DataInv, Host, UNCHANGED client
  PROVE  DataInv'
<1>1. UNCHANGED <<held, op>> /\ Moves
  BY HostMoves, Now DEF client
<1>2. \/ srv' = srv /\ conn' = conn
      \/ conn' = FALSE
  BY HostServer, Now
<1>3. Ready'
  BY <1>1 DEF DataInv, Ready
<1>4. ASSUME conn', srv' = srv, conn' = conn
      PROVE  Meant' /\ OpMeant'
  <2>1. Meant /\ OpMeant
    BY <1>4 DEF DataInv
  <2>2. \A o \in DOMAIN held : held[o].fid \in DOMAIN srv /\ o \in Objects \cup {Root}
    BY <1>4, HeldFids, Now DEF HeldOK
  <2>3. Meant'
    BY <1>1, <1>4, <2>1, <2>2, NameKept, DataKept, Now DEF Meant
  <2>4. ASSUME op # Idle, op.at \in {"walk", "stat"}, op.cf # NoFid
        PROVE  srv[op.cf].obj \in moved' \/ At(op.name)' \in {srv[op.cf].obj, Root} \ {None}
    <3>1. srv[op.cf].obj \in moved \/ At(op.name) \in {srv[op.cf].obj, Root} \ {None}
      BY <2>1, <2>4 DEF OpMeant
    <3>2. op.name \in Paths /\ op.cf \in DOMAIN srv
      BY <1>4, <2>4, Now DEF Shape, Request, Settled, Owns, OpFidsOf, WaitingOf
    <3> DEFINE n == op.name
               x == srv[op.cf].obj
    <3>3. (IF n = Top THEN Root ELSE tree'[n]) = At(n) \/ At(n) = None \/ At(n) \in moved'
      BY <1>1, <3>2 DEF Moves, At
    <3>4. Root \notin moved' /\ (At(n) = Root => n = Top)
      <4>1. Root \notin Objects /\ Root # None
        BY MaxObjAssumption DEF Objects, Root, None
      <4>2. moved' \subseteq Objects
        BY HostServer, Now DEF ServerTyped
      <4> QED
        BY <3>2, <4>1, <4>2, Now DEF ServerTyped, At, Paths
    <3> HIDE DEF n, x
    <3> QED
      BY <1>1, <3>1, <3>2, <3>3, <3>4 DEF Moves, At, n, x
  <2>5. OpMeant'
    BY <1>1, <1>4, <2>1, <2>4 DEF OpMeant, At
  <2> QED
    BY <2>3, <2>5
<1> QED
  BY <1>2, <1>3, <1>4 DEF DataInv

LEMMA InitMeans == Init => DataInv
<1> SUFFICES ASSUME Init
             PROVE  DataInv
  OBVIOUS
<1>1. /\ op = Idle /\ DOMAIN held = {Root} /\ held[Root].fid = 0 /\ held[Root].io = NoFid
      /\ srv[0] = Fresh(Top)
  BY DEF Init, ServerInit
<1> QED
  BY <1>1 DEF DataInv, Ready, Meant, ItsName, ItsData, OpMeant, Fresh, At

LEMMA NextMeans == IInv /\ DataInv /\ [Next]_vars => DataInv'
<1> SUFFICES ASSUME IInv, DataInv, [Next]_vars
             PROVE  DataInv'
  OBVIOUS
<1>1. CASE \E n \in Names : Mkdir(n) \/ Rmdir(n) \/ \E d \in Lookups : Lookup(d, n)
  BY <1>1, LookupMeans
<1>2. CASE \E t \in DOMAIN held :
             Put(t) \/ OnControl(t) \/ \E d \in {"read", "write", "dirread"} : Io(d, t)
  BY <1>2, PutMeans, ControlMeans, IoMeans
<1>3. CASE Serve
  BY <1>3, WalkMeansIt, StatMeans, ClunkMeans, BeginMeans, CreateMeansIt, IoClunkMeans,
     IoCloneMeans, IoOpenMeans, DataMeans DEF Serve
<1>4. CASE Host /\ UNCHANGED client
  BY <1>4, HostMeans
<1>5. CASE UNCHANGED vars
  BY <1>5 DEF vars, DataInv, Ready, Meant, ItsName, ItsData, OpMeant, At
<1> QED
  BY <1>1, <1>2, <1>3, <1>4, <1>5 DEF Next

\* Whatever was refused half way and whatever the host's user renamed or
\* removed meanwhile, fsread(), fswrite() and fsdirread() use an open fid of the
\* file that the kernel means, for writing when it is to be written, as long as
\* that file and the one reached have kept their names.
THEOREM DataIsItsOwn == Spec => []DataOfItsOwn
<1>1. IInv /\ DataInv => DataOfItsOwn
  <2> SUFFICES ASSUME IInv, DataInv, op # Idle, op.at = "io", conn
               PROVE  /\ held[op.tag].io \in DOMAIN srv
                      /\ op.do = "write" => srv[held[op.tag].io].mode = "w"
                      /\ \/ srv[held[op.tag].io].obj = op.tag
                         \/ {srv[held[op.tag].io].obj, op.tag} \cap moved # {}
    BY DEF DataOfItsOwn
  <2>1. Open(held, op.tag, op.do)
    BY DEF DataInv, Ready, Reads
  <2>2. held[op.tag].io \in DOMAIN srv
    BY <2>1, HeldFids DEF Open
  <2>3. srv[held[op.tag].io].mode = held[op.tag].omode
    BY <2>1, Now DEF Open, HeldModes
  <2>4. ItsData(op.tag)
    BY <2>1 DEF Open, DataInv, Meant
  <2> QED
    BY <2>1, <2>2, <2>3, <2>4 DEF Open, ItsData
<1>2. Init => IInv /\ DataInv
  BY Initially, InitMeans
<1>3. IInv /\ DataInv /\ [Next]_vars => (IInv /\ DataInv)'
  BY Inductive, NextMeans
<1> QED
  BY <1>1, <1>2, <1>3, PTL DEF Spec
=============================================================================
