------------------------------ MODULE InodesProofs ------------------------------
(***************************************************************************)
(* Theorems about Export and Inodes, for any set of processes, files,      *)
(* names and tags: the tables of the server agree with each other, and     *)
(* with the tags that V8's kernel has in its inodes; and the name that a   *)
(* handle has leads to the handle's file unless the host's user has moved  *)
(* it (Led), so that what is called through an inode reaches its file.     *)
(***************************************************************************)
EXTENDS Inodes, TLAPS, FiniteSetTheorems, WellFoundedInduction

Trees == [Names -> Objects \cup {None}]

\* The two indexes of the handles agree: each handle is found by its number,
\* and what a number finds is its handle.
Agreed(e) ==
    /\ \A t \in Tags : Live(e, t) => e.handleByIno[e.handles[t].ino] = t
    /\ \A o \in Objects : e.handleByIno[o] # None =>
           Live(e, e.handleByIno[o]) /\ e.handles[e.handleByIno[o]].ino = o

\* The handles of e are in f, for the same files.
Kept(e, f) == \A t \in Tags : Live(e, t) => Live(f, t) /\ f.handles[t].ino = e.handles[t].ino

SameHandles(e, f) ==
    /\ f.handleByIno = e.handleByIno
    /\ \A t \in Tags : /\ Live(e, t) <=> Live(f, t)
                       /\ Live(e, t) => f.handles[t].ino = e.handles[t].ino

-----------------------------------------------------------------------------
(* Export.                                                                 *)

\* A set of names that is not empty has a last one.
LEMMA LastName ==
  ASSUME NEW S \in SUBSET Names, S # {}
  PROVE  \E n \in S : \A m \in S : m <= n
<1> DEFINE From(n) == {m \in S : n <= m}
           F == {From(n) : n \in S}
<1>1. IsFiniteSet(Names) /\ Names \subseteq Int
  BY FS_Interval, SizeAssumption DEF Names
<1>2. F \subseteq FiniteSubsetsOf(Names) /\ F # {}
  <2>1. \A n \in S : From(n) \in SUBSET Names
    OBVIOUS
  <2>2. F \subseteq SUBSET Names /\ F # {}
    <3> HIDE DEF From
    <3> QED
      BY <2>1
  <2> QED
    BY <1>1, <2>2, FS_FiniteSubsetsOfFinite
<1>3. PICK x \in F : \A y \in F : <<y, x>> \notin StrictSubsetOrdering(Names)
  <2>1. IsWellFoundedOn(StrictSubsetOrdering(Names), FiniteSubsetsOf(Names))
    BY FS_StrictSubsetOrderingWellFounded
  <2> HIDE DEF F
  <2> QED
    BY <1>2, <2>1, WFMin
<1>4. PICK n \in S : x = From(n)
  BY <1>3
<1>5. ASSUME NEW m \in S, ~(m <= n)
      PROVE  FALSE
  <2>1. From(m) \subseteq From(n) /\ n \in From(n) /\ n \notin From(m)
    <3>1. m \in Int /\ n \in Int
      BY <1>1
    <3>2. n < m
      BY <3>1, <1>5
    <3>3. \A k \in S : k \in Int
      BY <1>1
    <3>4. n \in From(n) /\ n \notin From(m)
      BY <3>1, <3>2, <1>4, <1>5
    <3>5. ASSUME NEW k \in From(m)
          PROVE  k \in From(n)
      BY <3>1, <3>2, <3>3
    <3> QED
      BY <3>4, <3>5
  <2>2. From(m) \in F /\ From(m) \subseteq Names /\ From(n) \subseteq Names
    OBVIOUS
  <2> QED
    BY <2>1, <2>2, <1>3, <1>4 DEF StrictSubsetOrdering
<1> QED
  BY <1>5

\* buildDirImage() gives out numbers and leaves the handles alone.
LEMMA ListedNumbers ==
  ASSUME NEW e \in Export, NEW t \in Trees
  PROVE  /\ Listed(e, t) \in Export
         /\ Listed(e, t).handles = e.handles
         /\ Listed(e, t).handleByIno = e.handleByIno
<1> DEFINE Last(o) == CHOOSE n \in Names : t[n] = o /\ \A m \in Names : t[m] = o => m <= n
<1>1. ASSUME NEW o \in Objects, \E n \in Names : t[n] = o
      PROVE  Last(o) \in Names
  <2> DEFINE S == {n \in Names : t[n] = o}
  <2>1. \E n \in S : \A m \in S : m <= n
    BY <1>1, LastName
  <2> QED
    BY <2>1
<1> QED
  BY <1>1 DEF Listed, Export

\* A number without a handle leaves a tag that is free.
LEMMA FreeTag ==
  ASSUME NEW e \in Export, Agreed(e), NEW o \in Objects, e.handleByIno[o] = None
  PROVE  \E t \in Tags : ~Live(e, t)
<1> SUFFICES ASSUME \A t \in Tags : Live(e, t)
             PROVE  FALSE
  OBVIOUS
<1> DEFINE f == [t \in Tags |-> e.handles[t].ino]
           T == Objects \ {o}
<1>1. \A t \in Tags : e.handles[t] \in Handle /\ t # None
  BY SizeAssumption DEF Export, Live, Tags, None
<1>2. f \in [Tags -> T]
  BY <1>1 DEF Agreed, Handle
<1>3. IsFiniteSet(T) /\ Cardinality(T) = Cardinality(Objects) - 1
  BY SizeAssumption, FS_RemoveElement
<1>4. IsFiniteSet(Tags) /\ Cardinality(Tags) = NTag
  BY SizeAssumption, FS_Interval DEF Tags
<1>5. Cardinality(T) < Cardinality(Tags)
  BY <1>3, <1>4, SizeAssumption, FS_CardinalityType
<1>6. PICK x, y \in Tags : x # y /\ f[x] = f[y]
  <2> HIDE DEF f, T
  <2> QED
    BY <1>2, <1>3, <1>4, <1>5, FS_PigeonHole
<1> QED
  BY <1>6 DEF Agreed

\* handle(forPath:), given a tag that is free if it needs one, keeps the tables
\* in agreement and every handle in them, and answers with a handle.  If it
\* used the tag, the handle has a path that leads to its file.
LEMMA PathHandle ==
  ASSUME NEW e \in Export, Agreed(e), NEW t \in Trees, NEW n \in Names, NEW new,
         t[n] # None /\ e.handleByIno[t[n]] = None => new \in Tags /\ ~Live(e, new)
  PROVE  LET a == HandleForPath(e, t, n, new)
         IN /\ a.export \in Export /\ Agreed(a.export) /\ Kept(e, a.export)
            /\ a.tag \in Tags \cup {None}
            /\ a.tag # None => Live(a.export, a.tag)
            /\ \/ SameHandles(e, a.export)
               \/ t[a.export.handles[new].path] = a.export.handles[new].ino /\ a.tag = new
<1> DEFINE o == t[n]
           f == [e EXCEPT !.pathByIno[o] = n]
           a == HandleForPath(e, t, n, new)
<1>0. None \notin Tags
  BY SizeAssumption DEF Tags, None
<1>1. CASE o = None
  BY <1>1 DEF HandleForPath, Kept, SameHandles
<1>2. CASE o # None /\ e.handleByIno[o] # None
  <2>1. a = [tag |-> e.handleByIno[o], export |-> f]
    BY <1>2 DEF HandleForPath
  <2>2. f \in Export /\ f.handles = e.handles /\ f.handleByIno = e.handleByIno
    BY <1>2 DEF Export, Trees
  <2> QED
    BY <1>2, <2>1, <2>2 DEF Agreed, Kept, SameHandles, Live, Trees, Export
<1>3. CASE o # None /\ e.handleByIno[o] = None
  <2> DEFINE h == [ino |-> o, path |-> n, fd |-> None, moved |-> FALSE]
             g == [f EXCEPT !.handleByIno[o] = new, !.handles[new] = h]
  <2>1. new \in Tags /\ ~Live(e, new) /\ o \in Objects
    BY <1>3 DEF Trees
  <2>2. a = [tag |-> new, export |-> g]
    BY <1>3 DEF HandleForPath
  <2>3. h \in Handle /\ h # Closed
    BY <2>1, SizeAssumption DEF Handle, Closed, None
  <2>4. /\ g.handles = [e.handles EXCEPT ![new] = h]
        /\ g.handleByIno = [e.handleByIno EXCEPT ![o] = new]
    BY <2>1 DEF Export
  <2>5. g \in Export
    BY <2>1, <2>3 DEF Export
  <2>6. Live(g, new) /\ \A u \in Tags \ {new} : Live(g, u) <=> Live(e, u)
    BY <2>1, <2>3, <2>4 DEF Live, Export
  <2>7. Kept(e, g)
    BY <2>1, <2>4, <2>6 DEF Kept, Export
  <2>8. Agreed(g)
    <3> USE <2>1, <2>4, <2>6 DEF Agreed, Export
    <3>1. ASSUME NEW u \in Tags, Live(g, u)
          PROVE  g.handleByIno[g.handles[u].ino] = u
      <4>1. CASE u = new
        BY <4>1
      <4>2. CASE u # new
        <5>1. Live(e, u) /\ e.handles[u] \in Handle
          BY <3>1, <4>2 DEF Live
        <5>2. e.handles[u].ino \in Objects /\ e.handleByIno[e.handles[u].ino] = u
          BY <5>1 DEF Handle
        <5> QED
          BY <5>2, <4>2, <1>3, <1>0
      <4> QED
        BY <4>1, <4>2
    <3>2. ASSUME NEW j \in Objects, g.handleByIno[j] # None
          PROVE  Live(g, g.handleByIno[j]) /\ g.handles[g.handleByIno[j]].ino = j
      <4>1. CASE j = o
        BY <4>1
      <4>2. CASE j # o
        <5>1. g.handleByIno[j] = e.handleByIno[j]
          BY <4>2
        <5>2. Live(e, e.handleByIno[j]) /\ e.handles[e.handleByIno[j]].ino = j
          BY <5>1, <3>2
        <5> QED
          BY <5>1, <5>2 DEF Live
      <4> QED
        BY <4>1, <4>2
    <3> QED
      BY <3>1, <3>2
  <2>9. t[g.handles[new].path] = g.handles[new].ino
    <3>1. g.handles[new] = h
      BY <2>1, <2>4 DEF Export
    <3> QED
      BY <3>1
  <2> HIDE DEF a, g, h, f, o
  <2> QED
    BY <2>1, <2>2, <2>5, <2>6, <2>7, <2>8, <2>9 DEF a
<1> QED
  BY <1>1, <1>2, <1>3

\* A tag for each number that has no handle.
Fresh(e, new) == \A o \in Objects : e.handleByIno[o] = None => new \in Tags /\ ~Live(e, new)

LEMMA NewTagFresh ==
  ASSUME export \in Export, Agreed(export)
  PROVE  Fresh(export, NewTag)
<1> SUFFICES ASSUME NEW o \in Objects, export.handleByIno[o] = None
             PROVE  NewTag \in Tags /\ ~Live(export, NewTag)
  BY DEF Fresh
<1>1. \E t \in Tags : ~Live(export, t)
  BY FreeTag
<1> QED
  BY <1>1 DEF NewTag

\* handle(forIno:), likewise.
LEMMA InoHandle ==
  ASSUME NEW e \in Export, Agreed(e), NEW t \in Trees, NEW i \in Objects, NEW new, Fresh(e, new)
  PROVE  LET a == HandleForIno(e, t, i, new)
         IN /\ a.export \in Export /\ Agreed(a.export) /\ Kept(e, a.export)
            /\ a.tag \in Tags \cup {None}
            /\ a.tag # None => Live(a.export, a.tag)
            /\ \/ SameHandles(e, a.export)
               \/ t[a.export.handles[new].path] = a.export.handles[new].ino /\ a.tag = new
<1> DEFINE a == HandleForIno(e, t, i, new)
<1>1. CASE e.handleByIno[i] # None
  <2>1. a = [tag |-> e.handleByIno[i], export |-> e]
    BY <1>1 DEF HandleForIno
  <2> QED
    BY <1>1, <2>1 DEF Agreed, Kept, SameHandles, Export
<1>2. CASE e.handleByIno[i] = None /\ e.pathByIno[i] = None
  <2>1. a = [tag |-> None, export |-> e]
    BY <1>2 DEF HandleForIno
  <2> QED
    BY <2>1 DEF Kept, SameHandles
<1>3. CASE e.handleByIno[i] = None /\ e.pathByIno[i] # None
  <2> DEFINE n == e.pathByIno[i]
  <2>1. n \in Names /\ a = HandleForPath(e, t, n, new)
    BY <1>3 DEF HandleForIno, Export
  <2>2. t[n] # None /\ e.handleByIno[t[n]] = None => new \in Tags /\ ~Live(e, new)
    BY <2>1 DEF Fresh, Trees
  <2> HIDE DEF n
  <2> QED
    BY <2>1, <2>2, PathHandle
<1> QED
  BY <1>1, <1>2, <1>3

LEMMA SameAgreed ==
  ASSUME NEW e \in Export, NEW f \in Export, Agreed(e), SameHandles(e, f)
  PROVE  Agreed(f) /\ Kept(e, f)
BY DEF Agreed, Kept, SameHandles, Export

LEMMA Losing ==
  ASSUME NEW e \in Export, NEW S
  PROVE  Lose(e, S) \in Export /\ SameHandles(e, Lose(e, S))
<1> DEFINE f == Lose(e, S)
           L(t) == [e.handles[t] EXCEPT !.moved = TRUE]
<1>1. /\ f.handleByIno = e.handleByIno /\ f.pathByIno = e.pathByIno
      /\ f = [e EXCEPT !.handles = f.handles]
      /\ \A t \in Tags : f.handles[t] \in {e.handles[t], L(t)}
      /\ \A t \in Tags : ~Live(e, t) => f.handles[t] = e.handles[t]
      /\ DOMAIN f.handles = Tags /\ f.handles = [t \in Tags |-> f.handles[t]]
  BY DEF Lose, Export
<1>2. ASSUME NEW t \in Tags, Live(e, t)
      PROVE  /\ L(t) \in Handle /\ e.handles[t] \in Handle
             /\ L(t).ino = e.handles[t].ino
  BY <1>2 DEF Live, Export, Handle
<1>3. \A h \in Handle : h # Closed
  BY SizeAssumption DEF Handle, Closed, None
<1> HIDE DEF f, L
<1>4. \A t \in Tags : f.handles[t] \in Handle \cup {Closed}
  BY <1>1, <1>2 DEF Live, Export
<1>5. f \in Export
  BY <1>1, <1>4 DEF Export
<1>6. \A t \in Tags : /\ Live(e, t) <=> Live(f, t)
                      /\ Live(e, t) => f.handles[t].ino = e.handles[t].ino
  BY <1>1, <1>2, <1>3 DEF Live
<1> QED
  BY <1>1, <1>5, <1>6 DEF SameHandles, f

\* release(): only that tag.
LEMMA Releasing ==
  ASSUME NEW e \in Export, Agreed(e), NEW tag
  PROVE  LET f == Released(e, tag)
         IN /\ f \in Export /\ Agreed(f)
            /\ \A u \in Tags : u # tag /\ Live(e, u) =>
                 Live(f, u) /\ f.handles[u].ino = e.handles[u].ino
<1> DEFINE f == Released(e, tag)
           o == e.handles[tag].ino
<1>1. CASE ~Live(e, tag)
  BY <1>1 DEF Released
<1>2. CASE Live(e, tag)
  <2>1. /\ tag \in Tags /\ e.handles[tag] \in Handle /\ o \in Objects
        /\ f = [e EXCEPT !.handles[tag] = Closed, !.handleByIno[o] = None]
        /\ e.handleByIno[o] = tag
    BY <1>2 DEF Live, Released, Export, Handle, Agreed
  <2>2. /\ f.handles = [e.handles EXCEPT ![tag] = Closed]
        /\ f.handleByIno = [e.handleByIno EXCEPT ![o] = None]
    BY <2>1 DEF Export
  <2>3. f \in Export
    <3> HIDE DEF f, o
    <3>1. e.pathByIno \in [Objects -> Names \cup {None}]
      BY DEF Export
    <3>2. f.handles \in [Tags -> Handle \cup {Closed}]
      BY <2>1, <2>2 DEF Export
    <3>3. f.handleByIno \in [Objects -> Tags \cup {None}]
      BY <2>1, <2>2 DEF Export
    <3>4. f = [pathByIno |-> e.pathByIno, handles |-> f.handles, handleByIno |-> f.handleByIno]
      BY <2>1 DEF Export
    <3> QED
      BY <3>1, <3>2, <3>3, <3>4 DEF Export
  <2>4. ~Live(f, tag) /\ \A u \in Tags \ {tag} : /\ Live(f, u) <=> Live(e, u)
                                               /\ f.handles[u] = e.handles[u]
    BY <2>1, <2>2 DEF Live, Export
  <2>5. ASSUME NEW j \in Objects \ {o}
        PROVE  f.handleByIno[j] = e.handleByIno[j] /\ f.handleByIno[j] # tag
    <3>1. f.handleByIno[j] = e.handleByIno[j]
      BY <2>2 DEF Export
    <3>2. tag # None
      BY <2>1, SizeAssumption DEF Tags, None
    <3>3. e.handleByIno[j] # tag
      BY <3>2 DEF Agreed
    <3> QED
      BY <3>1, <3>3
  <2>6. f.handleByIno[o] = None
    BY <2>1, <2>2 DEF Export
  <2> HIDE DEF f, o
  <2>7. Agreed(f)
    <3>1. ASSUME NEW u \in Tags, Live(f, u)
          PROVE  f.handleByIno[f.handles[u].ino] = u
      <4>1. u # tag /\ Live(e, u) /\ f.handles[u] = e.handles[u]
        BY <3>1, <2>4
      <4>2. e.handles[u].ino \in Objects /\ e.handleByIno[e.handles[u].ino] = u
        BY <4>1 DEF Live, Export, Handle, Agreed
      <4> QED
        BY <4>1, <4>2, <2>1, <2>5
    <3>2. ASSUME NEW j \in Objects, f.handleByIno[j] # None
          PROVE  Live(f, f.handleByIno[j]) /\ f.handles[f.handleByIno[j]].ino = j
      <4>1. j # o /\ f.handleByIno[j] = e.handleByIno[j] /\ f.handleByIno[j] # tag
        BY <3>2, <2>5, <2>6
      <4>2. Live(e, e.handleByIno[j]) /\ e.handles[e.handleByIno[j]].ino = j
        BY <4>1, <3>2 DEF Agreed
      <4>3. e.handleByIno[j] \in Tags
        BY <4>2 DEF Live
      <4> QED
        BY <4>1, <4>2, <4>3, <2>4
    <3> QED
      BY <3>1, <3>2 DEF Agreed
  <2> QED
    BY <2>3, <2>4, <2>7 DEF f
<1> QED
  BY <1>1, <1>2

-----------------------------------------------------------------------------
(* The requests.                                                           *)

Tables == tree \in Trees /\ export \in Export /\ Agreed(export)

\* A request whose answer has the tag t, or none, and that releases nothing.
Grown(t) ==
    /\ tree' \in Trees /\ export' \in Export /\ Agreed(export') /\ Kept(export, export')
    /\ t \in Tags \cup {None} /\ (t # None => Live(export', t))

LEMMA HostTables ==
  ASSUME Tables, Host
  PROVE  tree' \in Trees /\ export' \in Export /\ Agreed(export') /\ Kept(export, export')
<1>1. ASSUME NEW S, export' = Lose(export, S)
      PROVE  export' \in Export /\ Agreed(export') /\ Kept(export, export')
  BY <1>1, Losing, SameAgreed DEF Tables
<1>2. ASSUME NEW n \in Names, HostMakes(n)
      PROVE  tree' \in Trees /\ export' = Lose(export, {tree[n]})
  BY <1>2 DEF HostMakes, Tables, Trees
<1>3. ASSUME NEW n \in Names, HostRemoves(n)
      PROVE  tree' \in Trees /\ export' = Lose(export, {tree[n]})
  BY <1>3 DEF HostRemoves, Tables, Trees
<1>4. ASSUME NEW m \in Names, NEW n \in Names, HostRenames(m, n)
      PROVE  tree' \in Trees /\ export' = Lose(export, {tree[m], tree[n]})
  BY <1>4 DEF HostRenames, Tables, Trees
<1> QED
  BY <1>1, <1>2, <1>3, <1>4 DEF Host

LEMMA NgetRootTables ==
  ASSUME Tables, NgetRoot
  PROVE  tree' \in Trees /\ export' \in Export /\ Agreed(export') /\ Kept(export, export')
<1>1. SameHandles(export, export') /\ export' \in Export
  BY ListedNumbers DEF Tables, NgetRoot, SameHandles, Live
<1> QED
  BY <1>1, SameAgreed DEF Tables, NgetRoot

LEMMA NgetTables ==
  ASSUME Tables, NEW i \in Objects, NEW t, Nget(i, NewTag, t)
  PROVE  Grown(t)
<1>1. Fresh(export, NewTag)
  BY NewTagFresh DEF Tables
<1> HIDE DEF Fresh
<1> QED
  BY <1>1, InoHandle DEF Tables, Nget, Answer, Grown

LEMMA NnamiTables ==
  ASSUME Tables, NEW n \in Names, NEW t, Nnami(n, NewTag, t)
  PROVE  Grown(t)
<1>1. tree[n] # None /\ export.handleByIno[tree[n]] = None => NewTag \in Tags /\ ~Live(export, NewTag)
  BY NewTagFresh DEF Tables, Fresh, Trees
<1> QED
  BY <1>1, PathHandle DEF Tables, Nnami, Answer, Grown

LEMMA NnamiCreatTables ==
  ASSUME Tables, NEW n \in Names, NEW t, NnamiCreat(n, NewTag, t)
  PROVE  Grown(t)
<1>1. CASE tree[n] # None
  BY <1>1, NnamiTables DEF NnamiCreat
<1>2. CASE tree[n] = None
  <2>1. PICK o \in Objects :
          LET u == [tree EXCEPT ![n] = o]
              a == HandleForPath(export, u, n, NewTag)
          IN tree' = u /\ t = a.tag /\ export' = Listed(a.export, u)
    BY <1>2 DEF NnamiCreat
  <2> DEFINE u == [tree EXCEPT ![n] = o]
             a == HandleForPath(export, u, n, NewTag)
  <2>2. u \in Trees /\ u[n] = o
    BY DEF Tables, Trees
  <2>3. u[n] # None /\ export.handleByIno[u[n]] = None => NewTag \in Tags /\ ~Live(export, NewTag)
    BY <2>2, NewTagFresh DEF Tables, Fresh
  <2>4. tree' = u /\ t = a.tag /\ export' = Listed(a.export, u)
    BY <2>1
  <2> HIDE DEF u
  <2>5. /\ a.export \in Export /\ Agreed(a.export) /\ Kept(export, a.export)
        /\ a.tag \in Tags \cup {None} /\ (a.tag # None => Live(a.export, a.tag))
    BY <2>2, <2>3, PathHandle DEF Tables
  <2> HIDE DEF a
  <2>6. export' \in Export /\ SameHandles(a.export, export')
    BY <2>2, <2>4, <2>5, ListedNumbers DEF SameHandles, Live
  <2>7. Agreed(export') /\ Kept(a.export, export')
    BY <2>5, <2>6, SameAgreed
  <2> QED
    BY <2>2, <2>4, <2>5, <2>6, <2>7 DEF Grown, Kept
<1> QED
  BY <1>1, <1>2

LEMMA NnamiLinkTables ==
  ASSUME Tables, NEW n \in Names, NEW i \in Objects, NEW t, NnamiLink(n, i, NewTag, t)
  PROVE  Grown(t)
<1> DEFINE src == HandleForIno(export, tree, i, NewTag)
           o   == tree[src.export.handles[src.tag].path]
           u   == [tree EXCEPT ![n] = o]
           a   == HandleForPath(src.export, u, n, NewTag)
<1>1. Fresh(export, NewTag)
  BY NewTagFresh DEF Tables
<1>2. /\ src.export \in Export /\ Agreed(src.export) /\ Kept(export, src.export)
      /\ src.tag \in Tags \cup {None}
      /\ src.tag # None => Live(src.export, src.tag)
      /\ \/ SameHandles(export, src.export)
         \/ /\ tree[src.export.handles[NewTag].path] = src.export.handles[NewTag].ino
            /\ src.tag = NewTag
  BY <1>1, InoHandle DEF Tables
<1>3. CASE tree[n] # None
  BY <1>3, NnamiTables DEF NnamiLink
<1>4. CASE tree[n] = None /\ (src.tag = None \/ o = None)
  BY <1>2, <1>4 DEF NnamiLink, Grown, Tables
<1>5. CASE tree[n] = None /\ src.tag # None /\ o # None
  <2>1. tree' = u /\ t = a.tag /\ export' = a.export
    BY <1>5 DEF NnamiLink, Answer
  <2> DEFINE h == src.export.handles[src.tag]
  <2>2. h \in Handle /\ h.path \in Names /\ h.ino \in Objects /\ src.tag \in Tags
    BY <1>2, <1>5 DEF Live, Export, Handle
  <2>3. o \in Objects /\ u \in Trees /\ u[n] = o
    BY <1>5, <2>2 DEF Tables, Trees
  <2>4. src.export.handleByIno[o] = None => NewTag \in Tags /\ ~Live(src.export, NewTag)
    <3>1. CASE SameHandles(export, src.export)
      BY <3>1, <1>1, <2>3 DEF SameHandles, Fresh
    <3>2. CASE tree[src.export.handles[NewTag].path] = src.export.handles[NewTag].ino /\ src.tag = NewTag
      <4>1. o = h.ino /\ Live(src.export, src.tag)
        BY <3>2, <1>2, <1>5
      <4>2. src.export.handleByIno[o] = src.tag
        BY <4>1, <1>2, <2>2 DEF Agreed
      <4> QED
        BY <4>2, <1>5
    <3> QED
      BY <3>1, <3>2, <1>2
  <2> HIDE DEF src, u, o
  <2>5. /\ a.export \in Export /\ Agreed(a.export) /\ Kept(src.export, a.export)
        /\ a.tag \in Tags \cup {None} /\ (a.tag # None => Live(a.export, a.tag))
    BY <1>2, <2>3, <2>4, PathHandle
  <2> QED
    BY <1>2, <2>1, <2>3, <2>5 DEF Grown, Kept
<1> QED
  BY <1>3, <1>4, <1>5

\* A delete that is answered with the number i releases i's tag only.
LEMMA NnamiDelTables ==
  ASSUME Tables, NEW n \in Names, NEW i, NnamiDel(n, NewTag, i)
  PROVE  /\ tree' \in Trees /\ export' \in Export /\ Agreed(export')
         /\ i \in Objects \cup {None}
         /\ i = None => Kept(export, export')
         /\ i # None => \A t \in Tags : Live(export, t) /\ t # export.handleByIno[i] =>
                           Live(export', t) /\ export'.handles[t].ino = export.handles[t].ino
<1> DEFINE a == HandleForPath(export, tree, n, NewTag)
           h == a.export.handles[a.tag]
           u == [tree EXCEPT ![h.path] = None]
           e == Lose(Listed(a.export, u), {tree[h.path]} \ {i})
<1>1. tree[n] # None /\ export.handleByIno[tree[n]] = None => NewTag \in Tags /\ ~Live(export, NewTag)
  BY NewTagFresh DEF Tables, Fresh, Trees
<1>2. /\ a.export \in Export /\ Agreed(a.export) /\ Kept(export, a.export)
      /\ a.tag \in Tags \cup {None} /\ (a.tag # None => Live(a.export, a.tag))
  BY <1>1, PathHandle DEF Tables
<1>3. CASE a.tag = None \/ tree[h.path] = None
  BY <1>2, <1>3 DEF NnamiDel, Tables
<1>4. CASE a.tag # None /\ tree[h.path] # None
  <2>1. i = h.ino /\ tree' = u /\ export' = Released(e, a.tag)
    BY <1>4 DEF NnamiDel
  <2>2. a.tag \in Tags /\ h \in Handle /\ i \in Objects /\ u \in Trees
    BY <1>2, <1>4, <2>1 DEF Live, Export, Handle, Tables, Trees
  <2> HIDE DEF a, h, u
  <2>3. Listed(a.export, u) \in Export /\ SameHandles(a.export, Listed(a.export, u))
    BY <1>2, <2>2, ListedNumbers DEF SameHandles, Live
  <2>4. Agreed(Listed(a.export, u)) /\ Kept(a.export, Listed(a.export, u))
    BY <1>2, <2>3, SameAgreed
  <2>5. e \in Export /\ SameHandles(Listed(a.export, u), e)
    BY <2>3, Losing
  <2>6. Agreed(e) /\ Kept(Listed(a.export, u), e)
    BY <2>3, <2>4, <2>5, SameAgreed
  <2> HIDE DEF e
  <2>7. /\ export' \in Export /\ Agreed(export')
        /\ \A t \in Tags : t # a.tag /\ Live(e, t) =>
             Live(export', t) /\ export'.handles[t].ino = e.handles[t].ino
    BY <2>1, <2>5, <2>6, Releasing
  <2>8. ASSUME NEW t \in Tags, Live(export, t), t # export.handleByIno[i]
        PROVE  Live(export', t) /\ export'.handles[t].ino = export.handles[t].ino
    <3>1. Live(a.export, t) /\ a.export.handles[t].ino = export.handles[t].ino
      BY <1>2, <2>8 DEF Kept
    <3>2. t # a.tag
      <4>1. export.handleByIno[export.handles[t].ino] = t
        BY <2>8 DEF Tables, Agreed
      <4> QED
        BY <3>1, <4>1, <2>1, <2>8 DEF h
    <3>3. Live(e, t) /\ e.handles[t].ino = export.handles[t].ino
      BY <3>1, <2>4, <2>6 DEF Kept
    <3> QED
      BY <3>2, <3>3, <2>7
  <2> QED
    BY <2>1, <2>2, <2>7, <2>8, SizeAssumption DEF None
<1> QED
  BY <1>3, <1>4

\* Transfers change a descriptor.
LEMMA TransferTables ==
  ASSUME Tables, NEW tag, NEW o, Nread(tag, o) \/ Nwrt(tag, o) \/ Ntrunc(tag, o)
  PROVE  tree' \in Trees /\ export' \in Export /\ Agreed(export') /\ Kept(export, export')
<1>1. ASSUME NEW h \in Handle, Live(export, tag), h.ino = export.handles[tag].ino, Transfer(tag, h, o)
      PROVE  tree' \in Trees /\ export' \in Export /\ SameHandles(export, export')
  <2>1. tag \in Tags /\ h # Closed
    BY <1>1, SizeAssumption DEF Live, Handle, Closed, None
  <2>2. export' = [export EXCEPT !.handles[tag] = h] /\ tree' = tree
    BY <1>1 DEF Transfer
  <2> QED
    BY <1>1, <2>1, <2>2 DEF Tables, Export, SameHandles, Live
<1>2. ASSUME Live(export, tag)
      PROVE  LET h == export.handles[tag]
             IN /\ Reading(h) \in Handle /\ Reading(h).ino = h.ino
                /\ Opened(h) \in Handle /\ Opened(h).ino = h.ino
  <2>1. export.handles[tag] \in Handle /\ tree \in Trees
    BY <1>2 DEF Live, Tables, Export
  <2> QED
    BY <2>1 DEF Reading, Opened, Revalidated, Handle, Trees
<1>3. CASE UNCHANGED share
  BY <1>3 DEF share, Tables, Kept
<1>4. SameHandles(export, export') /\ export' \in Export =>
        Agreed(export') /\ Kept(export, export')
  BY SameAgreed DEF Tables
<1> QED
  BY <1>1, <1>2, <1>3, <1>4 DEF Nread, Nwrt, Ntrunc

-----------------------------------------------------------------------------
(* The kernel.                                                             *)

\* What a call holds at each of its steps.
CallOK(c) ==
    /\ c \in Call
    /\ c.at = "iget"   => c.do # "unlink" /\ c.refs = << >>
    /\ c.at = "dget"   => c.do = "unlink" /\ c.refs = << >>
    /\ c.at = "trunc"  => c.do = "creat" /\ c.refs = <<c.ino>>
    /\ c.at = "nlink"  => c.do = "link" /\ c.refs = <<c.ino>>
    /\ c.at = "eexist" => c.do = "link" /\ \E i \in Objects : c.refs = <<i>>
    /\ c.at = "put"    => c.refs # << >>

CallsOK == \A p \in Procs : op[p] # Idle => CallOK(op[p])

\* What p has open or in the list refs, and what follows from a step of p.
Listing(f, refs) == ({f} \ {None}) \cup {refs[k] : k \in DOMAIN refs}

Steps1(p, S) ==
    /\ op' \in [Procs -> Call \cup {Idle}] /\ file' \in [Procs -> Objects \cup {None}]
    /\ CallsOK'
    /\ \A q \in Procs \ {p} : Holding(q)' = Holding(q)
    /\ Holding(p)' \subseteq Holding(p) \cup S

HeldInCore == \A p \in Procs : \A i \in Holding(p) : core[i] # None

TagsRight ==
    \A i \in Objects : core[i] # None /\ i \notin lost =>
        Live(export, core[i]) /\ export.handles[core[i]].ino = i

IInv == TypeOK /\ Agreed(export) /\ CallsOK /\ HeldInCore /\ TagsRight

LEMMA Listings ==
  ASSUME NEW f
  PROVE  /\ Listing(f, << >>) = {f} \ {None}
         /\ \A i : Listing(f, <<i>>) = ({f} \ {None}) \cup {i}
<1>1. DOMAIN << >> = {}
  OBVIOUS
<1>2. ASSUME NEW i
      PROVE  DOMAIN <<i>> = {1} /\ <<i>>[1] = i
  OBVIOUS
<1>3. Listing(f, << >>) = {f} \ {None}
  BY <1>1 DEF Listing
<1>4. ASSUME NEW i
      PROVE  Listing(f, <<i>>) = ({f} \ {None}) \cup {i}
  BY <1>2 DEF Listing
<1> QED
  BY <1>3, <1>4

LEMMA ListingTwo ==
  ASSUME NEW f, NEW i, NEW j
  PROVE  Listing(f, <<i, j>>) = ({f} \ {None}) \cup {i, j}
<1>1. DOMAIN <<i, j>> = {1, 2} /\ <<i, j>>[1] = i /\ <<i, j>>[2] = j
  OBVIOUS
<1> QED
  BY <1>1 DEF Listing

LEMMA HoldingIs ==
  ASSUME NEW p
  PROVE  /\ Holding(p) = Listing(file[p], Refs(p))
         /\ Holding(p)' = Listing(file'[p], Refs(p)')
BY DEF Holding, Listing

LEMMA ListsTyped ==
  /\ << >> \in Lists
  /\ \A i \in Objects : <<i>> \in Lists
  /\ \A i, j \in Objects : <<i, j>> \in Lists
BY DEF Lists

\* p goes to another step of its call, or to none, and may open a file.
LEMMA GoesTo ==
  ASSUME IInv, NEW p \in Procs, NEW c \in Call \cup {Idle}, c = Idle \/ CallOK(c), Goes(p, c),
         NEW f \in Objects \cup {None}, file' = [file EXCEPT ![p] = f], NEW S,
         Listing(f, IF c = Idle THEN << >> ELSE c.refs) \subseteq Holding(p) \cup S
  PROVE  Steps1(p, S)
<1>1. /\ op' = [op EXCEPT ![p] = c]
      /\ op \in [Procs -> Call \cup {Idle}] /\ file \in [Procs -> Objects \cup {None}]
  BY DEF Goes, IInv, TypeOK
<1>2. op' \in [Procs -> Call \cup {Idle}] /\ file' \in [Procs -> Objects \cup {None}]
  BY <1>1
<1>3. CallsOK'
  BY <1>1 DEF CallsOK, IInv
<1>4. ASSUME NEW q \in Procs \ {p}
      PROVE  Holding(q)' = Holding(q)
  <2>1. op'[q] = op[q] /\ file'[q] = file[q]
    BY <1>1
  <2> QED
    BY <2>1 DEF Holding, Refs
<1>5. Holding(p)' \subseteq Holding(p) \cup S
  <2>1. op'[p] = c /\ file'[p] = f
    BY <1>1
  <2>2. Refs(p)' = IF c = Idle THEN << >> ELSE c.refs
    BY <2>1 DEF Refs
  <2> QED
    BY <2>1, <2>2, HoldingIs
<1> QED
  BY <1>2, <1>3, <1>4, <1>5 DEF Steps1

\* Nothing but the host's files and descriptors changes.
LEMMA KernelUnchanged ==
  ASSUME IInv, UNCHANGED kernel,
         tree' \in Trees, export' \in Export, Agreed(export'), Kept(export, export')
  PROVE  IInv'
<1>1. UNCHANGED <<core, file, op, lost>>
  BY DEF kernel
<1>2. TypeOK' /\ CallsOK' /\ HeldInCore'
  BY <1>1 DEF IInv, TypeOK, CallsOK, HeldInCore, Holding, Refs, Trees
<1>3. TagsRight'
  BY <1>1 DEF IInv, TagsRight, Kept, Live
<1> QED
  BY <1>2, <1>3 DEF IInv

\* What iget()'s caller does with the inode: it is held, or was only locked.
LEMMA HoldsGoes ==
  ASSUME IInv, NEW p \in Procs, op[p] # Idle, op[p].at \in {"iget", "eexist", "dget"}, Holds(p)
  PROVE  Steps1(p, {op[p].ino})
<1> DEFINE c == op[p]
           i == c.ino
<1>1. c \in Call /\ CallOK(c) /\ i \in Objects /\ file[p] \in Objects \cup {None}
  BY DEF IInv, TypeOK, CallsOK, Call
<1>2. file \in [Procs -> Objects \cup {None}] /\ Holding(p) = Listing(file[p], c.refs)
  BY HoldingIs DEF IInv, TypeOK, Refs
<1>3. UNCHANGED file => file' = [file EXCEPT ![p] = file[p]]
  BY <1>2
<1>4. Idle \notin Call
  BY DEF Idle, Call, Calls
<1>5. CASE c.at = "iget" /\ c.do = "open"
  <2>1. Goes(p, Idle) /\ file' = [file EXCEPT ![p] = i]
    BY <1>5 DEF Holds, Ends
  <2>2. Listing(i, << >>) \subseteq Holding(p) \cup {i}
    BY Listings
  <2> QED
    BY <1>1, <2>1, <2>2, GoesTo
<1>6. CASE c.at = "iget" /\ c.do = "creat"
  <2> DEFINE d == [c EXCEPT !.at = "trunc", !.refs = <<i>>]
  <2>1. Goes(p, d) /\ UNCHANGED file
    BY <1>6 DEF Holds
  <2>2. d \in Call /\ CallOK(d) /\ d.refs = <<i>>
    BY <1>1, <1>6, ListsTyped DEF CallOK, Call, Steps
  <2>3. Listing(file[p], d.refs) \subseteq Holding(p) \cup {i}
    BY <1>2, <2>2, Listings DEF Listing
  <2> HIDE DEF d
  <2> QED
    BY <1>1, <1>3, <1>4, <2>1, <2>2, <2>3, GoesTo
<1>7. CASE c.at = "iget" /\ c.do = "link"
  <2> DEFINE d == [c EXCEPT !.at = "nlink", !.refs = <<i>>]
  <2>1. Goes(p, d) /\ UNCHANGED file
    BY <1>7 DEF Holds
  <2>2. d \in Call /\ CallOK(d) /\ d.refs = <<i>>
    BY <1>1, <1>7, ListsTyped DEF CallOK, Call, Steps
  <2>3. Listing(file[p], d.refs) \subseteq Holding(p) \cup {i}
    BY <1>2, <2>2, Listings DEF Listing
  <2> HIDE DEF d
  <2> QED
    BY <1>1, <1>3, <1>4, <2>1, <2>2, <2>3, GoesTo
<1>8. CASE c.at = "eexist"
  <2> DEFINE d == [c EXCEPT !.at = "put", !.refs = <<i, @[1]>>]
  <2>1. c.do = "link"
    BY <1>1, <1>8 DEF CallOK
  <2>2. PICK j \in Objects : c.refs = <<j>>
    BY <1>1, <1>8 DEF CallOK
  <2>3. Goes(p, d) /\ UNCHANGED file
    BY <1>8, <2>1 DEF Holds
  <2>4. d \in Call /\ CallOK(d) /\ d.refs = <<i, j>>
    <3>1. c.refs[1] = j
      BY <2>2
    <3>2. d = [c EXCEPT !.at = "put", !.refs = <<i, j>>]
      BY <3>1, <1>1 DEF Call
    <3>3. <<i, j>> # << >>
      OBVIOUS
    <3> HIDE DEF d
    <3> QED
      BY <1>1, <3>2, <3>3, ListsTyped DEF CallOK, Call, Steps
  <2>5. Listing(file[p], d.refs) \subseteq Holding(p) \cup {i}
    <3>1. Listing(file[p], <<i, j>>) = ({file[p]} \ {None}) \cup {i, j}
      BY ListingTwo
    <3>2. Listing(file[p], <<j>>) = ({file[p]} \ {None}) \cup {j}
      BY Listings
    <3>3. Holding(p) = Listing(file[p], <<j>>)
      BY <1>2, <2>2
    <3> QED
      BY <3>1, <3>2, <3>3, <2>4
  <2> HIDE DEF d
  <2> QED
    BY <1>1, <1>3, <1>4, <2>3, <2>4, <2>5, GoesTo
<1>9. CASE c.at = "dget" /\ core[i] # None
  <2>1. Goes(p, Idle) /\ UNCHANGED file
    BY <1>1, <1>9 DEF Holds, Ends, CallOK
  <2>2. Listing(file[p], << >>) \subseteq Holding(p) \cup {i}
    BY <1>2, Listings DEF Listing
  <2> QED
    BY <1>1, <1>3, <2>1, <2>2, GoesTo
<1>10. CASE c.at = "dget" /\ core[i] = None
  <2> DEFINE d == [c EXCEPT !.at = "put", !.refs = <<i>>]
  <2>1. Goes(p, d) /\ UNCHANGED file
    BY <1>1, <1>10 DEF Holds, CallOK
  <2>2. d \in Call /\ CallOK(d) /\ d.refs = <<i>>
    BY <1>1, <1>10, ListsTyped DEF CallOK, Call, Steps
  <2>3. Listing(file[p], d.refs) \subseteq Holding(p) \cup {i}
    BY <1>2, <2>2, Listings DEF Listing
  <2> HIDE DEF d
  <2> QED
    BY <1>1, <1>3, <1>4, <2>1, <2>2, <2>3, GoesTo
<1> QED
  BY <1>1, <1>5, <1>6, <1>7, <1>8, <1>9, <1>10 DEF CallOK, Call, Calls

Cores == [Objects -> Tags \cup {None, Dead}]

\* A step of p that enters no inode and takes none away.
LEMMA CoreUnchanged ==
  ASSUME IInv, NEW p \in Procs, NEW S, Steps1(p, S), \A j \in S : core[j] # None,
         UNCHANGED <<core, lost>>,
         tree' \in Trees, export' \in Export, Agreed(export'), Kept(export, export')
  PROVE  IInv'
<1>1. TypeOK' /\ CallsOK'
  BY DEF IInv, TypeOK, Steps1, Trees
<1>2. HeldInCore'
  BY DEF IInv, HeldInCore, Steps1
<1>3. TagsRight'
  BY DEF IInv, TagsRight, Kept, Live
<1> QED
  BY <1>1, <1>2, <1>3 DEF IInv

\* A step of p that changes the core.
LEMMA CoreChanged ==
  ASSUME IInv, NEW p \in Procs, NEW S, Steps1(p, S),
         core' \in Cores, lost' \subseteq Objects, TagsRight',
         tree' \in Trees, export' \in Export, Agreed(export'),
         \A q \in Procs : \A j \in Holding(q)' : core'[j] # None
  PROVE  IInv'
<1>1. TypeOK' /\ CallsOK'
  BY DEF IInv, TypeOK, Steps1, Trees, Cores
<1>2. HeldInCore'
  BY DEF HeldInCore
<1> QED
  BY <1>1, <1>2 DEF IInv

LEMMA AfterCore ==
  ASSUME NEW c \in Cores
  PROVE  /\ After(c) \in Cores
         /\ \A j \in Objects : After(c)[j] # None <=> c[j] # None
         /\ \A j \in Objects : c[j] \in Tags /\ Live(export', c[j]) => After(c)[j] = c[j]
<1>1. Dead # None /\ None \notin Tags
  BY SizeAssumption DEF Dead, None, Tags
<1> QED
  BY <1>1 DEF After, Cores

\* Who holds i, open or in a call, is among those that its count counts.
LEMMA HoldersCount ==
  ASSUME IInv, NEW q \in Procs, NEW i \in Objects, i \in Holding(q)
  PROVE  q \in Openers(i) \/ \E k \in {1, 2} : <<q, k>> \in Users(i)
<1>1. CASE i = file[q]
  BY <1>1 DEF Openers
<1>2. CASE i # file[q]
  <2>1. PICK k \in DOMAIN Refs(q) : Refs(q)[k] = i
    BY <1>2 DEF Holding
  <2>2. Refs(q) \in Lists
    BY ListsTyped DEF IInv, TypeOK, Refs, Call
  <2>3. \A r \in Lists : DOMAIN r \subseteq {1, 2}
    BY DEF Lists
  <2> QED
    BY <2>1, <2>2, <2>3 DEF Users
<1> QED
  BY <1>1, <1>2

\* A count of one is one process's, in one place.
LEMMA LastHolder ==
  ASSUME NEW i, Count(i) = 1
  PROVE  /\ \A p \in Openers(i) : Openers(i) = {p} /\ Users(i) = {}
         /\ \A r \in Users(i) : Users(i) = {r} /\ Openers(i) = {}
<1>1. IsFiniteSet(Openers(i))
  BY ProcsAssumption, FS_Subset DEF Openers
<1>2. IsFiniteSet(Users(i))
  <2>1. IsFiniteSet({1, 2})
    <3>1. IsFiniteSet({1}) /\ {1, 2} = {1} \cup {2}
      BY FS_Singleton
    <3> QED
      BY <3>1, FS_AddElement
  <2>2. IsFiniteSet(Procs \X {1, 2})
    BY <2>1, ProcsAssumption, FS_Product
  <2> QED
    BY <2>2, FS_Subset DEF Users
<1>3. Cardinality(Openers(i)) \in Nat /\ Cardinality(Users(i)) \in Nat
  BY <1>1, <1>2, FS_CardinalityType
<1>4. \/ Cardinality(Openers(i)) = 0 /\ Cardinality(Users(i)) = 1
      \/ Cardinality(Openers(i)) = 1 /\ Cardinality(Users(i)) = 0
  BY <1>3 DEF Count
<1>5. CASE Cardinality(Openers(i)) = 0 /\ Cardinality(Users(i)) = 1
  <2>1. Openers(i) = {}
    BY <1>1, <1>5, FS_EmptySet
  <2>2. \E x : Users(i) = {x}
    BY <1>2, <1>5, FS_Singleton
  <2> QED
    BY <2>1, <2>2
<1>6. CASE Cardinality(Openers(i)) = 1 /\ Cardinality(Users(i)) = 0
  <2>1. Users(i) = {}
    BY <1>2, <1>6, FS_EmptySet
  <2>2. \E x : Openers(i) = {x}
    BY <1>1, <1>6, FS_Singleton
  <2> QED
    BY <2>1, <2>2
<1> QED
  BY <1>4, <1>5, <1>6

\* A put that is not the last changes nothing; the last takes i out of the core
\* and its tag from no inode that is not lost.
LEMMA IputKeeps ==
  ASSUME IInv, NEW i \in Objects, Iput(i)
  PROVE  /\ tree' \in Trees /\ export' \in Export /\ Agreed(export')
         /\ core' \in Cores /\ lost' \subseteq Objects /\ TagsRight'
         /\ \A j \in Objects : core[j] # None /\ core'[j] = None => j = i /\ Count(i) = 1
<1>0. Tables /\ core \in Cores /\ lost \subseteq Objects
  BY DEF IInv, TypeOK, Tables, Trees, Cores
<1>1. CASE Count(i) # 1
  BY <1>0, <1>1 DEF Iput, share, Tables, IInv, TagsRight, Live
<1>2. CASE Count(i) = 1
  <2> DEFINE c == [core EXCEPT ![i] = None]
  <2>1. /\ export' = Released(export, core[i]) /\ tree' = tree
        /\ core' = After(c)
        /\ lost' = (lost \cup {j \in Objects : core[j] = core[i]}) \ {i}
    BY <1>2 DEF Iput, Nput
  <2>2. c \in Cores /\ c[i] = None /\ \A j \in Objects \ {i} : c[j] = core[j]
    BY <1>0 DEF Cores
  <2> HIDE DEF c
  <2>3. /\ export' \in Export /\ Agreed(export')
        /\ \A u \in Tags : u # core[i] /\ Live(export, u) =>
             Live(export', u) /\ export'.handles[u].ino = export.handles[u].ino
    BY <1>0, <2>1, Releasing DEF Tables
  <2>4. ASSUME NEW j \in Objects, core'[j] # None, j \notin lost'
        PROVE  Live(export', core'[j]) /\ export'.handles[core'[j]].ino = j
    <3>1. j # i /\ core[j] # None
      BY <2>1, <2>2, <2>4, AfterCore
    <3>2. j \notin lost /\ core[j] # core[i]
      BY <2>1, <2>4, <3>1
    <3>3. Live(export, core[j]) /\ export.handles[core[j]].ino = j /\ core[j] \in Tags
      BY <3>1, <3>2 DEF IInv, TagsRight, Live
    <3>4. Live(export', core[j]) /\ export'.handles[core[j]].ino = j
      BY <2>3, <3>2, <3>3
    <3>5. core'[j] = core[j]
      BY <2>1, <2>2, <3>1, <3>3, <3>4, AfterCore
    <3> QED
      BY <3>4, <3>5
  <2> QED
    BY <1>0, <1>2, <2>1, <2>2, <2>3, <2>4, AfterCore DEF TagsRight, Tables
<1> QED
  BY <1>1, <1>2

-----------------------------------------------------------------------------
(* The steps.                                                              *)

LEMMA Typed ==
  ASSUME IInv
  PROVE  /\ Tables /\ core \in Cores /\ lost \subseteq Objects
         /\ op \in [Procs -> Call \cup {Idle}] /\ file \in [Procs -> Objects \cup {None}]
BY DEF IInv, TypeOK, Tables, Trees, Cores

LEMMA HeldTyped ==
  ASSUME IInv, NEW q \in Procs
  PROVE  Holding(q) \subseteq Objects
<1>1. Refs(q) \in Lists
  BY Typed, ListsTyped DEF Refs, Call
<1>2. \A r \in Lists : \A k \in DOMAIN r : r[k] \in Objects
  BY DEF Lists
<1>3. file[q] \in Objects \cup {None}
  BY Typed
<1> QED
  BY <1>1, <1>2, <1>3 DEF Holding

LEMMA InoTyped ==
  ASSUME NEW t, Grown(t), t # None
  PROVE  Ino(t) \in Objects /\ t \in Tags
BY DEF Grown, Ino, Live, Export, Handle

\* The call of p goes on without taking or putting an inode.
LEMMA RefsKept ==
  ASSUME IInv, NEW p \in Procs, op[p] # Idle, NEW c \in Call, CallOK(c), c.refs = op[p].refs,
         Goes(p, c), UNCHANGED file, NEW S
  PROVE  Steps1(p, S)
<1>1. file[p] \in Objects \cup {None} /\ file' = [file EXCEPT ![p] = file[p]] /\ c # Idle
  BY Typed DEF Idle, Call, Calls
<1>2. Listing(file[p], c.refs) = Holding(p)
  BY HoldingIs DEF Refs
<1>3. Listing(file[p], IF c = Idle THEN << >> ELSE c.refs) \subseteq Holding(p) \cup S
  BY <1>1, <1>2
<1> QED
  BY <1>1, <1>3, GoesTo

\* The call of p ends.
LEMMA EndsCall ==
  ASSUME IInv, NEW p \in Procs, Ends(p), UNCHANGED file, NEW S
  PROVE  Steps1(p, S) /\ Holding(p)' = {file[p]} \ {None}
<1>1. file[p] \in Objects \cup {None} /\ file' = [file EXCEPT ![p] = file[p]]
  BY Typed
<1>2. Listing(file[p], << >>) = {file[p]} \ {None}
  BY Listings
<1>3. {file[p]} \ {None} \subseteq Holding(p) \cup S
  BY DEF Holding
<1>4. Steps1(p, S)
  BY <1>1, <1>2, <1>3, GoesTo DEF Ends
<1>5. Refs(p)' = << >>
  BY Typed DEF Ends, Goes, Refs
<1> QED
  BY <1>2, <1>4, <1>5, HoldingIs

LEMMA HostKeeps ==
  ASSUME IInv, HostStep \/ Cross
  PROVE  IInv'
<1>1. CASE HostStep
  BY <1>1, Typed, HostTables, KernelUnchanged DEF HostStep
<1>2. CASE Cross
  BY <1>2, Typed, NgetRootTables, KernelUnchanged DEF Cross
<1> QED
  BY <1>1, <1>2

LEMMA TransferKeeps ==
  ASSUME IInv, NEW p \in Procs, NEW o, Read(p, o) \/ Write(p, o)
  PROVE  IInv'
BY Typed, TransferTables, KernelUnchanged DEF Read, Write

LEMMA LookupKeeps ==
  ASSUME IInv, NEW p \in Procs, NEW n \in Names, NEW d \in Calls \ {"unlink"}, Lookup(p, d, n)
  PROVE  IInv'
<1>1. PICK t \in Tags \cup {None} :
        /\ IF d = "creat" THEN NnamiCreat(n, NewTag, t) ELSE Nnami(n, NewTag, t)
        /\ IF t = None THEN UNCHANGED op ELSE Enter(p, d, Ino(t), "iget")
  BY DEF Lookup
<1>2. Grown(t)
  BY <1>1, Typed, NnamiTables, NnamiCreatTables
<1>3. UNCHANGED <<core, file, lost>> /\ op[p] = Idle
  BY DEF Lookup, Begins
<1>4. CASE t = None
  BY <1>1, <1>2, <1>3, <1>4, KernelUnchanged DEF kernel, Grown
<1>5. CASE t # None
  <2> DEFINE c == [do |-> d, at |-> "iget", ino |-> Ino(t), refs |-> << >>]
  <2>1. c \in Call /\ CallOK(c)
    BY <1>2, <1>5, InoTyped, ListsTyped DEF CallOK, Call, Steps
  <2>2. Goes(p, c) /\ file' = [file EXCEPT ![p] = file[p]] /\ file[p] \in Objects \cup {None}
    BY <1>1, <1>3, <1>5, Typed DEF Enter
  <2>3. Listing(file[p], c.refs) \subseteq Holding(p) /\ c # Idle
    BY <1>3, HoldingIs DEF Refs, Idle
  <2> HIDE DEF c
  <2>4. Steps1(p, {})
    BY <2>1, <2>2, <2>3, GoesTo
  <2> QED
    BY <1>2, <1>3, <2>4, CoreUnchanged DEF Grown
<1> QED
  BY <1>4, <1>5

LEMMA TruncKeeps ==
  ASSUME IInv, NEW p \in Procs, Trunc(p)
  PROVE  IInv'
<1> DEFINE i == op[p].ino
<1>1. /\ op[p] # Idle /\ op[p] \in Call /\ CallOK(op[p]) /\ op[p].at = "trunc"
      /\ op[p].refs = <<i>> /\ i \in Objects
  BY Typed DEF Trunc, At, IInv, CallsOK, CallOK, Call
<1>2. PICK o \in Objects \cup {None} :
        /\ Ntrunc(core[i], o)
        /\ IF o = None THEN Goes(p, [op[p] EXCEPT !.at = "put"]) /\ UNCHANGED file
           ELSE Ends(p) /\ file' = [file EXCEPT ![p] = i]
  BY DEF Trunc
<1>3. tree' \in Trees /\ export' \in Export /\ Agreed(export') /\ Kept(export, export')
  BY <1>2, Typed, TransferTables
<1>4. UNCHANGED <<core, lost>>
  BY DEF Trunc
<1>5. Steps1(p, {})
  <2>1. CASE o = None
    <3> DEFINE c == [op[p] EXCEPT !.at = "put"]
    <3>1. <<i>> # << >>
      OBVIOUS
    <3>2. c \in Call /\ CallOK(c) /\ c.refs = op[p].refs
      BY <1>1, <3>1 DEF CallOK, Call, Steps
    <3> HIDE DEF c
    <3> QED
      BY <1>1, <1>2, <2>1, <3>2, RefsKept DEF c
  <2>2. CASE o # None
    <3>1. i \in Holding(p)
      <4>1. Holding(p) = Listing(file[p], <<i>>)
        BY <1>1, HoldingIs DEF Refs
      <4>2. Listing(file[p], <<i>>) = ({file[p]} \ {None}) \cup {i}
        BY Listings
      <4> QED
        BY <4>1, <4>2
    <3>2. Listing(i, << >>) \subseteq Holding(p) \cup {}
      BY <3>1, Listings
    <3> QED
      BY <1>1, <1>2, <2>2, <3>2, GoesTo DEF Ends
  <2> QED
    BY <2>1, <2>2
<1> QED
  BY <1>3, <1>4, <1>5, CoreUnchanged

LEMMA NlinkKeeps ==
  ASSUME IInv, NEW p \in Procs, Nlink(p)
  PROVE  IInv'
<1> DEFINE i == op[p].ino
<1>1. /\ op[p] # Idle /\ op[p] \in Call /\ CallOK(op[p]) /\ op[p].at = "nlink"
      /\ op[p].do = "link" /\ op[p].refs = <<i>> /\ i \in Objects
  BY Typed DEF Nlink, At, IInv, CallsOK, CallOK, Call
<1>2. UNCHANGED <<core, file, lost>>
  BY DEF Nlink
<1> DEFINE c == [op[p] EXCEPT !.at = "put"]
<1>3. c \in Call /\ CallOK(c) /\ c.refs = op[p].refs
  <2>1. <<i>> # << >>
    OBVIOUS
  <2> QED
    BY <1>1, <2>1 DEF CallOK, Call, Steps
<1>4. ASSUME Goes(p, c)
      PROVE  Steps1(p, {})
  <2> HIDE DEF c
  <2> QED
    BY <1>1, <1>2, <1>3, <1>4, RefsKept
<1>5. ASSUME NEW n \in Names, NEW t \in Tags \cup {None}, NnamiLink(n, i, NewTag, t),
             Goes(p, IF t = None THEN c ELSE [op[p] EXCEPT !.at = "eexist", !.ino = Ino(t)])
      PROVE  IInv'
  <2>1. Grown(t)
    BY <1>1, <1>5, Typed, NnamiLinkTables
  <2>2. Steps1(p, {})
    <3>1. CASE t = None
      BY <1>4, <1>5, <3>1
    <3>2. CASE t # None
      <4> DEFINE d == [op[p] EXCEPT !.at = "eexist", !.ino = Ino(t)]
      <4>1. d \in Call /\ CallOK(d) /\ d.refs = op[p].refs
        BY <1>1, <2>1, <3>2, InoTyped DEF CallOK, Call, Steps
      <4>2. Goes(p, d)
        BY <1>5, <3>2
      <4> HIDE DEF d
      <4> QED
        BY <1>1, <1>2, <4>1, <4>2, RefsKept
    <3> QED
      BY <3>1, <3>2
  <2> QED
    BY <1>2, <2>1, <2>2, CoreUnchanged DEF Grown
<1>6. ASSUME Goes(p, c), UNCHANGED share
      PROVE  IInv'
  <2>1. tree' \in Trees /\ export' \in Export /\ Agreed(export') /\ Kept(export, export')
    BY <1>6, Typed DEF share, Tables, Kept
  <2> QED
    BY <1>2, <1>4, <1>6, <2>1, CoreUnchanged
<1> HIDE DEF c
<1> QED
  BY <1>5, <1>6 DEF Nlink, c

LEMMA IgetKeeps ==
  ASSUME IInv, NEW p \in Procs, Iget(p)
  PROVE  IInv'
<1> DEFINE i == op[p].ino
           c == [op[p] EXCEPT !.at = "stray"]
<1>1. /\ op[p] # Idle /\ op[p].at \in {"iget", "eexist", "dget"}
      /\ op[p] \in Call /\ i \in Objects
  BY Typed DEF Iget, Call
<1>2. CASE core[i] # None
  <2>1. Holds(p) /\ UNCHANGED <<share, core, lost>>
    BY <1>2 DEF Iget
  <2>2. Steps1(p, {i})
    BY <1>1, <2>1, HoldsGoes
  <2>3. tree' \in Trees /\ export' \in Export /\ Agreed(export') /\ Kept(export, export')
    BY <2>1, Typed DEF share, Tables, Kept
  <2> QED
    BY <1>2, <2>1, <2>2, <2>3, CoreUnchanged
<1>3. CASE core[i] = None
  <2>1. PICK t \in Tags \cup {None} :
          /\ Nget(i, NewTag, t)
          /\ IF t = None THEN Goes(p, c) /\ UNCHANGED <<core, file, lost>>
             ELSE Holds(p) /\ Entered(i, t)
    BY <1>3 DEF Iget
  <2>2. Grown(t)
    BY <1>1, <2>1, Typed, NgetTables
  <2>3. CASE t = None
    <3>1. c \in Call /\ CallOK(c) /\ c.refs = op[p].refs
      BY <1>1 DEF CallOK, Call, Steps
    <3>2. Goes(p, c) /\ UNCHANGED <<core, file, lost>>
      BY <2>1, <2>3
    <3> HIDE DEF c
    <3>3. Steps1(p, {})
      BY <1>1, <3>1, <3>2, RefsKept
    <3> QED
      BY <2>2, <3>2, <3>3, CoreUnchanged DEF Grown
  <2>4. CASE t # None
    <3>1. Steps1(p, {i})
      BY <1>1, <2>1, <2>4, HoldsGoes
    <3>2. t \in Tags /\ Live(export', t) /\ Ino(t) = export'.handles[t].ino
      BY <2>2, <2>4, InoTyped DEF Grown, Ino
    <3>3. /\ core' = [core EXCEPT ![i] = t]
          /\ lost' = IF Ino(t) = i THEN lost ELSE lost \cup {i}
      BY <2>1, <2>4 DEF Entered
    <3>4. core' \in Cores /\ core'[i] = t /\ \A j \in Objects \ {i} : core'[j] = core[j]
      BY <1>1, <3>2, <3>3, Typed DEF Cores
    <3>5. lost' \subseteq Objects /\ lost \subseteq lost'
      BY <1>1, <3>3, Typed
    <3>6. TagsRight'
      <4>1. ASSUME NEW j \in Objects, core'[j] # None, j \notin lost'
            PROVE  Live(export', core'[j]) /\ export'.handles[core'[j]].ino = j
        <5>1. CASE j = i
          BY <4>1, <5>1, <3>2, <3>3, <3>4
        <5>2. CASE j # i
          <6>1. Live(export, core[j]) /\ export.handles[core[j]].ino = j /\ core[j] \in Tags
            BY <4>1, <5>2, <3>4, <3>5 DEF IInv, TagsRight, Live
          <6> QED
            BY <6>1, <5>2, <3>4, <2>2 DEF Grown, Kept
        <5> QED
          BY <5>1, <5>2
      <4> QED
        BY <4>1 DEF TagsRight
    <3>7. ASSUME NEW q \in Procs, NEW j \in Holding(q)'
          PROVE  core'[j] # None
      <4>1. CASE j = i
        BY <4>1, <3>2, <3>4, SizeAssumption DEF Tags, None
      <4>2. CASE j # i
        <5>1. j \in Holding(q)
          BY <4>2, <3>1, <3>7 DEF Steps1
        <5>2. core'[j] = core[j]
          BY <4>2, <3>3
        <5> QED
          BY <5>1, <5>2 DEF IInv, HeldInCore
      <4> QED
        BY <4>1, <4>2
    <3> QED
      BY <2>2, <3>1, <3>4, <3>5, <3>6, <3>7, CoreChanged DEF Grown
  <2> QED
    BY <2>3, <2>4
<1> QED
  BY <1>2, <1>3

\* A request that releases tags, whose inodes are lost with them, and a step of
\* p that holds nothing new.
LEMMA Loses ==
  ASSUME IInv, NEW p \in Procs, Steps1(p, {}), core' = After(core),
         tree' \in Trees, export' \in Export, Agreed(export'),
         lost' \subseteq Objects, lost \subseteq lost',
         \A j \in Objects \ lost' : core[j] \in Tags /\ Live(export, core[j]) =>
             Live(export', core[j]) /\ export'.handles[core[j]].ino = export.handles[core[j]].ino
  PROVE  IInv'
<1>0. core \in Cores
  BY Typed
<1>1. core' \in Cores
  BY <1>0, AfterCore
<1>2. ASSUME NEW j \in Objects, core'[j] # None, j \notin lost'
      PROVE  Live(export', core'[j]) /\ export'.handles[core'[j]].ino = j
  <2>1. core[j] # None /\ j \notin lost
    BY <1>0, <1>2, AfterCore
  <2>2. Live(export, core[j]) /\ export.handles[core[j]].ino = j /\ core[j] \in Tags
    BY <2>1 DEF IInv, TagsRight, Live
  <2>3. Live(export', core[j]) /\ export'.handles[core[j]].ino = j
    BY <1>2, <2>2
  <2>4. core'[j] = core[j]
    BY <1>0, <2>2, <2>3, AfterCore
  <2> QED
    BY <2>3, <2>4
<1>3. TagsRight'
  BY <1>2 DEF TagsRight
<1>4. ASSUME NEW q \in Procs, NEW j \in Holding(q)'
      PROVE  core'[j] # None
  <2>1. j \in Holding(q)
    BY <1>4 DEF Steps1
  <2>2. core[j] # None
    BY <2>1 DEF IInv, HeldInCore
  <2>3. j \in Objects
    BY <2>1, HeldTyped
  <2> QED
    BY <1>0, <2>2, <2>3, AfterCore
<1> QED
  BY <1>1, <1>3, <1>4, CoreChanged

LEMMA StrayKeeps ==
  ASSUME IInv, NEW p \in Procs, Stray(p)
  PROVE  IInv'
<1>1. op[p] # Idle /\ op[p] \in Call /\ CallOK(op[p]) /\ op[p].at = "stray" /\ UNCHANGED file
  BY Typed DEF Stray, At, IInv, CallsOK
<1>2. PICK t \in Tags \cup {None} :
        /\ Nput(t) /\ core' = After(core)
        /\ lost' = lost \cup {j \in Objects : core[j] = t /\ t # None}
  BY DEF Stray
<1>3. /\ export' \in Export /\ Agreed(export') /\ tree' \in Trees
      /\ \A u \in Tags : u # t /\ Live(export, u) =>
           Live(export', u) /\ export'.handles[u].ino = export.handles[u].ino
  BY <1>2, Typed, Releasing DEF Nput, Tables
<1>4. Steps1(p, {})
  <2> DEFINE c == [op[p] EXCEPT !.at = "panic"]
             d == [op[p] EXCEPT !.at = "put"]
  <2>1. c \in Call /\ CallOK(c) /\ c.refs = op[p].refs
    BY <1>1 DEF CallOK, Call, Steps
  <2>2. op[p].refs # << >> => d \in Call /\ CallOK(d) /\ d.refs = op[p].refs
    BY <1>1 DEF CallOK, Call, Steps
  <2>3. \/ Goes(p, c)
        \/ Ends(p)
        \/ op[p].refs # << >> /\ Goes(p, d)
    BY DEF Stray
  <2> HIDE DEF c, d
  <2> QED
    BY <1>1, <2>1, <2>2, <2>3, RefsKept, EndsCall
<1>5. lost' \subseteq Objects /\ lost \subseteq lost'
  BY <1>2, Typed
<1>6. \A j \in Objects \ lost' : core[j] \in Tags => core[j] # t
  BY <1>2, SizeAssumption DEF Tags, None
<1> QED
  BY <1>2, <1>3, <1>4, <1>5, <1>6, Loses

LEMMA UnlinkKeeps ==
  ASSUME IInv, NEW p \in Procs, NEW n \in Names, Unlink(p, n)
  PROVE  IInv'
<1>1. op[p] = Idle /\ UNCHANGED file
  BY DEF Unlink, Begins
<1>2. PICK i \in Objects \cup {None} :
        /\ NnamiDel(n, NewTag, i) /\ core' = After(core)
        /\ IF i = None THEN UNCHANGED <<op, lost>>
           ELSE /\ Enter(p, "unlink", i, "dget") \/ UNCHANGED op
                /\ lost' = lost \cup {j \in Objects : core[j] # None
                                                      /\ core[j] = export.handleByIno[i]}
  BY DEF Unlink
<1>3. /\ tree' \in Trees /\ export' \in Export /\ Agreed(export')
      /\ i = None => Kept(export, export')
      /\ i # None => \A t \in Tags : Live(export, t) /\ t # export.handleByIno[i] =>
                        Live(export', t) /\ export'.handles[t].ino = export.handles[t].ino
  BY <1>2, Typed, NnamiDelTables
<1>4. Steps1(p, {})
  <2>1. ASSUME UNCHANGED op
        PROVE  Steps1(p, {})
    BY <1>1, <2>1, Typed DEF Steps1, IInv, CallsOK, Holding, Refs
  <2>2. ASSUME i # None, Enter(p, "unlink", i, "dget")
        PROVE  Steps1(p, {})
    <3> DEFINE c == [do |-> "unlink", at |-> "dget", ino |-> i, refs |-> << >>]
    <3>1. c \in Call /\ CallOK(c)
      BY <1>2, <2>2, ListsTyped DEF CallOK, Call, Steps, Calls
    <3>2. Goes(p, c) /\ file' = [file EXCEPT ![p] = file[p]] /\ file[p] \in Objects \cup {None}
      BY <1>1, <2>2, Typed DEF Enter
    <3>3. Listing(file[p], c.refs) \subseteq Holding(p) /\ c # Idle
      BY <1>1, HoldingIs DEF Refs, Idle
    <3> HIDE DEF c
    <3> QED
      BY <3>1, <3>2, <3>3, GoesTo
  <2> QED
    BY <1>2, <2>1, <2>2
<1>5. lost' \subseteq Objects /\ lost \subseteq lost'
  BY <1>2, Typed
<1>6. ASSUME NEW j \in Objects \ lost', core[j] \in Tags, Live(export, core[j])
      PROVE  Live(export', core[j]) /\ export'.handles[core[j]].ino = export.handles[core[j]].ino
  <2>1. CASE i = None
    BY <1>3, <1>6, <2>1 DEF Kept
  <2>2. CASE i # None
    <3>1. core[j] # export.handleByIno[i]
      BY <1>2, <1>6, <2>2, SizeAssumption DEF Tags, None
    <3> QED
      BY <1>3, <1>6, <2>2, <3>1
  <2> QED
    BY <2>1, <2>2
<1> QED
  BY <1>2, <1>3, <1>4, <1>5, <1>6, Loses

\* p puts i, and if that was the last reference nobody has it afterwards.
LEMMA PutsDown ==
  ASSUME IInv, NEW p \in Procs, NEW i \in Objects, Iput(i), Steps1(p, {}),
         Count(i) = 1 => \A q \in Procs : i \notin Holding(q)'
  PROVE  IInv'
<1>1. ASSUME NEW q \in Procs, NEW j \in Holding(q)'
      PROVE  core'[j] # None
  <2>1. j \in Holding(q)
    BY <1>1 DEF Steps1
  <2>2. j \in Objects /\ core[j] # None
    BY <2>1, HeldTyped DEF IInv, HeldInCore
  <2>3. ~(j = i /\ Count(i) = 1)
    BY <1>1
  <2> QED
    BY <2>2, <2>3, IputKeeps
<1> QED
  BY <1>1, IputKeeps, CoreChanged

\* Who has the one reference that the count counts is the only holder.
LEMMA OnlyHolder ==
  ASSUME IInv, NEW i \in Objects, Count(i) = 1, NEW p \in Procs,
         p \in Openers(i) \/ \E k \in {1, 2} : <<p, k>> \in Users(i)
  PROVE  \A q \in Procs \ {p} : i \notin Holding(q)
<1> SUFFICES ASSUME NEW q \in Procs \ {p}, i \in Holding(q)
             PROVE  FALSE
  OBVIOUS
<1>1. q \in Openers(i) \/ \E k \in {1, 2} : <<q, k>> \in Users(i)
  BY HoldersCount
<1>2. \A k, l \in {1, 2} : <<p, k>> # <<q, l>>
  OBVIOUS
<1> QED
  BY <1>1, <1>2, LastHolder

LEMMA CloseKeeps ==
  ASSUME IInv, NEW p \in Procs, Close(p)
  PROVE  IInv'
<1> DEFINE i == file[p]
<1>1. i \in Objects /\ op[p] = Idle /\ Iput(i)
  BY Typed DEF Close, Uses
<1>2. UNCHANGED op /\ file' = [file EXCEPT ![p] = None]
  BY DEF Close
<1>3. Refs(p) = << >> /\ Refs(p)' = << >>
  BY <1>1, <1>2 DEF Refs
<1>4. Holding(p)' = {}
  <2>1. Holding(p)' = Listing(file'[p], << >>) /\ file'[p] = None
    BY <1>2, <1>3, HoldingIs, Typed
  <2> QED
    BY <2>1, Listings
<1>5. \A q \in Procs \ {p} : Holding(q)' = Holding(q)
  BY <1>2, Typed DEF Holding, Refs
<1>6. Steps1(p, {})
  BY <1>2, <1>4, <1>5, Typed DEF Steps1, IInv, CallsOK
<1>7. p \in Openers(i)
  BY DEF Openers
<1> HIDE DEF i
<1>8. ASSUME Count(i) = 1, NEW q \in Procs
      PROVE  i \notin Holding(q)'
  <2>1. CASE q = p
    BY <1>4, <2>1
  <2>2. CASE q # p
    <3>1. i \notin Holding(q)
      BY <1>1, <1>7, <1>8, <2>2, OnlyHolder
    <3> QED
      BY <3>1, <1>5, <2>2
  <2> QED
    BY <2>1, <2>2
<1> QED
  BY <1>1, <1>6, <1>8, PutsDown

LEMMA PutKeeps ==
  ASSUME IInv, NEW p \in Procs, Put(p)
  PROVE  IInv'
<1> DEFINE r == op[p].refs
           c == [op[p] EXCEPT !.refs = <<@[2]>>]
<1>1. /\ op[p] # Idle /\ op[p] \in Call /\ CallOK(op[p]) /\ op[p].at = "put"
      /\ r \in Lists /\ r # << >> /\ Refs(p) = r
      /\ UNCHANGED file /\ Iput(Head(r))
      /\ IF Len(r) = 1 THEN Ends(p) ELSE Goes(p, c)
  BY Typed DEF Put, At, IInv, CallsOK, CallOK, Call, Refs
<1>2. ASSUME NEW i \in Objects, r = <<i>>
      PROVE  IInv'
  <2>1. Iput(i) /\ Ends(p)
    <3>1. Head(<<i>>) = i /\ Len(<<i>>) = 1
      OBVIOUS
    <3> QED
      BY <1>1, <1>2, <3>1
  <2>2. Steps1(p, {}) /\ Holding(p)' = {file[p]} \ {None}
    BY <1>1, <2>1, EndsCall
  <2>3. <<p, 1>> \in Users(i)
    BY <1>1, <1>2 DEF Users
  <2>4. Count(i) = 1 => file[p] # i /\ \A q \in Procs \ {p} : i \notin Holding(q)
    <3>1. Count(i) = 1 => p \notin Openers(i)
      BY <2>3, LastHolder
    <3> QED
      BY <2>3, <3>1, OnlyHolder DEF Openers
  <2>5. Count(i) = 1 => \A q \in Procs : i \notin Holding(q)'
    BY <2>2, <2>4 DEF Steps1
  <2> QED
    BY <2>1, <2>2, <2>5, PutsDown
<1>3. ASSUME NEW i \in Objects, NEW j \in Objects, r = <<i, j>>
      PROVE  IInv'
  <2>1. /\ Iput(i) /\ Goes(p, c) /\ r[2] = j
        /\ Listing(file[p], r) = ({file[p]} \ {None}) \cup {i, j}
    <3>1. Head(<<i, j>>) = i /\ Len(<<i, j>>) = 2 /\ <<i, j>>[2] = j
      OBVIOUS
    <3> QED
      BY <1>1, <1>3, <3>1, ListingTwo
  <2>2. c \in Call /\ CallOK(c) /\ c.refs = <<j>>
    <3>1. c = [op[p] EXCEPT !.refs = <<j>>]
      BY <1>1, <2>1 DEF Call
    <3>2. <<j>> # << >>
      OBVIOUS
    <3> HIDE DEF c
    <3> QED
      BY <1>1, <3>1, <3>2, ListsTyped DEF CallOK, Call
  <2>3. /\ Holding(p) = ({file[p]} \ {None}) \cup {i, j}
        /\ file' = [file EXCEPT ![p] = file[p]] /\ file[p] \in Objects \cup {None}
        /\ Listing(file[p], <<j>>) = ({file[p]} \ {None}) \cup {j}
    BY <1>1, <2>1, HoldingIs, Listings, Typed
  <2> HIDE DEF c
  <2>4. c # Idle
    BY <2>2 DEF Idle, Call, Calls
  <2>5. Steps1(p, {})
    BY <2>1, <2>2, <2>3, <2>4, GoesTo
  <2>6. Holding(p)' = ({file[p]} \ {None}) \cup {j}
    <3>1. op'[p] = c /\ file'[p] = file[p]
      BY <2>1, <2>3, Typed DEF Goes
    <3>2. Refs(p)' = <<j>>
      BY <3>1, <2>2, <2>4 DEF Refs
    <3> QED
      BY <3>1, <3>2, <2>3, HoldingIs
  <2>7. <<p, 1>> \in Users(i) /\ (j = i => <<p, 2>> \in Users(i))
    <3>1. DOMAIN <<i, j>> = {1, 2} /\ <<i, j>>[1] = i /\ <<i, j>>[2] = j
      OBVIOUS
    <3> QED
      BY <3>1, <1>1, <1>3 DEF Users
  <2>8. ASSUME Count(i) = 1
        PROVE  /\ file[p] # i /\ j # i
               /\ \A q \in Procs \ {p} : i \notin Holding(q)
    <3>1. Users(i) = {<<p, 1>>} /\ Openers(i) = {}
      BY <2>7, <2>8, LastHolder
    <3>2. <<p, 2>> # <<p, 1>>
      OBVIOUS
    <3> QED
      BY <2>7, <2>8, <3>1, <3>2, OnlyHolder DEF Openers
  <2>9. Count(i) = 1 => \A q \in Procs : i \notin Holding(q)'
    BY <2>5, <2>6, <2>8 DEF Steps1
  <2> QED
    BY <2>1, <2>5, <2>9, PutsDown
<1> HIDE DEF r
<1> QED
  BY <1>1, <1>2, <1>3 DEF Lists

-----------------------------------------------------------------------------
(* The invariant.                                                          *)

LEMMA Initially ==
  ASSUME Init
  PROVE  IInv
<1> DEFINE e == [pathByIno   |-> [o \in Objects |-> None],
                 handles     |-> [t \in Tags |-> Closed],
                 handleByIno |-> [o \in Objects |-> None]]
<1>1. e \in Export /\ tree \in Trees /\ export = Listed(e, tree)
  BY DEF Init, ShareInit, Export, Trees
<1>2. export \in Export /\ export.handles = e.handles /\ export.handleByIno = e.handleByIno
  BY <1>1, ListedNumbers
<1>3. Agreed(export)
  BY <1>2 DEF Agreed, Live
<1>4. \A p \in Procs : Holding(p) = {}
  <2>1. \A p \in Procs : Refs(p) = << >> /\ file[p] = None
    BY DEF Init, Refs
  <2> QED
    BY <2>1, HoldingIs, Listings
<1>5. TypeOK
  BY <1>1, <1>2 DEF Init, TypeOK, Trees
<1>6. CallsOK /\ TagsRight
  BY DEF Init, CallsOK, TagsRight
<1> QED
  BY <1>3, <1>4, <1>5, <1>6 DEF IInv, HeldInCore

LEMMA Inductive == IInv /\ [Next]_vars => IInv'
<1> SUFFICES ASSUME IInv, [Next]_vars
             PROVE  IInv'
  OBVIOUS
<1>1. CASE HostStep \/ Cross
  BY <1>1, HostKeeps
<1>2. ASSUME NEW p \in Procs, Begin(p)
      PROVE  IInv'
  <2>1. ASSUME NEW n \in Names, Unlink(p, n)
        PROVE  IInv'
    BY <2>1, UnlinkKeeps
  <2>2. ASSUME NEW n \in Names, NEW d \in Calls \ {"unlink"}, Lookup(p, d, n)
        PROVE  IInv'
    BY <2>2, LookupKeeps
  <2>3. CASE Close(p)
    BY <2>3, CloseKeeps
  <2>4. ASSUME NEW o \in Objects \cup {None}, Read(p, o) \/ Write(p, o)
        PROVE  IInv'
    BY <2>4, TransferKeeps
  <2> QED
    BY <1>2, <2>1, <2>2, <2>3, <2>4 DEF Begin
<1>3. ASSUME NEW p \in Procs, Continue(p)
      PROVE  IInv'
  BY <1>3, IgetKeeps, StrayKeeps, PutKeeps, TruncKeeps, NlinkKeeps DEF Continue
<1>4. CASE UNCHANGED vars
  <2>1. UNCHANGED kernel /\ tree' = tree /\ export' = export
    BY <1>4 DEF vars, kernel
  <2>2. tree' \in Trees /\ export' \in Export /\ Agreed(export') /\ Kept(export, export')
    BY <2>1, Typed DEF Tables, Kept
  <2> QED
    BY <2>1, <2>2, KernelUnchanged
<1> QED
  BY <1>1, <1>2, <1>3, <1>4 DEF Next

\* Every behaviour keeps the invariant that the theorems below are parts of.
THEOREM Invariance == Spec => []IInv
<1>1. Init => IInv
  BY Initially
<1>2. IInv /\ [Next]_vars => IInv'
  BY Inductive
<1> QED
  BY <1>1, <1>2, PTL DEF Spec

\* The tables of the server and the core of the kernel hold what their
\* declarations in Export.swift, iget.c and the calls say.
THEOREM TypeCorrect == Spec => []TypeOK
<1>1. IInv => TypeOK
  BY DEF IInv
<1> QED
  BY <1>1, Invariance, PTL

\* handles and handleByIno of an Export are inverse to each other whatever the
\* guest asks and the host's user does, so no file has two handles and no tag
\* two files.  Export.swift:160-257.
THEOREM TablesAgree == Spec => []Agreed(export)
<1>1. IInv => Agreed(export)
  BY DEF IInv
<1> QED
  BY <1>1, Invariance, PTL

\* For any number of processes, files, names and tags: an inode that somebody
\* holds is in core, and unless its tag was lost that tag is a live handle of
\* its own file.
THEOREM TagsAgreed == Spec => []TagsAgree
<1>1. IInv => TagsAgree
  BY DEF IInv, HeldInCore, TagsRight, TagsAgree
<1> QED
  BY <1>1, Invariance, PTL

-----------------------------------------------------------------------------
(* The file that a tag reaches.                                            *)

\* The path of a handle leads to its file, of which its descriptor is, until
\* the file has lost a name.
LeadsTo(h, t) == h.moved \/ (t[h.path] = h.ino /\ h.fd \in {None, h.ino})

Leads(e, t) == \A u \in Tags : Live(e, u) => LeadsTo(e.handles[u], t)

\* A name that is new takes no other away.
LEMMA MoreNames ==
  ASSUME NEW e \in Export, NEW t \in Trees, NEW n \in Names, NEW o, t[n] = None, Leads(e, t)
  PROVE  Leads(e, [t EXCEPT ![n] = o])
<1> DEFINE v == [t EXCEPT ![n] = o]
<1>1. SUFFICES ASSUME NEW u \in Tags, Live(e, u)
               PROVE  LeadsTo(e.handles[u], v)
  BY DEF Leads
<1>2. e.handles[u] \in Handle /\ LeadsTo(e.handles[u], t)
  BY <1>1 DEF Live, Export, Leads
<1>3. \A m \in Names : t[m] # None => v[m] = t[m]
  BY DEF Trees
<1>4. e.handles[u].path \in Names /\ e.handles[u].ino # None
  BY <1>2, SizeAssumption DEF Handle, None
<1> HIDE DEF v
<1> QED
  BY <1>2, <1>3, <1>4 DEF LeadsTo

\* A number that finds a handle finds its own.
LEMMA FoundHandle ==
  ASSUME NEW e \in Export, Agreed(e), NEW o \in Objects, e.handleByIno[o] # None
  PROVE  LET u == e.handleByIno[o]
         IN u \in Tags /\ Live(e, u) /\ e.handles[u].ino = o /\ e.handles[u] \in Handle
BY DEF Agreed, Live, Export

\* handle(forPath:): a handle that is made leads to its file, and the one that
\* is answered is that of the file the name leads to.
LEMMA PathLeads ==
  ASSUME NEW e \in Export, Agreed(e), NEW t \in Trees, NEW n \in Names, NEW new,
         t[n] # None /\ e.handleByIno[t[n]] = None => new \in Tags /\ ~Live(e, new),
         Leads(e, t)
  PROVE  LET a == HandleForPath(e, t, n, new)
         IN /\ Leads(a.export, t)
            /\ a.tag # None => /\ t[n] # None /\ a.export.handles[a.tag].ino = t[n]
                               /\ \/ a.tag = e.handleByIno[t[n]] /\ a.export.handles = e.handles
                                  \/ a.export.handles[a.tag].path = n
<1> DEFINE o == t[n]
           f == [e EXCEPT !.pathByIno[o] = n]
           a == HandleForPath(e, t, n, new)
<1>1. CASE o = None
  BY <1>1 DEF HandleForPath
<1>2. CASE o # None /\ e.handleByIno[o] # None
  <2>1. a = [tag |-> e.handleByIno[o], export |-> f] /\ o \in Objects
    BY <1>2 DEF HandleForPath, Trees
  <2>2. f.handles = e.handles
    BY DEF Export
  <2>3. e.handles[e.handleByIno[o]].ino = o
    BY <1>2, <2>1, FoundHandle
  <2> HIDE DEF f, a
  <2>4. Leads(f, t)
    BY <2>2 DEF Leads, Live
  <2> QED
    BY <1>2, <2>1, <2>2, <2>3, <2>4 DEF a
<1>3. CASE o # None /\ e.handleByIno[o] = None
  <2> DEFINE h == [ino |-> o, path |-> n, fd |-> None, moved |-> FALSE]
             g == [f EXCEPT !.handleByIno[o] = new, !.handles[new] = h]
  <2>1. new \in Tags
    BY <1>3
  <2>2. a = [tag |-> new, export |-> g]
    BY <1>3 DEF HandleForPath
  <2>3. g.handles = [e.handles EXCEPT ![new] = h]
    BY DEF Export
  <2>4. LeadsTo(h, t) /\ h.ino = o /\ h.path = n
    BY DEF LeadsTo
  <2> HIDE DEF h, g, f, a
  <2>5. g.handles[new] = h /\ \A u \in Tags \ {new} : g.handles[u] = e.handles[u]
    BY <2>1, <2>3 DEF Export
  <2>6. Leads(g, t)
    BY <2>4, <2>5 DEF Leads, Live
  <2> QED
    BY <1>3, <2>2, <2>4, <2>5, <2>6 DEF a
<1> QED
  BY <1>1, <1>2, <1>3

\* handle(forIno:), likewise.
LEMMA InoLeads ==
  ASSUME NEW e \in Export, Agreed(e), NEW t \in Trees, NEW i \in Objects, NEW new, Fresh(e, new),
         Leads(e, t)
  PROVE  Leads(HandleForIno(e, t, i, new).export, t)
<1>1. CASE e.handleByIno[i] # None \/ e.pathByIno[i] = None
  BY <1>1 DEF HandleForIno
<1>2. CASE e.handleByIno[i] = None /\ e.pathByIno[i] # None
  <2> DEFINE n == e.pathByIno[i]
  <2>1. n \in Names /\ HandleForIno(e, t, i, new) = HandleForPath(e, t, n, new)
    BY <1>2 DEF HandleForIno, Export
  <2>2. t[n] # None /\ e.handleByIno[t[n]] = None => new \in Tags /\ ~Live(e, new)
    BY <2>1 DEF Fresh, Trees
  <2> HIDE DEF n
  <2> QED
    BY <2>1, <2>2, PathLeads
<1> QED
  BY <1>1, <1>2

\* A file whose name is taken away is among those that have lost one.
LEMMA LoseLead ==
  ASSUME NEW e \in Export, NEW S, NEW t \in Trees, NEW v, NEW u \in Tags, Live(e, u),
         LeadsTo(e.handles[u], t),
         \A n \in Names : t[n] = e.handles[u].ino /\ v[n] # t[n] => t[n] \in S
  PROVE  LeadsTo(Lose(e, S).handles[u], v)
<1>1. e.handles[u] \in Handle
  BY DEF Live, Export
<1>2. Lose(e, S).handles[u] = IF e.handles[u].ino \in S
                              THEN [e.handles[u] EXCEPT !.moved = TRUE] ELSE e.handles[u]
  BY DEF Lose, Export
<1> QED
  BY <1>1, <1>2 DEF LeadsTo, Handle

LEMMA LoseLeads ==
  ASSUME NEW e \in Export, NEW S, NEW t \in Trees, NEW v, Leads(e, t),
         \A n \in Names : t[n] # None /\ v[n] # t[n] => t[n] \in S
  PROVE  Leads(Lose(e, S), v)
<1>1. SUFFICES ASSUME NEW u \in Tags, Live(Lose(e, S), u)
               PROVE  LeadsTo(Lose(e, S).handles[u], v)
  BY DEF Leads
<1>2. Live(e, u)
  BY <1>1, Losing DEF SameHandles
<1>3. e.handles[u].ino # None
  BY <1>2, SizeAssumption DEF Live, Export, Handle, None
<1> QED
  BY <1>2, <1>3, LoseLead DEF Leads

LEMMA ReleaseLeads ==
  ASSUME NEW e \in Export, NEW tag, NEW t,
         \A u \in Tags : Live(e, u) /\ u # tag => LeadsTo(e.handles[u], t)
  PROVE  Leads(Released(e, tag), t)
<1> DEFINE f == Released(e, tag)
<1>1. CASE ~Live(e, tag)
  BY <1>1 DEF Released, Leads
<1>2. CASE Live(e, tag)
  <2>1. f.handles = [e.handles EXCEPT ![tag] = Closed] /\ tag \in Tags
    BY <1>2 DEF Released, Live, Export
  <2> HIDE DEF f
  <2>2. f.handles[tag] = Closed /\ \A u \in Tags \ {tag} : f.handles[u] = e.handles[u]
    BY <2>1 DEF Export
  <2>3. Leads(f, t)
    BY <2>2 DEF Leads, Live
  <2> QED
    BY <2>3 DEF f
<1> QED
  BY <1>1, <1>2

-----------------------------------------------------------------------------
(* The requests, again.                                                    *)

Led == Leads(export, tree)

LEMMA HostLeads ==
  ASSUME Tables, Led, Host
  PROVE  Led'
<1>1. ASSUME NEW n \in Names, HostMakes(n) \/ HostRemoves(n)
      PROVE  Led'
  <2>1. PICK o : tree' = [tree EXCEPT ![n] = o] /\ export' = Lose(export, {tree[n]})
    BY <1>1 DEF HostMakes, HostRemoves
  <2>2. \A m \in Names : tree'[m] # tree[m] => tree[m] \in {tree[n]}
    BY <2>1 DEF Tables, Trees
  <2> QED
    BY <2>1, <2>2, LoseLeads DEF Led, Tables
<1>2. ASSUME NEW m \in Names, NEW n \in Names, HostRenames(m, n)
      PROVE  Led'
  <2>1. /\ tree' = [tree EXCEPT ![n] = tree[m], ![m] = None]
        /\ export' = Lose(export, {tree[m], tree[n]})
    BY <1>2 DEF HostRenames
  <2>2. \A k \in Names : tree'[k] # tree[k] => tree[k] \in {tree[m], tree[n]}
    BY <2>1 DEF Tables, Trees
  <2> QED
    BY <2>1, <2>2, LoseLeads DEF Led, Tables
<1> QED
  BY <1>1, <1>2 DEF Host

LEMMA NgetLeads ==
  ASSUME Tables, Led, NEW i \in Objects, NEW t, Nget(i, NewTag, t)
  PROVE  Led'
<1>1. Fresh(export, NewTag)
  BY NewTagFresh DEF Tables
<1> HIDE DEF Fresh
<1>2. Leads(HandleForIno(export, tree, i, NewTag).export, tree)
  BY <1>1, InoLeads DEF Tables, Led
<1> QED
  BY <1>2 DEF Nget, Answer, Led

LEMMA NputLeads ==
  ASSUME Tables, Led, NEW t, Nput(t)
  PROVE  Led'
<1>1. \A u \in Tags : Live(export, u) => LeadsTo(export.handles[u], tree)
  BY DEF Led, Leads
<1>2. Leads(Released(export, t), tree)
  BY <1>1, ReleaseLeads DEF Tables
<1> QED
  BY <1>2 DEF Nput, Led

LEMMA NnamiLeads ==
  ASSUME Tables, Led, NEW n \in Names, NEW t, Nnami(n, NewTag, t)
  PROVE  Led'
<1>1. tree[n] # None /\ export.handleByIno[tree[n]] = None => NewTag \in Tags /\ ~Live(export, NewTag)
  BY NewTagFresh DEF Tables, Fresh, Trees
<1>2. Leads(HandleForPath(export, tree, n, NewTag).export, tree)
  BY <1>1, PathLeads DEF Tables, Led
<1> QED
  BY <1>2 DEF Nnami, Answer, Led

LEMMA NnamiCreatLeads ==
  ASSUME Tables, Led, NEW n \in Names, NEW t, NnamiCreat(n, NewTag, t)
  PROVE  Led'
<1>1. CASE tree[n] # None
  BY <1>1, NnamiLeads DEF NnamiCreat
<1>2. CASE tree[n] = None
  <2>1. PICK o \in Objects :
          LET v == [tree EXCEPT ![n] = o]
              a == HandleForPath(export, v, n, NewTag)
          IN tree' = v /\ t = a.tag /\ export' = Listed(a.export, v)
    BY <1>2 DEF NnamiCreat
  <2> DEFINE v == [tree EXCEPT ![n] = o]
             a == HandleForPath(export, v, n, NewTag)
  <2>2. v \in Trees /\ v[n] = o
    BY DEF Tables, Trees
  <2>3. v[n] # None /\ export.handleByIno[v[n]] = None => NewTag \in Tags /\ ~Live(export, NewTag)
    BY <2>2, NewTagFresh DEF Tables, Fresh
  <2>4. tree' = v /\ export' = Listed(a.export, v)
    BY <2>1
  <2>5. Leads(export, v)
    BY <1>2, MoreNames DEF Tables, Led
  <2> HIDE DEF v
  <2>6. Leads(a.export, v) /\ a.export \in Export
    BY <2>2, <2>3, <2>5, PathLeads, PathHandle DEF Tables
  <2> HIDE DEF a
  <2>7. Listed(a.export, v).handles = a.export.handles
    BY <2>2, <2>6, ListedNumbers
  <2> QED
    BY <2>4, <2>6, <2>7 DEF Led, Leads, Live
<1> QED
  BY <1>1, <1>2

LEMMA NnamiLinkLeads ==
  ASSUME Tables, Led, NEW n \in Names, NEW i \in Objects, NEW t, NnamiLink(n, i, NewTag, t)
  PROVE  Led'
<1> DEFINE src == HandleForIno(export, tree, i, NewTag)
           o   == tree[src.export.handles[src.tag].path]
           v   == [tree EXCEPT ![n] = o]
           a   == HandleForPath(src.export, v, n, NewTag)
<1>1. Fresh(export, NewTag)
  BY NewTagFresh DEF Tables
<1>2. /\ src.export \in Export /\ Agreed(src.export)
      /\ src.tag \in Tags \cup {None}
      /\ src.tag # None => Live(src.export, src.tag)
      /\ \/ SameHandles(export, src.export)
         \/ /\ tree[src.export.handles[NewTag].path] = src.export.handles[NewTag].ino
            /\ src.tag = NewTag
  BY <1>1, InoHandle DEF Tables
<1>3. Leads(src.export, tree)
  <2> HIDE DEF Fresh
  <2> QED
    BY <1>1, InoLeads DEF Tables, Led
<1>4. CASE tree[n] # None
  BY <1>4, NnamiLeads DEF NnamiLink
<1>5. CASE tree[n] = None /\ (src.tag = None \/ o = None)
  BY <1>3, <1>5 DEF NnamiLink, Led
<1>6. CASE tree[n] = None /\ src.tag # None /\ o # None
  <2>1. tree' = v /\ export' = a.export
    BY <1>6 DEF NnamiLink, Answer
  <2> DEFINE h == src.export.handles[src.tag]
  <2>2. h \in Handle /\ h.path \in Names /\ h.ino \in Objects /\ src.tag \in Tags
    BY <1>2, <1>6 DEF Live, Export, Handle
  <2>3. o \in Objects /\ v \in Trees /\ v[n] = o
    BY <1>6, <2>2 DEF Tables, Trees
  <2>4. src.export.handleByIno[o] = None => NewTag \in Tags /\ ~Live(src.export, NewTag)
    <3>1. CASE SameHandles(export, src.export)
      BY <3>1, <1>1, <2>3 DEF SameHandles, Fresh
    <3>2. CASE tree[src.export.handles[NewTag].path] = src.export.handles[NewTag].ino /\ src.tag = NewTag
      <4>1. o = h.ino /\ Live(src.export, src.tag)
        BY <3>2, <1>2, <1>6
      <4>2. src.export.handleByIno[o] = src.tag
        BY <4>1, <1>2, <2>2 DEF Agreed
      <4> QED
        BY <4>2, <1>6
    <3> QED
      BY <3>1, <3>2, <1>2
  <2>5. Leads(src.export, v)
    <3> HIDE DEF src, o
    <3> QED
      BY <1>2, <1>3, <1>6, MoreNames DEF Tables
  <2> HIDE DEF src, v, o
  <2>6. Leads(a.export, v)
    BY <1>2, <2>3, <2>4, <2>5, PathLeads
  <2> QED
    BY <2>1, <2>6 DEF Led
<1> QED
  BY <1>4, <1>5, <1>6

\* A delete takes the path of the handle, and releases it.
LEMMA NnamiDelLeads ==
  ASSUME Tables, Led, NEW n \in Names, NEW i, NnamiDel(n, NewTag, i)
  PROVE  Led'
<1> DEFINE a == HandleForPath(export, tree, n, NewTag)
           h == a.export.handles[a.tag]
           v == [tree EXCEPT ![h.path] = None]
           l == Listed(a.export, v)
           S == {tree[h.path]} \ {i}
           e == Lose(l, S)
<1>1. tree[n] # None /\ export.handleByIno[tree[n]] = None => NewTag \in Tags /\ ~Live(export, NewTag)
  BY NewTagFresh DEF Tables, Fresh, Trees
<1>2. /\ a.export \in Export /\ Agreed(a.export)
      /\ a.tag \in Tags \cup {None} /\ (a.tag # None => Live(a.export, a.tag))
  BY <1>1, PathHandle DEF Tables
<1>3. Leads(a.export, tree)
  BY <1>1, PathLeads DEF Tables, Led
<1>4. CASE a.tag = None \/ tree[h.path] = None
  BY <1>3, <1>4 DEF NnamiDel, Led
<1>5. CASE a.tag # None /\ tree[h.path] # None
  <2>1. i = h.ino /\ tree' = v /\ export' = Released(e, a.tag)
    BY <1>5 DEF NnamiDel
  <2>2. a.tag \in Tags /\ h \in Handle /\ v \in Trees /\ h.path \in Names
    BY <1>2, <1>5 DEF Live, Export, Handle, Tables, Trees
  <2>3. \A m \in Names : v[m] # tree[m] => m = h.path
    BY <2>2 DEF Tables, Trees
  <2> HIDE DEF a, h, v
  <2>4. l \in Export /\ l.handles = a.export.handles
    BY <1>2, <2>2, ListedNumbers
  <2> HIDE DEF l
  <2>5. e \in Export /\ SameHandles(l, e)
    BY <2>4, Losing
  <2>6. ASSUME NEW u \in Tags, Live(e, u), u # a.tag
        PROVE  LeadsTo(e.handles[u], v)
    <3>1. Live(l, u) /\ l.handles[u] = a.export.handles[u] /\ Live(a.export, u)
      BY <2>4, <2>5, <2>6 DEF SameHandles, Live
    <3>2. LeadsTo(l.handles[u], tree)
      BY <1>3, <3>1 DEF Leads
    <3>3. l.handles[u].ino # i
      <4>1. a.export.handleByIno[a.export.handles[u].ino] = u
        BY <1>2, <3>1 DEF Agreed
      <4>2. a.export.handleByIno[h.ino] = a.tag
        BY <1>2, <1>5, <2>2 DEF Agreed, h
      <4> QED
        BY <2>1, <2>6, <3>1, <4>1, <4>2
    <3>4. \A m \in Names : tree[m] = l.handles[u].ino /\ v[m] # tree[m] => tree[m] \in S
      BY <2>3, <3>3
    <3> HIDE DEF S
    <3> QED
      BY <2>4, <3>1, <3>2, <3>4, LoseLead DEF Tables
  <2> HIDE DEF e
  <2>7. Leads(Released(e, a.tag), v)
    BY <2>5, <2>6, ReleaseLeads
  <2> QED
    BY <2>1, <2>7 DEF Led
<1> QED
  BY <1>4, <1>5

\* revalidate() and open() leave a handle that leads to its file such a one.
LEMMA TransferLeads ==
  ASSUME Tables, Led, NEW tag, NEW o, Nread(tag, o) \/ Nwrt(tag, o) \/ Ntrunc(tag, o)
  PROVE  Led'
<1>1. CASE UNCHANGED share
  BY <1>1 DEF share, Led
<1>2. ASSUME Live(export, tag), NEW h, Transfer(tag, h, o),
             h = Reading(export.handles[tag]) \/ h = Opened(export.handles[tag])
      PROVE  Led'
  <2>1. tag \in Tags /\ export.handles[tag] \in Handle /\ LeadsTo(export.handles[tag], tree)
    BY <1>2 DEF Live, Export, Tables, Led, Leads
  <2>2. LeadsTo(h, tree)
    BY <1>2, <2>1 DEF Reading, Opened, Revalidated, LeadsTo, Handle, Tables, Trees
  <2>3. tree' = tree /\ export' = [export EXCEPT !.handles[tag] = h]
    BY <1>2 DEF Transfer
  <2>4. export'.handles[tag] = h /\ \A u \in Tags \ {tag} : export'.handles[u] = export.handles[u]
    BY <2>1, <2>3 DEF Tables, Export
  <2> QED
    BY <2>2, <2>3, <2>4 DEF Led, Leads, Live
<1> QED
  BY <1>1, <1>2 DEF Nread, Nwrt, Ntrunc

LEMMA LedKept ==
  ASSUME IInv, Led, [Next]_vars
  PROVE  Led'
<1>0. Tables
  BY Typed
<1>1. ASSUME UNCHANGED share
      PROVE  Led'
  BY <1>1 DEF share, Led
<1>2. CASE HostStep
  BY <1>0, <1>2, HostLeads DEF HostStep
<1>3. CASE Cross
  <2>1. export' = Listed(export, tree) /\ tree' = tree
    BY <1>3 DEF Cross, NgetRoot
  <2>2. Listed(export, tree).handles = export.handles
    BY <1>0, ListedNumbers DEF Tables
  <2> QED
    BY <2>1, <2>2 DEF Led, Leads, Live
<1>4. ASSUME NEW i, Iput(i)
      PROVE  Led'
  BY <1>0, <1>1, <1>4, NputLeads DEF Iput, share
<1>5. ASSUME NEW p \in Procs, Begin(p)
      PROVE  Led'
  <2>1. ASSUME NEW n \in Names, Unlink(p, n)
        PROVE  Led'
    BY <1>0, <2>1, NnamiDelLeads DEF Unlink
  <2>2. ASSUME NEW n \in Names, NEW d \in Calls \ {"unlink"}, Lookup(p, d, n)
        PROVE  Led'
    <3>1. \E t : NnamiCreat(n, NewTag, t) \/ Nnami(n, NewTag, t)
      BY <2>2 DEF Lookup
    <3> QED
      BY <1>0, <3>1, NnamiLeads, NnamiCreatLeads
  <2>3. CASE Close(p)
    BY <1>4, <2>3 DEF Close
  <2>4. ASSUME NEW o \in Objects \cup {None}, Read(p, o) \/ Write(p, o)
        PROVE  Led'
    BY <1>0, <2>4, TransferLeads DEF Read, Write
  <2> QED
    BY <1>5, <2>1, <2>2, <2>3, <2>4 DEF Begin
<1>6. ASSUME NEW p \in Procs, Continue(p)
      PROVE  Led'
  <2>1. CASE Iget(p)
    <3>1. op[p].ino \in Objects
      BY <2>1, Typed DEF Iget, Call
    <3>2. UNCHANGED share \/ \E t : Nget(op[p].ino, NewTag, t)
      BY <2>1 DEF Iget
    <3> QED
      BY <1>0, <1>1, <3>1, <3>2, NgetLeads
  <2>2. CASE Stray(p)
    BY <1>0, <2>2, NputLeads DEF Stray
  <2>3. CASE Put(p)
    BY <1>4, <2>3 DEF Put
  <2>4. CASE Trunc(p)
    BY <1>0, <2>4, TransferLeads DEF Trunc
  <2>5. CASE Nlink(p)
    <3>1. op[p].ino \in Objects
      BY <2>5, Typed DEF Nlink, At, Call
    <3>2. UNCHANGED share \/ \E n \in Names : \E t : NnamiLink(n, op[p].ino, NewTag, t)
      BY <2>5 DEF Nlink
    <3> QED
      BY <1>0, <1>1, <3>1, <3>2, NnamiLinkLeads
  <2> QED
    BY <1>6, <2>1, <2>2, <2>3, <2>4, <2>5 DEF Continue
<1>7. CASE UNCHANGED vars
  BY <1>1, <1>7 DEF vars, share
<1> QED
  BY <1>2, <1>3, <1>5, <1>6, <1>7 DEF Next

LEMMA InitLed == Init => Led
<1> SUFFICES ASSUME Init
             PROVE  Led
  OBVIOUS
<1> DEFINE e == [pathByIno   |-> [o \in Objects |-> None],
                 handles     |-> [t \in Tags |-> Closed],
                 handleByIno |-> [o \in Objects |-> None]]
<1>1. e \in Export /\ tree \in Trees /\ export = Listed(e, tree)
  BY DEF Init, ShareInit, Export, Trees
<1>2. export.handles = e.handles
  BY <1>1, ListedNumbers
<1> QED
  BY <1>2 DEF Led, Leads, Live

\* For any number of files, names, tags and processes: every live handle, and
\* so the next transfer by its tag, reaches the file that the tag was given
\* for and that its path has, unless that file has lost a name.
THEOREM TagsKept == Spec => []TagsKeepFile
<1>1. IInv /\ Led => TagsKeepFile
  <2> SUFFICES ASSUME IInv, Led, NEW p \in Procs, Live(export, core[file[p]])
               PROVE  LET h == export.handles[core[file[p]]]
                      IN \A o \in {Reading(h).fd, Opened(h).fd} :
                           (o = h.ino \/ h.moved) /\ tree[h.path] \in {o, None}
    BY DEF TagsKeepFile
  <2> DEFINE h == export.handles[core[file[p]]]
  <2>1. h \in Handle /\ LeadsTo(h, tree) /\ tree \in Trees
    BY Typed DEF Live, Led, Leads, Tables, Export
  <2> HIDE DEF h
  <2>2. \A o \in {Reading(h).fd, Opened(h).fd} :
          (o = h.ino \/ h.moved) /\ tree[h.path] \in {o, None}
    BY <2>1 DEF LeadsTo, Reading, Opened, Revalidated, Handle, Trees
  <2> QED
    BY <2>2 DEF h
<1>2. Init => IInv /\ Led
  BY Initially, InitLed
<1>3. IInv /\ Led /\ [Next]_vars => (IInv /\ Led)'
  BY Inductive, LedKept
<1> QED
  BY <1>1, <1>2, <1>3, PTL DEF Spec

\* unlink() takes a name of the file that its name leads to.
LEMMA UnlinkMeant ==
  ASSUME IInv, Led, tree' # tree, NEW p \in Procs, NEW n \in Names, Unlink(p, n)
  PROVE  \/ Strayed(tree[n])
         \/ \E m \in Names : tree[m] = tree[n] /\ tree' = [tree EXCEPT ![m] = None]
<1> DEFINE a == HandleForPath(export, tree, n, NewTag)
           h == a.export.handles[a.tag]
<1>1. Tables /\ Leads(export, tree)
  BY Typed DEF Led
<1>2. tree[n] # None /\ export.handleByIno[tree[n]] = None => NewTag \in Tags /\ ~Live(export, NewTag)
  BY <1>1, NewTagFresh DEF Tables, Fresh, Trees
<1>3. a.tag # None /\ tree' = [tree EXCEPT ![h.path] = None]
  BY DEF Unlink, NnamiDel
<1>4. /\ Leads(a.export, tree) /\ tree[n] # None /\ h.ino = tree[n]
      /\ \/ a.tag = export.handleByIno[tree[n]] /\ a.export.handles = export.handles
         \/ h.path = n
  BY <1>1, <1>2, <1>3, PathLeads DEF Tables
<1>5. Live(a.export, a.tag) /\ a.tag \in Tags /\ h \in Handle
  BY <1>1, <1>2, <1>3, PathHandle DEF Tables, Live, Export
<1>6. LeadsTo(h, tree) /\ h.path \in Names
  BY <1>4, <1>5 DEF Leads, Handle
<1>7. CASE h.path = n
  BY <1>3, <1>7
<1>8. CASE a.tag = export.handleByIno[tree[n]] /\ a.export.handles = export.handles
  <2>1. h.moved => Strayed(tree[n])
    BY <1>3, <1>8 DEF Strayed
  <2> HIDE DEF a, h
  <2> QED
    BY <1>3, <1>4, <1>6, <2>1 DEF LeadsTo
<1> QED
  BY <1>4, <1>7, <1>8

\* link() gives a name to the file that it has the inode of.
LEMMA LinkMeant ==
  ASSUME IInv, Led, tree' # tree, NEW p \in Procs, Nlink(p)
  PROVE  \/ Strayed(op[p].ino) \/ op[p].ino \in lost
         \/ \E n \in Names : tree[n] = None /\ tree' = [tree EXCEPT ![n] = op[p].ino]
<1> DEFINE i   == op[p].ino
           src == HandleForIno(export, tree, i, NewTag)
           o   == tree[src.export.handles[src.tag].path]
<1>1. Tables /\ Leads(export, tree)
  BY Typed DEF Led
<1>2. PICK n \in Names, t \in Tags \cup {None} : NnamiLink(n, i, NewTag, t)
  BY DEF Nlink, share
<1>3. tree[n] = None /\ src.tag # None /\ tree' = [tree EXCEPT ![n] = o]
  BY <1>2 DEF NnamiLink, Nnami
<1>4. op[p] # Idle /\ op[p].at = "nlink" /\ op[p] \in Call /\ op[p].refs = <<i>> /\ i \in Objects
  BY Typed DEF Nlink, At, IInv, CallsOK, CallOK, Call
<1>5. core[i] # None
  <2> HIDE DEF i
  <2>1. Refs(p) = <<i>>
    BY <1>4 DEF Refs
  <2>2. Holding(p) = Listing(file[p], <<i>>)
    BY <2>1, HoldingIs
  <2>3. Listing(file[p], <<i>>) = ({file[p]} \ {None}) \cup {i}
    BY Listings
  <2>4. i \in Holding(p)
    BY <2>2, <2>3
  <2> QED
    BY <2>4 DEF IInv, HeldInCore
<1> DEFINE u == export.handleByIno[i]
           h == export.handles[u]
<1>6. ASSUME i \notin lost
      PROVE  u # None
  <2>1. Live(export, core[i]) /\ export.handles[core[i]].ino = i
    BY <1>4, <1>5, <1>6 DEF IInv, TagsRight
  <2>2. u = core[i] /\ core[i] \in Tags
    BY <1>1, <2>1 DEF Tables, Agreed, Live
  <2> QED
    BY <2>2, SizeAssumption DEF Tags, None
<1>7. ASSUME u # None
      PROVE  Strayed(i) \/ o = i
  <2>1. src = [tag |-> u, export |-> export]
    BY <1>7 DEF HandleForIno
  <2>2. u \in Tags /\ Live(export, u) /\ h.ino = i /\ h \in Handle
    BY <1>1, <1>4, <1>7, FoundHandle DEF Tables
  <2>3. LeadsTo(h, tree) /\ o = tree[h.path]
    BY <1>1, <2>1, <2>2 DEF Leads
  <2> QED
    BY <1>7, <2>2, <2>3 DEF LeadsTo, Strayed
<1> QED
  BY <1>3, <1>6, <1>7

\* Between any other process's messages and the host's user's changes, the
\* name that unlink() takes away is one of the file it was called for, and the
\* one that link() makes is of the file it looked up, except for files that the
\* host's user has moved or whose tag was lost.
THEOREM NamesAreMeant == Spec => NamesMeant
<1>1. IInv /\ Led /\ [Next]_vars =>
        [tree' # tree => \A p \in Procs :
           /\ \A n \in Names : Unlink(p, n) =>
                \/ Strayed(tree[n])
                \/ \E m \in Names : tree[m] = tree[n] /\ tree' = [tree EXCEPT ![m] = None]
           /\ Nlink(p) =>
                \/ Strayed(op[p].ino) \/ op[p].ino \in lost
                \/ \E n \in Names : tree[n] = None /\ tree' = [tree EXCEPT ![n] = op[p].ino]]_vars
  BY UnlinkMeant, LinkMeant
<1>2. Init => IInv /\ Led
  BY Initially, InitLed
<1>3. IInv /\ Led /\ [Next]_vars => (IInv /\ Led)'
  BY Inductive, LedKept
<1> QED
  BY <1>1, <1>2, <1>3, PTL DEF Spec, NamesMeant
=============================================================================
