----------------------------- MODULE LinesProofs ------------------------------
(***************************************************************************)
(* Theorems about Lines, for any number of lines, of borrows and of        *)
(* commands: who holds which connection, what a connection may find on its *)
(* line, and what `login:' says about the work of a borrow.  Then about    *)
(* BringUp, which waits for the same word on the console: simulators       *)
(* follow one another, and a machine that is up was seen to answer.        *)
(***************************************************************************)
EXTENDS Lines, BringUp, SequenceTheorems, TLAPS

Procs   == {"none", "opening", "getty", "profile", "root", "user"}
LineRec == [held : Users \cup {NoUser, "leak"}, carr : BOOLEAN, proc : Procs,
            typed : Seq(Input), own : BOOLEAN, quick : BOOLEAN]

\* What the driver and init make sure of on one line: a process that has it
\* open has seen its carrier and is rid of the input with it.
Kept(d) ==
    /\ IsOpen(d) => d.carr
    /\ ~IsOpen(d) => d.typed = <<>>

\* Then a connection that did not come upon an open line has typed all that
\* waits there, and asked for the shell that runs there.
Its(d) ==
    d.held # NoUser /\ ~d.quick =>
        /\ IsOpen(d) => \A i \in DOMAIN d.typed : d.typed[i].by # NoUser
        /\ d.proc \in Shells => d.own

Good(d) == d \in LineRec /\ Kept(d) /\ Its(d)

-----------------------------------------------------------------------------
(* Lemmas about one line.                                                  *)

LEMMA IdleGood == Good(IdleLine)
BY DEF Good, LineRec, Procs, Kept, Its, IdleLine, IsOpen, Shells, NoUser

LEMMA AcceptGood ==
  ASSUME NEW d, Good(d), NEW who \in Users
  PROVE  /\ Good(Accept(d, who)) /\ Accept(d, who).held = who
         /\ Accept(d, who).typed = d.typed
<1> DEFINE e == Accept(d, who)
<1>1. /\ e \in LineRec /\ e.held = who /\ e.quick = (d.carr /\ IsOpen(d))
      /\ e.carr = d.carr /\ e.proc = d.proc /\ e.typed = d.typed /\ e.own = d.own
  BY DEF Good, LineRec, Procs, Accept, IsOpen, Shells
<1>2. Kept(e)
  BY <1>1 DEF Good, Kept, IsOpen
<1>3. Its(e)
  BY <1>1 DEF Good, Kept, Its, IsOpen
<1> QED
  BY <1>1, <1>2, <1>3 DEF Good

LEMMA DropGood ==
  ASSUME NEW d, Good(d)
  PROVE  Good(Drop(d)) /\ Drop(d).held = NoUser
<1> DEFINE t == [i \in DOMAIN d.typed |-> [d.typed[i] EXCEPT !.by = NoUser]]
<1>1. d \in LineRec /\ d.typed \in Seq(Input)
  BY DEF Good, LineRec
<1>2. t \in Seq(Input)
  <2>1. PICK n \in Nat : d.typed \in [1 .. n -> Input]
    BY <1>1, SMT
  <2>2. \A i \in DOMAIN d.typed : [d.typed[i] EXCEPT !.by = NoUser] \in Input
    BY <2>1 DEF Input
  <2>3. t \in [1 .. n -> Input]
    BY <2>1, <2>2
  <2> HIDE DEF t
  <2> QED
    BY <2>3, SeqDef
<1> DEFINE e == Drop(d)
<1>3. /\ e.held = NoUser /\ e.own = FALSE /\ e.typed = t
      /\ e.carr = d.carr /\ e.proc = d.proc /\ e.quick = d.quick
  BY <1>1 DEF Drop, LineRec
<1>4. e \in LineRec
  <2>1. e = [d EXCEPT !.held = NoUser, !.own = FALSE, !.typed = t]
    BY DEF Drop
  <2> HIDE DEF t, e
  <2> QED
    BY <1>1, <1>2, <2>1 DEF LineRec, Procs
<1>5. d.typed = <<>> => t = <<>>
  OBVIOUS
<1>6. Kept(e)
  BY <1>3, <1>5 DEF Good, Kept, IsOpen
<1>7. Its(e)
  BY <1>3 DEF Its
<1> QED
  BY <1>3, <1>4, <1>6, <1>7 DEF Good

LEMMA TypeGood ==
  ASSUME NEW d, Good(d), d.held \in Users, NoUser \notin Users,
         NEW what \in {"cr", "root", "cmd", "exit"}
  PROVE  Good(Type(d, what)) /\ Type(d, what).held = d.held
<1>1. CASE ~IsOpen(d)
  BY <1>1 DEF Type
<1>2. CASE IsOpen(d)
  <2> DEFINE c == [what |-> what, by |-> d.held]
             e == Type(d, what)
  <2>1. d \in LineRec /\ d.typed \in Seq(Input) /\ c \in Input /\ c.by # NoUser
    BY DEF Good, LineRec, Input
  <2>2. /\ Append(d.typed, c) \in Seq(Input)
        /\ \A i \in DOMAIN Append(d.typed, c) :
               \/ i \in DOMAIN d.typed /\ Append(d.typed, c)[i] = d.typed[i]
               \/ Append(d.typed, c)[i] = c
    <3> HIDE DEF c
    <3> QED
      BY <2>1, SMT
  <2>3. /\ e.held = d.held /\ e.carr = d.carr /\ e.proc = d.proc /\ e.own = d.own
        /\ e.quick = d.quick /\ e.typed = Append(d.typed, c)
    BY <1>2, <2>1 DEF Type, LineRec
  <2>4. e \in LineRec
    <3> HIDE DEF c
    <3>1. e = [d EXCEPT !.typed = Append(d.typed, c)]
      BY <1>2 DEF Type, c
    <3> QED
      BY <2>1, <2>2, <3>1 DEF LineRec, Procs
  <2>5. Kept(e)
    BY <1>2, <2>3 DEF Good, Kept, IsOpen
  <2>6. Its(e)
    <3> HIDE DEF c, e
    <3> SUFFICES ASSUME e.held # NoUser, ~e.quick
                 PROVE  /\ \A i \in DOMAIN e.typed : e.typed[i].by # NoUser
                        /\ e.proc \in Shells => e.own
      BY DEF Its
    <3>1. /\ \A i \in DOMAIN d.typed : d.typed[i].by # NoUser
          /\ d.proc \in Shells => d.own
      <4>1. Its(d) /\ d.held # NoUser /\ ~d.quick
        BY <2>3 DEF Good
      <4> QED
        BY <1>2, <4>1 DEF Its
    <3> QED
      BY <2>1, <2>2, <2>3, <3>1
  <2> QED
    BY <2>3, <2>4, <2>5, <2>6 DEF Good
<1> QED
  BY <1>1, <1>2

LEMMA ClosedGood ==
  ASSUME NEW d, Good(d)
  PROVE  Good(Closed(d)) /\ Closed(d).held = d.held
<1> DEFINE e == Closed(d)
<1>1. <<>> \in Seq(Input)
  BY SMT
<1>2. /\ e \in LineRec /\ e.held = d.held /\ e.proc = "none" /\ e.typed = <<>>
      /\ e.carr = FALSE /\ e.own = FALSE /\ e.quick = FALSE
  BY <1>1 DEF Good, LineRec, Procs, Closed
<1> QED
  BY <1>2 DEF Good, Kept, Its, IsOpen, Shells

LEMMA ScannedGood ==
  ASSUME NEW d, Good(d)
  PROVE  Good(Scanned(d)) /\ Scanned(d).held = d.held
<1>1. CASE d.held # NoUser
  BY <1>1 DEF Scanned, Good, LineRec, Kept, Its, IsOpen
<1>2. CASE d.held = NoUser /\ d.carr /\ IsOpen(d)
  BY <1>2, ClosedGood DEF Scanned
<1>3. CASE d.held = NoUser /\ ~(d.carr /\ IsOpen(d))
  BY <1>3 DEF Scanned, Good, LineRec, Kept, Its, IsOpen
<1> QED
  BY <1>1, <1>2, <1>3

LEMMA LogsInGood ==
  ASSUME NEW d, Good(d), IsOpen(d)
  PROVE  Good(LogsIn(d)) /\ LogsIn(d).held = d.held
<1> DEFINE e == LogsIn(d)
<1>1. <<>> \in Seq(Input)
  BY SMT
<1>2. /\ e \in LineRec /\ e.held = d.held /\ e.proc = "user" /\ e.typed = <<>>
      /\ e.carr = d.carr /\ e.own = TRUE /\ e.quick = d.quick
  BY <1>1 DEF Good, LineRec, Procs, LogsIn
<1> QED
  BY <1>2 DEF Good, Kept, Its, IsOpen, Shells

\* A step of the guest leaves the connection to whoever has it.
GoodStep(s, d) ==
    /\ Good(s.d) /\ s.d.held = d.held
    /\ s.out \in {"", "login:", "#"} /\ s.ran \in Users \cup {NoUser}

LEMMA RestGood ==
  ASSUME NEW d, Good(d), IsOpen(d), d.typed # <<>>
  PROVE  LET r == [d EXCEPT !.typed = Tail(@)]
         IN  /\ Good(r) /\ r.held = d.held /\ IsOpen(r) /\ r.proc = d.proc
             /\ r.carr = d.carr /\ r.typed = Tail(d.typed) /\ r.quick = d.quick
<1> DEFINE r == [d EXCEPT !.typed = Tail(@)]
<1>1. d \in LineRec /\ d.typed \in Seq(Input) /\ Its(d) /\ d.carr
  BY DEF Good, LineRec, Kept
<1>2. /\ Tail(d.typed) \in Seq(Input)
      /\ \A i \in DOMAIN Tail(d.typed) : i + 1 \in DOMAIN d.typed /\ Tail(d.typed)[i] = d.typed[i + 1]
  BY <1>1, HeadTailProperties, SMT
<1>3. /\ r.held = d.held /\ r.carr = d.carr /\ r.proc = d.proc /\ r.own = d.own
      /\ r.quick = d.quick /\ r.typed = Tail(d.typed)
  BY <1>1 DEF LineRec
<1>4. r \in LineRec
  BY <1>1, <1>2 DEF LineRec, Procs
<1>5. IsOpen(r)
  BY <1>3 DEF IsOpen
<1>6. Kept(r)
  BY <1>1, <1>3, <1>5 DEF Kept
<1>7. Its(r)
  <2> HIDE DEF r
  <2> SUFFICES ASSUME r.held # NoUser, ~r.quick
               PROVE  /\ \A i \in DOMAIN r.typed : r.typed[i].by # NoUser
                      /\ r.proc \in Shells => r.own
    BY DEF Its
  <2>1. d.held # NoUser /\ ~d.quick
    BY <1>3
  <2>2. /\ \A i \in DOMAIN d.typed : d.typed[i].by # NoUser
        /\ d.proc \in Shells => d.own
    BY <1>1, <2>1 DEF Its
  <2> QED
    BY <1>2, <1>3, <2>2
<1> QED
  BY <1>3, <1>4, <1>5, <1>6, <1>7 DEF Good

LEMMA GettyGood ==
  ASSUME NEW d, Good(d), d.proc = "getty", d.typed # <<>>, NEW s \in GettyReads(d)
  PROVE  GoodStep(s, d)
<1> DEFINE r == [d EXCEPT !.typed = Tail(@)]
           g == [r EXCEPT !.proc = "profile", !.own = Head(d.typed).by # NoUser]
<1>1. IsOpen(d) /\ Its(d)
  BY DEF IsOpen, Good
<1>2. /\ Good(r) /\ r.held = d.held /\ IsOpen(r) /\ r.carr = d.carr /\ r.typed = Tail(d.typed)
      /\ r.quick = d.quick
  BY <1>1, RestGood
<1>3. \/ \E o \in {"", "#"} : s = Does(g, o, NoUser)
      \/ s = Does(r, "login:", NoUser)
  BY DEF GettyReads
<1>4. Good(g) /\ g.held = d.held
  <2> HIDE DEF r
  <2>1. /\ r \in LineRec /\ Kept(r) /\ Its(r)
    BY <1>2 DEF Good
  <2>2. /\ g.held = d.held /\ g.carr = r.carr /\ g.proc = "profile" /\ g.quick = r.quick
        /\ g.typed = r.typed /\ g.own = (Head(d.typed).by # NoUser)
    BY <1>2, <2>1 DEF LineRec
  <2>3. g \in LineRec
    BY <2>1 DEF LineRec, Procs
  <2>4. Kept(g)
    <3> HIDE DEF g
    <3>1. g.typed = <<>> \/ IsOpen(g)
      BY <2>2 DEF IsOpen, Shells
    <3> QED
      BY <1>2, <2>1, <2>2, <3>1 DEF Kept
  <2>5. d.held # NoUser /\ ~d.quick => Head(d.typed).by # NoUser
    <3>1. 1 \in DOMAIN d.typed /\ Head(d.typed) = d.typed[1]
      BY SMT DEF Good, LineRec
    <3> QED
      BY <1>1, <3>1 DEF Its
  <2>6. Its(g)
    <3> HIDE DEF g
    <3> SUFFICES ASSUME g.held # NoUser, ~g.quick
                 PROVE  (\A i \in DOMAIN g.typed : g.typed[i].by # NoUser) /\ g.own
      BY DEF Its
    <3>1. r.held # NoUser /\ ~r.quick
      BY <1>2, <2>2
    <3> QED
      BY <1>2, <2>1, <2>2, <2>5, <3>1 DEF Its
  <2> QED
    BY <2>2, <2>3, <2>4, <2>6 DEF Good
<1> HIDE DEF g, r
<1>5. CASE \E o \in {"", "#"} : s = Does(g, o, NoUser)
  <2>1. PICK o \in {"", "#"} : s = Does(g, o, NoUser)
    BY <1>5
  <2>2. s.d = g /\ s.out = o /\ s.ran = NoUser
    BY <2>1 DEF Does
  <2> QED
    BY <1>4, <2>2 DEF GoodStep
<1>6. CASE s = Does(r, "login:", NoUser)
  <2>1. s.d = r /\ s.out = "login:" /\ s.ran = NoUser
    BY <1>6 DEF Does
  <2> QED
    BY <1>2, <2>1 DEF GoodStep
<1> QED
  BY <1>3, <1>5, <1>6

LEMMA GuestGood ==
  ASSUME NEW d, Good(d), NEW s \in GuestSteps(d)
  PROVE  GoodStep(s, d)
<1>1. CASE \E e \in Forked(d) : s = Does(e, "", NoUser)
  <2>1. /\ d.proc = "none" /\ d.typed = <<>> /\ s = Does([d EXCEPT !.proc = "opening"], "", NoUser)
    BY <1>1 DEF Forked, Good, Kept, IsOpen, Shells
  <2>2. Good([d EXCEPT !.proc = "opening"]) /\ [d EXCEPT !.proc = "opening"].held = d.held
    BY <2>1 DEF Good, LineRec, Procs, Kept, Its, IsOpen, Shells
  <2> QED
    BY <2>1, <2>2 DEF GoodStep, Does
<1>2. CASE \E e \in Opened(d) : s = Does(e, "login:", NoUser)
  <2> DEFINE e == [d EXCEPT !.proc = "getty", !.carr = TRUE]
  <2>1. /\ d.proc = "opening" /\ d.typed = <<>> /\ s = Does(e, "login:", NoUser)
    BY <1>2 DEF Opened, Good, Kept, IsOpen, Shells
  <2>2. e \in LineRec /\ e.held = d.held /\ e.proc = "getty" /\ e.carr = TRUE /\ e.typed = <<>>
    BY <2>1 DEF Good, LineRec, Procs
  <2>3. Good(e)
    BY <2>2 DEF Good, Kept, Its, IsOpen, Shells
  <2> HIDE DEF e
  <2> QED
    BY <2>1, <2>2, <2>3 DEF GoodStep, Does
<1>3. CASE d.proc = "profile" /\ s = Does([d EXCEPT !.proc = "root"], "#", NoUser)
  <2> DEFINE e == [d EXCEPT !.proc = "root"]
  <2>1. e \in LineRec /\ e.held = d.held /\ e.proc = "root" /\ e.carr = d.carr
        /\ e.typed = d.typed /\ e.own = d.own /\ e.quick = d.quick
    BY DEF Good, LineRec, Procs
  <2>2. Kept(e) /\ Its(e)
    BY <1>3, <2>1 DEF Good, Kept, Its, IsOpen, Shells
  <2>3. Good(e)
    BY <2>1, <2>2 DEF Good
  <2> HIDE DEF e
  <2> QED
    BY <1>3, <2>1, <2>3 DEF GoodStep, Does, e
<1>4. CASE d.typed # <<>> /\ d.proc = "getty" /\ s \in GettyReads(d)
  BY <1>4, GettyGood
<1>5. CASE d.typed # <<>> /\ d.proc = "root" /\ s \in RootReads(d)
  <2> DEFINE r == [d EXCEPT !.typed = Tail(@)]
  <2>1. Good(r) /\ r.held = d.held
    BY <1>5, RestGood DEF IsOpen, Shells
  <2>2. Head(d.typed).by \in Users \cup {NoUser}
    <3>1. Head(d.typed) \in Input
      BY <1>5, HeadTailProperties DEF Good, LineRec
    <3> QED
      BY <3>1 DEF Input
  <2>3. \/ s = Does(Closed(d), "", NoUser)
        \/ s = Does(r, "#", Head(d.typed).by)
        \/ s = Does(r, "#", NoUser)
    BY <1>5 DEF RootReads
  <2> HIDE DEF r
  <2> DEFINE h == Head(d.typed).by
  <2> HIDE DEF h
  <2>4. CASE s = Does(Closed(d), "", NoUser)
    BY <2>4, ClosedGood DEF Does, GoodStep
  <2>5. CASE s = Does(r, "#", h)
    <3>1. s.d = r /\ s.out = "#" /\ s.ran = h
      BY <2>5 DEF Does
    <3> QED
      BY <2>1, <2>2, <3>1 DEF GoodStep, h
  <2>6. CASE s = Does(r, "#", NoUser)
    BY <2>1, <2>6 DEF Does, GoodStep
  <2> QED
    BY <2>3, <2>4, <2>5, <2>6 DEF h
<1>6. CASE d.typed # <<>> /\ d.proc = "user" /\ s \in UserReads(d)
  <2> DEFINE r == [d EXCEPT !.typed = Tail(@)]
  <2>1. Good(r) /\ r.held = d.held
    BY <1>6, RestGood DEF IsOpen, Shells
  <2>2. s = Does(r, "", NoUser)
    BY <1>6 DEF UserReads
  <2> HIDE DEF r
  <2> QED
    BY <2>1, <2>2 DEF GoodStep, Does
<1> QED
  BY <1>1, <1>2, <1>3, <1>4, <1>5, <1>6 DEF GuestSteps

-----------------------------------------------------------------------------
(* The inductive invariant.                                                *)

\* Without a stop() during a dial, a second dial or a borrow that is met, a tab
\* has one dial, whose connection is the one it has or will have.
Tabs ==
    \A l \in LineNos :
        /\ tab[l].tasks + tab[l].dials <= MaxDials
        /\ tab[l].tasks + tab[l].dials > 1 => l \in twice
        /\ tab[l].conn # "none" /\ Dialling(l) => l \in twice
        /\ tab[l].st = "idle" => tab[l].conn = "none"
        /\ Dialling(l) /\ tab[l].st # "connecting" => Known(l)
        /\ tab[l].conn # "none" /\ tab[l].st # "up" => Known(l)
        /\ tab[l].conn = "refused" => Known(l)
        /\ l \notin opened /\ (Dialling(l) \/ tab[l].conn # "none") => l \in early

\* Who borrows a line has it for itself.
Shared ==
    /\ \A b \in Borrowers :
           bw[b].pc # "off" /\ (Dialling(bw[b].l) \/ tab[bw[b].l].conn # "none") => Known(bw[b].l)
    /\ \A b, c \in Borrowers :
           b # c /\ bw[b].pc # "off" /\ bw[c].pc # "off" /\ bw[b].l = bw[c].l => bw[b].l \in clashed

Borrows ==
    \A b \in Borrowers : /\ bw[b].conn = "refused" => Known(bw[b].l)
                         /\ bw[b].pc \in {"off", "dial"} => bw[b].conn = "none"

\* SIMH serves the connection that its owner believes to be served.
Has(b, l) == bw[b].l = l /\ bw[b].conn = "held"
Held ==
    \A l \in LineNos :
        /\ dz[l].held = "tab" <=> tab[l].conn = "held"
        /\ dz[l].held = "leak" => l \in twice
        /\ \A b \in Borrowers : dz[l].held = b <=> Has(b, l)

AllGood == \A l \in LineNos : Good(dz[l])

IInv == TypeOK /\ AllGood /\ Tabs /\ Shared /\ Borrows /\ Held

-----------------------------------------------------------------------------
LEMMA Names ==
  /\ "tab" \in Users /\ Borrowers \subseteq Users /\ NoUser \notin Users
  /\ \A b \in Borrowers : b # "tab" /\ b # "leak" /\ b # NoUser
BY LinesAssumption DEF NoUser

LEMMA Lined ==
  ASSUME AllGood, dz = [l \in LineNos |-> dz[l]]
  PROVE  DzTyped(LineNos)
<1>1. \A l \in LineNos : dz[l] \in LineRec
  BY DEF AllGood, Good
<1> QED
  BY <1>1 DEF DzTyped, LineRec, Procs

LEMMA Initially == Init => IInv
<1> SUFFICES ASSUME Init
             PROVE  IInv
  OBVIOUS
<1>1. /\ dz = [l \in LineNos |-> IdleLine] /\ up = FALSE /\ opened = {}
      /\ tab = [l \in LineNos |-> [st |-> "idle", conn |-> "none", tasks |-> 0, dials |-> 0]]
      /\ bw = [b \in Borrowers |-> Off]
      /\ clashed = {} /\ early = {} /\ twice = {}
  BY DEF Init
<1>2. AllGood
  BY <1>1, IdleGood DEF AllGood
<1>3. 0 \in 0 .. MaxDials /\ 1 \in LineNos
  BY LinesAssumption DEF LineNos
<1>4. tab \in [LineNos -> [st : {"idle", "connecting", "up", "failed"}, conn : Conns,
                          tasks : 0 .. MaxDials, dials : 0 .. MaxDials]]
  BY <1>1, <1>3 DEF Conns
<1>5. Off \in [pc : {"off", "dial", "greet", "root", "work", "exit"},
              l : LineNos, conn : Conns, buf : SUBSET {"login:", "#"},
              got : {"wait", "yes", "no"}, n : Nat, ran : Nat]
  BY <1>3 DEF Off, Conns
<1>6. TypeOK
  BY <1>1, <1>2, <1>4, <1>5, Lined DEF TypeOK
<1>7. \A l \in LineNos : ~Dialling(l) /\ tab[l].tasks + tab[l].dials = 0 /\ 0 <= MaxDials
  BY <1>1, <1>3 DEF Dialling
<1>8. Tabs
  BY <1>1, <1>7 DEF Tabs
<1>9. Shared /\ Borrows
  BY <1>1 DEF Shared, Borrows, Off
<1>10. Held
  BY <1>1, Names DEF Held, Has, Off, IdleLine, NoUser
<1> QED
  BY <1>2, <1>6, <1>8, <1>9, <1>10 DEF IInv

-----------------------------------------------------------------------------
(* Steps of the sessions.                                                  *)

TabRec == [st : {"idle", "connecting", "up", "failed"}, conn : Conns,
           tasks : 0 .. MaxDials, dials : 0 .. MaxDials]
BwRec  == [pc : {"off", "dial", "greet", "root", "work", "exit"},
           l : LineNos, conn : Conns, buf : SUBSET {"login:", "#"},
           got : {"wait", "yes", "no"}, n : Nat, ran : Nat]

\* What the parts of the invariant that such a step leaves alone need.
Grows == clashed \subseteq clashed' /\ early \subseteq early' /\ twice \subseteq twice'

LEMMA StartKeeps ==
  ASSUME IInv, NEW ls \in SUBSET LineNos, Start(ls),
         opened \subseteq opened', ls \subseteq opened', opened' \subseteq LineNos,
         UNCHANGED <<dz, bw, early>>, up' \in BOOLEAN
  PROVE  IInv'
<1> DEFINE go == {l \in ls : tab[l].st = "idle"}
<1>1. /\ tab \in [LineNos -> TabRec] /\ go \subseteq LineNos
      /\ clashed \subseteq LineNos /\ twice \subseteq LineNos
  BY DEF IInv, TypeOK, TabRec
<1>2. /\ \A l \in go : tab[l].tasks + tab[l].dials < MaxDials
      /\ tab' = [l \in LineNos |-> IF l \in go
                   THEN [tab[l] EXCEPT !.st = "connecting", !.tasks = @ + 1] ELSE tab[l]]
      /\ clashed' = clashed \cup {l \in go : On(l) # {}}
      /\ twice' = twice \cup {l \in go : Dialling(l)}
  BY DEF Start
<1>3. \A l \in go : /\ tab'[l].st = "connecting" /\ tab'[l].conn = "none" /\ tab[l].conn = "none"
                    /\ tab'[l].tasks = tab[l].tasks + 1 /\ tab'[l].dials = tab[l].dials
                    /\ tab[l].tasks \in Nat /\ tab[l].dials \in Nat /\ tab[l].tasks < MaxDials
                    /\ l \in opened'
  <2> SUFFICES ASSUME NEW l \in go
               PROVE  /\ tab'[l].st = "connecting" /\ tab'[l].conn = "none" /\ tab[l].conn = "none"
                      /\ tab'[l].tasks = tab[l].tasks + 1 /\ tab'[l].dials = tab[l].dials
                      /\ tab[l].tasks \in Nat /\ tab[l].dials \in Nat /\ tab[l].tasks < MaxDials
                      /\ l \in opened'
    OBVIOUS
  <2>1. /\ l \in LineNos /\ l \in opened' /\ tab[l] \in TabRec
        /\ tab[l].st = "idle" /\ tab[l].tasks + tab[l].dials < MaxDials
        /\ tab'[l] = [tab[l] EXCEPT !.st = "connecting", !.tasks = @ + 1]
    BY <1>1, <1>2
  <2>2. tab[l].tasks \in Nat /\ tab[l].dials \in Nat /\ tab[l].tasks < MaxDials
    BY <2>1, LinesAssumption DEF TabRec
  <2>3. tab[l].conn = "none"
    BY <2>1 DEF IInv, Tabs
  <2> QED
    BY <2>1, <2>2, <2>3 DEF TabRec
<1>4. \A l \in LineNos \ go : tab'[l] = tab[l]
  BY <1>2
<1>5. tab' \in [LineNos -> TabRec]
  <2>1. \A l \in go : [tab[l] EXCEPT !.st = "connecting", !.tasks = @ + 1] \in TabRec
    <3> SUFFICES ASSUME NEW l \in go
                 PROVE  [tab[l] EXCEPT !.st = "connecting", !.tasks = @ + 1] \in TabRec
      OBVIOUS
    <3>1. tab[l] \in TabRec /\ tab[l].tasks \in Nat /\ tab[l].tasks < MaxDials
      BY <1>1, <1>3
    <3>2. tab[l].tasks + 1 \in 0 .. MaxDials
      BY <3>1, LinesAssumption
    <3> QED
      BY <3>1, <3>2 DEF TabRec
  <2> HIDE DEF go
  <2> QED
    BY <1>1, <1>2, <2>1
<1> HIDE DEF go
<1>6. Grows /\ clashed' \subseteq LineNos /\ twice' \subseteq LineNos
  BY <1>1, <1>2 DEF Grows
<1>7. TypeOK' /\ AllGood'
  BY <1>5, <1>6 DEF IInv, TypeOK, TabRec, AllGood, DzTyped
<1>8. Tabs'
  <2> SUFFICES ASSUME NEW l \in LineNos
               PROVE  /\ tab'[l].tasks + tab'[l].dials <= MaxDials
                      /\ tab'[l].tasks + tab'[l].dials > 1 => l \in twice'
                      /\ tab'[l].conn # "none" /\ Dialling(l)' => l \in twice'
                      /\ tab'[l].st = "idle" => tab'[l].conn = "none"
                      /\ Dialling(l)' /\ tab'[l].st # "connecting" => Known(l)'
                      /\ tab'[l].conn # "none" /\ tab'[l].st # "up" => Known(l)'
                      /\ tab'[l].conn = "refused" => Known(l)'
                      /\ l \notin opened' /\ (Dialling(l)' \/ tab'[l].conn # "none") => l \in early'
    BY DEF Tabs
  <2>1. CASE l \in go
    <3>1. /\ tab'[l].st = "connecting" /\ tab'[l].conn = "none" /\ l \in opened'
          /\ tab'[l].tasks = tab[l].tasks + 1 /\ tab'[l].dials = tab[l].dials
          /\ tab[l].tasks \in Nat /\ tab[l].dials \in Nat
          /\ tab[l].tasks + tab[l].dials < MaxDials
      BY <1>2, <1>3, <2>1
    <3>2. tab'[l].tasks + tab'[l].dials > 1 => l \in twice'
      <4>1. Dialling(l) => l \in twice'
        BY <1>2, <2>1
      <4>2. tab'[l].tasks + tab'[l].dials > 1 => tab[l].tasks + tab[l].dials > 0
        BY <3>1
      <4> QED
        BY <4>1, <4>2 DEF Dialling
    <3>3. tab'[l].tasks + tab'[l].dials <= MaxDials
      BY <3>1, LinesAssumption
    <3> QED
      BY <3>1, <3>2, <3>3
  <2>2. CASE l \notin go
    BY <1>4, <1>6, <2>2 DEF IInv, Tabs, Dialling, Known, Grows
  <2> QED
    BY <2>1, <2>2
<1>9. Shared'
  <2>1. ASSUME NEW b \in Borrowers, bw[b].pc # "off",
               Dialling(bw[b].l)' \/ tab'[bw[b].l].conn # "none"
        PROVE  Known(bw[b].l)'
    <3>1. bw[b].l \in LineNos
      BY DEF IInv, TypeOK
    <3>2. CASE bw[b].l \in go
      <4>1. On(bw[b].l) # {}
        BY <2>1 DEF On
      <4> QED
        BY <1>2, <3>2, <4>1 DEF Known
    <3>3. CASE bw[b].l \notin go
      BY <1>4, <1>6, <2>1, <3>1, <3>3 DEF IInv, Shared, Dialling, Known, Grows
    <3> QED
      BY <3>2, <3>3
  <2> QED
    BY <1>6, <2>1 DEF IInv, Shared, Grows
<1>10. Borrows'
  BY <1>6 DEF IInv, Borrows, Known, Grows
<1>11. Held'
  <2>1. \A l \in LineNos : tab'[l].conn = tab[l].conn
    BY <1>3, <1>4
  <2> QED
    BY <1>6, <2>1 DEF IInv, Held, Has, Grows
<1> QED
  BY <1>7, <1>8, <1>9, <1>10, <1>11 DEF IInv

LEMMA TabTyped ==
  ASSUME TypeOK, NEW l \in LineNos
  PROVE  /\ tab[l] \in TabRec /\ tab[l].tasks \in Nat /\ tab[l].dials \in Nat
         /\ tab[l].conn \in Conns
<1>1. tab[l] \in TabRec
  BY DEF TypeOK, TabRec
<1> QED
  BY <1>1, LinesAssumption DEF TabRec

\* A task of start() comes to its dial or to the end of it: line l's tab becomes
\* t, and the connection that SIMH serves on it is e's.
LEMMA DialKeeps ==
  ASSUME IInv, NEW l \in LineNos, Dialling(l), NEW t \in TabRec, NEW e, Good(e),
         tab' = [tab EXCEPT ![l] = t], dz' = [dz EXCEPT ![l] = e],
         \/ /\ t.st = tab[l].st /\ t.conn = tab[l].conn
            /\ t.tasks + t.dials = tab[l].tasks + tab[l].dials
         \/ /\ t.st # "idle"
            /\ t.conn # "none" /\ t.st # "up" => tab[l].conn # "none"
            /\ t.tasks + t.dials < tab[l].tasks + tab[l].dials,
         t.conn = "refused" => Known(l),
         e.held = "tab" <=> t.conn = "held",
         e.held = "leak" => l \in twice,
         \A b \in Borrowers : e.held = b <=> dz[l].held = b,
         UNCHANGED <<up, opened, bw, clashed, early, twice>>
  PROVE  IInv'
<1>1. /\ tab \in [LineNos -> TabRec] /\ DOMAIN dz = LineNos
  BY DEF IInv, TypeOK, TabRec, DzTyped
<1>2. /\ tab'[l] = t /\ dz'[l] = e
      /\ \A k \in LineNos \ {l} : tab'[k] = tab[k] /\ dz'[k] = dz[k]
  BY <1>1
<1>3. AllGood'
  BY <1>2 DEF IInv, AllGood
<1>4. DzTyped(LineNos)'
  <2>1. dz' = [k \in LineNos |-> dz'[k]]
    BY <1>1
  <2>2. \A k \in LineNos : dz'[k] \in LineRec
    BY <1>3 DEF AllGood, Good
  <2> QED
    BY <2>1, <2>2 DEF DzTyped, LineRec, Procs
<1>5. tab' \in [LineNos -> TabRec]
  BY <1>1
<1>6. TypeOK'
  BY <1>4, <1>5 DEF IInv, TypeOK, TabRec
<1>7. /\ t.tasks \in Nat /\ t.dials \in Nat /\ tab[l].tasks \in Nat /\ tab[l].dials \in Nat
      /\ t.conn \in Conns /\ tab[l].conn \in Conns
  BY <1>1, LinesAssumption DEF TabRec
<1>8. Tabs'
  <2> SUFFICES ASSUME NEW k \in LineNos
               PROVE  /\ tab'[k].tasks + tab'[k].dials <= MaxDials
                      /\ tab'[k].tasks + tab'[k].dials > 1 => k \in twice'
                      /\ tab'[k].conn # "none" /\ Dialling(k)' => k \in twice'
                      /\ tab'[k].st = "idle" => tab'[k].conn = "none"
                      /\ Dialling(k)' /\ tab'[k].st # "connecting" => Known(k)'
                      /\ tab'[k].conn # "none" /\ tab'[k].st # "up" => Known(k)'
                      /\ tab'[k].conn = "refused" => Known(k)'
                      /\ k \notin opened' /\ (Dialling(k)' \/ tab'[k].conn # "none") => k \in early'
    BY DEF Tabs
  <2>1. CASE k # l
    BY <1>2, <2>1 DEF IInv, Tabs, Dialling, Known
  <2>2. CASE k = l
    <3>1. /\ tab[l].tasks + tab[l].dials <= MaxDials
          /\ tab[l].tasks + tab[l].dials > 1 => l \in twice
          /\ tab[l].st # "connecting" => Known(l)
          /\ tab[l].st = "idle" => tab[l].conn = "none"
          /\ tab[l].conn # "none" => l \in twice
          /\ l \notin opened => l \in early
      BY DEF IInv, Tabs
    <3>2. l \in twice => Known(l)
      BY DEF Known
    <3>3. Known(l)' = Known(l)
      BY DEF Known
    <3>4. Dialling(l)' <=> t.tasks + t.dials > 0
      BY <1>2 DEF Dialling
    <3>5. t.tasks + t.dials <= MaxDials /\ (t.tasks + t.dials > 1 => l \in twice)
      BY <1>7, <3>1, LinesAssumption
    <3>6. t.conn # "none" /\ t.tasks + t.dials > 0 => l \in twice
      BY <1>7, <3>1
    <3>7. t.tasks + t.dials > 0 /\ t.st # "connecting" => Known(l)
      BY <1>7, <3>1, <3>2
    <3>8. /\ t.st = "idle" => t.conn = "none"
          /\ t.conn # "none" /\ t.st # "up" => Known(l)
      BY <3>1, <3>2
    <3>9. /\ tab'[k] = t /\ (Dialling(k)' <=> t.tasks + t.dials > 0) /\ Known(k)' = Known(l)
          /\ twice' = twice /\ (k \notin opened' => k \in early')
      BY <1>2, <2>2, <3>1, <3>3, <3>4
    <3> QED
      BY <2>2, <3>5, <3>6, <3>7, <3>8, <3>9
  <2> QED
    BY <2>1, <2>2
<1>9. Shared'
  <2>1. ASSUME NEW b \in Borrowers, bw[b].pc # "off",
               Dialling(bw[b].l)' \/ tab'[bw[b].l].conn # "none"
        PROVE  Known(bw[b].l)'
    <3>1. bw[b].l \in LineNos
      BY DEF IInv, TypeOK
    <3>2. CASE bw[b].l = l
      BY <2>1, <3>2 DEF IInv, Shared, Known
    <3>3. CASE bw[b].l # l
      BY <1>2, <2>1, <3>1, <3>3 DEF IInv, Shared, Dialling, Known
    <3> QED
      BY <3>2, <3>3
  <2> QED
    BY <2>1 DEF IInv, Shared
<1>10. Borrows'
  BY DEF IInv, Borrows, Known
<1>11. Held'
  <2> SUFFICES ASSUME NEW k \in LineNos
               PROVE  /\ dz'[k].held = "tab" <=> tab'[k].conn = "held"
                      /\ dz'[k].held = "leak" => k \in twice'
                      /\ \A b \in Borrowers : dz'[k].held = b <=> Has(b, k)'
    BY DEF Held
  <2>1. CASE k # l
    BY <1>2, <2>1 DEF IInv, Held, Has
  <2>2. CASE k = l
    BY <1>2, <2>2 DEF IInv, Held, Has
  <2> QED
    BY <2>1, <2>2
<1> QED
  BY <1>3, <1>6, <1>8, <1>9, <1>10, <1>11 DEF IInv

LEMMA EnterKeeps ==
  ASSUME IInv, NEW l \in LineNos, Enter(l)
  PROVE  IInv'
<1>1. /\ tab[l] \in TabRec /\ tab[l].tasks \in Nat /\ tab[l].dials \in Nat
      /\ tab[l].tasks > 0 /\ tab[l].tasks + tab[l].dials <= MaxDials
      /\ tab \in [LineNos -> TabRec]
  BY TabTyped DEF IInv, Enter, Tabs, TypeOK, TabRec
<1>2. Dialling(l)
  BY <1>1 DEF Dialling
<1>3. UNCHANGED <<dz, up, opened, bw, clashed, early, twice>>
  BY DEF Enter
<1>4. Good(dz[l]) /\ dz' = [dz EXCEPT ![l] = dz[l]]
  BY <1>3 DEF IInv, AllGood, TypeOK, DzTyped
<1>5. /\ dz[l].held = "tab" <=> tab[l].conn = "held"
      /\ dz[l].held = "leak" => l \in twice
      /\ tab[l].conn = "refused" => Known(l)
  BY DEF IInv, Held, Tabs
<1>6. CASE tab[l].conn # "none"
  <2> DEFINE t == [tab[l] EXCEPT !.tasks = tab[l].tasks - 1, !.st = "up"]
  <2>1. /\ t \in TabRec /\ t.st = "up" /\ t.conn = tab[l].conn
        /\ t.tasks + t.dials < tab[l].tasks + tab[l].dials
    <3>1. tab[l].tasks - 1 \in 0 .. MaxDials
      BY <1>1, LinesAssumption
    <3>2. /\ t \in TabRec /\ t.st = "up" /\ t.conn = tab[l].conn
          /\ t.tasks = tab[l].tasks - 1 /\ t.dials = tab[l].dials
      BY <1>1, <3>1 DEF TabRec
    <3> HIDE DEF t
    <3> QED
      BY <1>1, <3>2
  <2>2. tab' = [tab EXCEPT ![l] = t]
    BY <1>1, <1>6 DEF Enter
  <2> HIDE DEF t
  <2> QED
    BY <1>2, <1>3, <1>4, <1>5, <2>1, <2>2, DialKeeps
<1>7. CASE tab[l].conn = "none"
  <2> DEFINE t == [tab[l] EXCEPT !.tasks = tab[l].tasks - 1, !.dials = tab[l].dials + 1]
  <2>1. tab[l].dials + 1 \in 0 .. MaxDials /\ tab[l].tasks - 1 \in 0 .. MaxDials
    BY <1>1, LinesAssumption
  <2>2. /\ t \in TabRec /\ t.st = tab[l].st /\ t.conn = tab[l].conn
        /\ t.tasks = tab[l].tasks - 1 /\ t.dials = tab[l].dials + 1
    BY <1>1, <2>1 DEF TabRec
  <2>3. t.tasks + t.dials = tab[l].tasks + tab[l].dials
    BY <1>1, <2>2
  <2>4. tab' = [tab EXCEPT ![l] = t]
    BY <1>1, <1>7 DEF Enter
  <2> HIDE DEF t
  <2> QED
    BY <1>2, <1>3, <1>4, <1>5, <2>2, <2>3, <2>4, DialKeeps
<1> QED
  BY <1>6, <1>7

LEMMA DialledKeeps ==
  ASSUME IInv, NEW l \in LineNos, Dialled(l) \/ NotDialled(l)
  PROVE  IInv'
<1>1. /\ tab[l] \in TabRec /\ tab[l].tasks \in Nat /\ tab[l].dials \in Nat
      /\ tab[l].dials > 0 /\ tab \in [LineNos -> TabRec]
  BY TabTyped DEF IInv, Dialled, NotDialled, TypeOK, TabRec
<1>2. Dialling(l) /\ tab[l].dials - 1 \in 0 .. MaxDials
  BY <1>1, LinesAssumption DEF Dialling, TabRec
<1>3. Good(dz[l]) /\ dz[l] \in LineRec /\ dz = [dz EXCEPT ![l] = dz[l]]
  BY DEF IInv, AllGood, Good, TypeOK, DzTyped
<1>4. /\ dz[l].held = "tab" <=> tab[l].conn = "held"
      /\ dz[l].held = "leak" => l \in twice
      /\ tab[l].conn = "refused" => Known(l)
      /\ tab[l].conn # "none" => l \in twice
  BY <1>2 DEF IInv, Held, Tabs
<1>5. CASE NotDialled(l)
  <2> DEFINE t == [tab[l] EXCEPT !.dials = tab[l].dials - 1, !.st = "failed"]
  <2>1. /\ t \in TabRec /\ t.st = "failed" /\ t.conn = tab[l].conn
        /\ t.tasks = tab[l].tasks /\ t.dials = tab[l].dials - 1
    BY <1>1, <1>2 DEF TabRec
  <2>2. tab' = [tab EXCEPT ![l] = t] /\ dz' = [dz EXCEPT ![l] = dz[l]]
    BY <1>1, <1>3, <1>5 DEF NotDialled
  <2>3. t.tasks + t.dials < tab[l].tasks + tab[l].dials
    BY <1>1, <2>1
  <2>4. UNCHANGED <<up, opened, bw, clashed, early, twice>>
    BY <1>5 DEF NotDialled
  <2> HIDE DEF t
  <2> QED
    BY <1>2, <1>3, <1>4, <2>1, <2>2, <2>3, <2>4, DialKeeps
<1>6. CASE Dialled(l) /\ dz[l].held = NoUser
  <2> DEFINE t == [tab[l] EXCEPT !.dials = tab[l].dials - 1, !.st = "up", !.conn = "held"]
             e == Accept(dz[l], "tab")
  <2>1. /\ t \in TabRec /\ t.st = "up" /\ t.conn = "held"
        /\ t.tasks = tab[l].tasks /\ t.dials = tab[l].dials - 1
    BY <1>1, <1>2 DEF TabRec, Conns
  <2>2. tab' = [tab EXCEPT ![l] = t] /\ dz' = [dz EXCEPT ![l] = e]
    BY <1>1, <1>6 DEF Dialled
  <2>3. Good(e) /\ e.held = "tab"
    BY <1>3, AcceptGood, Names
  <2>4. t.tasks + t.dials < tab[l].tasks + tab[l].dials
    BY <1>1, <2>1
  <2>5. UNCHANGED <<up, opened, bw, clashed, early, twice>>
    BY <1>6 DEF Dialled
  <2>6. \A b \in Borrowers : e.held = b <=> dz[l].held = b
    BY <1>6, <2>3, Names
  <2> HIDE DEF t, e
  <2> QED
    BY <1>2, <2>1, <2>2, <2>3, <2>4, <2>5, <2>6, DialKeeps
<1>7. CASE Dialled(l) /\ dz[l].held # NoUser
  <2> DEFINE t == [tab[l] EXCEPT !.dials = tab[l].dials - 1, !.st = "up", !.conn = "refused"]
             e == IF tab[l].conn = "held" THEN [dz[l] EXCEPT !.held = "leak"] ELSE dz[l]
  <2>1. /\ t \in TabRec /\ t.st = "up" /\ t.conn = "refused"
        /\ t.tasks = tab[l].tasks /\ t.dials = tab[l].dials - 1
    BY <1>1, <1>2 DEF TabRec, Conns
  <2>2. tab' = [tab EXCEPT ![l] = t] /\ dz' = [dz EXCEPT ![l] = e]
    BY <1>1, <1>7 DEF Dialled
  <2>3. t.tasks + t.dials < tab[l].tasks + tab[l].dials
    BY <1>1, <2>1
  <2>4. UNCHANGED <<up, opened, bw, clashed, early, twice>>
    BY <1>7 DEF Dialled
  <2>5. Good(e)
    <3>1. CASE tab[l].conn = "held"
      <4> DEFINE f == [dz[l] EXCEPT !.held = "leak"]
      <4>1. /\ f \in LineRec /\ f.held = "leak" /\ f.carr = dz[l].carr /\ f.proc = dz[l].proc
            /\ f.typed = dz[l].typed /\ f.own = dz[l].own /\ f.quick = dz[l].quick
        BY <1>3 DEF LineRec
      <4> HIDE DEF f
      <4>2. Kept(f)
        BY <1>3, <4>1 DEF Good, Kept, IsOpen
      <4>3. Its(f)
        BY <1>3, <1>7, <4>1 DEF Good, Its, IsOpen
      <4> QED
        BY <3>1, <4>1, <4>2, <4>3 DEF Good, f
    <3>2. CASE tab[l].conn # "held"
      BY <1>3, <3>2
    <3> QED
      BY <3>1, <3>2
  <2>6. /\ e.held # "tab" /\ (e.held = "leak" => l \in twice)
        /\ \A b \in Borrowers : e.held = b <=> dz[l].held = b
    BY <1>3, <1>4, Names DEF LineRec
  <2>7. Known(l)
    <3>1. CASE dz[l].held \in {"tab", "leak"}
      BY <1>4, <3>1 DEF Known
    <3>2. CASE dz[l].held \in Borrowers
      <4>1. PICK b \in Borrowers : dz[l].held = b
        BY <3>2
      <4>2. bw[b].l = l /\ bw[b].pc # "off"
        BY <4>1 DEF IInv, Held, Has, Borrows
      <4> QED
        BY <1>2, <4>2 DEF IInv, Shared
    <3> QED
      BY <1>3, <1>7, <3>1, <3>2, LinesAssumption DEF LineRec
  <2> HIDE DEF t, e
  <2> QED
    BY <1>2, <2>1, <2>2, <2>3, <2>4, <2>5, <2>6, <2>7, DialKeeps
<1> QED
  BY <1>5, <1>6, <1>7

LEMMA CloseKeeps ==
  ASSUME IInv, NEW l \in LineNos, Close(l)
  PROVE  IInv'
<1> DEFINE e == IF tab[l].conn = "held" THEN Drop(dz[l]) ELSE dz[l]
           t == [tab[l] EXCEPT !.st = "idle", !.conn = "none"]
<1>1. /\ tab[l] \in TabRec /\ tab \in [LineNos -> TabRec] /\ DOMAIN dz = LineNos
      /\ opened \subseteq LineNos /\ early \subseteq LineNos
  BY TabTyped DEF IInv, TypeOK, TabRec, DzTyped
<1>2. /\ opened' = opened \ {l} /\ dz' = [dz EXCEPT ![l] = e] /\ tab' = [tab EXCEPT ![l] = t]
      /\ early' = early \cup (IF Dialling(l) THEN {l} ELSE {})
      /\ UNCHANGED <<up, bw, clashed, twice>>
  BY <1>1 DEF Close
<1>3. /\ t \in TabRec /\ t.st = "idle" /\ t.conn = "none"
      /\ t.tasks = tab[l].tasks /\ t.dials = tab[l].dials
  BY <1>1 DEF TabRec, Conns
<1>4. Good(dz[l]) /\ dz[l].held \in Users \cup {NoUser, "leak"}
  BY DEF IInv, AllGood, Good, LineRec
<1>5. dz[l].held = "tab" <=> tab[l].conn = "held"
  BY DEF IInv, Held
<1>6. /\ Good(e) /\ e.held # "tab" /\ (e.held = "leak" => dz[l].held = "leak")
      /\ \A b \in Borrowers : e.held = b <=> dz[l].held = b
  BY <1>4, <1>5, DropGood, Names DEF NoUser
<1> HIDE DEF t, e
<1>7. /\ tab'[l] = t /\ dz'[l] = e
      /\ \A k \in LineNos \ {l} : tab'[k] = tab[k] /\ dz'[k] = dz[k]
  BY <1>1, <1>2
<1>8. AllGood'
  BY <1>6, <1>7 DEF IInv, AllGood
<1>9. TypeOK'
  <2>1. dz' = [k \in LineNos |-> dz'[k]] /\ \A k \in LineNos : dz'[k] \in LineRec
    BY <1>1, <1>2, <1>8 DEF AllGood, Good
  <2>2. DzTyped(LineNos)'
    BY <2>1 DEF DzTyped, LineRec, Procs
  <2>3. tab' \in [LineNos -> TabRec] /\ opened' \subseteq LineNos /\ early' \subseteq LineNos
    BY <1>1, <1>2, <1>3
  <2> QED
    BY <1>2, <2>2, <2>3 DEF IInv, TypeOK, TabRec
<1>10. Grows /\ (Dialling(l) => l \in early') /\ \A k \in LineNos : Dialling(k)' = Dialling(k)
  <2>1. \A k \in LineNos : tab'[k].tasks = tab[k].tasks /\ tab'[k].dials = tab[k].dials
    BY <1>3, <1>7
  <2> QED
    BY <1>2, <2>1 DEF Grows, Dialling
<1>11. Tabs'
  <2> SUFFICES ASSUME NEW k \in LineNos
               PROVE  /\ tab'[k].tasks + tab'[k].dials <= MaxDials
                      /\ tab'[k].tasks + tab'[k].dials > 1 => k \in twice'
                      /\ tab'[k].conn # "none" /\ Dialling(k)' => k \in twice'
                      /\ tab'[k].st = "idle" => tab'[k].conn = "none"
                      /\ Dialling(k)' /\ tab'[k].st # "connecting" => Known(k)'
                      /\ tab'[k].conn # "none" /\ tab'[k].st # "up" => Known(k)'
                      /\ tab'[k].conn = "refused" => Known(k)'
                      /\ k \notin opened' /\ (Dialling(k)' \/ tab'[k].conn # "none") => k \in early'
    BY DEF Tabs
  <2>1. CASE k # l
    BY <1>2, <1>7, <1>10, <2>1 DEF IInv, Tabs, Known, Grows
  <2>2. CASE k = l
    BY <1>2, <1>3, <1>7, <1>10, <2>2 DEF IInv, Tabs, Known
  <2> QED
    BY <2>1, <2>2
<1>12. Shared' /\ Borrows'
  <2>1. \A k \in LineNos : tab'[k].conn # "none" => tab[k].conn # "none"
    BY <1>3, <1>7
  <2>2. \A b \in Borrowers : bw[b].l \in LineNos
    BY DEF IInv, TypeOK
  <2> QED
    BY <1>2, <1>10, <2>1, <2>2 DEF IInv, Shared, Borrows, Known, Grows
<1>13. Held'
  <2> SUFFICES ASSUME NEW k \in LineNos
               PROVE  /\ dz'[k].held = "tab" <=> tab'[k].conn = "held"
                      /\ dz'[k].held = "leak" => k \in twice'
                      /\ \A b \in Borrowers : dz'[k].held = b <=> Has(b, k)'
    BY DEF Held
  <2>1. CASE k # l
    BY <1>2, <1>7, <2>1 DEF IInv, Held, Has
  <2>2. CASE k = l
    BY <1>2, <1>3, <1>6, <1>7, <2>2 DEF IInv, Held, Has
  <2> QED
    BY <2>1, <2>2
<1> QED
  BY <1>8, <1>9, <1>11, <1>12, <1>13 DEF IInv

-----------------------------------------------------------------------------
(* Steps of the guest, of its driver, and of a borrow that goes on.        *)

\* Nobody comes, nobody goes but a forgotten connection, and every line is left
\* as it should be.
LEMMA LinesKeep ==
  ASSUME IInv, dz' = [l \in LineNos |-> dz'[l]],
         \A l \in LineNos : Good(dz'[l]),
         \A l \in LineNos : \/ dz'[l].held = dz[l].held
                            \/ dz[l].held = "leak" /\ dz'[l].held = NoUser,
         bw' \in [Borrowers -> BwRec],
         \A b \in Borrowers : /\ bw'[b].l = bw[b].l /\ bw'[b].conn = bw[b].conn
                              /\ bw'[b].pc = "off" <=> bw[b].pc = "off"
                              /\ bw'[b].pc = "dial" => bw[b].pc = "dial",
         UNCHANGED <<up, opened, tab, clashed, early, twice>>
  PROVE  IInv'
<1>1. AllGood'
  BY DEF AllGood
<1>2. TypeOK'
  <2>1. \A l \in LineNos : dz'[l] \in LineRec
    BY DEF Good
  <2>2. DzTyped(LineNos)'
    BY <2>1 DEF DzTyped, LineRec, Procs
  <2> QED
    BY <2>2 DEF IInv, TypeOK, BwRec
<1>3. Tabs'
  BY DEF IInv, Tabs, Dialling, Known
<1>4. Shared'
  BY DEF IInv, Shared, Dialling, Known
<1>5. Borrows'
  BY DEF IInv, Borrows, Known
<1>6. Held'
  BY Names DEF IInv, Held, Has, NoUser
<1> QED
  BY <1>1, <1>2, <1>3, <1>4, <1>5, <1>6 DEF IInv

LEMMA BwTyped ==
  ASSUME IInv
  PROVE  /\ bw \in [Borrowers -> BwRec] /\ DOMAIN dz = LineNos /\ dz = [l \in LineNos |-> dz[l]]
         /\ \A l \in LineNos : Good(dz[l])
BY DEF IInv, TypeOK, BwRec, DzTyped, AllGood

LEMMA ScanKeeps ==
  ASSUME IInv, Scan
  PROVE  IInv'
<1>1. \A l \in LineNos : dz'[l] = Scanned(dz[l])
  BY DEF Scan
<1>2. \A l \in LineNos : Good(dz'[l]) /\ dz'[l].held = dz[l].held
  BY <1>1, BwTyped, ScannedGood
<1>3. dz' = [l \in LineNos |-> dz'[l]] /\ UNCHANGED <<up, opened, tab, bw, clashed, early, twice>>
  BY DEF Scan
<1> QED
  BY <1>2, <1>3, BwTyped, LinesKeep

LEMMA UserKeeps ==
  ASSUME IInv, NEW l \in LineNos, UserLogs(l)
  PROVE  IInv'
<1>1. PICK e : /\ dz' = [dz EXCEPT ![l] = e] /\ Good(e) /\ e.held = dz[l].held
  <2>1. CASE dz[l].proc = "getty" /\ dz' = [dz EXCEPT ![l] = LogsIn(dz[l])]
    BY <2>1, BwTyped, LogsInGood DEF IsOpen
  <2>2. CASE dz' = [dz EXCEPT ![l] = LogsOut(dz[l])]
    BY <2>2, BwTyped, ClosedGood DEF LogsOut
  <2> QED
    BY <2>1, <2>2 DEF UserLogs
<1>2. \A k \in LineNos : Good(dz'[k]) /\ dz'[k].held = dz[k].held
  BY <1>1, BwTyped
<1>3. dz' = [k \in LineNos |-> dz'[k]] /\ UNCHANGED <<up, opened, tab, bw, clashed, early, twice>>
  BY <1>1, BwTyped DEF UserLogs
<1> QED
  BY <1>2, <1>3, BwTyped, LinesKeep

LEMMA HeardIs ==
  ASSUME IInv, NEW b \in Borrowers, NEW l \in LineNos, NEW out \in {"", "login:", "#"}
  PROVE  /\ Heard(b, l, out) \in BwRec /\ Heard(b, l, out).l = bw[b].l
         /\ Heard(b, l, out).conn = bw[b].conn /\ Heard(b, l, out).pc = bw[b].pc
         /\ Heard(b, l, out).ran = bw[b].ran
<1>1. bw[b] \in BwRec
  BY BwTyped
<1>2. CASE Heard(b, l, out) = bw[b]
  BY <1>1, <1>2
<1>3. CASE Heard(b, l, out) = [bw[b] EXCEPT !.got = "yes", !.buf = {}]
  BY <1>1, <1>3 DEF BwRec
<1>4. CASE out # "" /\ Heard(b, l, out) = [bw[b] EXCEPT !.buf = @ \cup {out}]
  <2> DEFINE u == bw[b].buf \cup {out}
  <2>1. u \in SUBSET {"login:", "#"}
    BY <1>1, <1>4 DEF BwRec
  <2> HIDE DEF u
  <2>2. Heard(b, l, out) = [bw[b] EXCEPT !.buf = u]
    BY <1>4 DEF u
  <2> QED
    BY <1>1, <2>1, <2>2 DEF BwRec
<1> QED
  BY <1>2, <1>3, <1>4 DEF Heard

LEMMA GuestKeeps ==
  ASSUME IInv, NEW l \in LineNos, Guest(l)
  PROVE  IInv'
<1>1. PICK s \in GuestSteps(dz[l]) :
          /\ dz' = [dz EXCEPT ![l] = s.d]
          /\ bw' = [b \in Borrowers |-> IF s.ran = b THEN [Heard(b, l, s.out) EXCEPT !.ran = @ + 1]
                                        ELSE Heard(b, l, s.out)]
          /\ UNCHANGED <<up, opened, tab, clashed, early, twice>>
  BY DEF Guest
<1>2. GoodStep(s, dz[l])
  BY BwTyped, GuestGood
<1>3. \A k \in LineNos : Good(dz'[k]) /\ dz'[k].held = dz[k].held
  BY <1>1, <1>2, BwTyped DEF GoodStep
<1>4. dz' = [k \in LineNos |-> dz'[k]]
  BY <1>1, BwTyped
<1>5. ASSUME NEW b \in Borrowers
      PROVE  /\ bw'[b] \in BwRec /\ bw'[b].l = bw[b].l /\ bw'[b].conn = bw[b].conn
             /\ bw'[b].pc = bw[b].pc
  <2> DEFINE h == Heard(b, l, s.out)
  <2>1. /\ h \in BwRec /\ h.l = bw[b].l /\ h.conn = bw[b].conn /\ h.pc = bw[b].pc
    BY <1>2, HeardIs DEF GoodStep
  <2>2. bw'[b] = h \/ bw'[b] = [h EXCEPT !.ran = @ + 1]
    BY <1>1
  <2> HIDE DEF h
  <2> QED
    BY <2>1, <2>2 DEF BwRec
<1>6. bw' \in [Borrowers -> BwRec]
  BY <1>1, <1>5
<1> QED
  BY <1>1, <1>3, <1>4, <1>5, <1>6, LinesKeep

LEMMA AwaitIs ==
  ASSUME NEW r \in BwRec, NEW pc \in {"greet", "root", "work", "exit"}, NEW n \in Nat,
         NEW pat \in {"login:", "#"}
  PROVE  /\ Await(r, pc, pat, n) \in BwRec /\ Await(r, pc, pat, n).l = r.l
         /\ Await(r, pc, pat, n).conn = r.conn /\ Await(r, pc, pat, n).pc = pc
BY DEF Await, BwRec

LEMMA SaysKeeps ==
  ASSUME IInv, NEW b \in Borrowers, bw[b].pc \notin {"off", "dial"},
         NEW what \in {"cr", "root", "cmd", "exit"},
         NEW pc \in {"greet", "root", "work", "exit"}, NEW n \in Nat, Says(b, what, pc, n),
         UNCHANGED <<up, opened, tab, clashed, early, twice>>
  PROVE  IInv'
<1> DEFINE a == Await(bw[b], pc, Pattern(pc), n)
<1>1. bw[b] \in BwRec /\ bw[b].l \in LineNos
  BY BwTyped DEF BwRec
<1>2. /\ a \in BwRec /\ a.l = bw[b].l /\ a.conn = bw[b].conn /\ a.pc = pc
  <2>1. Pattern(pc) \in {"login:", "#"}
    BY DEF Pattern
  <2> DEFINE r == bw[b]
             pat == Pattern(pc)
  <2>2. r \in BwRec /\ pat \in {"login:", "#"}
    BY <1>1, <2>1
  <2> HIDE DEF r, pat
  <2>3. /\ Await(r, pc, pat, n) \in BwRec /\ Await(r, pc, pat, n).l = r.l
        /\ Await(r, pc, pat, n).conn = r.conn /\ Await(r, pc, pat, n).pc = pc
    BY <2>2, AwaitIs
  <2> QED
    BY <2>3 DEF r, pat
<1>3. bw' = [bw EXCEPT ![b] = a] /\ dz' = Sent(bw[b], what)
  BY DEF Says
<1> HIDE DEF a
<1>4. /\ bw' \in [Borrowers -> BwRec] /\ bw'[b] = a
      /\ \A c \in Borrowers \ {b} : bw'[c] = bw[c]
  BY <1>2, <1>3, BwTyped
<1>5. /\ \A l \in LineNos : Good(dz'[l]) /\ dz'[l].held = dz[l].held
      /\ dz' = [l \in LineNos |-> dz'[l]]
  <2>1. CASE bw[b].conn = "held"
    <3> DEFINE e == Type(dz[bw[b].l], what)
    <3>1. dz[bw[b].l].held = b
      BY <1>1, <2>1 DEF IInv, Held, Has
    <3>2. Good(e) /\ e.held = dz[bw[b].l].held
      BY <1>1, <3>1, BwTyped, TypeGood, Names
    <3>3. dz' = [dz EXCEPT ![bw[b].l] = e]
      BY <1>3, <2>1 DEF Sent
    <3> HIDE DEF e
    <3> QED
      BY <1>1, <3>2, <3>3, BwTyped
  <2>2. CASE bw[b].conn # "held"
    BY <1>3, <2>2, BwTyped DEF Sent
  <2> QED
    BY <2>1, <2>2
<1>6. \A c \in Borrowers : /\ bw'[c].l = bw[c].l /\ bw'[c].conn = bw[c].conn
                           /\ bw'[c].pc = "off" <=> bw[c].pc = "off"
                           /\ bw'[c].pc = "dial" => bw[c].pc = "dial"
  BY <1>2, <1>4
<1> QED
  BY <1>4, <1>5, <1>6, LinesKeep

LEMMA TimeoutKeeps ==
  ASSUME IInv, NEW b \in Borrowers, Timeout(b)
  PROVE  IInv'
<1>1. bw' = [bw EXCEPT ![b].got = "no"] /\ UNCHANGED <<dz, up, opened, tab, clashed, early, twice>>
  BY DEF Timeout
<1>2. bw' \in [Borrowers -> BwRec]
  BY <1>1, BwTyped DEF BwRec
<1>3. \A c \in Borrowers : /\ bw'[c].l = bw[c].l /\ bw'[c].conn = bw[c].conn /\ bw'[c].pc = bw[c].pc
  BY <1>1, BwTyped DEF BwRec
<1>4. \A l \in LineNos : Good(dz'[l]) /\ dz'[l].held = dz[l].held
  BY <1>1, BwTyped
<1>5. dz' = [l \in LineNos |-> dz'[l]]
  BY <1>1, BwTyped
<1> QED
  BY <1>1, <1>2, <1>3, <1>4, <1>5, LinesKeep

-----------------------------------------------------------------------------
(* Steps that give a connection up, or make one for a borrow.              *)

\* The record of borrow b becomes r and line l becomes e, while tabs stay.
LEMMA BorrowKeeps ==
  ASSUME IInv, NEW b \in Borrowers, NEW r \in BwRec, NEW l \in LineNos, NEW e, Good(e),
         bw' = [bw EXCEPT ![b] = r], dz' = [dz EXCEPT ![l] = e],
         Grows, clashed' \subseteq LineNos, r.conn # "none" => r.pc \notin {"off", "dial"},
         r.pc # "off" => r.l = l, bw[b].pc # "off" => bw[b].l = l,
         r.pc # "off" /\ (Dialling(l) \/ tab[l].conn # "none") => Known(l)',
         r.pc # "off" => \A c \in Borrowers \ {b} : bw[c].pc # "off" /\ bw[c].l = l => l \in clashed',
         r.conn = "refused" => Known(l)',
         e.held = "tab" <=> tab[l].conn = "held",
         e.held = "leak" => l \in twice,
         e.held = b <=> r.conn = "held",
         \A c \in Borrowers \ {b} : e.held = c <=> dz[l].held = c,
         UNCHANGED <<up, opened, tab, early, twice>>
  PROVE  IInv'
<1>1. /\ bw \in [Borrowers -> BwRec] /\ dz = [k \in LineNos |-> dz[k]] /\ DOMAIN dz = LineNos
      /\ \A c \in Borrowers : bw[c].l \in LineNos
  BY BwTyped DEF BwRec
<1>2. /\ bw'[b] = r /\ bw' \in [Borrowers -> BwRec] /\ \A c \in Borrowers \ {b} : bw'[c] = bw[c]
      /\ dz'[l] = e /\ \A k \in LineNos \ {l} : dz'[k] = dz[k]
  BY <1>1
<1>3. AllGood'
  BY <1>2 DEF IInv, AllGood
<1>4. TypeOK'
  <2>1. dz' = [k \in LineNos |-> dz'[k]] /\ \A k \in LineNos : dz'[k] \in LineRec
    BY <1>1, <1>3 DEF AllGood, Good
  <2>2. DzTyped(LineNos)'
    BY <2>1 DEF DzTyped, LineRec, Procs
  <2> QED
    BY <1>2, <2>2 DEF IInv, TypeOK, BwRec
<1> DEFINE Knows(k) == k \in clashed' \cup early' \cup twice'
<1>5. /\ \A k \in LineNos : Known(k) => Knows(k)
      /\ \A k \in LineNos : Dialling(k)' = Dialling(k)
      /\ Known(l)' <=> Knows(l)
  BY DEF Known, Grows, Dialling
<1>6. Tabs'
  BY <1>5 DEF IInv, Tabs, Known
<1> HIDE DEF Knows
<1>7. Shared'
  <2>1. ASSUME NEW c \in Borrowers, bw'[c].pc # "off",
               Dialling(bw'[c].l) \/ tab'[bw'[c].l].conn # "none"
        PROVE  Knows(bw'[c].l)
    <3>1. CASE c = b
      BY <1>2, <1>5, <2>1, <3>1
    <3>2. CASE c # b
      BY <1>1, <1>2, <1>5, <2>1, <3>2 DEF IInv, Shared
    <3> QED
      BY <3>1, <3>2
  <2>2. ASSUME NEW c \in Borrowers, NEW d \in Borrowers, c # d, bw'[c].pc # "off",
               bw'[d].pc # "off", bw'[c].l = bw'[d].l
        PROVE  bw'[c].l \in clashed'
    <3>1. CASE c # b /\ d # b
      BY <1>2, <2>2, <3>1 DEF IInv, Shared, Grows
    <3>2. CASE c = b
      BY <1>2, <2>2, <3>2
    <3>3. CASE d = b
      BY <1>2, <2>2, <3>3
    <3> QED
      BY <3>1, <3>2, <3>3
  <2> QED
    BY <1>2, <1>5, <2>1, <2>2 DEF Shared, Known, Knows, BwRec
<1>8. Borrows'
  <2> SUFFICES ASSUME NEW c \in Borrowers
               PROVE  /\ bw'[c].conn = "refused" => Knows(bw'[c].l)
                      /\ bw'[c].pc \in {"off", "dial"} => bw'[c].conn = "none"
    BY DEF Borrows, Known, Knows
  <2>1. CASE c = b
    <3>1. bw'[c] = r /\ r.conn \in Conns
      BY <1>2, <2>1 DEF BwRec
    <3> QED
      BY <1>5, <3>1 DEF Conns
  <2>2. CASE c # b
    BY <1>1, <1>2, <1>5, <2>2 DEF IInv, Borrows
  <2> QED
    BY <2>1, <2>2
<1>9. Held'
  <2> SUFFICES ASSUME NEW k \in LineNos
               PROVE  /\ dz'[k].held = "tab" <=> tab'[k].conn = "held"
                      /\ dz'[k].held = "leak" => k \in twice'
                      /\ \A c \in Borrowers : dz'[k].held = c <=> Has(c, k)'
    BY DEF Held
  <2>1. /\ dz'[k].held = "tab" <=> tab'[k].conn = "held"
        /\ dz'[k].held = "leak" => k \in twice'
    BY <1>2 DEF IInv, Held
  <2>2. ASSUME NEW c \in Borrowers
        PROVE  dz'[k].held = c <=> Has(c, k)'
    <3>1. CASE c # b
      BY <1>2, <3>1 DEF IInv, Held, Has
    <3>2. CASE c = b /\ k = l
      BY <1>2, <3>2 DEF Has
    <3>3. CASE c = b /\ k # l
      <4>1. ~Has(b, k)
        BY <3>3 DEF IInv, Borrows, Has
      <4>2. ~Has(b, k)'
        BY <1>2, <3>3 DEF Has
      <4> QED
        BY <1>2, <3>3, <4>1, <4>2 DEF IInv, Held
    <3> QED
      BY <3>1, <3>2, <3>3
  <2> QED
    BY <2>1, <2>2
<1> QED
  BY <1>3, <1>4, <1>6, <1>7, <1>8, <1>9 DEF IInv

LEMMA LeakKeeps ==
  ASSUME IInv, NEW l \in LineNos, LeakEnds(l)
  PROVE  IInv'
<1>1. /\ dz[l].held = "leak" /\ dz' = [dz EXCEPT ![l] = Drop(dz[l])]
      /\ UNCHANGED <<up, opened, tab, bw, clashed, early, twice>>
  BY DEF LeakEnds
<1>2. Good(Drop(dz[l])) /\ Drop(dz[l]).held = NoUser
  BY BwTyped, DropGood
<1>3. \A k \in LineNos : /\ Good(dz'[k])
                         /\ \/ dz'[k].held = dz[k].held
                            \/ dz[k].held = "leak" /\ dz'[k].held = NoUser
  BY <1>1, <1>2, BwTyped
<1>4. dz' = [k \in LineNos |-> dz'[k]]
  BY <1>1, BwTyped
<1> QED
  BY <1>1, <1>3, <1>4, BwTyped, LinesKeep

LEMMA EndsKeeps ==
  ASSUME IInv, NEW b \in Borrowers, bw[b].pc # "off", BorrowEnds(b),
         UNCHANGED <<up, opened, tab, clashed, early, twice>>
  PROVE  IInv'
<1> DEFINE l == bw[b].l
           e == IF bw[b].conn = "held" THEN Drop(dz[l]) ELSE dz[l]
<1>1. bw[b] \in BwRec /\ l \in LineNos /\ Off \in BwRec /\ Off.pc = "off" /\ Off.conn = "none"
  BY BwTyped, LinesAssumption DEF BwRec, Off, Conns, LineNos
<1>2. /\ Good(e) /\ dz[l].held \in Users \cup {NoUser, "leak"}
      /\ bw[b].conn = "held" => e.held = NoUser
      /\ bw[b].conn # "held" => e = dz[l]
  BY <1>1, BwTyped, DropGood DEF Good, LineRec
<1>3. /\ dz[l].held = b <=> bw[b].conn = "held"
      /\ dz[l].held = "tab" <=> tab[l].conn = "held"
      /\ dz[l].held = "leak" => l \in twice
  BY <1>1 DEF IInv, Held, Has
<1>4. /\ e.held = "tab" <=> tab[l].conn = "held"
      /\ e.held = "leak" => l \in twice
      /\ e.held # b
      /\ \A c \in Borrowers \ {b} : e.held = c <=> dz[l].held = c
  BY <1>2, <1>3, Names DEF NoUser
<1>5. bw' = [bw EXCEPT ![b] = Off] /\ dz' = [dz EXCEPT ![l] = e]
  <2>1. dz = [dz EXCEPT ![l] = dz[l]]
    BY <1>1, BwTyped
  <2> QED
    BY <2>1 DEF BorrowEnds
<1>6. Grows /\ clashed' \subseteq LineNos
  BY DEF Grows, IInv, TypeOK
<1> HIDE DEF l, e
<1> QED
  BY <1>1, <1>2, <1>4, <1>5, <1>6, BorrowKeeps DEF l

LEMMA BorrowBegins ==
  ASSUME IInv, NEW b \in Borrowers, Borrow(b)
  PROVE  IInv'
<1> DEFINE r(l) == [Off EXCEPT !.pc = "dial", !.l = l, !.got = "wait"]
<1>1. PICK l \in Spare :
          /\ bw' = [bw EXCEPT ![b] = r(l)]
          /\ clashed' = clashed \cup (IF On(l) # {} THEN {l} ELSE {})
  BY DEF Borrow
<1>2. bw[b].pc = "off" /\ UNCHANGED <<dz, up, opened, tab, early, twice>>
  BY DEF Borrow
<1>3. l \in LineNos /\ ~IsRunning(l)
  BY DEF Spare
<1>4. r(l) \in BwRec /\ r(l).pc = "dial" /\ r(l).conn = "none" /\ r(l).l = l
  BY <1>3 DEF BwRec, Off, Conns
<1> HIDE DEF r
<1>5. Good(dz[l]) /\ dz' = [dz EXCEPT ![l] = dz[l]]
  BY <1>2, <1>3, BwTyped
<1>6. Dialling(l) \/ tab[l].conn # "none" => Known(l)
  <2>1. tab[l].st # "up" /\ tab[l].st # "connecting"
    BY <1>3 DEF IsRunning
  <2> QED
    BY <1>3, <2>1 DEF IInv, Tabs
<1>7. Grows /\ clashed' \subseteq LineNos /\ (Known(l) => Known(l)')
  BY <1>1, <1>2, <1>3 DEF Grows, IInv, TypeOK, Known
<1>8. \A c \in Borrowers \ {b} : bw[c].pc # "off" /\ bw[c].l = l => l \in clashed'
  <2> SUFFICES ASSUME NEW c \in Borrowers, bw[c].pc # "off", bw[c].l = l
               PROVE  l \in clashed'
    OBVIOUS
  <2>1. On(l) # {}
    BY DEF On
  <2> QED
    BY <1>1, <2>1
<1>9. /\ dz[l].held = "tab" <=> tab[l].conn = "held"
      /\ dz[l].held = "leak" => l \in twice
      /\ dz[l].held # b
  BY <1>2, <1>3 DEF IInv, Held, Has, Borrows
<1> QED
  BY <1>1, <1>2, <1>3, <1>4, <1>5, <1>6, <1>7, <1>8, <1>9, BorrowKeeps

LEMMA BorrowDials ==
  ASSUME IInv, NEW b \in Borrowers, BorrowDialled(b)
  PROVE  IInv'
<1>0. PICK l \in LineNos : bw[b].l = l
  BY BwTyped DEF BwRec
<1> DEFINE c == [bw[b] EXCEPT !.conn = IF dz[l].held = NoUser THEN "held" ELSE "refused"]
           r == Await(c, "greet", "login:", 1)
           e == IF dz[l].held = NoUser THEN Type(Accept(dz[l], b), "cr") ELSE dz[l]
<1>1. /\ bw[b].pc = "dial" /\ bw' = [bw EXCEPT ![b] = r]
      /\ UNCHANGED <<up, opened, tab, clashed, early, twice>>
  BY <1>0 DEF BorrowDialled
<1>2. bw[b] \in BwRec /\ bw[b].conn = "none"
  BY <1>1, BwTyped DEF BwRec, IInv, Borrows
<1>3. /\ c \in BwRec /\ c.l = l
      /\ c.conn = IF dz[l].held = NoUser THEN "held" ELSE "refused"
  BY <1>0, <1>2 DEF BwRec, Conns
<1>4. /\ r \in BwRec /\ r.l = l /\ r.pc = "greet" /\ r.conn = c.conn
  <2>1. c \in BwRec /\ c.l = l
    BY <1>3
  <2> HIDE DEF c
  <2>2. /\ Await(c, "greet", "login:", 1) \in BwRec /\ Await(c, "greet", "login:", 1).l = c.l
        /\ Await(c, "greet", "login:", 1).conn = c.conn
        /\ Await(c, "greet", "login:", 1).pc = "greet"
    BY <2>1, AwaitIs
  <2> QED
    BY <2>1, <2>2
<1>5. dz' = [dz EXCEPT ![l] = e]
  <2>1. dz = [dz EXCEPT ![l] = dz[l]]
    BY BwTyped
  <2> QED
    BY <1>0, <2>1 DEF BorrowDialled
<1>6. /\ Good(dz[l]) /\ dz[l].held \in Users \cup {NoUser, "leak"}
      /\ dz[l].held # b
      /\ dz[l].held = "tab" <=> tab[l].conn = "held"
      /\ dz[l].held = "leak" => l \in twice
  BY <1>0, <1>2, BwTyped DEF IInv, Held, Has, Good, LineRec
<1>7. dz[l].held = NoUser => Good(e) /\ e.held = b
  <2> SUFFICES ASSUME dz[l].held = NoUser
               PROVE  Good(Type(Accept(dz[l], b), "cr")) /\ Type(Accept(dz[l], b), "cr").held = b
    OBVIOUS
  <2> DEFINE f == Accept(dz[l], b)
  <2>1. Good(f) /\ f.held = b
    BY <1>6, AcceptGood, Names
  <2> HIDE DEF f
  <2>2. Good(Type(f, "cr")) /\ Type(f, "cr").held = b
    BY <2>1, TypeGood, Names
  <2> QED
    BY <2>2 DEF f
<1>8. dz[l].held # NoUser => e = dz[l]
  OBVIOUS
<1>9. Dialling(l) \/ tab[l].conn # "none" => Known(l)'
  BY <1>0, <1>1 DEF IInv, Shared, Known
<1>10. \A d \in Borrowers \ {b} : bw[d].pc # "off" /\ bw[d].l = l => l \in clashed'
  BY <1>0, <1>1 DEF IInv, Shared
<1>11. dz[l].held # NoUser => Known(l)'
  <2>1. CASE dz[l].held = "tab"
    BY <1>6, <1>9, <2>1
  <2>2. CASE dz[l].held = "leak"
    BY <1>1, <1>6, <2>2 DEF Known
  <2>3. CASE dz[l].held \in Borrowers
    <3>1. PICK d \in Borrowers : dz[l].held = d
      BY <2>3
    <3>2. d # b /\ bw[d].l = l /\ bw[d].pc # "off"
      BY <1>2, <1>6, <3>1 DEF IInv, Held, Has, Borrows
    <3> QED
      BY <1>10, <3>2 DEF Known
  <2> QED
    BY <1>6, <2>1, <2>2, <2>3, LinesAssumption
<1>12. Grows /\ clashed' \subseteq LineNos
  BY <1>1 DEF Grows, IInv, TypeOK
<1> HIDE DEF r, e
<1>13. CASE dz[l].held = NoUser
  <2>1. /\ r.conn = "held" /\ e.held = b /\ e.held # "tab" /\ e.held # "leak"
        /\ tab[l].conn # "held"
        /\ \A d \in Borrowers \ {b} : e.held # d /\ dz[l].held # d
    BY <1>3, <1>4, <1>6, <1>7, <1>13, Names DEF NoUser
  <2> HIDE DEF c
  <2> QED
    BY <1>0, <1>1, <1>2, <1>4, <1>5, <1>7, <1>9, <1>10, <1>12, <1>13, <2>1, BorrowKeeps
<1>14. CASE dz[l].held # NoUser
  <2>1. r.conn = "refused" /\ e = dz[l]
    BY <1>3, <1>4, <1>8, <1>14
  <2> HIDE DEF c
  <2> QED
    BY <1>0, <1>1, <1>2, <1>4, <1>5, <1>6, <1>9, <1>10, <1>11, <1>12, <1>14, <2>1, BorrowKeeps
<1> QED
  BY <1>13, <1>14

LEMMA ResumedKeeps ==
  ASSUME IInv, NEW b \in Borrowers, Resumed(b)
  PROVE  IInv'
<1>1. /\ bw[b].pc \notin {"off", "dial"} /\ UNCHANGED <<up, opened, tab, clashed, early, twice>>
      /\ 0 \in Nat /\ 1 \in Nat /\ bw[b].n + 1 \in Nat
  BY BwTyped DEF Resumed, BwRec
<1>2. CASE Says(b, "root", "root", 0)
  BY <1>1, <1>2, SaysKeeps
<1>3. CASE Says(b, "cr", "greet", bw[b].n + 1)
  BY <1>1, <1>3, SaysKeeps
<1>4. CASE Says(b, "cmd", "work", 1)
  BY <1>1, <1>4, SaysKeeps
<1>5. CASE Says(b, "cmd", "work", bw[b].n + 1)
  BY <1>1, <1>5, SaysKeeps
<1>6. CASE Says(b, "exit", "exit", 0)
  BY <1>1, <1>6, SaysKeeps
<1>7. CASE BorrowEnds(b)
  BY <1>1, <1>7, EndsKeeps
<1> QED
  BY <1>2, <1>3, <1>4, <1>5, <1>6, <1>7 DEF Resumed

-----------------------------------------------------------------------------
LEMMA Consecution == IInv /\ [Next]_vars => IInv'
<1> SUFFICES ASSUME IInv, [Next]_vars
             PROVE  IInv'
  OBVIOUS
<1>1. CASE MachineUp
  <2>1. UNCHANGED <<dz, opened, tab, bw, clashed, early, twice>> /\ up' \in BOOLEAN
    BY <1>1 DEF MachineUp
  <2> QED
    BY <2>1 DEF IInv, TypeOK, DzTyped, AllGood, Tabs, Shared, Borrows, Held, Has, Dialling, Known
<1>2. CASE MachineIsUp
  BY <1>2, StartKeeps DEF MachineIsUp, IInv, TypeOK
<1>3. CASE Scan
  BY <1>3, ScanKeeps
<1>4. ASSUME NEW l \in LineNos, Open(l)
      PROVE  IInv'
  <2> DEFINE ls == IF up THEN {l} ELSE {}
  <2>1. /\ opened' = opened \cup {l} /\ Start(ls) /\ UNCHANGED <<dz, up, bw, early>>
    BY <1>4 DEF Open
  <2>2. ls \in SUBSET LineNos /\ ls \subseteq opened' /\ opened' \subseteq LineNos /\ up' \in BOOLEAN
    BY <2>1 DEF IInv, TypeOK
  <2> HIDE DEF ls
  <2> QED
    BY <2>1, <2>2, StartKeeps
<1>5. ASSUME NEW l \in LineNos, Enter(l) \/ Dialled(l) \/ NotDialled(l) \/ Close(l)
      PROVE  IInv'
  BY <1>5, EnterKeeps, DialledKeeps, CloseKeeps
<1>6. ASSUME NEW l \in LineNos, UserLogs(l) \/ LeakEnds(l) \/ Guest(l)
      PROVE  IInv'
  BY <1>6, UserKeeps, LeakKeeps, GuestKeeps
<1>7. ASSUME NEW b \in Borrowers, Borrow(b)
      PROVE  IInv'
  BY <1>7, BorrowBegins
<1>8. ASSUME NEW b \in Borrowers, Borrowing(b)
      PROVE  IInv'
  <2>1. CASE NoDial(b)
    BY <2>1, EndsKeeps DEF NoDial
  <2> QED
    BY <1>8, <2>1, BorrowDials, TimeoutKeeps, ResumedKeeps DEF Borrowing
<1>9. CASE UNCHANGED vars
  BY <1>9 DEF vars, IInv, TypeOK, DzTyped, AllGood, Tabs, Shared, Borrows, Held, Has, Dialling, Known
<1> QED
  BY <1>1, <1>2, <1>3, <1>4, <1>5, <1>6, <1>7, <1>8, <1>9 DEF Next

\* In every reachable state SIMH, the sessions and the borrows agree on who is
\* connected, and every line is as its driver and init keep it.
THEOREM Invariance == Spec => []IInv
BY Initially, Consecution, PTL DEF Spec

\* Lines, sessions and borrows keep their types, for any number of each.
THEOREM TypeCorrect == Spec => []TypeOK
<1>1. IInv => TypeOK
  BY DEF IInv
<1> QED
  BY Invariance, <1>1, PTL

\* Every connection SIMH serves is an open tab's or that of a borrow at work, and
\* a refused one had one of the named causes (start(), stop() and onSpareLine()
\* of Session.swift).
THEOREM EveryLineAccounted == Spec => []LinesAccounted
<1>1. IInv => LinesAccounted
  <2> SUFFICES ASSUME IInv
               PROVE  LinesAccounted
    OBVIOUS
  <2>1. ASSUME NEW l \in LineNos, dz[l].held \in Borrowers
        PROVE  dz[l].held \in On(l)
    BY <2>1 DEF IInv, Held, Has, Borrows, On
  <2> QED
    BY <2>1 DEF IInv, Tabs, Held, Borrows, LinesAccounted
<1> QED
  BY Invariance, <1>1, PTL

\* No connection comes upon a shell that another one has left, unless it took the
\* line between two looks of dzscan() at the carrier.
THEOREM NoShellIsInherited == Spec => []NoShellInherited
<1>1. IInv => NoShellInherited
  <2> SUFFICES ASSUME IInv, NEW l \in LineNos, dz[l].held # NoUser, dz[l].proc \in Shells
               PROVE  dz[l].own \/ dz[l].quick
    BY DEF NoShellInherited
  <2>1. Its(dz[l])
    BY DEF IInv, AllGood, Good
  <2> QED
    BY <2>1 DEF Its
<1> QED
  BY Invariance, <1>1, PTL

-----------------------------------------------------------------------------
(* What a borrow has heard, and what it has typed that is still unread.    *)

\* Nothing that waits for a getty was meant for a shell, and what has a
\* borrow's name on it was typed by the holder.
Clean(d) ==
    /\ d.proc = "getty" => \A i \in 1 .. Len(d.typed) : d.typed[i].what \in {"cr", "root"}
    /\ \A i \in 1 .. Len(d.typed) : d.typed[i].by \in Borrowers => d.typed[i].by = d.held

\* Of the first k inputs of q the last m are commands of borrow b, and they are
\* all that it has there; no `exit' is among them, of whomever.
Asks(b, x)         == x.what = "cmd" /\ x.by = b
Queued(b, q, k, m) ==
    m \in 0 .. k /\ \A i \in 1 .. k : q[i].what # "exit" /\ (Asks(b, q[i]) <=> i > k - m)
NoneOf(b, q) == \A i \in 1 .. Len(q) : ~Asks(b, q[i])

AtShell(d) == d.proc \in {"profile", "root"}

\* A borrow that has seen `login:' has no stranger's exit before it; one that has
\* then seen a `#' is at a shell, which will say `login:' no more.
Greeted(b, r, d) ==
    /\ r.ran = 0 /\ Queued(b, d.typed, Len(d.typed), 0)
    /\ d.proc \in {"getty", "profile", "root"}

\* Once it has typed its own exit, either that is unread and last, or all its
\* commands have been executed.
Leaving(b, r, d) ==
    \/ /\ AtShell(d) /\ "login:" \notin r.buf /\ r.got # "yes"
       /\ Len(d.typed) > 0 /\ d.typed[Len(d.typed)].what = "exit"
       /\ Queued(b, d.typed, Len(d.typed) - 1, NCmd - r.ran)
    \/ r.ran = NCmd /\ NoneOf(b, d.typed)

Follows(b, r, d) ==
    /\ r.pc = "greet" => r.ran = 0 /\ NoneOf(b, d.typed)
    /\ r.pc = "root" \/ (r.pc = "greet" /\ (r.got = "yes" \/ "login:" \in r.buf)) => Greeted(b, r, d)
    /\ r.pc \in {"greet", "root"} /\ r.got = "yes" /\ "#" \in r.buf => AtShell(d)
    /\ r.pc = "root" /\ r.got = "yes" => AtShell(d) /\ "login:" \notin r.buf
    /\ r.pc = "work" => /\ AtShell(d) /\ "login:" \notin r.buf /\ r.n <= NCmd
                        /\ Queued(b, d.typed, Len(d.typed), r.n - r.ran)
    /\ r.pc = "exit" => Leaving(b, r, d)

\* Without a connection that SIMH serves nothing is heard.
Deaf(r) == /\ r.pc \in {"off", "dial", "greet"} /\ r.buf = {} /\ r.ran = 0
           /\ r.pc # "off" => r.got # "yes"

CleanLines == \A l \in LineNos : Clean(dz[l])
Following  == \A b \in Borrowers : IF bw[b].conn = "held" THEN Follows(b, bw[b], dz[bw[b].l])
                                   ELSE Deaf(bw[b])
DoneInv    == CleanLines /\ Following

-----------------------------------------------------------------------------
(* Lemmas about the queue.                                                 *)

LEMMA QueueRead ==
  ASSUME NEW q \in Seq(Input), q # <<>>
  PROVE  /\ Tail(q) \in Seq(Input) /\ Head(q) = q[1] /\ q[1] \in Input
         /\ Len(q) \in Nat /\ Len(q) > 0 /\ Len(Tail(q)) = Len(q) - 1
         /\ \A i \in 1 .. Len(q) - 1 : Tail(q)[i] = q[i + 1]
  BY HeadTailProperties, SMT

LEMMA QueueTyped ==
  ASSUME NEW q \in Seq(Input), NEW x \in Input
  PROVE  /\ Append(q, x) \in Seq(Input) /\ Len(q) \in Nat /\ Len(Append(q, x)) = Len(q) + 1
         /\ \A i \in 1 .. Len(q) : Append(q, x)[i] = q[i]
         /\ Append(q, x)[Len(q) + 1] = x
  BY AppendProperties, SMT

\* The first input is read.
LEMMA QueuedRead ==
  ASSUME NEW b, NEW q \in Seq(Input), NEW k \in 1 .. Len(q), NEW m \in Int, Queued(b, q, k, m)
  PROVE  /\ q # <<>> /\ q[1].what # "exit"
         /\ Asks(b, q[1]) => Queued(b, Tail(q), k - 1, m - 1)
         /\ ~Asks(b, q[1]) => Queued(b, Tail(q), k - 1, m)
<1> DEFINE t == Tail(q)
<1>1. q # <<>>
  BY SMT
<1>2. Len(q) \in Nat /\ \A i \in 1 .. Len(q) - 1 : t[i] = q[i + 1]
  BY <1>1, QueueRead
<1> HIDE DEF t
<1>3. /\ m \in 0 .. k /\ 1 \in 1 .. k
      /\ \A i \in 1 .. k : q[i].what # "exit" /\ (Asks(b, q[i]) <=> i > k - m)
  BY <1>2 DEF Queued
<1>4. \A i \in 1 .. k - 1 : t[i].what # "exit" /\ (Asks(b, t[i]) <=> i + 1 > k - m)
  <2> SUFFICES ASSUME NEW i \in 1 .. k - 1
               PROVE  t[i].what # "exit" /\ (Asks(b, t[i]) <=> i + 1 > k - m)
    OBVIOUS
  <2>1. t[i] = q[i + 1] /\ i + 1 \in 1 .. k
    BY <1>2
  <2> QED
    BY <1>3, <2>1
<1>5. CASE Asks(b, q[1])
  <2>1. m = k
    BY <1>3, <1>5
  <2> QED
    BY <1>1, <1>3, <1>4, <1>5, <2>1 DEF Queued, t
<1>6. CASE ~Asks(b, q[1])
  <2>1. m <= k - 1
    BY <1>3, <1>6
  <2> QED
    BY <1>1, <1>3, <1>4, <1>6, <2>1 DEF Queued, t
<1> QED
  BY <1>5, <1>6

LEMMA NoneRead ==
  ASSUME NEW b, NEW q \in Seq(Input), q # <<>>, NoneOf(b, q)
  PROVE  NoneOf(b, Tail(q)) /\ ~Asks(b, q[1])
<1>1. /\ Len(q) \in Nat /\ Len(q) > 0 /\ Len(Tail(q)) = Len(q) - 1
      /\ \A i \in 1 .. Len(q) - 1 : Tail(q)[i] = q[i + 1]
  BY QueueRead
<1> QED
  BY <1>1 DEF NoneOf

\* One more input is typed.
LEMMA QueuedTyped ==
  ASSUME NEW b, NEW q \in Seq(Input), NEW x \in Input, NEW m \in Int, Queued(b, q, Len(q), m)
  PROVE  /\ Queued(b, Append(q, x), Len(q), m)
         /\ x.what # "exit" /\ Asks(b, x) => Queued(b, Append(q, x), Len(q) + 1, m + 1)
         /\ x.what # "exit" /\ ~Asks(b, x) /\ m = 0 => Queued(b, Append(q, x), Len(q) + 1, 0)
<1> DEFINE a == Append(q, x)
<1>1. Len(q) \in Nat /\ (\A i \in 1 .. Len(q) : a[i] = q[i]) /\ a[Len(q) + 1] = x
  BY QueueTyped
<1> HIDE DEF a
<1>2. /\ m \in 0 .. Len(q)
      /\ \A i \in 1 .. Len(q) : a[i].what # "exit" /\ (Asks(b, a[i]) <=> i > Len(q) - m)
  BY <1>1 DEF Queued
<1>3. Queued(b, a, Len(q), m)
  BY <1>2 DEF Queued
<1>4. ASSUME x.what # "exit", Asks(b, x)
      PROVE  Queued(b, a, Len(q) + 1, m + 1)
  BY <1>1, <1>2, <1>4 DEF Queued
<1>5. ASSUME x.what # "exit", ~Asks(b, x), m = 0
      PROVE  Queued(b, a, Len(q) + 1, 0)
  BY <1>1, <1>2, <1>5 DEF Queued
<1> QED
  BY <1>3, <1>4, <1>5 DEF a

-----------------------------------------------------------------------------
(* Lemmas about one line and what waits there.                             *)

LEMMA AcceptClean ==
  ASSUME NEW d, Good(d), Clean(d), d.held = NoUser, NEW who \in Users
  PROVE  /\ Clean(Accept(d, who)) /\ Accept(d, who).proc = d.proc
         /\ \A i \in 1 .. Len(d.typed) : d.typed[i].by \notin Borrowers
<1> DEFINE e == Accept(d, who)
<1>1. e.proc = d.proc /\ e.typed = d.typed
  BY DEF Accept, Good, LineRec
<1>2. \A i \in 1 .. Len(d.typed) : d.typed[i].by \notin Borrowers
  BY Names DEF Clean
<1> HIDE DEF e
<1>3. Clean(e)
  BY <1>1, <1>2 DEF Clean
<1> QED
  BY <1>1, <1>2, <1>3 DEF e

LEMMA DropClean ==
  ASSUME NEW d, Good(d), Clean(d)
  PROVE  Clean(Drop(d))
<1> DEFINE t == [i \in DOMAIN d.typed |-> [d.typed[i] EXCEPT !.by = NoUser]]
<1>1. d \in LineRec /\ d.typed \in Seq(Input)
  BY DEF Good, LineRec
<1>2. PICK n \in Nat : d.typed \in [1 .. n -> Input]
  BY <1>1, SMT
<1>3. DOMAIN d.typed = 1 .. n /\ Len(d.typed) = n
  BY <1>1, <1>2, LenProperties, SMT
<1>4. \A i \in 1 .. n : t[i].what = d.typed[i].what /\ t[i].by = NoUser
  BY <1>2, <1>3 DEF Input
<1>5. Len(t) = n
  <2>1. t \in [1 .. n -> Input]
    BY <1>2, <1>3 DEF Input
  <2> HIDE DEF t
  <2> QED
    BY <2>1, SMT
<1> DEFINE e == Drop(d)
<1>6. e.typed = t /\ e.proc = d.proc
  BY <1>1 DEF Drop, LineRec
<1> HIDE DEF t, e
<1>7. Clean(e)
  BY <1>3, <1>4, <1>5, <1>6, Names DEF Clean
<1> QED
  BY <1>7 DEF e

\* Whoever holds the line types what suits who reads it.
LEMMA TypeClean ==
  ASSUME NEW d, Good(d), Clean(d), d.held \in Users, NEW what \in {"cr", "root", "cmd", "exit"},
         d.proc = "getty" => what \in {"cr", "root"}
  PROVE  Clean(Type(d, what))
<1>1. CASE ~IsOpen(d)
  BY <1>1 DEF Type
<1>2. CASE IsOpen(d)
  <2> DEFINE x == [what |-> what, by |-> d.held]
             e == Type(d, what)
  <2>1. d.typed \in Seq(Input) /\ x \in Input /\ x.what = what /\ x.by = d.held
    BY DEF Good, LineRec, Input
  <2>2. e.typed = Append(d.typed, x) /\ e.proc = d.proc /\ e.held = d.held
    BY <1>2 DEF Type, Good, LineRec
  <2> HIDE DEF x, e
  <2>3. /\ Len(d.typed) \in Nat /\ Len(e.typed) = Len(d.typed) + 1
        /\ \A i \in 1 .. Len(d.typed) : e.typed[i] = d.typed[i]
        /\ e.typed[Len(d.typed) + 1] = x
    BY <2>1, <2>2, QueueTyped
  <2>4. \A i \in 1 .. Len(e.typed) : i = Len(d.typed) + 1 \/ i \in 1 .. Len(d.typed)
    BY <2>3
  <2>5. ASSUME e.proc = "getty", NEW i \in 1 .. Len(e.typed)
        PROVE  e.typed[i].what \in {"cr", "root"}
    BY <2>1, <2>2, <2>3, <2>4, <2>5 DEF Clean
  <2>6. ASSUME NEW i \in 1 .. Len(e.typed), e.typed[i].by \in Borrowers
        PROVE  e.typed[i].by = e.held
    BY <2>1, <2>2, <2>3, <2>4, <2>6 DEF Clean
  <2>7. Clean(e)
    BY <2>5, <2>6 DEF Clean
  <2> QED
    BY <2>7 DEF e
<1> QED
  BY <1>1, <1>2

LEMMA ClosedIs ==
  ASSUME NEW d, Good(d)
  PROVE  Closed(d).proc = "none" /\ Closed(d).typed = <<>> /\ Clean(Closed(d))
<1> DEFINE e == Closed(d)
<1>1. e.proc = "none" /\ e.typed = <<>>
  BY DEF Closed, Good, LineRec
<1> HIDE DEF e
<1>2. Clean(e)
  BY <1>1, EmptySeq DEF Clean
<1> QED
  BY <1>1, <1>2 DEF e

LEMMA ScannedClean ==
  ASSUME NEW d, Good(d), Clean(d)
  PROVE  /\ Clean(Scanned(d))
         /\ d.held # NoUser => Scanned(d).proc = d.proc /\ Scanned(d).typed = d.typed
<1>1. CASE d.held # NoUser
  BY <1>1 DEF Scanned, Clean, Good, LineRec
<1>2. CASE d.held = NoUser /\ d.carr /\ IsOpen(d)
  BY <1>2, ClosedIs DEF Scanned
<1>3. CASE d.held = NoUser /\ ~(d.carr /\ IsOpen(d))
  BY <1>3 DEF Scanned, Clean, Good, LineRec
<1> QED
  BY <1>1, <1>2, <1>3

LEMMA LogsInClean ==
  ASSUME NEW d, Good(d)
  PROVE  Clean(LogsIn(d))
<1> DEFINE e == LogsIn(d)
<1>1. e.proc = "user" /\ e.typed = <<>>
  BY DEF LogsIn, Good, LineRec
<1> HIDE DEF e
<1>2. Clean(e)
  BY <1>1, EmptySeq DEF Clean
<1> QED
  BY <1>2 DEF e

\* The steps of the guest, as who waits for their output sees them.
Quiet(d, s)  == s.ran = NoUser /\ s.out = "" /\ s.d.proc \notin {"getty"} \cup Shells
                /\ s.d.typed = <<>>
Opens(d, s)  == s.ran = NoUser /\ s.out = "login:" /\ d.proc = "opening" /\ s.d.proc = "getty"
                /\ s.d.typed = <<>>
Profile(d, s) == s.ran = NoUser /\ s.out = "#" /\ d.proc = "profile" /\ s.d.proc = "root"
                 /\ s.d.typed = d.typed
Reads(d, s)  == d.typed # <<>> /\ s.d.typed = Tail(d.typed)
Logs(d, s)   == /\ Reads(d, s) /\ d.proc = "getty" /\ s.ran = NoUser
                /\ s.d.proc = "profile" /\ s.out \in {"", "#"}
Greets(d, s) == /\ Reads(d, s) /\ d.proc = "getty" /\ s.ran = NoUser
                /\ s.d.proc = "getty" /\ s.out = "login:"
Exits(d, s)  == d.typed # <<>> /\ d.proc = "root" /\ d.typed[1].what = "exit" /\ Quiet(d, s)
Executes(d, s) == /\ Reads(d, s) /\ d.proc = "root" /\ s.d.proc = "root" /\ s.out = "#"
                  /\ d.typed[1].what # "exit"
                  /\ s.ran = IF d.typed[1].what = "cmd" THEN d.typed[1].by ELSE NoUser
Ignores(d, s) == /\ Reads(d, s) /\ d.proc = "user" /\ s.d.proc = "user" /\ s.out = ""
                 /\ s.ran = NoUser

LEMMA GuestForms ==
  ASSUME NEW d, Good(d), NEW s \in GuestSteps(d)
  PROVE  \/ d.proc = "none" /\ Quiet(d, s)
         \/ Opens(d, s) \/ Profile(d, s) \/ Logs(d, s) \/ Greets(d, s) \/ Exits(d, s)
         \/ Executes(d, s) \/ Ignores(d, s)
<1>0. d \in LineRec /\ d.typed \in Seq(Input) /\ (~IsOpen(d) => d.typed = <<>>)
  BY DEF Good, LineRec, Kept
<1> DEFINE r == [d EXCEPT !.typed = Tail(@)]
<1>1. r.typed = Tail(d.typed) /\ r.proc = d.proc
  BY <1>0 DEF LineRec
<1>2. CASE \E e \in Forked(d) : s = Does(e, "", NoUser)
  <2>1. d.proc = "none" /\ s = Does([d EXCEPT !.proc = "opening"], "", NoUser) /\ d.typed = <<>>
    BY <1>0, <1>2 DEF Forked, IsOpen, Shells
  <2> QED
    BY <1>0, <2>1 DEF Does, Quiet, Shells, LineRec
<1>3. CASE \E e \in Opened(d) : s = Does(e, "login:", NoUser)
  <2>1. /\ d.proc = "opening" /\ s = Does([d EXCEPT !.proc = "getty", !.carr = TRUE], "login:", NoUser)
        /\ d.typed = <<>>
    BY <1>0, <1>3 DEF Opened, IsOpen, Shells
  <2> QED
    BY <1>0, <2>1 DEF Does, Opens, LineRec
<1>4. CASE d.proc = "profile" /\ s = Does([d EXCEPT !.proc = "root"], "#", NoUser)
  BY <1>0, <1>4 DEF Does, Profile, LineRec
<1>5. CASE d.typed # <<>> /\ d.proc = "getty" /\ s \in GettyReads(d)
  <2> DEFINE g == [r EXCEPT !.proc = "profile", !.own = Head(d.typed).by # NoUser]
  <2>1. \/ \E o \in {"", "#"} : s = Does(g, o, NoUser)
        \/ s = Does(r, "login:", NoUser)
    BY <1>5 DEF GettyReads
  <2>2. g.typed = Tail(d.typed) /\ g.proc = "profile"
    BY <1>0 DEF LineRec
  <2> HIDE DEF r, g
  <2>3. CASE \E o \in {"", "#"} : s = Does(g, o, NoUser)
    <3>1. PICK o \in {"", "#"} : s = Does(g, o, NoUser)
      BY <2>3
    <3>2. s.d = g /\ s.out = o /\ s.ran = NoUser
      BY <3>1 DEF Does
    <3> QED
      BY <1>5, <2>2, <3>2 DEF Logs, Reads
  <2>4. CASE s = Does(r, "login:", NoUser)
    <3>1. s.d = r /\ s.out = "login:" /\ s.ran = NoUser
      BY <2>4 DEF Does
    <3> QED
      BY <1>1, <1>5, <3>1 DEF Greets, Reads
  <2> QED
    BY <2>1, <2>3, <2>4
<1>6. CASE d.typed # <<>> /\ d.proc = "root" /\ s \in RootReads(d)
  <2>1. Head(d.typed) = d.typed[1]
    BY <1>0, <1>6, QueueRead
  <2>2. \/ d.typed[1].what = "exit" /\ s = Does(Closed(d), "", NoUser)
        \/ d.typed[1].what = "cmd" /\ s = Does(r, "#", d.typed[1].by)
        \/ d.typed[1].what \notin {"exit", "cmd"} /\ s = Does(r, "#", NoUser)
    BY <1>6, <2>1 DEF RootReads
  <2> HIDE DEF r
  <2>3. CASE d.typed[1].what = "exit" /\ s = Does(Closed(d), "", NoUser)
    <3>1. s.d = Closed(d) /\ s.out = "" /\ s.ran = NoUser
      BY <2>3 DEF Does
    <3> QED
      BY <1>6, <2>3, <3>1, ClosedIs DEF Exits, Quiet, Shells
  <2>4. CASE d.typed[1].what = "cmd" /\ s = Does(r, "#", d.typed[1].by)
    <3>1. s.d = r /\ s.out = "#" /\ s.ran = d.typed[1].by
      BY <2>4 DEF Does
    <3> QED
      BY <1>1, <1>6, <2>4, <3>1 DEF Executes, Reads
  <2>5. CASE d.typed[1].what \notin {"exit", "cmd"} /\ s = Does(r, "#", NoUser)
    <3>1. s.d = r /\ s.out = "#" /\ s.ran = NoUser
      BY <2>5 DEF Does
    <3> QED
      BY <1>1, <1>6, <2>5, <3>1 DEF Executes, Reads
  <2> QED
    BY <2>2, <2>3, <2>4, <2>5
<1>7. CASE d.typed # <<>> /\ d.proc = "user" /\ s \in UserReads(d)
  <2>1. s = Does(r, "", NoUser)
    BY <1>7 DEF UserReads
  <2> HIDE DEF r
  <2>2. s.d = r /\ s.out = "" /\ s.ran = NoUser
    BY <2>1 DEF Does
  <2> QED
    BY <1>1, <1>7, <2>2 DEF Ignores, Reads
<1> QED
  BY <1>2, <1>3, <1>4, <1>5, <1>6, <1>7 DEF GuestSteps

LEMMA GuestClean ==
  ASSUME NEW d, Good(d), Clean(d), NEW s \in GuestSteps(d)
  PROVE  /\ Clean(s.d)
         /\ s.ran \in Borrowers => s.ran = d.held
<1>0. d.typed \in Seq(Input) /\ s.d.held = d.held /\ NoUser \notin Borrowers
  BY GuestGood, Names DEF Good, LineRec, GoodStep
<1>1. \/ s.ran = NoUser /\ s.d.typed = <<>> /\ ~Reads(d, s)
      \/ s.ran = NoUser /\ s.d.typed = d.typed /\ s.d.proc # "getty"
      \/ Reads(d, s) /\ (s.d.proc = "getty" => d.proc = "getty") /\ s.ran \in {NoUser, d.typed[1].by}
  <2>1. CASE (d.proc = "none" /\ Quiet(d, s)) \/ Opens(d, s)
    <3>1. d.typed = <<>>
      BY <2>1 DEF Opens, Good, Kept, IsOpen, Shells
    <3> QED
      BY <2>1, <3>1 DEF Quiet, Opens, Reads
  <2>2. CASE Exits(d, s)
    BY <2>2 DEF Exits, Quiet
  <2>3. CASE Profile(d, s)
    BY <2>3 DEF Profile
  <2>4. CASE Logs(d, s) \/ Greets(d, s) \/ Ignores(d, s)
    BY <2>4 DEF Logs, Greets, Ignores
  <2>5. CASE Executes(d, s)
    BY <2>5 DEF Executes
  <2> QED
    BY <2>1, <2>2, <2>3, <2>4, <2>5, GuestForms
<1>2. CASE s.ran = NoUser /\ s.d.typed = <<>>
  <2>1. Len(s.d.typed) = 0
    BY <1>2, EmptySeq
  <2> QED
    BY <2>1, <1>0, <1>2 DEF Clean
<1>3. CASE s.ran = NoUser /\ s.d.typed = d.typed /\ s.d.proc # "getty"
  BY <1>0, <1>3 DEF Clean
<1>4. CASE Reads(d, s) /\ (s.d.proc = "getty" => d.proc = "getty") /\ s.ran \in {NoUser, d.typed[1].by}
  <2>1. /\ Len(d.typed) \in Nat /\ Len(d.typed) > 0 /\ Len(s.d.typed) = Len(d.typed) - 1
        /\ \A i \in 1 .. Len(d.typed) - 1 : s.d.typed[i] = d.typed[i + 1]
    BY <1>0, <1>4, QueueRead DEF Reads
  <2>2. 1 \in 1 .. Len(d.typed)
    BY <2>1
  <2>3. \A i \in 1 .. Len(s.d.typed) : i + 1 \in 1 .. Len(d.typed) /\ s.d.typed[i] = d.typed[i + 1]
    BY <2>1
  <2> QED
    BY <1>0, <1>4, <2>2, <2>3 DEF Clean
<1> QED
  BY <1>1, <1>2, <1>3, <1>4

-----------------------------------------------------------------------------
(* A borrow follows what its line does.                                    *)

\* consume(): r2 is r with the output out.
Hears(r, r2, out) ==
    \/ out = "" /\ r2.got = r.got /\ r2.buf = r.buf
    \/ out # "" /\ r.got = "wait" /\ out = Pattern(r.pc) /\ r2.got = "yes" /\ r2.buf = {}
    \/ /\ out # "" /\ ~(r.got = "wait" /\ out = Pattern(r.pc))
       /\ r2.got = r.got /\ r2.buf = r.buf \cup {out}

LEMMA EmptyQueue ==
  ASSUME NEW b
  PROVE  NoneOf(b, <<>>) /\ Queued(b, <<>>, Len(<<>>), 0) /\ Len(<<>>) = 0
  BY EmptySeq DEF NoneOf, Queued

LEMMA NoneQueued ==
  ASSUME NEW b, NEW q \in Seq(Input)
  PROVE  Queued(b, q, Len(q), 0) => NoneOf(b, q)
<1>1. Len(q) \in Nat
  BY LenProperties
<1> QED
  BY <1>1 DEF Queued, NoneOf

\* A step of the guest on the line of a borrow, in terms of its commands.
LEMMA GuestAnswers ==
  ASSUME NEW b \in Borrowers, NEW d, Good(d), Clean(d), d.held = b, NEW s \in GuestSteps(d),
         NEW got \in {0, 1}, got = 1 <=> s.ran = b
  PROVE  /\ NoneOf(b, d.typed) => NoneOf(b, s.d.typed) /\ got = 0
         /\ s.out = "#" => AtShell(s.d)
         /\ s.out = "login:" => s.d.proc = "getty" /\ ~AtShell(d)
         /\ s.out = "login:" /\ NoneOf(b, d.typed) => Queued(b, s.d.typed, Len(s.d.typed), 0)
         /\ \A m \in Int :
                d.proc \in {"getty", "profile", "root"} /\ Queued(b, d.typed, Len(d.typed), m)
                    => /\ s.d.proc \in {"getty", "profile", "root"}
                       /\ AtShell(d) => AtShell(s.d)
                       /\ Queued(b, s.d.typed, Len(s.d.typed), m - got)
<1> DEFINE q == d.typed
<1>1. /\ q \in Seq(Input) /\ Len(q) \in Nat /\ b # NoUser /\ NoneOf(b, <<>>)
      /\ Queued(b, <<>>, Len(<<>>), 0) /\ (~IsOpen(d) => q = <<>>)
  BY EmptyQueue, LenProperties, Names DEF Good, LineRec, Kept
<1>2. Reads(d, s) => /\ q[1] \in Input /\ Len(s.d.typed) = Len(q) - 1 /\ Len(q) > 0
                     /\ s.d.typed = Tail(q) /\ q # <<>>
                     /\ \A i \in 1 .. Len(q) - 1 : s.d.typed[i] = q[i + 1]
  BY <1>1, QueueRead DEF Reads
<1>3. Reads(d, s) /\ NoneOf(b, q) => NoneOf(b, s.d.typed) /\ ~Asks(b, q[1])
  BY <1>1, <1>2, NoneRead
<1>4. ASSUME Reads(d, s), NEW m \in Int, Queued(b, q, Len(q), m)
      PROVE  /\ Asks(b, q[1]) => Queued(b, s.d.typed, Len(s.d.typed), m - 1)
             /\ ~Asks(b, q[1]) => Queued(b, s.d.typed, Len(s.d.typed), m)
             /\ q[1].what # "exit"
  <2>1. Len(q) \in 1 .. Len(q)
    BY <1>1, <1>2, <1>4
  <2> QED
    BY <1>1, <1>2, <1>4, <2>1, QueuedRead
<1> HIDE DEF q
<1>5. CASE d.proc = "none" /\ Quiet(d, s)
  <2>1. ~AtShell(d) /\ d.proc # "getty" /\ got = 0
    BY <1>1, <1>5 DEF AtShell, Quiet
  <2> QED
    BY <1>1, <1>5, <2>1 DEF Quiet, AtShell
<1>6. CASE Opens(d, s)
  <2>1. ~AtShell(d) /\ d.proc # "getty" /\ got = 0
    BY <1>1, <1>6 DEF AtShell, Opens
  <2> QED
    BY <1>1, <1>6, <2>1 DEF Opens, AtShell
<1>7. CASE Profile(d, s)
  <2>1. got = 0
    BY <1>1, <1>7 DEF Profile
  <2> QED
    BY <1>7, <2>1 DEF Profile, AtShell, q
<1>8. CASE Logs(d, s) \/ Greets(d, s)
  <2>1. got = 0 /\ Reads(d, s) /\ d.proc = "getty" /\ s.d.proc \in {"getty", "profile"}
        /\ (s.out = "#" => s.d.proc = "profile") /\ (s.out = "login:" => s.d.proc = "getty")
    BY <1>1, <1>8 DEF Logs, Greets
  <2>2. \A i \in 1 .. Len(q) : q[i].what \in {"cr", "root"}
    BY <2>1 DEF Clean, q
  <2>3. ~Asks(b, q[1])
    BY <1>1, <1>2, <2>1, <2>2 DEF Asks
  <2>4. Queued(b, q, Len(q), 0)
    BY <1>1, <2>2 DEF Queued, Asks
  <2>5. Queued(b, s.d.typed, Len(s.d.typed), 0)
    BY <1>4, <2>1, <2>3, <2>4
  <2> QED
    BY <1>3, <1>4, <2>1, <2>3, <2>5 DEF AtShell, q
<1>9. CASE Exits(d, s)
  <2>1. q # <<>> /\ d.proc = "root" /\ q[1].what = "exit" /\ got = 0 /\ s.d.typed = <<>>
    BY <1>1, <1>9 DEF Exits, Quiet, q
  <2>2. 1 \in 1 .. Len(q)
    BY <1>1, <2>1, EmptySeq
  <2>3. \A m \in Int : ~Queued(b, q, Len(q), m)
    BY <2>1, <2>2 DEF Queued
  <2> QED
    BY <1>1, <1>9, <2>1, <2>3 DEF Exits, Quiet, q
<1>10. CASE Executes(d, s)
  <2>1. /\ Reads(d, s) /\ d.proc = "root" /\ s.d.proc = "root" /\ s.out = "#"
        /\ q[1].what # "exit" /\ s.ran = IF q[1].what = "cmd" THEN q[1].by ELSE NoUser
    BY <1>10 DEF Executes, q
  <2>2. got = 1 <=> Asks(b, q[1])
    BY <1>1, <2>1 DEF Asks
  <2>3. \A m \in Int : m - 0 = m
    OBVIOUS
  <2> QED
    BY <1>3, <1>4, <2>1, <2>2, <2>3 DEF AtShell, q
<1>11. CASE Ignores(d, s)
  <2>1. Reads(d, s) /\ d.proc = "user" /\ s.out = "" /\ got = 0
    BY <1>1, <1>11 DEF Ignores
  <2> QED
    BY <1>3, <2>1 DEF q
<1> QED
  BY <1>5, <1>6, <1>7, <1>8, <1>9, <1>10, <1>11, GuestForms

LEMMA OnlyOne ==
  ASSUME NEW n \in Nat, n > 0, 1 \notin 1 .. n - 1
  PROVE  n - 1 = 0
  OBVIOUS

LEMMA GuestFollowed ==
  ASSUME NEW b \in Borrowers, NEW r \in BwRec, NEW d, Good(d), Clean(d), d.held = b,
         Follows(b, r, d), NEW s \in GuestSteps(d), NEW r2 \in BwRec, NEW got \in {0, 1},
         got = 1 <=> s.ran = b, r.ran \in Nat, r.n \in Nat, r2.pc = r.pc, r2.n = r.n,
         r2.ran = r.ran + got, Hears(r, r2, s.out)
  PROVE  Follows(b, r2, s.d)
<1> DEFINE q == d.typed
           p == s.d.typed
<1>0. q \in Seq(Input) /\ Len(q) \in Nat /\ NCmd \in Nat
  BY LenProperties, LinesAssumption DEF Good, LineRec
<1>o. s.out \in {"", "login:", "#"}
  BY GuestGood DEF GoodStep
<1>1. /\ NoneOf(b, q) => NoneOf(b, p) /\ got = 0
      /\ s.out = "#" => AtShell(s.d)
      /\ s.out = "login:" => s.d.proc = "getty" /\ ~AtShell(d)
      /\ s.out = "login:" /\ NoneOf(b, q) => Queued(b, p, Len(p), 0)
      /\ \A m \in Int :
             d.proc \in {"getty", "profile", "root"} /\ Queued(b, q, Len(q), m)
                 => /\ s.d.proc \in {"getty", "profile", "root"}
                    /\ AtShell(d) => AtShell(s.d)
                    /\ Queued(b, p, Len(p), m - got)
  BY GuestAnswers
<1>2. Greeted(b, r, d) => Greeted(b, r2, s.d) /\ NoneOf(b, q) /\ (AtShell(d) => AtShell(s.d))
  <2> SUFFICES ASSUME Greeted(b, r, d)
               PROVE  Greeted(b, r2, s.d) /\ NoneOf(b, q) /\ (AtShell(d) => AtShell(s.d))
    OBVIOUS
  <2>1. NoneOf(b, q) /\ Queued(b, q, Len(q), 0) /\ r.ran = 0
    BY <1>0, NoneQueued DEF Greeted
  <2>2. got = 0
    BY <1>1, <2>1
  <2>3. Queued(b, p, Len(p), 0 - got)
    BY <1>1, <2>1 DEF Greeted
  <2> HIDE DEF p, q
  <2>4. Queued(b, p, Len(p), 0)
    <3>1. 0 - got = 0
      BY <2>2
    <3> QED
      BY <2>3, <3>1
  <2> QED
    BY <1>1, <2>1, <2>2, <2>4 DEF Greeted, p, q
<1>3. r.pc = "exit" => Leaving(b, r2, s.d)
  <2>1. CASE r.ran = NCmd /\ NoneOf(b, q)
    BY <1>0, <1>1, <2>1 DEF Leaving
  <2>2. CASE /\ AtShell(d) /\ "login:" \notin r.buf /\ r.got # "yes" /\ r.pc = "exit"
             /\ Len(q) > 0 /\ q[Len(q)].what = "exit"
             /\ Queued(b, q, Len(q) - 1, NCmd - r.ran)
    <3>1. d.proc \in {"profile", "root"} /\ q # <<>>
      BY <2>2, EmptySeq DEF AtShell
    <3>2. CASE Profile(d, s)
      <4>1. p = q /\ s.out = "#" /\ s.d.proc = "root" /\ got = 0
        BY <3>2, Names DEF Profile
      <4>2. "login:" \notin r2.buf /\ r2.got # "yes"
        BY <2>2, <4>1 DEF Hears, Pattern
      <4> QED
        BY <1>0, <2>2, <4>1, <4>2 DEF Leaving, AtShell
    <3>3. CASE Exits(d, s)
      <4>1. q[1].what = "exit" /\ got = 0 /\ p = <<>>
        BY <3>3, Names DEF Exits, Quiet
      <4>2. Len(q) - 1 = 0
        <5>1. \A i \in 1 .. Len(q) - 1 : q[i].what # "exit"
          BY <2>2 DEF Queued
        <5>2. 1 \notin 1 .. Len(q) - 1
          BY <4>1, <5>1, Zenon
        <5>3. Len(q) \in Nat /\ Len(q) > 0
          BY <1>0, <2>2
        <5> HIDE DEF q
        <5> QED
          BY <5>2, <5>3, OnlyOne
      <4>3. r.ran = NCmd
        BY <1>0, <2>2, <4>2 DEF Queued
      <4>4. NoneOf(b, p)
        BY <4>1, EmptyQueue
      <4> QED
        BY <1>0, <4>1, <4>3, <4>4 DEF Leaving
    <3>4. CASE Executes(d, s)
      <4>1. /\ p = Tail(q) /\ s.d.proc = "root" /\ s.out = "#" /\ q[1].what # "exit"
            /\ got = 1 <=> Asks(b, q[1])
        BY <3>4, Names DEF Executes, Reads, Asks
      <4>2. /\ Len(p) = Len(q) - 1 /\ \A i \in 1 .. Len(q) - 1 : p[i] = q[i + 1]
        BY <1>0, <3>1, <4>1, QueueRead
      <4> DEFINE k == Len(q) - 1
                 m == NCmd - r.ran
      <4>3. k \in 1 .. Len(q) /\ m \in Int
        BY <1>0, <2>2, <4>1
      <4>4. Queued(b, q, k, m)
        BY <2>2
      <4> HIDE DEF k, m, p, q
      <4>5. /\ Asks(b, q[1]) => Queued(b, p, k - 1, m - 1)
            /\ ~Asks(b, q[1]) => Queued(b, p, k - 1, m)
        BY <1>0, <4>1, <4>3, <4>4, QueuedRead
      <4>6. Len(p) - 1 = k - 1 /\ NCmd - r2.ran = m - got /\ Len(p) > 0
        BY <1>0, <4>2, <4>3 DEF k, m
      <4>7. Queued(b, p, Len(p) - 1, NCmd - r2.ran)
        <5>1. CASE got = 1
          BY <4>1, <4>5, <4>6, <5>1
        <5>2. CASE got = 0
          <6>1. m - got = m
            BY <4>3, <5>2
          <6> QED
            BY <4>1, <4>5, <4>6, <5>2, <6>1
        <5> QED
          BY <5>1, <5>2
      <4>8. p[Len(p)].what = "exit"
        BY <1>0, <2>2, <4>2, <4>6 DEF k
      <4>9. "login:" \notin r2.buf /\ r2.got # "yes"
        BY <2>2, <4>1 DEF Hears, Pattern
      <4> QED
        BY <4>1, <4>6, <4>7, <4>8, <4>9 DEF Leaving, AtShell, p
    <3> QED
      BY <3>1, <3>2, <3>3, <3>4, GuestForms
         DEF Opens, Logs, Greets, Ignores
  <2> QED
    BY <2>1, <2>2 DEF Leaving, Follows
<1> HIDE DEF p, q
<1>4. r.pc = "greet" => r2.ran = 0 /\ NoneOf(b, p)
  BY <1>0, <1>1 DEF Follows, q
<1>5. r.pc = "work" => /\ AtShell(s.d) /\ "login:" \notin r2.buf
                       /\ Queued(b, p, Len(p), r2.n - r2.ran)
  <2> SUFFICES ASSUME r.pc = "work"
               PROVE  /\ AtShell(s.d) /\ "login:" \notin r2.buf
                      /\ Queued(b, p, Len(p), r2.n - r2.ran)
    OBVIOUS
  <2> DEFINE m == r.n - r.ran
  <2>1. AtShell(d) /\ "login:" \notin r.buf /\ Queued(b, q, Len(q), m) /\ m \in Int
    BY <1>0 DEF Follows, q
  <2>2. m - got = r2.n - r2.ran
    BY <1>0
  <2> HIDE DEF m
  <2> QED
    BY <1>1, <2>1, <2>2 DEF AtShell, Hears
<1>6. CASE r.pc = "greet"
  <2>1. CASE s.out = "login:"
    <3>1. Greeted(b, r2, s.d)
      BY <1>1, <1>4, <1>6, <2>1 DEF Greeted, Follows, p, q
    <3>2. ~(r2.got = "yes" /\ "#" \in r2.buf) \/ AtShell(d)
      BY <1>6, <2>1 DEF Hears, Follows
    <3>3. ~(r2.got = "yes" /\ "#" \in r2.buf)
      BY <1>1, <2>1, <3>2
    <3> QED
      BY <1>4, <1>6, <3>1, <3>3 DEF Follows, p
  <2>2. CASE s.out # "login:"
    <3>1. r2.got = r.got /\ r2.buf \subseteq r.buf \cup {"#"} /\ (s.out = "" => r2.buf = r.buf)
      BY <1>o, <1>6, <2>2 DEF Hears, Pattern
    <3>2. r2.got = "yes" \/ "login:" \in r2.buf => Greeted(b, r2, s.d)
      BY <1>2, <1>6, <3>1 DEF Follows
    <3>3. r2.got = "yes" /\ "#" \in r2.buf => AtShell(s.d)
      BY <1>o, <1>1, <1>2, <1>6, <2>2, <3>1 DEF Follows
    <3> QED
      BY <1>4, <1>6, <3>2, <3>3 DEF Follows, p
  <2> QED
    BY <2>1, <2>2
<1>7. CASE r.pc = "root"
  <2>1. Greeted(b, r, d) /\ Greeted(b, r2, s.d) /\ (AtShell(d) => AtShell(s.d))
    BY <1>2, <1>7 DEF Follows
  <2>2. r2.got = "yes" => AtShell(s.d) /\ "login:" \notin r2.buf
    BY <1>o, <1>1, <1>7, <2>1 DEF Follows, Hears, Pattern
  <2> QED
    BY <1>7, <2>1, <2>2 DEF Follows
<1>8. CASE r.pc = "work"
  BY <1>0, <1>5, <1>8 DEF Follows, p
<1>9. CASE r.pc = "exit"
  BY <1>3, <1>9 DEF Follows
<1>10. CASE r.pc \in {"off", "dial"}
  BY <1>10 DEF Follows
<1> QED
  BY <1>6, <1>7, <1>8, <1>9, <1>10 DEF BwRec

-----------------------------------------------------------------------------
(* What a borrow sends.                                                    *)

LEMMA TypeForms ==
  ASSUME NEW d, Good(d), NEW b \in Borrowers, d.held = b, NEW what \in {"cr", "root", "cmd", "exit"}
  PROVE  LET e == Type(d, what)
             q == d.typed
             x == [what |-> what, by |-> b]
         IN  /\ e.proc = d.proc /\ e.held = b /\ q \in Seq(Input) /\ x \in Input
             /\ e.typed = IF IsOpen(d) THEN Append(q, x) ELSE q
<1>1. d \in LineRec /\ b \in Users
  BY Names DEF Good
<1>2. [what |-> what, by |-> b] \in Input
  BY <1>1 DEF Input
<1> QED
  BY <1>1, <1>2 DEF Type, LineRec

\* The name or a CR that asks for a prompt.
LEMMA SaysToGetty ==
  ASSUME NEW b \in Borrowers, NEW r \in BwRec, NEW d, Good(d), d.held = b, Follows(b, r, d),
         NEW what \in {"cr", "root"}, r.pc \in {"greet", "root"}
  PROVE  LET e == Type(d, what)
         IN  /\ NoneOf(b, d.typed) => NoneOf(b, e.typed)
             /\ Greeted(b, r, d) => Greeted(b, r, e)
             /\ e.proc = d.proc
<1> DEFINE e == Type(d, what)
           q == d.typed
           x == [what |-> what, by |-> b]
<1>1. /\ e.proc = d.proc /\ q \in Seq(Input) /\ x \in Input
      /\ e.typed = IF IsOpen(d) THEN Append(q, x) ELSE q
  BY TypeForms
<1>2. x.what # "exit" /\ ~Asks(b, x)
  BY DEF Asks
<1> HIDE DEF e, q, x
<1>3. /\ Len(q) \in Nat /\ Len(Append(q, x)) = Len(q) + 1 /\ Append(q, x)[Len(q) + 1] = x
      /\ \A i \in 1 .. Len(q) : Append(q, x)[i] = q[i]
  BY <1>1, QueueTyped
<1>4. NoneOf(b, q) => NoneOf(b, Append(q, x))
  BY <1>2, <1>3 DEF NoneOf
<1>5. ASSUME Queued(b, q, Len(q), 0)
      PROVE  Queued(b, Append(q, x), Len(Append(q, x)), 0)
  <2>1. 0 \in Int
    OBVIOUS
  <2>2. Queued(b, Append(q, x), Len(q) + 1, 0)
    BY <1>1, <1>2, <1>5, <2>1, QueuedTyped
  <2> QED
    BY <1>3, <2>2
<1>6. NoneOf(b, q) => NoneOf(b, e.typed)
  BY <1>1, <1>4
<1>7. Queued(b, q, Len(q), 0) => Queued(b, e.typed, Len(e.typed), 0)
  BY <1>1, <1>5
<1> QED
  BY <1>1, <1>6, <1>7 DEF Greeted, q, e

\* A command or the exit, to the shell that it has seen.
LEMMA SaysToShell ==
  ASSUME NEW b \in Borrowers, NEW d, Good(d), d.held = b, AtShell(d),
         NEW m \in Int, Queued(b, d.typed, Len(d.typed), m)
  PROVE  /\ Type(d, "cmd").proc = d.proc /\ Type(d, "exit").proc = d.proc
         /\ Queued(b, Type(d, "cmd").typed, Len(Type(d, "cmd").typed), m + 1)
         /\ LET q == Type(d, "exit").typed
            IN  Len(q) > 0 /\ q[Len(q)].what = "exit" /\ Queued(b, q, Len(q) - 1, m)
<1> DEFINE q == d.typed
           x == [what |-> "cmd", by |-> b]
           y == [what |-> "exit", by |-> b]
<1>1. IsOpen(d)
  BY DEF AtShell, IsOpen, Shells
<1>2. /\ Type(d, "cmd").proc = d.proc /\ Type(d, "exit").proc = d.proc
      /\ q \in Seq(Input) /\ x \in Input /\ y \in Input
      /\ Type(d, "cmd").typed = Append(q, x) /\ Type(d, "exit").typed = Append(q, y)
  BY <1>1, TypeForms
<1>3. x.what # "exit" /\ Asks(b, x) /\ y.what = "exit"
  BY DEF Asks
<1>4. Queued(b, q, Len(q), m)
  OBVIOUS
<1> HIDE DEF q, x, y
<1>5. /\ Len(q) \in Nat /\ Len(Append(q, x)) = Len(q) + 1 /\ Len(Append(q, y)) = Len(q) + 1
      /\ Append(q, y)[Len(q) + 1] = y
  BY <1>2, QueueTyped
<1>6. Queued(b, Append(q, x), Len(q) + 1, m + 1) /\ Queued(b, Append(q, y), Len(q), m)
  BY <1>2, <1>3, <1>4, QueuedTyped
<1>7. Len(q) + 1 > 0 /\ Len(q) + 1 - 1 = Len(q)
  BY <1>5
<1>8. Queued(b, Append(q, y), Len(Append(q, y)) - 1, m)
  BY <1>5, <1>6, <1>7
<1>9. Queued(b, Append(q, x), Len(Append(q, x)), m + 1)
  BY <1>5, <1>6
<1>10. Len(Append(q, y)) > 0 /\ Append(q, y)[Len(Append(q, y))].what = "exit"
  BY <1>3, <1>5, <1>7
<1> QED
  BY <1>2, <1>8, <1>9, <1>10

\* The record and the line of a borrow whose wait has come back.
SaidOf(b, r, d, what, pc, n) == Follows(b, Await(r, pc, Pattern(pc), n), Type(d, what))

LEMMA SaysFollowed ==
  ASSUME NEW b \in Borrowers, NEW r \in BwRec, NEW d, Good(d), Clean(d), d.held = b,
         Follows(b, r, d), r.got # "wait"
  PROVE  /\ r.pc = "greet" /\ r.got = "yes" =>
                SaidOf(b, r, d, "root", "root", 0) /\ Clean(Type(d, "root"))
         /\ r.pc = "greet" /\ r.got = "no" =>
                SaidOf(b, r, d, "cr", "greet", r.n + 1) /\ Clean(Type(d, "cr"))
         /\ r.pc = "root" /\ r.got = "yes" =>
                SaidOf(b, r, d, "cmd", "work", 1) /\ Clean(Type(d, "cmd"))
         /\ r.pc = "work" /\ r.n < NCmd =>
                SaidOf(b, r, d, "cmd", "work", r.n + 1) /\ Clean(Type(d, "cmd"))
         /\ r.pc = "work" /\ r.n = NCmd =>
                SaidOf(b, r, d, "exit", "exit", 0) /\ Clean(Type(d, "exit"))
<1>0. d.held \in Users /\ NCmd \in Nat \ {0} /\ r.n \in Nat /\ r.ran \in Nat
      /\ 0 \in Nat /\ 1 \in Nat /\ r.n + 1 \in Nat
  BY Names, LinesAssumption DEF BwRec
<1>1. ASSUME r.pc = "greet", r.got = "yes"
      PROVE  SaidOf(b, r, d, "root", "root", 0) /\ Clean(Type(d, "root"))
  <2> DEFINE a == Await(r, "root", "#", 0)
             e == Type(d, "root")
  <2>1. /\ a.pc = "root" /\ a.ran = r.ran
        /\ IF "#" \in r.buf THEN a.got = "yes" /\ a.buf = {} ELSE a.got = "wait" /\ a.buf = r.buf
    BY DEF Await, BwRec
  <2>2. Greeted(b, r, e) /\ e.proc = d.proc
    BY <1>1, SaysToGetty DEF Follows
  <2>3. Clean(e)
    BY <1>0, TypeClean
  <2> HIDE DEF a, e
  <2>4. Greeted(b, a, e)
    BY <2>1, <2>2 DEF Greeted
  <2>5. a.got = "yes" => AtShell(e) /\ a.buf = {}
    BY <1>1, <2>1, <2>2 DEF Follows, AtShell
  <2>6. Follows(b, a, e)
    BY <2>1, <2>4, <2>5 DEF Follows
  <2> QED
    BY <2>3, <2>6 DEF SaidOf, Pattern, a, e
<1>2. ASSUME r.pc = "greet", r.got = "no"
      PROVE  SaidOf(b, r, d, "cr", "greet", r.n + 1) /\ Clean(Type(d, "cr"))
  <2> DEFINE a == Await(r, "greet", "login:", r.n + 1)
             e == Type(d, "cr")
  <2>1. /\ a.pc = "greet" /\ a.ran = r.ran
        /\ IF "login:" \in r.buf THEN a.got = "yes" /\ a.buf = {} ELSE a.got = "wait" /\ a.buf = r.buf
    BY DEF Await, BwRec
  <2>2. /\ NoneOf(b, e.typed) /\ r.ran = 0 /\ e.proc = d.proc
        /\ "login:" \in r.buf => Greeted(b, r, e)
    BY <1>2, SaysToGetty DEF Follows
  <2>3. Clean(e)
    BY <1>0, TypeClean
  <2> HIDE DEF a, e
  <2>4. "login:" \in r.buf => Greeted(b, a, e)
    BY <2>1, <2>2 DEF Greeted
  <2>6. Follows(b, a, e)
    BY <2>1, <2>2, <2>4 DEF Follows
  <2> QED
    BY <2>3, <2>6 DEF SaidOf, Pattern, a, e
<1>3. ASSUME r.pc = "root", r.got = "yes"
      PROVE  SaidOf(b, r, d, "cmd", "work", 1) /\ Clean(Type(d, "cmd"))
  <2> DEFINE a == Await(r, "work", "#", 1)
             e == Type(d, "cmd")
  <2>1. /\ a.pc = "work" /\ a.ran = r.ran /\ a.n = 1 /\ a.buf \subseteq r.buf
    BY DEF Await, BwRec
  <2>2. AtShell(d) /\ "login:" \notin r.buf /\ Queued(b, d.typed, Len(d.typed), 0) /\ r.ran = 0
    BY <1>3 DEF Follows, Greeted
  <2>3. e.proc = d.proc /\ Queued(b, e.typed, Len(e.typed), 0 + 1)
    BY <2>2, SaysToShell
  <2>4. Clean(e)
    BY <1>0, <2>2, TypeClean DEF AtShell
  <2> HIDE DEF a, e
  <2>5. 0 + 1 = a.n - a.ran /\ a.n <= NCmd
    BY <1>0, <2>1, <2>2
  <2>6. Follows(b, a, e)
    BY <2>1, <2>2, <2>3, <2>5 DEF Follows, AtShell
  <2> QED
    BY <2>4, <2>6 DEF SaidOf, Pattern, a, e
<1>4. ASSUME r.pc = "work", r.n <= NCmd
      PROVE  /\ r.n < NCmd => SaidOf(b, r, d, "cmd", "work", r.n + 1) /\ Clean(Type(d, "cmd"))
             /\ r.n = NCmd => SaidOf(b, r, d, "exit", "exit", 0) /\ Clean(Type(d, "exit"))
  <2> DEFINE m == r.n - r.ran
             a == Await(r, "work", "#", r.n + 1)
             c == Await(r, "exit", "login:", 0)
             e == Type(d, "cmd")
             f == Type(d, "exit")
  <2>1. /\ a.pc = "work" /\ a.ran = r.ran /\ a.n = r.n + 1 /\ a.buf \subseteq r.buf
        /\ c.pc = "exit" /\ c.ran = r.ran
        /\ "login:" \notin r.buf => c.got = "wait" /\ c.buf = r.buf
    BY DEF Await, BwRec
  <2>2. AtShell(d) /\ "login:" \notin r.buf /\ Queued(b, d.typed, Len(d.typed), m) /\ m \in Int
    BY <1>0, <1>4 DEF Follows
  <2>3. m + 1 = (r.n + 1) - r.ran /\ (r.n = NCmd => m = NCmd - r.ran)
    BY <1>0
  <2> HIDE DEF m
  <2>4. /\ e.proc = d.proc /\ Queued(b, e.typed, Len(e.typed), m + 1)
        /\ f.proc = d.proc /\ Len(f.typed) > 0 /\ f.typed[Len(f.typed)].what = "exit"
        /\ Queued(b, f.typed, Len(f.typed) - 1, m)
    BY <2>2, SaysToShell
  <2>5. Clean(e) /\ Clean(f)
    BY <1>0, <2>2, TypeClean DEF AtShell
  <2> HIDE DEF a, c, e, f
  <2>6. ASSUME r.n < NCmd  PROVE Follows(b, a, e)
    <3>1. m + 1 = a.n - a.ran /\ a.n <= NCmd
      BY <1>0, <2>1, <2>3, <2>6
    <3> QED
      BY <2>1, <2>2, <2>4, <3>1 DEF Follows, AtShell
  <2>7. ASSUME r.n = NCmd  PROVE Follows(b, c, f)
    <3>1. Leaving(b, c, f)
      BY <2>1, <2>2, <2>3, <2>4, <2>7 DEF Leaving, AtShell
    <3> QED
      BY <2>1, <3>1 DEF Follows
  <2> QED
    BY <2>5, <2>6, <2>7 DEF SaidOf, Pattern, a, c, e, f
<1> QED
  BY <1>0, <1>1, <1>2, <1>3, <1>4 DEF Follows

-----------------------------------------------------------------------------
(* The steps of Lines.                                                     *)

LEMMA FollowsSame ==
  ASSUME NEW b, NEW r, NEW d, NEW e, e.proc = d.proc, e.typed = d.typed, Follows(b, r, d)
  PROVE  Follows(b, r, e)
BY DEF Follows, Greeted, Leaving, AtShell

\* A borrow that SIMH serves has its line to itself.
LEMMA Holder ==
  ASSUME IInv, NEW b \in Borrowers, bw[b].conn = "held"
  PROVE  /\ bw[b].l \in LineNos /\ dz[bw[b].l].held = b /\ bw[b].pc \notin {"off", "dial"}
         /\ \A c \in Borrowers \ {b} : bw[c].conn = "held" => bw[c].l # bw[b].l
<1>1. \A c \in Borrowers : bw[c].l \in LineNos
  BY BwTyped DEF BwRec
<1>2. \A c \in Borrowers : bw[c].conn = "held" => dz[bw[c].l].held = c
  BY <1>1 DEF IInv, Held, Has
<1> QED
  BY <1>1, <1>2 DEF IInv, Borrows

\* Steps of tabs, of the driver and of init.
LEMMA LinesFollowed ==
  ASSUME IInv, DoneInv, UNCHANGED bw, \A l \in LineNos : Clean(dz'[l]),
         \A l \in LineNos : dz[l].held \in Borrowers
                                => dz'[l].proc = dz[l].proc /\ dz'[l].typed = dz[l].typed
  PROVE  DoneInv'
<1>1. CleanLines'
  BY DEF CleanLines
<1>2. Following'
  <2> SUFFICES ASSUME NEW b \in Borrowers
               PROVE  IF bw[b].conn = "held" THEN Follows(b, bw[b], dz'[bw[b].l]) ELSE Deaf(bw[b])
    BY DEF Following
  <2>1. CASE bw[b].conn = "held"
    <3>1. Follows(b, bw[b], dz[bw[b].l]) /\ bw[b].l \in LineNos /\ dz[bw[b].l].held = b
      BY <2>1, Holder DEF DoneInv, Following
    <3> QED
      BY <2>1, <3>1, FollowsSame
  <2>2. CASE bw[b].conn # "held"
    BY <2>2 DEF DoneInv, Following
  <2> QED
    BY <2>1, <2>2
<1> QED
  BY <1>1, <1>2 DEF DoneInv

\* Steps of a borrow.
LEMMA BorrowFollowed ==
  ASSUME IInv, DoneInv, NEW b \in Borrowers, NEW r, bw' = [bw EXCEPT ![b] = r],
         \A l \in LineNos : Clean(dz'[l]),
         \A c \in Borrowers \ {b} : bw[c].conn = "held" => dz'[bw[c].l] = dz[bw[c].l],
         r.conn = "held" => Follows(b, r, dz'[r.l]), r.conn # "held" => Deaf(r)
  PROVE  DoneInv'
<1>1. bw'[b] = r /\ \A c \in Borrowers \ {b} : bw'[c] = bw[c]
  BY BwTyped
<1>2. Following'
  <2> SUFFICES ASSUME NEW c \in Borrowers
               PROVE  IF bw'[c].conn = "held" THEN Follows(c, bw'[c], dz'[bw'[c].l]) ELSE Deaf(bw'[c])
    BY DEF Following
  <2>1. CASE c = b
    BY <1>1, <2>1
  <2>2. CASE c # b
    BY <1>1, <2>2 DEF DoneInv, Following
  <2> QED
    BY <2>1, <2>2
<1> QED
  BY <1>2 DEF DoneInv, CleanLines

LEMMA TabsFollowed ==
  ASSUME IInv, DoneInv, NEW l \in LineNos, Dialled(l) \/ Close(l) \/ LeakEnds(l) \/ UserLogs(l)
  PROVE  DoneInv'
<1>1. Good(dz[l]) /\ Clean(dz[l]) /\ UNCHANGED bw
  BY BwTyped DEF DoneInv, CleanLines, Dialled, Close, LeakEnds, UserLogs
<1>2. PICK e : /\ dz' = [dz EXCEPT ![l] = e] /\ Clean(e)
               /\ dz[l].held \in Borrowers => e.proc = dz[l].proc /\ e.typed = dz[l].typed
  <2>1. CASE Dialled(l)
    <3>1. CASE dz[l].held = NoUser
      <4>1. Clean(Accept(dz[l], "tab"))
        BY <1>1, <3>1, AcceptClean, Names
      <4>2. dz' = [dz EXCEPT ![l] = Accept(dz[l], "tab")]
        BY <2>1, <3>1 DEF Dialled
      <4> QED
        BY <3>1, <4>1, <4>2, Names
    <3>2. CASE dz[l].held # NoUser /\ tab[l].conn = "held"
      <4> DEFINE e == [dz[l] EXCEPT !.held = "leak"]
      <4>1. dz[l].held = "tab"
        BY <3>2 DEF IInv, Held
      <4>2. e.proc = dz[l].proc /\ e.typed = dz[l].typed
        BY <1>1 DEF Good, LineRec
      <4>3. dz' = [dz EXCEPT ![l] = e]
        BY <2>1, <3>2 DEF Dialled
      <4> HIDE DEF e
      <4>4. Clean(e)
        BY <1>1, <4>1, <4>2, Names DEF Clean
      <4> QED
        BY <4>2, <4>3, <4>4
    <3>3. CASE dz[l].held # NoUser /\ tab[l].conn # "held"
      <4>1. dz' = [dz EXCEPT ![l] = dz[l]]
        BY <2>1, <3>3 DEF Dialled
      <4> QED
        BY <1>1, <4>1
    <3> QED
      BY <3>1, <3>2, <3>3
  <2>2. CASE Close(l)
    <3>1. CASE tab[l].conn = "held"
      <4>1. dz[l].held = "tab" /\ dz' = [dz EXCEPT ![l] = Drop(dz[l])]
        BY <2>2, <3>1 DEF Close, IInv, Held
      <4> QED
        BY <1>1, <4>1, DropClean, Names
    <3>2. CASE tab[l].conn # "held"
      <4>1. dz' = [dz EXCEPT ![l] = dz[l]]
        BY <2>2, <3>2 DEF Close
      <4> QED
        BY <1>1, <4>1
    <3> QED
      BY <3>1, <3>2
  <2>3. CASE LeakEnds(l)
    BY <1>1, <2>3, DropClean, Names DEF LeakEnds
  <2>4. CASE UserLogs(l)
    BY <1>1, <2>4, LogsInClean, ClosedIs, Names DEF UserLogs, LogsOut
  <2> QED
    BY <2>1, <2>2, <2>3, <2>4
<1>3. \A k \in LineNos : Clean(dz'[k])
  BY <1>2, BwTyped DEF DoneInv, CleanLines
<1>4. \A k \in LineNos : dz[k].held \in Borrowers
                             => dz'[k].proc = dz[k].proc /\ dz'[k].typed = dz[k].typed
  BY <1>2, BwTyped
<1> QED
  BY <1>1, <1>3, <1>4, LinesFollowed

LEMMA ScanFollowed ==
  ASSUME IInv, DoneInv, Scan
  PROVE  DoneInv'
<1>1. UNCHANGED bw /\ \A l \in LineNos : dz'[l] = Scanned(dz[l])
  BY DEF Scan
<1>2. \A l \in LineNos : Clean(dz'[l])
  BY <1>1, BwTyped, ScannedClean DEF DoneInv, CleanLines
<1>3. \A l \in LineNos : dz[l].held \in Borrowers
                             => dz'[l].proc = dz[l].proc /\ dz'[l].typed = dz[l].typed
  BY <1>1, BwTyped, ScannedClean, Names DEF DoneInv, CleanLines
<1> QED
  BY <1>1, <1>2, <1>3, LinesFollowed

LEMMA GuestDone ==
  ASSUME IInv, DoneInv, NEW l \in LineNos, Guest(l)
  PROVE  DoneInv'
<1>1. PICK s \in GuestSteps(dz[l]) :
          /\ dz' = [dz EXCEPT ![l] = s.d]
          /\ bw' = [b \in Borrowers |-> IF s.ran = b THEN [Heard(b, l, s.out) EXCEPT !.ran = @ + 1]
                                        ELSE Heard(b, l, s.out)]
  BY DEF Guest
<1>2. Good(dz[l]) /\ Clean(dz[l]) /\ Clean(s.d) /\ (s.ran \in Borrowers => s.ran = dz[l].held)
  BY BwTyped, GuestClean DEF DoneInv, CleanLines
<1>3. s.out \in {"", "login:", "#"}
  BY <1>2, GuestGood DEF GoodStep
<1>4. CleanLines'
  BY <1>1, <1>2, BwTyped DEF DoneInv, CleanLines
<1>5. ASSUME NEW b \in Borrowers
      PROVE  IF bw'[b].conn = "held" THEN Follows(b, bw'[b], dz'[bw'[b].l]) ELSE Deaf(bw'[b])
  <2>1. CASE dz[l].held # b
    <3>1. bw'[b] = bw[b]
      BY <1>1, <1>2, <2>1 DEF Heard
    <3>2. bw[b].conn = "held" => bw[b].l # l
      BY <2>1, Holder
    <3>3. bw[b].conn = "held" => dz'[bw[b].l] = dz[bw[b].l]
      BY <1>1, <3>2, Holder, BwTyped
    <3> QED
      BY <3>1, <3>3 DEF DoneInv, Following
  <2>2. CASE dz[l].held = b
    <3> DEFINE h == Heard(b, l, s.out)
    <3>1. bw[b].conn = "held" /\ bw[b].l = l /\ Follows(b, bw[b], dz[l]) /\ bw[b] \in BwRec
      BY <2>2, BwTyped DEF IInv, Held, Has, DoneInv, Following
    <3>2. /\ h \in BwRec /\ h.l = l /\ h.conn = "held" /\ h.pc = bw[b].pc /\ h.ran = bw[b].ran
      BY <1>3, <3>1, HeardIs
    <3>3. h.n = bw[b].n /\ Hears(bw[b], h, s.out)
      BY <2>2, <3>1 DEF Heard, Hears, BwRec
    <3> HIDE DEF h
    <3> DEFINE got == IF s.ran = b THEN 1 ELSE 0
    <3>4. /\ bw'[b].conn = "held" /\ bw'[b].l = l /\ bw'[b].pc = bw[b].pc /\ bw'[b].n = bw[b].n
          /\ bw'[b].ran = bw[b].ran + got /\ bw'[b].got = h.got /\ bw'[b].buf = h.buf
          /\ bw'[b] \in BwRec /\ bw[b].ran \in Nat /\ bw[b].n \in Nat
      <4>1. bw'[b] = IF s.ran = b THEN [h EXCEPT !.ran = @ + 1] ELSE h
        BY <1>1 DEF h
      <4>2. bw[b].ran \in Nat /\ bw[b].n \in Nat /\ h.ran \in Nat
        BY <3>1, <3>2 DEF BwRec
      <4>3. CASE s.ran = b
        BY <3>2, <3>3, <4>1, <4>2, <4>3 DEF BwRec
      <4>4. CASE s.ran # b
        <5>1. bw[b].ran + 0 = bw[b].ran
          BY <4>2
        <5> QED
          BY <3>2, <3>3, <4>1, <4>2, <4>4, <5>1
      <4> QED
        BY <4>3, <4>4
    <3>5. got \in {0, 1} /\ (got = 1 <=> s.ran = b)
      OBVIOUS
    <3> HIDE DEF got
    <3>6. Hears(bw[b], bw'[b], s.out)
      BY <3>3, <3>4, Zenon DEF Hears
    <3>7. Follows(b, bw'[b], s.d)
      BY <1>2, <2>2, <3>1, <3>4, <3>5, <3>6, GuestFollowed
    <3>8. dz'[l] = s.d
      BY <1>1, BwTyped
    <3> QED
      BY <3>4, <3>7, <3>8
  <2> QED
    BY <2>1, <2>2
<1> QED
  BY <1>4, <1>5 DEF DoneInv, Following

LEMMA EndsFollowed ==
  ASSUME IInv, DoneInv, NEW b \in Borrowers, BorrowEnds(b)
  PROVE  DoneInv'
<1>1. bw' = [bw EXCEPT ![b] = Off] /\ Off.conn # "held" /\ Deaf(Off)
  BY DEF BorrowEnds, Off, Deaf
<1>2. CASE bw[b].conn = "held"
  <2>1. dz' = [dz EXCEPT ![bw[b].l] = Drop(dz[bw[b].l])]
    BY <1>2 DEF BorrowEnds
  <2>2. Clean(Drop(dz[bw[b].l])) /\ bw[b].l \in LineNos
    BY <1>2, Holder, BwTyped, DropClean DEF DoneInv, CleanLines
  <2>3. \A l \in LineNos : Clean(dz'[l])
    BY <2>1, <2>2, BwTyped DEF DoneInv, CleanLines
  <2>4. \A c \in Borrowers \ {b} : bw[c].conn = "held" => dz'[bw[c].l] = dz[bw[c].l]
    BY <1>2, <2>1, Holder, BwTyped
  <2> HIDE DEF Off
  <2> QED
    BY <1>1, <2>3, <2>4, BorrowFollowed
<1>3. CASE bw[b].conn # "held"
  <2>1. UNCHANGED dz
    BY <1>3 DEF BorrowEnds
  <2> QED
    BY <1>1, <2>1, BorrowFollowed DEF DoneInv, CleanLines
<1> QED
  BY <1>2, <1>3

LEMMA DialFollowed ==
  ASSUME IInv, DoneInv, NEW b \in Borrowers, BorrowDialled(b)
  PROVE  DoneInv'
<1>0. PICK l \in LineNos : bw[b].l = l
  BY BwTyped DEF BwRec
<1> DEFINE c == [bw[b] EXCEPT !.conn = IF dz[l].held = NoUser THEN "held" ELSE "refused"]
           r == Await(c, "greet", "login:", 1)
           f == Accept(dz[l], b)
           e == Type(f, "cr")
<1>1. /\ bw[b].pc = "dial" /\ bw' = [bw EXCEPT ![b] = r] /\ bw[b] \in BwRec /\ bw[b].conn = "none"
      /\ dz' = IF dz[l].held = NoUser THEN [dz EXCEPT ![l] = e] ELSE dz
  BY <1>0, BwTyped DEF BorrowDialled, IInv, Borrows
<1>2. bw[b].buf = {} /\ bw[b].ran = 0
  BY <1>1 DEF DoneInv, Following, Deaf
<1>3. /\ c.buf = {} /\ c.ran = 0 /\ c.l = l /\ c \in BwRec
      /\ c.conn = IF dz[l].held = NoUser THEN "held" ELSE "refused"
  BY <1>0, <1>1, <1>2 DEF BwRec, Conns
<1> HIDE DEF c
<1>4. /\ r.pc = "greet" /\ r.got = "wait" /\ r.buf = {} /\ r.ran = 0 /\ r.l = l
      /\ r.conn = c.conn
  BY <1>3 DEF Await, BwRec
<1> HIDE DEF r
<1>5. CASE dz[l].held = NoUser
  <2>1. Good(dz[l]) /\ Clean(dz[l]) /\ b \in Users /\ dz[l].typed \in Seq(Input)
    BY BwTyped, Names DEF DoneInv, CleanLines, Good, LineRec
  <2>2. /\ Good(f) /\ Clean(f) /\ f.held = b /\ f.typed = dz[l].typed
        /\ \A i \in 1 .. Len(dz[l].typed) : dz[l].typed[i].by \notin Borrowers
    BY <1>5, <2>1, AcceptGood, AcceptClean
  <2>3. NoneOf(b, f.typed)
    BY <2>2 DEF NoneOf, Asks
  <2> HIDE DEF f
  <2>4. Clean(e)
    BY <2>1, <2>2, TypeClean
  <2>5. NoneOf(b, e.typed)
    <3> DEFINE x == [what |-> "cr", by |-> b]
    <3>1. /\ f.typed \in Seq(Input) /\ x \in Input /\ ~Asks(b, x)
          /\ e.typed = IF IsOpen(f) THEN Append(f.typed, x) ELSE f.typed
      BY <2>2, TypeForms DEF Asks
    <3> HIDE DEF x, e
    <3>2. /\ Len(f.typed) \in Nat /\ Len(Append(f.typed, x)) = Len(f.typed) + 1
          /\ Append(f.typed, x)[Len(f.typed) + 1] = x
          /\ \A i \in 1 .. Len(f.typed) : Append(f.typed, x)[i] = f.typed[i]
      BY <3>1, QueueTyped
    <3>3. NoneOf(b, Append(f.typed, x))
      BY <2>3, <3>1, <3>2 DEF NoneOf
    <3> QED
      BY <2>3, <3>1, <3>3
  <2> HIDE DEF e
  <2>6. dz' = [dz EXCEPT ![l] = e]
    BY <1>1, <1>5
  <2>7. dz'[l] = e /\ \A k \in LineNos \ {l} : dz'[k] = dz[k]
    BY <2>6, BwTyped
  <2>8. \A k \in LineNos : Clean(dz'[k])
    BY <2>4, <2>7 DEF DoneInv, CleanLines
  <2>9. \A k \in Borrowers \ {b} : bw[k].conn = "held" => dz'[bw[k].l] = dz[bw[k].l]
    BY <1>5, <2>7, Holder, Names
  <2>10. Follows(b, r, dz'[r.l]) /\ r.conn = "held"
    BY <1>3, <1>4, <1>5, <2>5, <2>7 DEF Follows
  <2> QED
    BY <1>1, <2>8, <2>9, <2>10, BorrowFollowed
<1>6. CASE dz[l].held # NoUser
  <2>1. UNCHANGED dz /\ r.conn # "held" /\ Deaf(r)
    BY <1>1, <1>3, <1>4, <1>6 DEF Deaf
  <2> QED
    BY <1>1, <2>1, BorrowFollowed DEF DoneInv, CleanLines
<1> QED
  BY <1>5, <1>6

LEMMA BorrowStarts ==
  ASSUME IInv, DoneInv, NEW b \in Borrowers, Borrow(b)
  PROVE  DoneInv'
<1> DEFINE r(l) == [Off EXCEPT !.pc = "dial", !.l = l, !.got = "wait"]
<1>1. PICK l \in Spare : bw' = [bw EXCEPT ![b] = r(l)]
  BY DEF Borrow
<1>2. UNCHANGED dz
  BY DEF Borrow
<1>3. Deaf(r(l)) /\ r(l).conn # "held"
  BY DEF Off, Deaf
<1> HIDE DEF r
<1> QED
  BY <1>1, <1>2, <1>3, BorrowFollowed DEF DoneInv, CleanLines

LEMMA TimeoutFollowed ==
  ASSUME IInv, DoneInv, NEW b \in Borrowers, Timeout(b)
  PROVE  DoneInv'
<1> DEFINE r == [bw[b] EXCEPT !.got = "no"]
<1>1. bw' = [bw EXCEPT ![b] = r] /\ UNCHANGED dz /\ bw[b].got = "wait"
  BY DEF Timeout
<1>2. /\ r.pc = bw[b].pc /\ r.buf = bw[b].buf /\ r.conn = bw[b].conn /\ r.l = bw[b].l
      /\ r.n = bw[b].n /\ r.ran = bw[b].ran /\ r.got = "no"
  BY BwTyped DEF BwRec
<1> HIDE DEF r
<1>3. r.conn = "held" => Follows(b, r, dz'[r.l])
  BY <1>1, <1>2 DEF DoneInv, Following, Follows, Greeted, Leaving
<1>4. r.conn # "held" => Deaf(r)
  BY <1>1, <1>2 DEF DoneInv, Following, Deaf
<1> QED
  BY <1>1, <1>3, <1>4, BorrowFollowed DEF DoneInv, CleanLines

\* What is said to a line that the borrow does not have goes nowhere.
LEMMA SaysDone ==
  ASSUME IInv, DoneInv, NEW b \in Borrowers, NEW what \in {"cr", "root", "cmd", "exit"},
         NEW pc \in {"greet", "root", "work", "exit"}, NEW n \in Nat, Says(b, what, pc, n),
         bw[b].conn = "held" => /\ SaidOf(b, bw[b], dz[bw[b].l], what, pc, n)
                                /\ Clean(Type(dz[bw[b].l], what)),
         bw[b].conn # "held" => pc = "greet" /\ bw[b].pc = "greet"
  PROVE  DoneInv'
<1> DEFINE r == bw[b]
           a == Await(r, pc, Pattern(pc), n)
<1>1. bw' = [bw EXCEPT ![b] = a] /\ dz' = Sent(r, what) /\ r \in BwRec
  BY BwTyped DEF Says
<1>2. a.l = r.l /\ a.conn = r.conn
  BY <1>1 DEF Await, BwRec
<1>3. CASE r.conn = "held"
  <2> DEFINE e == Type(dz[r.l], what)
  <2>1. dz' = [dz EXCEPT ![r.l] = e] /\ r.l \in LineNos
    BY <1>1, <1>3, Holder DEF Sent
  <2>2. Follows(b, a, e) /\ Clean(e)
    BY <1>3 DEF SaidOf
  <2> HIDE DEF a, e
  <2>3. dz'[r.l] = e /\ \A k \in LineNos \ {r.l} : dz'[k] = dz[k]
    BY <2>1, BwTyped
  <2>4. \A k \in LineNos : Clean(dz'[k])
    BY <2>2, <2>3 DEF DoneInv, CleanLines
  <2>5. \A c \in Borrowers \ {b} : bw[c].conn = "held" => dz'[bw[c].l] = dz[bw[c].l]
    BY <1>3, <2>3, Holder
  <2> QED
    BY <1>1, <1>2, <1>3, <2>2, <2>3, <2>4, <2>5, BorrowFollowed
<1>4. CASE r.conn # "held"
  <2>1. UNCHANGED dz /\ r.buf = {} /\ r.ran = 0 /\ pc = "greet"
    BY <1>1, <1>4 DEF Sent, DoneInv, Following, Deaf
  <2>2. Deaf(a)
    BY <1>1, <2>1 DEF Deaf, Await, BwRec
  <2> HIDE DEF a
  <2> QED
    BY <1>1, <1>2, <1>4, <2>1, <2>2, BorrowFollowed DEF DoneInv, CleanLines
<1> QED
  BY <1>3, <1>4

LEMMA ResumedDone ==
  ASSUME IInv, DoneInv, NEW b \in Borrowers, Resumed(b)
  PROVE  DoneInv'
<1> DEFINE r == bw[b]
<1>1. r \in BwRec /\ r.pc \notin {"off", "dial"} /\ r.got # "wait" /\ r.n + 1 \in Nat
      /\ 0 \in Nat /\ 1 \in Nat
  BY BwTyped DEF Resumed, BwRec
<1>2. r.conn # "held" => r.pc = "greet" /\ r.got # "yes"
  BY <1>1 DEF DoneInv, Following, Deaf
<1> DEFINE d == dz[r.l]
<1>3. ASSUME r.conn = "held"
      PROVE  Good(d) /\ Clean(d) /\ d.held = b /\ Follows(b, r, d)
  BY <1>3, Holder, BwTyped DEF DoneInv, CleanLines, Following
<1> HIDE DEF d
<1>4. r.conn = "held" =>
         /\ r.pc = "greet" /\ r.got = "yes" =>
                SaidOf(b, r, d, "root", "root", 0) /\ Clean(Type(d, "root"))
         /\ r.pc = "greet" /\ r.got = "no" =>
                SaidOf(b, r, d, "cr", "greet", r.n + 1) /\ Clean(Type(d, "cr"))
         /\ r.pc = "root" /\ r.got = "yes" =>
                SaidOf(b, r, d, "cmd", "work", 1) /\ Clean(Type(d, "cmd"))
         /\ r.pc = "work" /\ r.n < NCmd =>
                SaidOf(b, r, d, "cmd", "work", r.n + 1) /\ Clean(Type(d, "cmd"))
         /\ r.pc = "work" /\ r.n = NCmd =>
                SaidOf(b, r, d, "exit", "exit", 0) /\ Clean(Type(d, "exit"))
  <2> HIDE DEF r
  <2> QED
    BY <1>1, <1>3, SaysFollowed
<1>5. CASE r.pc = "greet" /\ r.got = "yes" /\ Says(b, "root", "root", 0)
  BY <1>1, <1>2, <1>4, <1>5, SaysDone DEF d
<1>6. CASE r.pc = "greet" /\ r.got = "no" /\ Says(b, "cr", "greet", r.n + 1)
  BY <1>1, <1>2, <1>4, <1>6, SaysDone DEF d
<1>7. CASE r.pc = "root" /\ r.got = "yes" /\ Says(b, "cmd", "work", 1)
  BY <1>1, <1>2, <1>4, <1>7, SaysDone DEF d
<1>8. CASE r.pc = "work" /\ r.n < NCmd /\ Says(b, "cmd", "work", r.n + 1)
  BY <1>1, <1>2, <1>4, <1>8, SaysDone DEF d
<1>9. CASE r.pc = "work" /\ r.n = NCmd /\ Says(b, "exit", "exit", 0)
  BY <1>1, <1>2, <1>4, <1>9, SaysDone DEF d
<1>10. CASE BorrowEnds(b)
  BY <1>10, EndsFollowed
<1> QED
  BY <1>5, <1>6, <1>7, <1>8, <1>9, <1>10 DEF Resumed

LEMMA InitDone == Init => DoneInv
<1> SUFFICES ASSUME Init
             PROVE  DoneInv
  OBVIOUS
<1>1. \A l \in LineNos : dz[l] = IdleLine
  BY DEF Init
<1>2. Clean(IdleLine)
  BY EmptySeq DEF Clean, IdleLine
<1>3. \A b \in Borrowers : bw[b] = Off
  BY DEF Init
<1>4. Off.conn # "held" /\ Deaf(Off)
  BY DEF Off, Deaf
<1> QED
  BY <1>1, <1>2, <1>3, <1>4 DEF DoneInv, CleanLines, Following

LEMMA NextDone == IInv /\ DoneInv /\ [Next]_vars => DoneInv'
<1> SUFFICES ASSUME IInv, DoneInv, [Next]_vars
             PROVE  DoneInv'
  OBVIOUS
<1>1. ASSUME UNCHANGED <<dz, bw>>
      PROVE  DoneInv'
  BY <1>1 DEF DoneInv, CleanLines, Following
<1>2. CASE MachineUp \/ MachineIsUp \/ UNCHANGED vars
  BY <1>1, <1>2 DEF MachineUp, MachineIsUp, vars
<1>3. CASE Scan
  BY <1>3, ScanFollowed
<1>4. ASSUME NEW l \in LineNos, Open(l) \/ Enter(l) \/ NotDialled(l)
      PROVE  DoneInv'
  BY <1>1, <1>4 DEF Open, Enter, NotDialled
<1>5. ASSUME NEW l \in LineNos, Dialled(l) \/ Close(l) \/ LeakEnds(l) \/ UserLogs(l)
      PROVE  DoneInv'
  BY <1>5, TabsFollowed
<1>6. ASSUME NEW l \in LineNos, Guest(l)
      PROVE  DoneInv'
  BY <1>6, GuestDone
<1>7. ASSUME NEW b \in Borrowers, Borrow(b)
      PROVE  DoneInv'
  BY <1>7, BorrowStarts
<1>8. ASSUME NEW b \in Borrowers, Borrowing(b)
      PROVE  DoneInv'
  <2>1. CASE NoDial(b)
    BY <2>1, EndsFollowed DEF NoDial
  <2> QED
    BY <1>8, <2>1, DialFollowed, TimeoutFollowed, ResumedDone DEF Borrowing
<1> QED
  BY <1>2, <1>3, <1>4, <1>5, <1>6, <1>7, <1>8 DEF Next

\* Whatever its line has seen before, late prompts and the input of others
\* included: a borrow that reads `login:' after its exit has had every command
\* executed, those by which mountShares() and unmountShares() mount and unmount
\* through onSpareLine().
THEOREM WorkIsDone == Spec => []LoggedOutMeansDone
<1>1. IInv /\ DoneInv => LoggedOutMeansDone
  <2> SUFFICES ASSUME IInv, DoneInv, NEW b \in Borrowers, bw[b].pc = "exit", bw[b].got = "yes"
               PROVE  bw[b].ran = NCmd
    BY DEF LoggedOutMeansDone
  <2>1. bw[b].conn = "held"
    BY DEF DoneInv, Following, Deaf
  <2> QED
    BY <2>1 DEF DoneInv, Following, Follows, Leaving
<1> QED
  BY <1>1, Invariance, InitDone, NextDone, PTL DEF Spec

-----------------------------------------------------------------------------
(* The start of the machine: BringUp.                                      *)

\* A bringUp() task has its simulator from provision() on, and the second task
\* is scheduled when the first simulator is gone.
OneByOne ==
    /\ started \/ bu[1] = "off"
    /\ restarted \/ bu[2] = "off"
    /\ \A r \in Runs : bu[r] \in {"off", "sched", "provision"} => sim[r] = "none"
    /\ bu[2] # "off" => sim[1] = "gone"

\* Without the restart, who has heard the guest or a prompt of it has heard one
\* that answers: a session that was restored was waited for in another way.
Answers ==
    ~restarted =>
        /\ sim[1] \in {"none", "config"} => guest = "none"
        /\ guest = "boot" => ~resuming[1]
        /\ bu[1] \in {"poke", "probe", "probeOk", "probeTo"} => resuming[1]
        /\ (bu[1] \in {"probeOk", "loginOk"} \/ login \/ phase = "up") => guest = "ready"

StartInv == BringUpTypeOK /\ OneByOne /\ Answers

LEMMA StartBegins == BringUpInit => StartInv
BY DEF BringUpInit, StartInv, OneByOne, Answers, BringUpTypeOK, Runs, Phases, Steps

LEMMA StartInductive == StartInv /\ [BringUpNext]_bringUp => StartInv'
<1> SUFFICES ASSUME StartInv, [BringUpNext]_bringUp PROVE StartInv'
  OBVIOUS
<1> USE DEF Runs
<1>1. /\ BringUpTypeOK /\ OneByOne /\ Answers
      /\ bu \in [Runs -> Steps] /\ sim \in [Runs -> {"none", "config", "run", "dead", "gone"}]
      /\ resuming \in [Runs -> BOOLEAN] /\ restarted \in BOOLEAN /\ started \in BOOLEAN
  BY DEF StartInv, BringUpTypeOK
<1>2. CASE StartMachine
  BY <1>1, <1>2 DEF StartMachine, MayStart, Schedule, Goto, links, StartInv, OneByOne, Answers, BringUpTypeOK, Steps
<1>3. CASE ConsoleOutput
  <2>1. PICK prompt \in {FALSE} \cup (IF guest = "ready" THEN {TRUE} ELSE {}) :
            /\ bu' = [r \in Runs |->
                        IF bu[r] = "probe" THEN "probeOk"
                        ELSE IF bu[r] = "login" /\ prompt THEN "loginOk" ELSE bu[r]]
            /\ login' = IF \E r \in Runs : bu[r] = "login" THEN login /\ ~prompt ELSE login \/ prompt
    BY <1>3 DEF ConsoleOutput, IsLogin
  <2>2. /\ guest \in {"boot", "ready"} /\ prompt \in BOOLEAN /\ (prompt => guest = "ready")
        /\ UNCHANGED <<started, restarted, sim, guest, aborted, phase, sav, resuming, conUp, served, ctlUp>>
    BY <1>3 DEF ConsoleOutput, AppFrame
  <2>3. /\ bu' \in [Runs -> Steps] /\ login' \in BOOLEAN /\ (login' => login \/ prompt)
        /\ \A r \in Runs : bu'[r] = bu[r] \/ (bu[r] = "probe" /\ bu'[r] = "probeOk")
                               \/ (bu[r] = "login" /\ prompt /\ bu'[r] = "loginOk")
    BY <1>1, <2>1, <2>2 DEF Steps, BringUpTypeOK
  <2>4. BringUpTypeOK'
    BY <1>1, <2>2, <2>3 DEF BringUpTypeOK
  <2>5. OneByOne'
    BY <1>1, <2>2, <2>3 DEF OneByOne
  <2>6. Answers'
    BY <1>1, <2>2, <2>3 DEF Answers, BringUpTypeOK
  <2> QED
    BY <2>4, <2>5, <2>6 DEF StartInv
<1>4. CASE GuestReady
  BY <1>1, <1>4 DEF GuestReady, SimFrame, Listening, links, StartInv, OneByOne, Answers, BringUpTypeOK
<1>5. ASSUME NEW r \in Runs, Task(r)
      PROVE  StartInv'
  <2> USE DEF StartInv, OneByOne, Answers, BringUpTypeOK, Steps, Phases, Goto, links, AppFrame
  <2>1. CASE Begin(r)
    BY <1>1, <2>1 DEF Begin
  <2>2. CASE Provision(r)
    BY <1>1, <2>2 DEF Provision
  <2>3. CASE Poke(r)
    BY <1>1, <2>3 DEF Poke
  <2>4. CASE Ends(r)
    <3>1. /\ bu[r] \in {"probeOk", "probeTo", "loginOk", "loginTo"} /\ bu' = [bu EXCEPT ![r] = "done"]
          /\ phase' \in {"up", "failed"} /\ sav' \in BOOLEAN
          /\ phase' = "up" => bu[r] \in {"probeOk", "loginOk"}
          /\ UNCHANGED <<started, restarted, sim, guest, aborted, resuming, conUp, served, ctlUp, login>>
      BY <1>1, <2>4 DEF Ends
    <3>2. r = 2 => restarted
      BY <1>1, <3>1
    <3>3. BringUpTypeOK' /\ OneByOne'
      BY <1>1, <3>1
    <3>4. Answers'
      BY <1>1, <3>1, <3>2
    <3> QED
      BY <3>3, <3>4
  <2>5. CASE ConnectConsole(r)
    <3>1. /\ bu[r] = "console" /\ bu' = [bu EXCEPT ![r] = "control"] /\ conUp' = TRUE /\ served' \in BOOLEAN
          /\ UNCHANGED <<started, restarted, sim, guest, aborted, phase, sav, resuming, ctlUp, login>>
      BY <1>1, <2>5 DEF ConnectConsole
    <3>2. BringUpTypeOK'
      BY <1>1, <3>1
    <3>3. OneByOne' /\ Answers'
      BY <1>1, <3>1
    <3> QED
      BY <3>2, <3>3
  <2>6. CASE ConnectControl(r)
    <3>1. PICK to \in {"poke", "loginOk", "login"} :
              /\ bu[r] = "control" /\ bu' = [bu EXCEPT ![r] = to] /\ ctlUp' = TRUE
              /\ phase' \in {"restoring", "booting"} /\ login' \in BOOLEAN /\ (login' => login)
              /\ to = "poke" => resuming[r]
              /\ to = "loginOk" => login
              /\ UNCHANGED <<started, restarted, sim, guest, aborted, sav, resuming, conUp, served>>
      BY <1>1, <2>6 DEF ConnectControl
    <3>2. BringUpTypeOK'
      BY <1>1, <3>1
    <3>3. OneByOne'
      BY <1>1, <3>1
    <3>4. Answers'
      BY <1>1, <3>1
    <3> QED
      BY <3>2, <3>3, <3>4
  <2>7. CASE ConnectFails(r)
    BY <1>1, <2>7 DEF ConnectFails
  <2>8. CASE WaitTimeout(r)
    BY <1>1, <2>8 DEF WaitTimeout
  <2> QED
    BY <1>5, <2>1, <2>2, <2>3, <2>4, <2>5, <2>6, <2>7, <2>8 DEF Task
<1>6. ASSUME NEW r \in Runs, SimhExited(r)
      PROVE  StartInv'
  <2>1. /\ sim[r] = "dead" /\ sim' = [sim EXCEPT ![r] = "gone"]
        /\ conUp' = FALSE /\ ctlUp' = FALSE /\ served' = FALSE
        /\ UNCHANGED <<resuming, guest, login, aborted>>
    BY <1>6 DEF SimhExited
  <2>2. CASE /\ ~restarted /\ restarted' = TRUE /\ sav' = FALSE /\ phase' = "idle"
             /\ started' = TRUE /\ Schedule
    <3>1. r = 1
      BY <1>1, <2>1, <2>2 DEF OneByOne
    <3>2. bu' = [bu EXCEPT ![2] = "sched"]
      BY <1>1, <2>1, <2>2, <3>1 DEF OneByOne, Schedule, Goto
    <3>3. BringUpTypeOK'
      BY <1>1, <2>1, <2>2, <3>2 DEF BringUpTypeOK, Steps, Phases
    <3>4. OneByOne' /\ Answers'
      BY <1>1, <2>1, <2>2, <3>1, <3>2 DEF OneByOne, Answers
    <3> QED
      BY <3>3, <3>4 DEF StartInv
  <2>3. CASE phase' = "failed" /\ UNCHANGED <<restarted, sav, started, bu>>
    <3>1. BringUpTypeOK'
      BY <1>1, <2>1, <2>3 DEF BringUpTypeOK, Phases
    <3>2. OneByOne' /\ Answers'
      BY <1>1, <2>1, <2>3 DEF OneByOne, Answers
    <3> QED
      BY <3>1, <3>2 DEF StartInv
  <2> QED
    BY <1>6, <2>2, <2>3 DEF SimhExited
<1>7. ASSUME NEW r \in Runs, SimhStarts(r) \/ SimDies(r) \/ SimAborts(r)
      PROVE  StartInv'
  <2> USE DEF StartInv, OneByOne, Answers, BringUpTypeOK, SimFrame, links
  <2>1. CASE SimhStarts(r)
    <3>1. /\ sim[r] = "config" /\ sim' = [sim EXCEPT ![r] = "run"]
          /\ guest' \in {"ready", "garbage", "boot"} /\ (guest' = "boot" => ~resuming[r])
          /\ UNCHANGED <<phase, started, restarted, sav, bu, resuming, conUp, served, ctlUp, login, aborted>>
      BY <1>1, <2>1 DEF SimhStarts
    <3>2. r = 2 => restarted
      BY <1>1, <3>1 DEF Steps
    <3>3. BringUpTypeOK'
      BY <1>1, <3>1
    <3>4. OneByOne'
      BY <1>1, <3>1
    <3>5. Answers'
      BY <1>1, <3>1, <3>2
    <3> QED
      BY <3>3, <3>4, <3>5
  <2>2. CASE SimDies(r)
    BY <1>1, <2>2 DEF SimDies, Alive
  <2>3. CASE SimAborts(r)
    BY <1>1, <2>3 DEF SimAborts
  <2> QED
    BY <1>7, <2>1, <2>2, <2>3
<1>8. CASE UNCHANGED bringUp
  BY <1>1, <1>8 DEF bringUp, StartInv, OneByOne, Answers, BringUpTypeOK
<1> QED
  BY <1>2, <1>3, <1>4, <1>5, <1>6, <1>7, <1>8 DEF BringUpNext

LEMMA StartInvariance == BringUpSpec => []StartInv
<1>1. BringUpSpec => BringUpInit /\ [][BringUpNext]_bringUp
  BY PTL DEF BringUpSpec
<1> QED
  BY <1>1, StartBegins, StartInductive, PTL

\* Two simulators never share v8.disk, the one restart after a failed restore
\* included.
THEOREM OneSimulatorAtATime == BringUpSpec => []OneSimulator
<1>1. StartInv => OneSimulator
  BY DEF StartInv, OneByOne, OneSimulator, Alive, BringUpTypeOK, Runs, Steps
<1> QED
  BY <1>1, StartInvariance, PTL

\* In a process that has not been through the restart, a machine that is up has
\* a guest that was seen to answer.
THEOREM UpMeansReady == BringUpSpec => []UpIsReady
<1>1. StartInv => UpIsReady
  BY DEF StartInv, Answers, UpIsReady, BringUpTypeOK
<1> QED
  BY <1>1, StartInvariance, PTL
=============================================================================
