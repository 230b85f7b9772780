---------------------------- MODULE InterlanProofs ----------------------------
(***************************************************************************)
(* Theorems about Interlan, for any sizes of the blocks, of the board's    *)
(* queue and of the frames, and for any number of channels and packets:    *)
(* board and driver agree on the buffers, whole frames go up, whole        *)
(* packets go out, and the drivers' panics do not come unexplained.        *)
(*                                                                         *)
(* Receiving and sending share nothing but the enables and the commands:   *)
(* each operator is shown to keep what one of them needs and to leave what *)
(* the other has alone.                                                    *)
(***************************************************************************)
EXTENDS Interlan, SequenceTheorems, FiniteSetTheorems, WellFoundedInduction, TLAPS

Block  == [id : Nat, bc : Int]
Frame  == [frame : Nat, len : Int, off : Int]
Part   == [frame : Nat, len : Int, off : Int, n : Int]
Piece  == [pkt : Nat, k : Nat]
QBlock == [piece : Piece, delim : BOOLEAN]
Memory == UNION {[S -> Part] : S \in SUBSET Nat}

HW == [cie : BOOLEAN, rie : BOOLEAN, cint : BOOLEAN, rint : BOOLEAN, rpend : Nat,
       rxq : Seq(Block), rx : Frame, mem : Memory, tx : Seq(Piece), air : Seq(Seq(Piece))]

\* What a command for the other half leaves alone.
RxSame(h, g) == /\ g.rpend = h.rpend /\ g.rxq = h.rxq /\ g.rint = h.rint
                /\ g.rx = h.rx /\ g.mem = h.mem
TxSame(h, g) == g.tx = h.tx /\ g.air = h.air

-----------------------------------------------------------------------------
(* Sequences, and the least of two.                                        *)

LEMMA MinOfTwo ==
  ASSUME NEW a \in Int, NEW b \in Int
  PROVE  Min({a, b}) = IF a <= b THEN a ELSE b
<1> DEFINE m == IF a <= b THEN a ELSE b
<1>1. m \in {a, b} /\ \A y \in {a, b} : m <= y
  OBVIOUS
<1>2. ASSUME NEW x \in {a, b}, \A y \in {a, b} : x <= y
      PROVE  x = m
  BY <1>2
<1> QED
  BY <1>1, <1>2 DEF Min

LEMMA Rest ==
  ASSUME NEW S, NEW s \in Seq(S), NEW k \in 1 .. Len(s) + 1
  PROVE  /\ SubSeq(s, k, Len(s)) \in Seq(S)
         /\ Len(SubSeq(s, k, Len(s))) = Len(s) + 1 - k
         /\ \A i \in 1 .. Len(s) + 1 - k : SubSeq(s, k, Len(s))[i] = s[k + i - 1]
         /\ SubSeq(s, k, Len(s)) = <<>> <=> k = Len(s) + 1
         /\ k = 1 => SubSeq(s, k, Len(s)) = s
<1> DEFINE r == SubSeq(s, k, Len(s))
<1>1. Len(s) \in Nat
  OBVIOUS
<1>2. /\ r \in Seq(S) /\ Len(r) = Len(s) + 1 - k
      /\ \A i \in 1 .. Len(s) + 1 - k : r[i] = s[k + i - 1]
  OBVIOUS
<1>3. r = <<>> <=> Len(r) = 0
  BY <1>2, EmptySeq
<1>4. k = 1 => r = s
  BY SubSeqFull
<1> HIDE DEF r
<1>5. r = <<>> <=> k = Len(s) + 1
  BY <1>1, <1>2, <1>3
<1> QED
  BY <1>2, <1>4, <1>5 DEF r

LEMMA TailOfRest ==
  ASSUME NEW S, NEW s \in Seq(S), NEW k \in 1 .. Len(s)
  PROVE  /\ SubSeq(s, k, Len(s)) # <<>>
         /\ Head(SubSeq(s, k, Len(s))) = s[k]
         /\ Tail(SubSeq(s, k, Len(s))) = SubSeq(s, k + 1, Len(s))
<1>1. k # Len(s) + 1 /\ Len(s) \in Nat
  OBVIOUS
<1> QED
  BY <1>1, Rest, HeadTailOfSubSeq

LEMMA AppendToRest ==
  ASSUME NEW S, NEW s \in Seq(S), NEW b \in S, NEW k \in 1 .. Len(s) + 1
  PROVE  SubSeq(Append(s, b), k, Len(Append(s, b))) = Append(SubSeq(s, k, Len(s)), b)
OBVIOUS

LEMMA RestOfRest ==
  ASSUME NEW S, NEW s \in Seq(S), NEW k \in 1 .. Len(s) + 1, NEW j \in 1 .. Len(s) + 2 - k
  PROVE  SubSeq(SubSeq(s, k, Len(s)), j, Len(SubSeq(s, k, Len(s)))) = SubSeq(s, k + j - 1, Len(s))
OBVIOUS

\* A block is always found that no other has the identity of.
LEMMA FreshIs ==
  ASSUME NEW chain \in Seq(Block)
  PROVE  /\ Fresh(chain) \in 1 .. Len(chain) + 1
         /\ \A k \in 1 .. Len(chain) : chain[k].id # Fresh(chain)
<1> DEFINE n == Len(chain)
           I == {chain[k].id : k \in 1 .. n}
<1>0. n \in Nat /\ DOMAIN chain = 1 .. n
  OBVIOUS
<1>1. \E i \in 1 .. n + 1 : i \notin I
  <2> SUFFICES ASSUME 1 .. n + 1 \subseteq I
               PROVE  FALSE
    OBVIOUS
  <2>1. IsFiniteSet(1 .. n) /\ Cardinality(1 .. n) = n
    BY <1>0, FS_Interval
  <2>2. IsFiniteSet(1 .. n + 1) /\ Cardinality(1 .. n + 1) = n + 1
    BY <1>0, FS_Interval
  <2> DEFINE f == [k \in 1 .. n |-> chain[k].id]
  <2>3. f \in Surjection(1 .. n, I)
    BY DEF Surjection
  <2>4. IsFiniteSet(I) /\ Cardinality(I) <= n
    BY <2>1, <2>3, FS_Surjection
  <2>5. Cardinality(1 .. n + 1) <= Cardinality(I)
    BY <2>4, FS_Subset
  <2> QED
    BY <1>0, <2>2, <2>4, <2>5, FS_CardinalityType
<1>2. \E i \in 1 .. n + 1 : \A k \in DOMAIN chain : chain[k].id # i
  BY <1>0, <1>1
<1> QED
  BY <1>0, <1>2 DEF Fresh

-----------------------------------------------------------------------------
(* The board: what each operator of NI1010 does.                           *)

\* The piece of the frame in flight that block b gets.
PieceFor(h, b) ==
    [frame |-> h.rx.frame, len |-> h.rx.len, off |-> h.rx.off,
     n |-> IF h.rx.len - h.rx.off <= b.bc THEN h.rx.len - h.rx.off ELSE b.bc]

Stored(mem, id, piece) == [i \in DOMAIN mem \cup {id} |-> IF i = id THEN piece ELSE mem[i]]

LEMMA StoredIs ==
  ASSUME NEW mem \in Memory, NEW id \in Nat, NEW x \in Part
  PROVE  /\ Stored(mem, id, x) \in Memory
         /\ id \in DOMAIN Stored(mem, id, x) /\ Stored(mem, id, x)[id] = x
         /\ \A i \in DOMAIN mem : i # id =>
                i \in DOMAIN Stored(mem, id, x) /\ Stored(mem, id, x)[i] = mem[i]
<1>1. PICK S \in SUBSET Nat : mem \in [S -> Part]
  BY DEF Memory
<1>2. Stored(mem, id, x) \in [S \cup {id} -> Part] /\ S \cup {id} \in SUBSET Nat
  BY <1>1 DEF Stored
<1>3. Stored(mem, id, x) \in Memory
  BY <1>2 DEF Memory
<1> QED
  BY <1>1, <1>3 DEF Stored

LEMMA MemoryHas ==
  ASSUME NEW mem \in Memory, NEW i \in DOMAIN mem
  PROVE  mem[i] \in Part
BY DEF Memory

LEMMA FreeIs ==
  ASSUME NEW mem \in Memory, NEW blocks \in Seq(Block)
  PROVE  LET f == Free(mem, blocks)
         IN  /\ f \in Memory
             /\ \A i \in DOMAIN mem : (\A k \in 1 .. Len(blocks) : blocks[k].id # i) =>
                    i \in DOMAIN f /\ f[i] = mem[i]
<1> DEFINE ids == {blocks[k].id : k \in DOMAIN blocks}
           f == [i \in DOMAIN mem \ ids |-> mem[i]]
<1>1. PICK S \in SUBSET Nat : mem \in [S -> Part]
  BY DEF Memory
<1>2. f \in [S \ ids -> Part] /\ S \ ids \in SUBSET Nat
  BY <1>1
<1>3. f \in Memory
  BY <1>2 DEF Memory
<1>4. DOMAIN blocks = 1 .. Len(blocks)
  OBVIOUS
<1> QED
  BY <1>3, <1>4 DEF Free

\* The board may go on with the frame in the block after b.
Chained(b) == b.bc % 8 = 0

LEMMA AfterIs ==
  ASSUME NEW rx \in Frame, NEW b \in Block
  PROVE  AfterBuffer(rx, b) =
           IF rx.len <= rx.off + b.bc \/ ~Chained(b) THEN NoFrame
           ELSE [frame |-> rx.frame, len |-> rx.len, off |-> rx.off + b.bc]
<1>1. rx.len \in Int /\ rx.off \in Int /\ b.bc \in Int
  BY DEF Frame, Block
<1>2. Min({rx.len, rx.off + b.bc}) = IF rx.len <= rx.off + b.bc THEN rx.len ELSE rx.off + b.bc
  BY <1>1, MinOfTwo
<1> QED
  BY <1>1, <1>2 DEF AfterBuffer, Frame, Chained

LEMMA PumpIs ==
  ASSUME NEW h \in HW, h.rx # NoFrame, h.rxq # <<>>, h.rie
  PROVE  LET g == RxPump(h)
             b == Head(h.rxq)
         IN  /\ g \in HW /\ b \in Block
             /\ g.rie = h.rie /\ g.rpend = h.rpend + 1 /\ g.rint = TRUE
             /\ g.rxq = Tail(h.rxq) /\ g.rx = AfterBuffer(h.rx, b)
             /\ g.mem = Stored(h.mem, b.id, PieceFor(h, b))
             /\ TxSame(h, g)
<1> DEFINE b == Head(h.rxq)
           x == [frame |-> h.rx.frame, len |-> h.rx.len, off |-> h.rx.off,
                 n |-> Min({h.rx.len - h.rx.off, b.bc})]
           m == [i \in DOMAIN h.mem \cup {b.id} |-> IF i = b.id THEN x ELSE h.mem[i]]
           e == [h EXCEPT !.mem = m, !.rx = AfterBuffer(h.rx, b), !.rxq = Tail(h.rxq)]
<1>1. b \in Block /\ Tail(h.rxq) \in Seq(Block)
  BY HeadTailProperties DEF HW
<1>2. h.rx.len \in Int /\ h.rx.off \in Int /\ h.rx.frame \in Nat /\ b.bc \in Int /\ b.id \in Nat
  BY <1>1 DEF HW, Frame, Block
<1>3. x = PieceFor(h, b) /\ x \in Part
  <2> DEFINE left == h.rx.len - h.rx.off
  <2>1. left \in Int
    BY <1>2
  <2>2. Min({left, b.bc}) = IF left <= b.bc THEN left ELSE b.bc
    BY <1>2, <2>1, MinOfTwo
  <2>3. Min({left, b.bc}) \in Int
    BY <1>2, <2>1, <2>2
  <2> QED
    BY <1>2, <2>2, <2>3, Zenon DEF PieceFor, Part
<1>4. m = Stored(h.mem, b.id, x) /\ m \in Memory
  <2>1. m = Stored(h.mem, b.id, x)
    BY Zenon DEF Stored
  <2> HIDE DEF m, x
  <2> QED
    BY <1>2, <1>3, <2>1, StoredIs DEF HW
<1>5. AfterBuffer(h.rx, b) \in Frame
  BY <1>1, <1>2, AfterIs DEF HW, Frame, NoFrame
<1> HIDE DEF m, x
<1>6. /\ e.mem = m /\ e.rx = AfterBuffer(h.rx, b) /\ e.rxq = Tail(h.rxq) /\ e.rie = h.rie
      /\ e.rpend = h.rpend /\ e.tx = h.tx /\ e.air = h.air /\ e \in HW
  BY <1>1, <1>4, <1>5 DEF HW
<1>7. RxPump(h) = SetRint(e)
  BY DEF RxPump, m, x
<1> HIDE DEF e, b
<1>8. SetRint(e) = [e EXCEPT !.rpend = e.rpend + 1, !.rint = TRUE]
  <2>1. e.rie
    BY <1>6, Zenon
  <2> QED
    BY <2>1, Zenon DEF SetRint
<1> DEFINE g == [e EXCEPT !.rpend = e.rpend + 1, !.rint = TRUE]
<1>9. /\ g \in HW /\ g.rie = e.rie /\ g.rpend = e.rpend + 1 /\ g.rint = TRUE
      /\ g.rxq = e.rxq /\ g.rx = e.rx /\ g.mem = e.mem /\ g.tx = e.tx /\ g.air = e.air
  <2>1. e \in HW /\ e.rpend \in Nat
    BY <1>6 DEF HW
  <2>2. e.rpend + 1 \in Nat
    BY <2>1
  <2> DEFINE k == e.rpend + 1
  <2> HIDE DEF k
  <2>3. [e EXCEPT !.rpend = k, !.rint = TRUE] \in HW
    BY <2>1, <2>2, Zenon DEF HW, k
  <2> QED
    BY <2>1, <2>2, <2>3 DEF HW, k
<1> QED
  BY <1>1, <1>3, <1>4, <1>6, <1>7, <1>8, <1>9 DEF TxSame, b

LEMMA PumpStays ==
  ASSUME NEW h, h.rx = NoFrame \/ h.rxq = <<>>
  PROVE  RxPump(h) = h
BY DEF RxPump

LEMMA SetCintIs ==
  ASSUME NEW h \in HW
  PROVE  SetCint(h) \in HW /\ RxSame(h, SetCint(h)) /\ TxSame(h, SetCint(h)) /\ SetCint(h).rie = h.rie
<1> DEFINE c == h.cint \/ h.cie
<1>1. c \in BOOLEAN
  OBVIOUS
<1> HIDE DEF c
<1>2. SetCint(h) = [h EXCEPT !.cint = c]
  BY Zenon DEF SetCint, c
<1> QED
  BY <1>1, <1>2 DEF HW, RxSame, TxSame

LEMMA AcksAre ==
  ASSUME NEW h \in HW
  PROVE  /\ CintAck(h) \in HW /\ RxSame(h, CintAck(h)) /\ TxSame(h, CintAck(h))
         /\ CintAck(h).rie = h.rie
         /\ RintAck(h) \in HW /\ TxSame(h, RintAck(h))
         /\ RintAck(h).rpend = (IF h.rpend > 0 THEN h.rpend - 1 ELSE 0)
         /\ RintAck(h).rint = (RintAck(h).rpend > 0)
         /\ RintAck(h).rxq = h.rxq /\ RintAck(h).rx = h.rx /\ RintAck(h).mem = h.mem
         /\ RintAck(h).rie = h.rie
<1>1. /\ CintAck(h) \in HW /\ RxSame(h, CintAck(h)) /\ TxSame(h, CintAck(h))
      /\ CintAck(h).rie = h.rie
  BY DEF CintAck, HW, RxSame, TxSame
<1> DEFINE left == IF h.rpend > 0 THEN h.rpend - 1 ELSE 0
           more == left > 0
<1>2. left \in Nat /\ more \in BOOLEAN
  BY DEF HW
<1>3. RintAck(h) = [h EXCEPT !.rpend = left, !.rint = more]
  BY Zenon DEF RintAck
<1> HIDE DEF left, more
<1>4. /\ RintAck(h) \in HW /\ TxSame(h, RintAck(h))
      /\ RintAck(h).rpend = left /\ RintAck(h).rint = more
      /\ RintAck(h).rxq = h.rxq /\ RintAck(h).rx = h.rx /\ RintAck(h).mem = h.mem
      /\ RintAck(h).rie = h.rie
  BY <1>2, <1>3 DEF HW, TxSame
<1> QED
  BY <1>1, <1>4, Zenon DEF left, more

LEMMA EnableIs ==
  ASSUME NEW h \in HW, NEW c \in BOOLEAN, NEW r \in BOOLEAN
  PROVE  /\ Enable(h, c, r) \in HW /\ RxSame(h, Enable(h, c, r)) /\ TxSame(h, Enable(h, c, r))
         /\ Enable(h, c, r).rie = r
BY DEF Enable, HW, RxSame, TxSame

\* A transmit command.
LEMMA TransmitIs ==
  ASSUME NEW h \in HW, NEW x \in Piece, NEW ps \in Seq(Piece)
  PROVE  /\ LdXmitCommand(h, x) \in HW /\ RxSame(h, LdXmitCommand(h, x)) /\ LdXmitCommand(h, x).rie
         /\ LdXmitCommand(h, x).tx = Append(h.tx, x) /\ LdXmitCommand(h, x).air = h.air
         /\ XmitCommand(h, ps) \in HW /\ RxSame(h, XmitCommand(h, ps)) /\ XmitCommand(h, ps).rie
         /\ XmitCommand(h, ps).tx = <<>> /\ XmitCommand(h, ps).air = Append(h.air, h.tx \o ps)
<1> DEFINE e == Enable(h, TRUE, TRUE)
           l == [e EXCEPT !.tx = Append(@, x)]
           m == [e EXCEPT !.air = Append(@, h.tx \o ps), !.tx = <<>>]
<1>1. e \in HW /\ RxSame(h, e) /\ TxSame(h, e) /\ e.rie = TRUE
  BY EnableIs
<1> HIDE DEF e
<1>2. Append(e.tx, x) \in Seq(Piece) /\ Append(e.air, h.tx \o ps) \in Seq(Seq(Piece))
  <2>1. h.tx \o ps \in Seq(Piece)
    BY ConcatProperties DEF HW
  <2> QED
    BY <1>1, <2>1, AppendProperties DEF HW
<1>3. /\ l \in HW /\ RxSame(e, l) /\ l.rie = e.rie /\ l.tx = Append(e.tx, x) /\ l.air = e.air
      /\ m \in HW /\ RxSame(e, m) /\ m.rie = e.rie /\ m.tx = <<>>
      /\ m.air = Append(e.air, h.tx \o ps)
  BY <1>1, <1>2, EmptySeq DEF HW, RxSame
<1>4. LdXmitCommand(h, x) = SetCint(l) /\ XmitCommand(h, ps) = SetCint(m)
  BY DEF LdXmitCommand, XmitCommand, e
<1> HIDE DEF l, m
<1>5. /\ SetCint(l) \in HW /\ RxSame(l, SetCint(l)) /\ TxSame(l, SetCint(l)) /\ SetCint(l).rie = l.rie
      /\ SetCint(m) \in HW /\ RxSame(m, SetCint(m)) /\ TxSame(m, SetCint(m)) /\ SetCint(m).rie = m.rie
  BY <1>3, SetCintIs
<1> QED
  BY <1>1, <1>3, <1>4, <1>5, Zenon DEF RxSame, TxSame

\* A receive buffer that the queue has room for.
LEMMA RcvIs ==
  ASSUME NEW h \in HW, NEW b \in Block, NEW c \in BOOLEAN, Len(h.rxq) < RxQ
  PROVE  \E e \in HW :
           /\ e.rie = TRUE /\ e.rxq = Append(h.rxq, b) /\ TxSame(h, e)
           /\ e.rpend = h.rpend /\ e.rint = h.rint /\ e.rx = h.rx /\ e.mem = h.mem
           /\ RxPump(e) \in HW =>
                /\ RcvCommand(h, b, c) \in HW /\ RxSame(RxPump(e), RcvCommand(h, b, c))
                /\ TxSame(RxPump(e), RcvCommand(h, b, c)) /\ RcvCommand(h, b, c).rie = RxPump(e).rie
<1> DEFINE d == Enable(h, c, TRUE)
           e == [d EXCEPT !.rxq = Append(@, b)]
<1>1. d \in HW /\ RxSame(h, d) /\ TxSame(h, d) /\ d.rie = TRUE
  BY EnableIs
<1> HIDE DEF d
<1>2. Append(d.rxq, b) \in Seq(Block)
  BY <1>1, AppendProperties DEF HW
<1>3. /\ e \in HW /\ e.rie = d.rie /\ e.rxq = Append(d.rxq, b) /\ TxSame(d, e)
      /\ e.rpend = d.rpend /\ e.rint = d.rint /\ e.rx = d.rx /\ e.mem = d.mem
  BY <1>1, <1>2 DEF HW, TxSame
<1>4. Len(d.rxq) < RxQ /\ Len(d.rxq) \in Nat /\ RxQ \in Nat
  BY <1>1, LenProperties, BoardAssumption DEF RxSame, HW
<1>5. RcvCommand(h, b, c) = SetCint(RxPump(e))
  <2>1. ~(Len(d.rxq) >= RxQ)
    BY <1>4
  <2>2. RcvCommand(h, b, c) = SetCint(IF Len(d.rxq) >= RxQ THEN d ELSE RxPump(e))
    <3>1. Len(h.rxq) = Len(d.rxq)
      BY <1>1 DEF RxSame
    <3> QED
      BY <3>1, Zenon DEF RcvCommand, d
  <2> QED
    BY <2>1, <2>2, Zenon
<1> HIDE DEF e
<1>6. RxPump(e) \in HW =>
                /\ RcvCommand(h, b, c) \in HW /\ RxSame(RxPump(e), RcvCommand(h, b, c))
                /\ TxSame(RxPump(e), RcvCommand(h, b, c)) /\ RcvCommand(h, b, c).rie = RxPump(e).rie
  BY <1>5, SetCintIs
<1> QED
  BY <1>1, <1>3, <1>6, Zenon DEF RxSame, TxSame

-----------------------------------------------------------------------------
(* Receiving.  The driver's chain of blocks has three parts: those it has  *)
(* been interrupted for (taken), those that the board has filled and will  *)
(* report (rpend), and the board's queue.                                  *)

At(h, chain, i) == h.mem[chain[i].id]
Over(p)         == p.off + p.n = p.len

\* The board's queue is the driver's, and what is filled has its interrupt.
Ring(h, chain, taken) ==
    /\ h.rpend \in 0 .. Len(chain) - taken
    /\ h.rxq = SubSeq(chain, taken + h.rpend + 1, Len(chain))
    /\ h.rint = (h.rpend > 0)
    /\ h.rxq # <<>> => h.rie = TRUE

Distinct(chain) == \A i, j \in 1 .. Len(chain) : chain[i].id = chain[j].id => i = j

\* What block b has got, of a frame after number lo; a block that is not to be
\* chained has got the end of its frame.
PartOK(p, b, lo, hi) ==
    /\ p.frame \in lo + 1 .. hi /\ p.len \in FrameLens /\ p.off >= 0 /\ p.off < p.len
    /\ p.n = IF p.len - p.off <= b.bc THEN p.len - p.off ELSE b.bc
    /\ p.n > 0 /\ (~Chained(b) => Over(p))

\* The part or the frame in flight q comes next after p.
GoesOn(p, q) ==
    IF Over(p) THEN q.off = 0 /\ q.frame > p.frame
    ELSE q.frame = p.frame /\ q.len = p.len /\ q.off = p.off + p.n

\* The part or the frame in flight q comes at some time after p.
Later(p, q) == IF Over(p) THEN q.frame > p.frame ELSE q.frame >= p.frame

\* The first m blocks hold frames one after the other.
Parts(h, chain, m, lo, hi) ==
    /\ \A i \in 1 .. m : chain[i].id \in DOMAIN h.mem /\ PartOK(At(h, chain, i), chain[i], lo, hi)
    /\ m > 0 => At(h, chain, 1).off = 0
    /\ \A i \in 1 .. m - 1 : GoesOn(At(h, chain, i), At(h, chain, i + 1))
    /\ \A i, j \in 1 .. m : i < j => Later(At(h, chain, i), At(h, chain, j))

\* In flight is what the last of them did not get.
After(p) == IF Over(p) THEN NoFrame ELSE [frame |-> p.frame, len |-> p.len, off |-> p.off + p.n]
InFlight(h, chain, m) == h.rx = IF m = 0 THEN NoFrame ELSE After(At(h, chain, m))

\* A block in the queue may be chained.
Blank(b) == b.bc >= SmallBlock /\ Chained(b)

Ringed(h, chain, taken, lo, hi) ==
    /\ taken \in 0 .. Len(chain) /\ Ring(h, chain, taken) /\ Distinct(chain)
    /\ Parts(h, chain, taken + h.rpend, lo, hi) /\ InFlight(h, chain, taken + h.rpend)
    /\ \A i \in taken + h.rpend + 1 .. Len(chain) : Blank(chain[i])

\* What is in flight comes next after the first m blocks, and the block that
\* gets it next holds the rest of the frame unless it may be chained.
Coming(h, chain, m, lo, hi) ==
    /\ h.rx.frame \in lo + 1 .. hi /\ h.rx.len \in FrameLens /\ h.rx.off >= 0 /\ h.rx.off < h.rx.len
    /\ m = 0 => h.rx.off = 0
    /\ m > 0 => GoesOn(At(h, chain, m), h.rx)
    /\ \A i \in 1 .. m : Later(At(h, chain, i), h.rx)
Room(h, chain, m) ==
    /\ chain[m + 1].bc > 0
    /\ Chained(chain[m + 1]) \/ h.rx.len - h.rx.off <= chain[m + 1].bc
    /\ \A i \in m + 2 .. Len(chain) : Blank(chain[i])

\* The board goes on with what is in flight.
LEMMA Pumped ==
  ASSUME NEW h \in HW, NEW chain \in Seq(Block), NEW taken \in 0 .. Len(chain),
         NEW lo \in Nat, NEW hi \in Nat, NEW m \in Nat, m = taken + h.rpend,
         Ring(h, chain, taken), Distinct(chain), Parts(h, chain, m, lo, hi), h.rxq # <<>>,
         Coming(h, chain, m, lo, hi), Room(h, chain, m)
  PROVE  /\ RxPump(h) \in HW /\ TxSame(h, RxPump(h)) /\ RxPump(h).rie = h.rie
         /\ Ringed(RxPump(h), chain, taken, lo, hi)
         /\ RxPump(h).rpend = h.rpend + 1
         /\ \A i \in 1 .. m : At(RxPump(h), chain, i) = At(h, chain, i)
<1> DEFINE g == RxPump(h)
           b == chain[m + 1]
           x == PieceFor(h, b)
           n == Len(chain)
<1>1. n \in Nat /\ h.rpend \in Nat /\ taken \in Nat /\ m = taken + h.rpend
  BY DEF HW
<1>2. m + 1 \in 1 .. n
  <2>1. m \in 0 .. n
    BY <1>1 DEF Ring
  <2>2. h.rxq = SubSeq(chain, m + 1, n)
    BY <1>1, Zenon DEF Ring
  <2>3. m + 1 # n + 1
    BY <1>1, <2>1, <2>2, Rest
  <2> HIDE DEF n
  <2> QED
    BY <1>1, <2>1, <2>3
<1>3. Head(h.rxq) = b /\ Tail(h.rxq) = SubSeq(chain, m + 2, n) /\ b \in Block
  <2>1. h.rxq = SubSeq(chain, m + 1, n)
    BY <1>1, Zenon DEF Ring
  <2>2. b \in Block
    BY <1>2, ElementOfSeq
  <2> DEFINE k == m + 1
  <2>3. k \in 1 .. Len(chain) /\ k + 1 = m + 2
    BY <1>2
  <2> HIDE DEF k
  <2>4. Head(SubSeq(chain, k, n)) = chain[k] /\ Tail(SubSeq(chain, k, n)) = SubSeq(chain, k + 1, n)
    BY <2>3, TailOfRest
  <2> QED
    BY <2>1, <2>2, <2>3, <2>4, Zenon DEF k
<1>4. h.rie = TRUE /\ h.rx # NoFrame
  BY BoardAssumption DEF Ring, NoFrame, Coming
<1>5. /\ g \in HW /\ g.rie = h.rie /\ g.rpend = h.rpend + 1 /\ g.rint = TRUE
      /\ g.rxq = Tail(h.rxq) /\ g.rx = AfterBuffer(h.rx, b)
      /\ g.mem = Stored(h.mem, b.id, x) /\ TxSame(h, g)
  BY <1>3, <1>4, PumpIs
<1> HIDE DEF g, n
<1>6. h.rx.len \in Int /\ h.rx.off \in Int /\ h.rx.frame \in Nat /\ b.bc \in Int /\ b.id \in Nat /\ h.mem \in Memory
  BY <1>3 DEF HW, Frame, Block
<1>7. /\ x \in Part /\ x.frame = h.rx.frame /\ x.len = h.rx.len /\ x.off = h.rx.off
      /\ x.n = IF x.len - x.off <= b.bc THEN x.len - x.off ELSE b.bc
  BY <1>6 DEF PieceFor, Part
<1> HIDE DEF x, b
<1>0. /\ b.id \in DOMAIN g.mem /\ g.mem[b.id] = x
      /\ \A i \in DOMAIN h.mem : i # b.id => i \in DOMAIN g.mem /\ g.mem[i] = h.mem[i]
  <2> DEFINE M == h.mem
             d == b.id
  <2>1. M \in Memory /\ d \in Nat /\ x \in Part
    BY <1>6, <1>7, Zenon
  <2>2. g.mem = Stored(M, d, x)
    BY <1>5, Zenon
  <2> HIDE DEF M, d
  <2>3. /\ d \in DOMAIN Stored(M, d, x) /\ Stored(M, d, x)[d] = x
        /\ \A i \in DOMAIN M : i # d =>
               i \in DOMAIN Stored(M, d, x) /\ Stored(M, d, x)[i] = M[i]
    BY <2>1, StoredIs
  <2> QED
    BY <2>2, <2>3, Zenon DEF M, d
<1>8. At(g, chain, m + 1) = x /\ b.id \in DOMAIN g.mem
  BY <1>0, Zenon DEF At, b
<1>9. \A i \in 1 .. m : chain[i].id # b.id
  <2> SUFFICES ASSUME NEW i \in 1 .. m, chain[i].id = b.id PROVE FALSE
    OBVIOUS
  <2>1. i \in 1 .. n /\ i # m + 1
    BY <1>1, <1>2
  <2>2. \A j, k \in 1 .. n : chain[j].id = chain[k].id => j = k
    BY Zenon DEF Distinct, n
  <2>3. i = m + 1
    BY <1>2, <2>1, <2>2, Zenon DEF b
  <2> QED
    BY <2>1, <2>3
<1>10. \A i \in 1 .. m : chain[i].id \in DOMAIN g.mem /\ At(g, chain, i) = At(h, chain, i)
  <2> SUFFICES ASSUME NEW i \in 1 .. m
               PROVE  chain[i].id \in DOMAIN g.mem /\ At(g, chain, i) = At(h, chain, i)
    OBVIOUS
  <2>1. chain[i].id \in DOMAIN h.mem /\ chain[i].id # b.id
    BY <1>9, Zenon DEF Parts
  <2> DEFINE d == chain[i].id
  <2> HIDE DEF d
  <2>2. d \in DOMAIN g.mem /\ g.mem[d] = h.mem[d]
    BY <1>0, <2>1, Zenon DEF d
  <2> QED
    BY <2>2, Zenon DEF At, d
<1>11. Ring(g, chain, taken)
  <2>00. g.rpend = h.rpend + 1
    BY <1>5, Zenon
  <2>0. g.rpend = h.rpend + 1 /\ taken + g.rpend + 1 = m + 2
    BY <1>1, <2>00
  <2>1. g.rpend \in 0 .. n - taken /\ g.rpend > 0
    <3>1. n \in Nat
      BY <1>1 DEF n
    <3> QED
      BY <1>1, <1>2, <2>00, <3>1
  <2>2. g.rxq = SubSeq(chain, taken + g.rpend + 1, n)
    BY <1>3, <1>5, <2>0, Zenon
  <2>3. g.rint = (g.rpend > 0) /\ g.rie = TRUE
    BY <1>4, <1>5, <2>1
  <2> QED
    BY <2>1, <2>2, <2>3, Zenon DEF Ring, n
<1>12. PartOK(x, b, lo, hi)
  <2>1. b.bc > 0 /\ (Chained(b) \/ h.rx.len - h.rx.off <= b.bc)
    BY Zenon DEF Room, b
  <2>2. h.rx.frame \in lo + 1 .. hi /\ h.rx.len \in FrameLens /\ h.rx.off >= 0 /\ h.rx.off < h.rx.len
    BY Zenon DEF Coming
  <2> DEFINE ch == Chained(b)
  <2> HIDE DEF ch
  <2>3. ~ch => x.off + x.n = x.len
    BY <1>6, <1>7, <2>1 DEF ch
  <2>4. x.n > 0
    BY <1>6, <1>7, <2>1, <2>2
  <2> QED
    BY <1>7, <2>2, <2>3, <2>4 DEF PartOK, Over, ch
<1>13. Parts(g, chain, m + 1, lo, hi)
  <2>1. \A i \in 1 .. m + 1 : chain[i].id \in DOMAIN g.mem /\ PartOK(At(g, chain, i), chain[i], lo, hi)
    BY <1>8, <1>10, <1>12 DEF Parts, b
  <2>2. At(g, chain, 1).off = 0
    BY <1>7, <1>8, <1>10 DEF Parts, Coming
  <2>3. \A i \in 1 .. m : GoesOn(At(g, chain, i), At(g, chain, i + 1))
    <3>1. m > 0 => GoesOn(At(h, chain, m), x)
      BY <1>7 DEF GoesOn, Coming
    <3> QED
      BY <1>8, <1>10, <3>1 DEF Parts
  <2>4. (m + 1 > 0 => At(g, chain, 1).off = 0) /\ (m + 1) - 1 = m
    BY <2>2
  <2>5. ASSUME NEW i \in 1 .. m + 1, NEW j \in 1 .. m + 1, i < j
        PROVE  Later(At(g, chain, i), At(g, chain, j))
    <3>1. CASE j = m + 1
      <4>1. i \in 1 .. m
        BY <2>5, <3>1
      <4>2. Later(At(h, chain, i), h.rx)
        BY <4>1 DEF Coming
      <4>3. Later(At(h, chain, i), x)
        BY <1>7, <4>2, Zenon DEF Later
      <4> QED
        BY <1>8, <1>10, <3>1, <4>1, <4>3, Zenon
    <3>2. CASE j # m + 1
      <4>1. i \in 1 .. m /\ j \in 1 .. m
        BY <2>5, <3>2
      <4>2. Later(At(h, chain, i), At(h, chain, j))
        BY <2>5, <4>1 DEF Parts
      <4> QED
        BY <1>10, <4>1, <4>2, Zenon
    <3> QED
      BY <3>1, <3>2
  <2> QED
    BY <2>1, <2>3, <2>4, <2>5, Zenon DEF Parts
<1>14. InFlight(g, chain, m + 1)
  <2>1. AfterBuffer(h.rx, b) = IF h.rx.len <= h.rx.off + b.bc \/ ~Chained(b) THEN NoFrame
           ELSE [frame |-> h.rx.frame, len |-> h.rx.len, off |-> h.rx.off + b.bc]
    BY <1>3, AfterIs DEF HW
  <2>2. CASE h.rx.len - h.rx.off <= b.bc
    <3>1. Over(x) /\ h.rx.len <= h.rx.off + b.bc
      BY <1>6, <1>7, <2>2 DEF Over
    <3> QED
      BY <1>5, <1>8, <2>1, <3>1 DEF InFlight, After
  <2>3. CASE ~(h.rx.len - h.rx.off <= b.bc)
    <3>1. ~Over(x) /\ ~(h.rx.len <= h.rx.off + b.bc) /\ Chained(b) /\ x.n = b.bc
      <4>1. Chained(b)
        BY <2>3, Zenon DEF Room, b
      <4>2. x.n = b.bc
        BY <1>6, <1>7, <2>3
      <4> QED
        BY <1>6, <1>7, <2>3, <4>1, <4>2 DEF Over
    <3>2. g.rx = [frame |-> h.rx.frame, len |-> h.rx.len, off |-> h.rx.off + b.bc]
      BY <1>5, <2>1, <3>1, Zenon
    <3>3. After(x) = [frame |-> x.frame, len |-> x.len, off |-> x.off + x.n]
      BY <3>1, Zenon DEF After
    <3>4. g.rx = After(x) /\ m + 1 # 0
      BY <1>7, <3>1, <3>2, <3>3
    <3> QED
      BY <1>8, <3>4, Zenon DEF InFlight
  <2> QED
    BY <2>2, <2>3
<1>15. taken + g.rpend = m + 1
  <2>1. g.rpend = h.rpend + 1
    BY <1>5, Zenon
  <2> QED
    BY <1>1, <2>1
<1>16. \A i \in m + 2 .. Len(chain) : Blank(chain[i])
  BY Zenon DEF Room
<1>17. \A i \in taken + g.rpend + 1 .. Len(chain) : Blank(chain[i])
  <2>1. taken + g.rpend + 1 = m + 2
    BY <1>15
  <2> QED
    BY <1>16, <2>1, Zenon
<1>18. Ringed(g, chain, taken, lo, hi)
  BY <1>11, <1>13, <1>14, <1>15, <1>17, Zenon DEF Ringed
<1> QED
  BY <1>5, <1>10, <1>18, Zenon DEF g

\* Parts are carried over to where the same blocks hold the same.
LEMMA Carried ==
  ASSUME NEW h, NEW g, NEW chain, NEW c, NEW m \in Nat,
         NEW lo \in Nat, NEW hi \in Nat, NEW top \in Nat, hi <= top,
         \A i \in 1 .. m : /\ c[i] = chain[i] /\ c[i].id \in DOMAIN g.mem
                           /\ At(g, c, i) = At(h, chain, i),
         Parts(h, chain, m, lo, hi)
  PROVE  /\ Parts(g, c, m, lo, top)
         /\ g.rx = h.rx /\ InFlight(h, chain, m) => InFlight(g, c, m)
         /\ g.rx = h.rx /\ Coming(h, chain, m, lo, hi) => Coming(g, c, m, lo, top)
<1>1. ASSUME NEW i \in 1 .. m
      PROVE  PartOK(At(g, c, i), c[i], lo, top)
  <2>1. PartOK(At(h, chain, i), chain[i], lo, hi)
    BY DEF Parts
  <2>2. PartOK(At(h, chain, i), chain[i], lo, top)
    <3> DEFINE p == At(h, chain, i)
    <3> HIDE DEF p
    <3>1. PartOK(p, chain[i], lo, hi)
      BY <2>1 DEF p
    <3>2. p.frame \in lo + 1 .. hi
      BY <3>1, Zenon DEF PartOK
    <3>3. p.frame \in lo + 1 .. top
      BY <3>2
    <3> QED
      BY <3>1, <3>3, Zenon DEF PartOK, p
  <2> QED
    BY <2>2, Zenon
<1>2. m > 0 => At(g, c, 1).off = 0
  <2>1. m > 0 => 1 \in 1 .. m
    OBVIOUS
  <2> QED
    BY <2>1, Zenon DEF Parts
<1>3. \A i \in 1 .. m - 1 : GoesOn(At(g, c, i), At(g, c, i + 1))
  <2> TAKE i \in 1 .. m - 1
  <2>1. i \in 1 .. m /\ i + 1 \in 1 .. m
    OBVIOUS
  <2> QED
    BY <2>1, Zenon DEF Parts
<1>4. \A i, j \in 1 .. m : i < j => Later(At(g, c, i), At(g, c, j))
  BY Zenon DEF Parts
<1>5. g.rx = h.rx /\ InFlight(h, chain, m) => InFlight(g, c, m)
  <2>1. m = 0 \/ m \in 1 .. m
    OBVIOUS
  <2> QED
    BY <2>1, Zenon DEF InFlight
<1>6. g.rx = h.rx /\ Coming(h, chain, m, lo, hi) => Coming(g, c, m, lo, top)
  <2> SUFFICES ASSUME g.rx = h.rx, Coming(h, chain, m, lo, hi)
               PROVE  Coming(g, c, m, lo, top)
    OBVIOUS
  <2>1. m > 0 => m \in 1 .. m
    OBVIOUS
  <2>2. h.rx.frame \in lo + 1 .. top
    <3>1. h.rx.frame \in lo + 1 .. hi
      BY Zenon DEF Coming
    <3> QED
      BY <3>1
  <2> QED
    BY <2>1, <2>2, Zenon DEF Coming
<1>7. \A i \in 1 .. m : c[i].id \in DOMAIN g.mem /\ PartOK(At(g, c, i), c[i], lo, top)
  BY <1>1
<1> QED
  BY <1>2, <1>3, <1>4, <1>5, <1>6, <1>7, Zenon DEF Parts

\* A frame in flight comes next after the filled blocks.
LEMMA Onward ==
  ASSUME NEW h \in HW, NEW chain, NEW lo \in Nat, NEW hi \in Nat,
         NEW m \in Nat, Parts(h, chain, m, lo, hi), InFlight(h, chain, m), h.rx # NoFrame
  PROVE  Coming(h, chain, m, lo, hi)
<1> DEFINE p == At(h, chain, m)
<1>1. m # 0 /\ h.rx = After(p) /\ ~Over(p)
  BY DEF InFlight, After
<1>2. m > 0 /\ m \in 1 .. m
  BY <1>1
<1>3. PartOK(p, chain[m], lo, hi)
  BY <1>2 DEF Parts
<1>4. \A i \in 1 .. m : i # m => Later(At(h, chain, i), p)
  <2> TAKE i \in 1 .. m
  <2>1. i # m => i < m
    OBVIOUS
  <2> QED
    BY <1>2, <2>1, Zenon DEF Parts
<1> HIDE DEF p
<1>5. h.rx = [frame |-> p.frame, len |-> p.len, off |-> p.off + p.n]
  BY <1>1, Zenon DEF After
<1>6. h.rx.frame = p.frame /\ h.rx.len = p.len /\ h.rx.off = p.off + p.n
  BY <1>5
<1>7. p.off + p.n # p.len
  BY <1>1 DEF Over
<1>8. /\ p.frame \in lo + 1 .. hi /\ p.len \in FrameLens /\ p.off >= 0 /\ p.off < p.len /\ p.n > 0
      /\ p.n = IF p.len - p.off <= chain[m].bc THEN p.len - p.off ELSE chain[m].bc
  BY <1>3, Zenon DEF PartOK
<1>9. h.rx.off \in Int /\ p.len \in Nat
  BY <1>8, BoardAssumption DEF HW, Frame
<1>10. h.rx.off >= 0 /\ h.rx.off < h.rx.len
  <2>1. p \in Part
    <3>1. chain[m].id \in DOMAIN h.mem /\ h.mem \in Memory
      BY <1>2 DEF Parts, HW
    <3> QED
      BY <3>1, MemoryHas, Zenon DEF At, p
  <2>2. p.off \in Int /\ p.n \in Int
    BY <2>1 DEF Part
  <2>3. p.n = p.len - p.off \/ (p.n = chain[m].bc /\ ~(p.len - p.off <= p.n))
    BY <1>8, Zenon
  <2> QED
    BY <1>6, <1>7, <1>8, <1>9, <2>2, <2>3
<1>11. GoesOn(p, h.rx)
  BY <1>1, <1>6, Zenon DEF GoesOn
<1>12. Later(p, h.rx)
  BY <1>1, <1>6, <1>8 DEF Later
<1>13. \A i \in 1 .. m : Later(At(h, chain, i), h.rx)
  <2> TAKE i \in 1 .. m
  <2>1. CASE i = m
    BY <1>12, <2>1 DEF p
  <2>2. CASE i # m
    BY <1>1, <1>4, <1>6, <2>2, Zenon DEF Later
  <2> QED
    BY <2>1, <2>2
<1> QED
  BY <1>1, <1>2, <1>6, <1>8, <1>10, <1>11, <1>13, Zenon DEF Coming, p

Same(h, g, chain, m) == \A i \in 1 .. m : At(g, chain, i) = At(h, chain, i)

\* il_rxpump(), of the board's own accord.
LEMMA PumpKeeps ==
  ASSUME NEW h \in HW, NEW chain \in Seq(Block), NEW taken \in Nat, NEW lo \in Nat, NEW hi \in Nat,
         Ringed(h, chain, taken, lo, hi)
  PROVE  /\ RxPump(h) \in HW /\ TxSame(h, RxPump(h)) /\ RxPump(h).rie = h.rie
         /\ Ringed(RxPump(h), chain, taken, lo, hi)
         /\ Same(h, RxPump(h), chain, taken)
<1>1. CASE h.rx = NoFrame \/ h.rxq = <<>>
  BY <1>1, PumpStays DEF TxSame, Same
<1>2. CASE h.rx # NoFrame /\ h.rxq # <<>>
  <2> DEFINE m == taken + h.rpend
  <2>1. m \in Nat /\ h.rpend \in Nat
    BY DEF HW
  <2>2. /\ taken \in 0 .. Len(chain) /\ Ring(h, chain, taken) /\ Distinct(chain)
        /\ Parts(h, chain, m, lo, hi) /\ InFlight(h, chain, m)
        /\ \A i \in m + 1 .. Len(chain) : Blank(chain[i])
    BY Zenon DEF Ringed
  <2>3. m + 1 \in 1 .. Len(chain)
    <3>1. m \in 0 .. Len(chain)
      BY <2>1, <2>2 DEF Ring
    <3>2. h.rxq = SubSeq(chain, m + 1, Len(chain))
      BY <2>2, Zenon DEF Ring
    <3>3. m + 1 # Len(chain) + 1
      BY <1>2, <3>1, <3>2, Rest
    <3> QED
      BY <3>1, <3>3
  <2> HIDE DEF m
  <2>4. Coming(h, chain, m, lo, hi)
    BY <1>2, <2>1, <2>2, Onward
  <2>5. Blank(chain[m + 1]) /\ \A i \in m + 2 .. Len(chain) : Blank(chain[i])
    <3>1. m + 1 \in m + 1 .. Len(chain) /\ m + 2 .. Len(chain) \subseteq m + 1 .. Len(chain)
      BY <2>1, <2>3
    <3> QED
      BY <2>2, <3>1
  <2>6. Room(h, chain, m)
    <3>1. chain[m + 1].bc > 0 /\ Chained(chain[m + 1])
      <4>1. chain[m + 1] \in Block
        BY <2>3, ElementOfSeq
      <4> QED
        BY <2>5, <4>1, StreamsAssumption DEF Blank, Block
    <3> QED
      BY <2>5, <3>1, Zenon DEF Room
  <2>7. m = taken + h.rpend
    BY DEF m
  <2>8. /\ RxPump(h) \in HW /\ TxSame(h, RxPump(h)) /\ RxPump(h).rie = h.rie
        /\ Ringed(RxPump(h), chain, taken, lo, hi)
        /\ \A i \in 1 .. m : At(RxPump(h), chain, i) = At(h, chain, i)
    BY <1>2, <2>1, <2>2, <2>4, <2>6, <2>7, Pumped
  <2>9. 1 .. taken \subseteq 1 .. m
    BY <2>1, <2>7
  <2> QED
    BY <2>8, <2>9 DEF Same
<1> QED
  BY <1>1, <1>2

\* Without a frame in flight the next frame comes after the filled blocks.
LEMMA NextFrame ==
  ASSUME NEW h \in HW, NEW chain, NEW lo \in Nat, NEW hi \in Nat, lo <= hi, NEW l \in FrameLens,
         NEW m \in Nat, Parts(h, chain, m, lo, hi), InFlight(h, chain, m), h.rx = NoFrame,
         NEW g, g.mem = h.mem, g.rx = [frame |-> hi + 1, len |-> l, off |-> 0]
  PROVE  Coming(g, chain, m, lo, hi + 1)
<1>1. g.rx.frame = hi + 1 /\ g.rx.len = l /\ g.rx.off = 0
  OBVIOUS
<1>2. l \in Nat /\ l > 0
  BY BoardAssumption
<1>3. \A i \in 1 .. m : /\ At(g, chain, i) = At(h, chain, i) /\ PartOK(At(h, chain, i), chain[i], lo, hi)
  BY Zenon DEF Parts, At
<1>4. \A i \in 1 .. m : At(g, chain, i).frame \in lo + 1 .. hi /\ At(g, chain, i).len \in FrameLens
  BY <1>3, Zenon DEF PartOK
<1>5. \A i \in 1 .. m : Later(At(g, chain, i), g.rx)
  <2> TAKE i \in 1 .. m
  <2> DEFINE f == At(g, chain, i).frame
  <2>1. f \in lo + 1 .. hi
    BY <1>4
  <2> HIDE DEF f
  <2>2. g.rx.frame > f /\ g.rx.frame >= f
    BY <1>1, <2>1
  <2> QED
    BY <2>2, Zenon DEF Later, f
<1>6. ASSUME m > 0
      PROVE  GoesOn(At(g, chain, m), g.rx)
  <2> DEFINE p == At(h, chain, m)
  <2>1. m \in 1 .. m /\ m # 0
    BY <1>6
  <2>2. p.len \in FrameLens /\ At(g, chain, m) = p
    BY <1>3, <1>4, <2>1, Zenon
  <2>3. h.rx = After(p)
    BY <2>1, Zenon DEF InFlight
  <2> HIDE DEF p
  <2>4. Over(p)
    <3>1. p.len # 0
      BY <2>2, BoardAssumption
    <3>2. [frame |-> p.frame, len |-> p.len, off |-> p.off + p.n] # [frame |-> 0, len |-> 0, off |-> 0]
      BY <3>1
    <3> QED
      BY <2>3, <3>2, Zenon DEF After, NoFrame
  <2>5. Later(p, g.rx)
    BY <1>5, <2>1, <2>2, Zenon
  <2> QED
    BY <1>1, <2>2, <2>4, <2>5, Zenon DEF GoesOn, Later
<1>7. g.rx.frame \in lo + 1 .. hi + 1 /\ g.rx.off >= 0 /\ g.rx.off < g.rx.len
  BY <1>1, <1>2
<1> QED
  BY <1>1, <1>5, <1>6, <1>7, Zenon DEF Coming

\* il_deliver() of the frame that comes next.
LEMMA DeliverKeeps ==
  ASSUME NEW h \in HW, NEW chain \in Seq(Block), NEW taken \in Nat, NEW lo \in Nat, NEW hi \in Nat,
         lo <= hi, Ringed(h, chain, taken, lo, hi), h.rx = NoFrame, NEW l \in FrameLens
  PROVE  LET g == Deliver(h, [id |-> hi + 1, len |-> l])
         IN  /\ g \in HW /\ TxSame(h, g) /\ g.rie = h.rie
             /\ Ringed(g, chain, taken, lo, hi + 1)
             /\ Same(h, g, chain, taken)
<1> DEFINE m == taken + h.rpend
           f == [id |-> hi + 1, len |-> l]
           e == [h EXCEPT !.rx = [frame |-> hi + 1, len |-> l, off |-> 0]]
<1>1. m \in Nat /\ h.rpend \in Nat /\ hi + 1 \in Nat /\ hi <= hi + 1
  BY DEF HW
<1>2. /\ taken \in 0 .. Len(chain) /\ Ring(h, chain, taken) /\ Distinct(chain)
      /\ Parts(h, chain, m, lo, hi) /\ InFlight(h, chain, m)
      /\ \A i \in m + 1 .. Len(chain) : Blank(chain[i])
  BY Zenon DEF Ringed
<1>3. CASE h.rxq = <<>>
  <2>1. Deliver(h, f) = h
    BY <1>3 DEF Deliver
  <2>2. Parts(h, chain, m, lo, hi + 1)
    <3>1. \A i \in 1 .. m : chain[i].id \in DOMAIN h.mem
      BY <1>2, Zenon DEF Parts
    <3> HIDE DEF m
    <3> QED
      BY <1>1, <1>2, <3>1, Carried
  <2>3. Ringed(h, chain, taken, lo, hi + 1)
    BY <1>2, <2>2, Zenon DEF Ringed
  <2> QED
    BY <2>1, <2>3 DEF TxSame, Same
<1>4. CASE h.rxq # <<>>
  <2>1. Deliver(h, f) = RxPump(e)
    BY <1>4 DEF Deliver
  <2>2. l \in Int
    BY BoardAssumption
  <2>3. /\ e \in HW /\ TxSame(h, e) /\ e.rie = h.rie /\ e.mem = h.mem /\ e.rxq = h.rxq
        /\ e.rpend = h.rpend /\ e.rint = h.rint
        /\ e.rx = [frame |-> hi + 1, len |-> l, off |-> 0]
    <3> DEFINE r == [frame |-> hi + 1, len |-> l, off |-> 0]
    <3>1. r \in Frame
      BY <2>2 DEF Frame
    <3> HIDE DEF r
    <3>2. e = [h EXCEPT !.rx = r]
      BY Zenon DEF r
    <3> HIDE DEF e
    <3>3. /\ e \in HW /\ TxSame(h, e) /\ e.rie = h.rie /\ e.mem = h.mem /\ e.rxq = h.rxq
          /\ e.rpend = h.rpend /\ e.rint = h.rint /\ e.rx = r
      BY <3>1, <3>2 DEF HW, TxSame
    <3> QED
      BY <3>3, Zenon DEF r
  <2> HIDE DEF e, f, m
  <2>4. Coming(e, chain, m, lo, hi + 1)
    BY <1>1, <1>2, <2>3, NextFrame
  <2>5. \A i \in 1 .. m : chain[i].id \in DOMAIN e.mem /\ At(e, chain, i) = At(h, chain, i)
    BY <1>2, <2>3, Zenon DEF Parts, At
  <2>6. Parts(e, chain, m, lo, hi + 1)
    BY <1>1, <1>2, <2>5, Carried
  <2>7. Ring(e, chain, taken)
    BY <1>2, <2>3, Zenon DEF Ring
  <2>8. m + 1 \in 1 .. Len(chain)
    <3>1. m \in 0 .. Len(chain)
      BY <1>1, <1>2 DEF Ring, m
    <3>2. h.rxq = SubSeq(chain, m + 1, Len(chain))
      BY <1>2, Zenon DEF Ring, m
    <3>3. m + 1 # Len(chain) + 1
      BY <1>4, <3>1, <3>2, Rest
    <3> QED
      BY <3>1, <3>3
  <2>9. Blank(chain[m + 1]) /\ \A i \in m + 2 .. Len(chain) : Blank(chain[i])
    <3>1. m + 1 \in m + 1 .. Len(chain) /\ m + 2 .. Len(chain) \subseteq m + 1 .. Len(chain)
      BY <1>1, <2>8
    <3> QED
      BY <1>2, <3>1
  <2>10. Room(e, chain, m)
    <3>1. chain[m + 1].bc > 0 /\ Chained(chain[m + 1])
      <4>1. chain[m + 1] \in Block
        BY <2>8, ElementOfSeq
      <4> QED
        BY <2>9, <4>1, StreamsAssumption DEF Blank, Block
    <3> QED
      BY <2>9, <3>1, Zenon DEF Room
  <2>11. m = taken + e.rpend /\ e.rxq # <<>>
    BY <1>4, <2>3 DEF m
  <2>12. /\ RxPump(e) \in HW /\ TxSame(e, RxPump(e)) /\ RxPump(e).rie = e.rie
         /\ Ringed(RxPump(e), chain, taken, lo, hi + 1)
         /\ \A i \in 1 .. m : At(RxPump(e), chain, i) = At(e, chain, i)
    BY <1>1, <1>2, <2>3, <2>4, <2>6, <2>7, <2>10, <2>11, Pumped
  <2>13. 1 .. taken \subseteq 1 .. m
    BY <1>1 DEF m
  <2>14. Same(h, RxPump(e), chain, taken)
    BY <2>5, <2>12, <2>13 DEF Same
  <2> QED
    BY <2>1, <2>3, <2>12, <2>14, Zenon DEF TxSame, f
<1> QED
  BY <1>3, <1>4

\* A buffer the driver adds to its chain: one that may be chained, unless the
\* board is in the middle of a frame, has no buffer, and needs no other.
Fits(h, b) ==
    /\ b.bc > 0
    /\ h.rx = NoFrame \/ h.rxq # <<>> => Blank(b)
    /\ h.rx # NoFrame => Chained(b) \/ h.rx.len - h.rx.off <= b.bc

\* Commands of the other half leave the ring alone.
LEMMA RingedSame ==
  ASSUME NEW h, NEW g, RxSame(h, g), g.rie = h.rie \/ g.rie = TRUE,
         NEW chain, NEW taken, NEW lo, NEW hi
  PROVE  /\ Ringed(h, chain, taken, lo, hi) => Ringed(g, chain, taken, lo, hi)
         /\ \A m : Same(h, g, chain, m)
<1>1. \A i : At(g, chain, i) = At(h, chain, i)
  BY Zenon DEF At, RxSame
<1>2. \A m : Parts(h, chain, m, lo, hi) => Parts(g, chain, m, lo, hi)
  BY <1>1, Zenon DEF Parts, RxSame
<1>3. \A m : InFlight(h, chain, m) => InFlight(g, chain, m)
  BY <1>1, Zenon DEF InFlight, RxSame
<1>4. Ring(h, chain, taken) => Ring(g, chain, taken)
  BY Zenon DEF Ring, RxSame
<1>5. Ringed(h, chain, taken, lo, hi) => Ringed(g, chain, taken, lo, hi)
  <2>1. g.rpend = h.rpend
    BY DEF RxSame
  <2> QED
    BY <1>2, <1>3, <1>4, <2>1, Zenon DEF Ringed
<1> QED
  BY <1>1, <1>5, Zenon DEF Same

\* ILC_RCV of a buffer that the queue has room for.
LEMMA RcvKeeps ==
  ASSUME NEW h \in HW, NEW chain \in Seq(Block), NEW taken \in Nat, NEW lo \in Nat, NEW hi \in Nat,
         Ringed(h, chain, taken, lo, hi), NEW b \in Block, NEW cie \in BOOLEAN,
         Len(h.rxq) < RxQ, \A i \in 1 .. Len(chain) : chain[i].id # b.id, Fits(h, b)
  PROVE  LET g == RcvCommand(h, b, cie)
         IN  /\ g \in HW /\ TxSame(h, g) /\ g.rie = TRUE
             /\ Ringed(g, Append(chain, b), taken, lo, hi)
             /\ Same(h, g, chain, taken)
<1> DEFINE g == RcvCommand(h, b, cie)
           c == Append(chain, b)
           n == Len(chain)
           m == taken + h.rpend
<1>1. PICK e \in HW :
           /\ e.rie = TRUE /\ e.rxq = Append(h.rxq, b) /\ TxSame(h, e)
           /\ e.rpend = h.rpend /\ e.rint = h.rint /\ e.rx = h.rx /\ e.mem = h.mem
           /\ RxPump(e) \in HW =>
                /\ g \in HW /\ RxSame(RxPump(e), g)
                /\ TxSame(RxPump(e), g) /\ g.rie = RxPump(e).rie
  BY RcvIs
<1> HIDE DEF g
<1>2. /\ c \in Seq(Block) /\ Len(c) = n + 1 /\ c[n + 1] = b /\ n \in Nat
      /\ \A i \in 1 .. n : c[i] = chain[i]
  BY AppendProperties
<1>3. m \in Nat /\ h.rpend \in Nat
  BY DEF HW
<1>4. /\ taken \in 0 .. n /\ Ring(h, chain, taken) /\ Distinct(chain)
      /\ Parts(h, chain, m, lo, hi) /\ InFlight(h, chain, m)
      /\ \A i \in m + 1 .. n : Blank(chain[i])
  BY Zenon DEF Ringed
<1>5. m \in 0 .. n /\ h.rxq = SubSeq(chain, m + 1, n)
  <2>1. h.rpend \in 0 .. n - taken /\ h.rxq = SubSeq(chain, m + 1, n)
    BY <1>4, Zenon DEF Ring
  <2> QED
    BY <1>2, <1>3, <1>4, <2>1
<1>6. e.rxq = SubSeq(c, m + 1, n + 1) /\ e.rxq # <<>>
  <2>1. m + 1 \in 1 .. n + 1
    BY <1>2, <1>3, <1>5
  <2>2. SubSeq(c, m + 1, Len(c)) = Append(SubSeq(chain, m + 1, n), b)
    <3> DEFINE k == m + 1
    <3> HIDE DEF k
    <3>1. k \in 1 .. Len(chain) + 1
      BY <2>1 DEF k
    <3>2. SubSeq(c, k, Len(c)) = Append(SubSeq(chain, k, Len(chain)), b)
      BY <3>1, AppendToRest
    <3> QED
      BY <3>2, Zenon DEF k
  <2>3. Append(h.rxq, b) # <<>>
    <3>1. h.rxq \in Seq(Block)
      BY DEF HW
    <3> QED
      BY <3>1, AppendProperties
  <2> QED
    BY <1>1, <1>2, <1>5, <2>2, <2>3, Zenon
<1> HIDE DEF c, n
<1>7. Distinct(c)
  <2> SUFFICES ASSUME NEW i \in 1 .. n + 1, NEW j \in 1 .. n + 1, c[i].id = c[j].id
               PROVE  i = j
    BY <1>2, Zenon DEF Distinct
  <2>1. CASE i = n + 1 \/ j = n + 1
    <3>1. \A k \in 1 .. n : c[k].id # b.id
      BY <1>2 DEF n
    <3>2. i \in 1 .. n \/ i = n + 1
      BY <1>2
    <3>3. j \in 1 .. n \/ j = n + 1
      BY <1>2
    <3> QED
      BY <1>2, <2>1, <3>1, <3>2, <3>3
  <2>2. CASE i # n + 1 /\ j # n + 1
    <3>1. i \in 1 .. n /\ j \in 1 .. n
      BY <1>2, <2>2
    <3>2. chain[i].id = chain[j].id
      BY <1>2, <3>1
    <3> QED
      BY <1>4, <3>1, <3>2, Zenon DEF Distinct, n
  <2> QED
    BY <2>1, <2>2
<1>8. Ring(e, c, taken)
  <2>1. h.rpend \in 0 .. n + 1 - taken
    BY <1>2, <1>3, <1>4, <1>5
  <2>2. e.rint = (e.rpend > 0) /\ e.rie = TRUE
    BY <1>1, <1>4, Zenon DEF Ring
  <2>3. e.rpend \in 0 .. Len(c) - taken
    BY <1>1, <1>2, <2>1
  <2>4. e.rxq = SubSeq(c, taken + e.rpend + 1, Len(c))
    BY <1>1, <1>2, <1>6, Zenon
  <2> QED
    BY <2>2, <2>3, <2>4, Zenon DEF Ring
<1>9. \A i \in 1 .. m : c[i] = chain[i] /\ c[i].id \in DOMAIN e.mem /\ At(e, c, i) = At(h, chain, i)
  <2> TAKE i \in 1 .. m
  <2>1. i \in 1 .. n
    BY <1>2, <1>5
  <2>2. c[i] = chain[i] /\ chain[i].id \in DOMAIN h.mem
    BY <1>2, <1>4, <2>1, Zenon DEF Parts
  <2> QED
    BY <1>1, <2>2, Zenon DEF At
<1> HIDE DEF m
<1>10. /\ Parts(e, c, m, lo, hi) /\ InFlight(e, c, m)
       /\ Coming(h, chain, m, lo, hi) => Coming(e, c, m, lo, hi)
  <2>1. hi <= hi
    OBVIOUS
  <2> QED
    BY <1>1, <1>3, <1>4, <1>9, <2>1, Carried
<1>11. taken \in 0 .. Len(c) /\ taken \in Nat
  BY <1>2, <1>4
<1>12. m = taken + e.rpend
  BY <1>1 DEF m
<1>13. CASE h.rx = NoFrame
  <2>1. RxPump(e) = e
    BY <1>1, <1>13, PumpStays
  <2>2. \A i \in m + 1 .. n + 1 : Blank(c[i])
    <3> TAKE i \in m + 1 .. n + 1
    <3>1. i = n + 1 \/ i \in m + 1 .. n
      BY <1>2, <1>3
    <3>2. Blank(b)
      BY <1>13, Zenon DEF Fits
    <3>3. ASSUME i \in m + 1 .. n PROVE c[i] = chain[i]
      BY <1>2, <1>3, <3>3
    <3> QED
      BY <1>2, <1>4, <3>1, <3>2, <3>3, Zenon DEF m
  <2>3. Ringed(e, c, taken, lo, hi)
    BY <1>2, <1>7, <1>8, <1>10, <1>11, <1>12, <2>2, Zenon DEF Ringed
  <2>4. \A i \in 1 .. taken : At(e, c, i) = At(h, chain, i) /\ At(e, chain, i) = At(h, chain, i)
    <3>1. 1 .. taken \subseteq 1 .. m
      BY <1>3 DEF m
    <3> QED
      BY <1>1, <1>9, <3>1 DEF At
  <2>5. RxSame(e, g) /\ TxSame(e, g) /\ g.rie = e.rie /\ g \in HW
    BY <1>1, <2>1, Zenon
  <2>6. Ringed(g, c, taken, lo, hi)
    BY <2>3, <2>5, RingedSame
  <2>7. \A i \in 1 .. taken : At(g, chain, i) = At(h, chain, i)
    BY <2>4, <2>5, Zenon DEF At, RxSame
  <2> QED
    BY <1>1, <2>5, <2>6, <2>7, Zenon DEF Same, TxSame, g, c
<1>14. CASE h.rx # NoFrame
  <2>1. Coming(e, c, m, lo, hi)
    BY <1>3, <1>4, <1>10, <1>14, Onward DEF m
  <2>2. Room(e, c, m)
    <3>1. CASE m = n
      <4>1. \A i \in m + 2 .. Len(c) : Blank(c[i])
        BY <1>2, <3>1
      <4>2. c[m + 1] = b
        BY <1>2, <3>1
      <4>3. b.bc > 0 /\ (Chained(b) \/ e.rx.len - e.rx.off <= b.bc)
        BY <1>1, <1>14, Zenon DEF Fits
      <4> QED
        BY <4>1, <4>2, <4>3, Zenon DEF Room
    <3>2. CASE m # n
      <4>1. m + 1 \in m + 1 .. n /\ m + 1 \in 1 .. n
        BY <1>2, <1>3, <1>5, <3>2 DEF m, n
      <4>2. h.rxq # <<>>
        <5>1. m + 1 \in 1 .. n + 1 /\ m + 1 # n + 1
          BY <1>2, <4>1
        <5>2. h.rxq = SubSeq(chain, m + 1, n)
          BY <1>5, Zenon DEF m
        <5> QED
          BY <5>1, <5>2, Rest DEF n
      <4>3. Blank(b)
        BY <4>2, Zenon DEF Fits
      <4>4. \A i \in m + 1 .. n + 1 : Blank(c[i])
        <5> TAKE i \in m + 1 .. n + 1
        <5>1. i = n + 1 \/ i \in m + 1 .. n
          BY <1>2, <1>3
        <5>2. ASSUME i \in m + 1 .. n PROVE c[i] = chain[i]
          BY <1>2, <1>3, <5>2
        <5> QED
          BY <1>2, <1>4, <4>3, <5>1, <5>2, Zenon DEF m
      <4>5. Blank(c[m + 1]) /\ \A i \in m + 2 .. Len(c) : Blank(c[i])
        <5>1. m + 1 \in m + 1 .. n + 1 /\ m + 2 .. Len(c) \subseteq m + 1 .. n + 1
          BY <1>2, <1>3, <4>1
        <5> QED
          BY <4>4, <5>1, Zenon
      <4>6. c[m + 1] \in Block
        <5>1. m + 1 \in 1 .. Len(c)
          BY <1>2, <4>1
        <5> QED
          BY <1>2, <5>1, ElementOfSeq
      <4>7. c[m + 1].bc > 0 /\ Chained(c[m + 1])
        BY <4>5, <4>6, StreamsAssumption DEF Blank, Block
      <4> QED
        BY <4>5, <4>7, Zenon DEF Room
    <3> QED
      BY <3>1, <3>2
  <2>3. /\ RxPump(e) \in HW /\ TxSame(e, RxPump(e)) /\ RxPump(e).rie = e.rie
        /\ Ringed(RxPump(e), c, taken, lo, hi)
        /\ \A i \in 1 .. m : At(RxPump(e), c, i) = At(e, c, i)
    <3>1. /\ c \in Seq(Block) /\ e \in HW /\ taken \in 0 .. Len(c) /\ m \in Nat
          /\ m = taken + e.rpend /\ Ring(e, c, taken) /\ Distinct(c) /\ Parts(e, c, m, lo, hi)
          /\ e.rxq # <<>> /\ Coming(e, c, m, lo, hi) /\ Room(e, c, m)
      BY <1>2, <1>3, <1>6, <1>7, <1>8, <1>10, <1>11, <1>12, <2>1, <2>2, Zenon
    <3> QED
      BY <3>1, Pumped
  <2>4. 1 .. taken \subseteq 1 .. m
    BY <1>3 DEF m
  <2>5. \A i \in 1 .. taken : At(RxPump(e), chain, i) = At(h, chain, i)
    <3> TAKE i \in 1 .. taken
    <3>1. At(RxPump(e), c, i) = At(h, chain, i) /\ c[i] = chain[i]
      BY <1>9, <2>3, <2>4
    <3> QED
      BY <3>1, Zenon DEF At
  <2>6. /\ RxSame(RxPump(e), g) /\ TxSame(RxPump(e), g) /\ g.rie = RxPump(e).rie /\ g \in HW
    BY <1>1, <2>3, Zenon
  <2>7. Ringed(g, c, taken, lo, hi)
    BY <2>3, <2>6, RingedSame
  <2>8. \A i \in 1 .. taken : At(g, chain, i) = At(h, chain, i)
    BY <2>5, <2>6, Zenon DEF At, RxSame
  <2> QED
    BY <1>1, <2>3, <2>6, <2>7, <2>8, Zenon DEF Same, TxSame, g, c
<1> QED
  BY <1>13, <1>14 DEF g, c

\* The driver takes the interrupt for a filled block.
LEMMA TakenKeeps ==
  ASSUME NEW h \in HW, NEW chain \in Seq(Block), NEW taken \in Nat, NEW lo \in Nat, NEW hi \in Nat,
         Ringed(h, chain, taken, lo, hi), h.rint = TRUE
  PROVE  /\ Ringed(RintAck(h), chain, taken + 1, lo, hi)
         /\ RintAck(h) \in HW /\ TxSame(h, RintAck(h)) /\ RintAck(h).rie = h.rie
         /\ RintAck(h).rpend = h.rpend - 1 /\ RintAck(h).mem = h.mem
         /\ taken + 1 \in 1 .. taken + h.rpend /\ taken + h.rpend \in 0 .. Len(chain)
<1> DEFINE g == RintAck(h)
           m == taken + h.rpend
<1>1. /\ g \in HW /\ TxSame(h, g) /\ g.rpend = (IF h.rpend > 0 THEN h.rpend - 1 ELSE 0)
      /\ g.rint = (g.rpend > 0) /\ g.rxq = h.rxq /\ g.rx = h.rx /\ g.mem = h.mem /\ g.rie = h.rie
  BY AcksAre
<1> HIDE DEF g
<1>2. /\ taken \in 0 .. Len(chain) /\ Ring(h, chain, taken) /\ Distinct(chain)
      /\ Parts(h, chain, m, lo, hi) /\ InFlight(h, chain, m)
      /\ \A i \in m + 1 .. Len(chain) : Blank(chain[i])
  BY Zenon DEF Ringed
<1>3. h.rpend > 0 /\ h.rpend \in Nat /\ h.rpend \in 0 .. Len(chain) - taken
  BY <1>2 DEF Ring, HW
<1>4. g.rpend = h.rpend - 1
  BY <1>1, <1>3, Zenon
<1>5. taken + 1 + g.rpend = m /\ taken + 1 \in 0 .. Len(chain) /\ g.rpend \in 0 .. Len(chain) - (taken + 1)
      /\ taken + 1 \in 1 .. m /\ m \in 0 .. Len(chain)
  BY <1>3, <1>4
<1>6. Ring(g, chain, taken + 1)
  <2>1. h.rxq = SubSeq(chain, m + 1, Len(chain)) /\ (h.rxq # <<>> => h.rie = TRUE)
    BY <1>2, Zenon DEF Ring
  <2>2. g.rxq = SubSeq(chain, taken + 1 + g.rpend + 1, Len(chain)) /\ (g.rxq # <<>> => g.rie = TRUE)
    BY <1>1, <1>5, <2>1, Zenon
  <2> QED
    BY <1>1, <1>5, <2>2, Zenon DEF Ring
<1>7. \A i : At(g, chain, i) = At(h, chain, i)
  BY <1>1, Zenon DEF At
<1> HIDE DEF m
<1>8. Parts(g, chain, m, lo, hi) /\ InFlight(g, chain, m)
  <2>0. g.mem = h.mem /\ Parts(h, chain, m, lo, hi)
    BY <1>1, <1>2, Zenon
  <2>1. Parts(g, chain, m, lo, hi)
    BY <1>7, <2>0 DEF Parts
  <2>2. InFlight(g, chain, m)
    BY <1>1, <1>2, <1>7, Zenon DEF InFlight
  <2> QED
    BY <2>1, <2>2
<1>9. Ringed(g, chain, taken + 1, lo, hi)
  BY <1>2, <1>5, <1>6, <1>8, Zenon DEF Ringed, m
<1> QED
  BY <1>1, <1>4, <1>5, <1>9, Zenon DEF g, m

\* The blocks of a packet that is over go up, and are free.
LEMMA DropKeeps ==
  ASSUME NEW h \in HW, NEW chain \in Seq(Block), NEW k \in 1 .. Len(chain), NEW lo \in Nat, NEW hi \in Nat,
         Ringed(h, chain, k, lo, hi), Over(At(h, chain, k))
  PROVE  LET g == [h EXCEPT !.mem = Free(@, SubSeq(chain, 1, k))]
         IN  /\ g \in HW /\ TxSame(h, g) /\ g.rie = h.rie
             /\ g.rpend = h.rpend /\ g.rxq = h.rxq /\ g.rx = h.rx
             /\ Ringed(g, SubSeq(chain, k + 1, Len(chain)), 0, At(h, chain, k).frame, hi)
             /\ At(h, chain, k).frame \in lo + 1 .. hi
<1> DEFINE used == SubSeq(chain, 1, k)
           mem == Free(h.mem, used)
           g == [h EXCEPT !.mem = Free(@, SubSeq(chain, 1, k))]
           c == SubSeq(chain, k + 1, Len(chain))
           n == Len(chain)
           m == k + h.rpend
           p == At(h, chain, k)
<1>0. k \in Nat /\ k > 0 /\ n \in Nat /\ k <= n /\ h.rpend \in Nat /\ m \in Nat
  BY DEF HW
<1>1. used \in Seq(Block) /\ Len(used) = k /\ \A i \in 1 .. k : used[i] = chain[i]
  OBVIOUS
<1>2. c \in Seq(Block) /\ Len(c) = n - k /\ \A i \in 1 .. n - k : c[i] = chain[k + i]
  OBVIOUS
<1> HIDE DEF used, c
<1>3. /\ mem \in Memory
      /\ \A i \in DOMAIN h.mem : (\A j \in 1 .. Len(used) : used[j].id # i) =>
             i \in DOMAIN mem /\ mem[i] = h.mem[i]
  <2>1. h.mem \in Memory
    BY DEF HW
  <2> QED
    BY <1>1, <2>1, FreeIs
<1> HIDE DEF mem
<1>4. /\ g \in HW /\ TxSame(h, g) /\ g.rie = h.rie /\ g.rint = h.rint
      /\ g.rpend = h.rpend /\ g.rxq = h.rxq /\ g.rx = h.rx /\ g.mem = mem
  <2>1. g = [h EXCEPT !.mem = mem]
    BY Zenon DEF mem, used
  <2> HIDE DEF g
  <2> QED
    BY <1>3, <2>1 DEF HW, TxSame
<1> HIDE DEF g
<1>5. /\ k \in 0 .. n /\ Ring(h, chain, k) /\ Distinct(chain)
      /\ Parts(h, chain, m, lo, hi) /\ InFlight(h, chain, m)
      /\ \A i \in m + 1 .. n : Blank(chain[i])
  BY Zenon DEF Ringed
<1>6. m \in 1 .. n /\ k \in 1 .. m
  <2>1. h.rpend \in 0 .. n - k
    BY <1>5, Zenon DEF Ring
  <2> QED
    BY <1>0, <2>1
<1>7. \A i \in k + 1 .. m : chain[i].id \in DOMAIN g.mem /\ At(g, chain, i) = At(h, chain, i)
  <2> TAKE i \in k + 1 .. m
  <2>1. i \in 1 .. m /\ i \in 1 .. n /\ ~(i \in 1 .. k)
    BY <1>0, <1>6
  <2>2. chain[i].id \in DOMAIN h.mem
    BY <1>5, <2>1, Zenon DEF Parts
  <2>3. \A j \in 1 .. Len(used) : used[j].id # chain[i].id
    <3> TAKE j \in 1 .. Len(used)
    <3>1. j \in 1 .. n /\ j # i /\ used[j] = chain[j]
      BY <1>0, <1>1, <2>1
    <3> QED
      BY <1>5, <2>1, <3>1, Zenon DEF Distinct, n
  <2> QED
    BY <1>3, <1>4, <2>2, <2>3, Zenon DEF At
<1>8. \A i \in 1 .. m - k : /\ c[i] = chain[k + i] /\ c[i].id \in DOMAIN g.mem
                            /\ At(g, c, i) = At(h, chain, k + i)
  <2> TAKE i \in 1 .. m - k
  <2>1. k + i \in k + 1 .. m /\ i \in 1 .. n - k
    BY <1>0, <1>6
  <2>2. c[i] = chain[k + i]
    BY <1>2, <2>1
  <2> QED
    BY <1>7, <2>1, <2>2, Zenon DEF At
<1> DEFINE r == m - k
<1>9. r = h.rpend /\ r \in Nat /\ r <= n - k
  BY <1>0, <1>6
<1>10. p.frame \in lo + 1 .. hi /\ p.frame \in Nat
  <2>1. PartOK(p, chain[k], lo, hi)
    BY <1>5, <1>6, Zenon DEF Parts
  <2>2. p.frame \in lo + 1 .. hi
    BY <2>1, Zenon DEF PartOK
  <2> QED
    BY <2>2
<1> HIDE DEF m, n, p
<1>11. \A i \in 1 .. r : k + i \in 1 .. m /\ k < k + i /\ k + i \in 1 .. n
  BY <1>0, <1>6 DEF r
<1> HIDE DEF r
<1>12. \A i \in 1 .. r : c[i].id \in DOMAIN g.mem /\ PartOK(At(g, c, i), c[i], p.frame, hi)
  <2> TAKE i \in 1 .. r
  <2>1. At(g, c, i) = At(h, chain, k + i) /\ c[i] = chain[k + i] /\ c[i].id \in DOMAIN g.mem
    BY <1>8 DEF r
  <2>2. PartOK(At(h, chain, k + i), chain[k + i], lo, hi)
    BY <1>5, <1>11, Zenon DEF Parts
  <2> DEFINE q == At(h, chain, k + i)
  <2>3. q.frame > p.frame
    <3>1. k \in 1 .. m /\ k + i \in 1 .. m /\ k < k + i
      BY <1>6, <1>11
    <3>2. Later(p, q)
      BY <1>5, <3>1, Zenon DEF Parts, p
    <3> QED
      BY <3>2, Zenon DEF Later, p
  <2> HIDE DEF q
  <2>4. q.frame \in lo + 1 .. hi
    BY <2>2, Zenon DEF PartOK, q
  <2>5. q.frame \in p.frame + 1 .. hi
    BY <1>10, <2>3, <2>4
  <2>6. PartOK(q, chain[k + i], p.frame, hi)
    BY <2>2, <2>5, Zenon DEF PartOK, q
  <2> QED
    BY <2>1, <2>6, Zenon DEF q
<1>13. r > 0 => At(g, c, 1).off = 0
  <2> SUFFICES ASSUME r > 0 PROVE At(g, c, 1).off = 0
    OBVIOUS
  <2>1. 1 \in 1 .. r /\ k \in 1 .. m - 1
    BY <1>0, <1>6, <1>9, <1>11
  <2>2. At(g, c, 1) = At(h, chain, k + 1)
    BY <1>8, <2>1, Zenon DEF r
  <2>3. GoesOn(p, At(h, chain, k + 1))
    BY <1>5, <2>1, Zenon DEF Parts, p
  <2> QED
    BY <2>2, <2>3, Zenon DEF GoesOn, p
<1>14. \A i \in 1 .. r - 1 : GoesOn(At(g, c, i), At(g, c, i + 1))
  <2> TAKE i \in 1 .. r - 1
  <2>1. i \in 1 .. r /\ i + 1 \in 1 .. r
    BY <1>9
  <2>2. k + (i + 1) = (k + i) + 1 /\ k + i \in 1 .. m - 1
    BY <1>0, <1>9 DEF r
  <2>3. At(g, c, i) = At(h, chain, k + i) /\ At(g, c, i + 1) = At(h, chain, (k + i) + 1)
    BY <1>8, <2>1, <2>2, Zenon DEF r
  <2> QED
    BY <1>5, <2>2, <2>3, Zenon DEF Parts
<1>15. \A i, j \in 1 .. r : i < j => Later(At(g, c, i), At(g, c, j))
  <2> TAKE i, j \in 1 .. r
  <2>1. k + i \in 1 .. m /\ k + j \in 1 .. m /\ (i < j => k + i < k + j)
    BY <1>0, <1>11
  <2>2. At(g, c, i) = At(h, chain, k + i) /\ At(g, c, j) = At(h, chain, k + j)
    BY <1>8, Zenon DEF r
  <2> QED
    BY <1>5, <2>1, <2>2, Zenon DEF Parts
<1>16. Parts(g, c, r, p.frame, hi)
  BY <1>12, <1>13, <1>14, <1>15, Zenon DEF Parts
<1>17. InFlight(g, c, r)
  <2>1. CASE r = 0
    <3>1. m = k /\ m # 0
      BY <1>0, <1>6, <2>1 DEF r
    <3>2. h.rx = NoFrame
      BY <1>5, <3>1, Zenon DEF InFlight, After
    <3> QED
      BY <1>4, <2>1, <3>2, Zenon DEF InFlight
  <2>2. CASE r # 0
    <3>1. r \in 1 .. r /\ k + r = m /\ m # 0
      BY <1>0, <1>6, <1>9, <2>2 DEF r
    <3>2. At(g, c, r) = At(h, chain, m)
      BY <1>8, <3>1, Zenon DEF r
    <3> QED
      BY <1>4, <1>5, <2>2, <3>1, <3>2, Zenon DEF InFlight
  <2> QED
    BY <2>1, <2>2
<1>18. Ring(g, c, 0)
  <2>1. g.rpend \in 0 .. Len(c) - 0
    BY <1>0, <1>2, <1>4, <1>9 DEF n
  <2>2. h.rxq = SubSeq(chain, m + 1, n) /\ h.rint = (h.rpend > 0) /\ (h.rxq # <<>> => h.rie = TRUE)
    BY <1>5, Zenon DEF Ring, m, n
  <2>3. g.rxq = SubSeq(c, 0 + g.rpend + 1, Len(c))
    <3> DEFINE j == r + 1
               l == k + 1
    <3>1. l \in 1 .. Len(chain) + 1 /\ j \in 1 .. Len(chain) + 2 - l /\ l + j - 1 = m + 1 /\ 0 + g.rpend + 1 = j
      BY <1>0, <1>4, <1>9 DEF m, n
    <3> HIDE DEF j
    <3>2. SubSeq(c, j, Len(c)) = SubSeq(chain, l + j - 1, Len(chain))
      <4> HIDE DEF l
      <4>1. c = SubSeq(chain, l, Len(chain))
        BY Zenon DEF c, l, n
      <4> QED
        BY <3>1, <4>1, RestOfRest
    <3> QED
      BY <1>4, <2>2, <3>1, <3>2, Zenon DEF n
  <2>4. g.rint = (g.rpend > 0) /\ (g.rxq # <<>> => g.rie = TRUE)
    BY <1>4, <2>2, Zenon
  <2> QED
    BY <2>1, <2>3, <2>4, Zenon DEF Ring
<1>19. Distinct(c)
  <2> SUFFICES ASSUME NEW i \in 1 .. Len(c), NEW j \in 1 .. Len(c), c[i].id = c[j].id
               PROVE  i = j
    BY Zenon DEF Distinct
  <2>1. k + i \in 1 .. n /\ k + j \in 1 .. n /\ c[i] = chain[k + i] /\ c[j] = chain[k + j]
    BY <1>0, <1>2 DEF n
  <2>2. k + i = k + j
    BY <1>5, <2>1, Zenon DEF Distinct, n
  <2> QED
    BY <1>0, <2>2
<1>20. \A i \in 0 + g.rpend + 1 .. Len(c) : Blank(c[i])
  <2> TAKE i \in 0 + g.rpend + 1 .. Len(c)
  <2>1. i \in 1 .. n - k /\ k + i \in m + 1 .. n
    BY <1>0, <1>2, <1>4, <1>9 DEF m, n
  <2> QED
    BY <1>2, <1>5, <2>1, Zenon DEF n
<1>21. 0 + g.rpend = r /\ 0 \in 0 .. Len(c)
  BY <1>0, <1>2, <1>4, <1>9 DEF n
<1>22. Ringed(g, c, 0, p.frame, hi)
  BY <1>16, <1>17, <1>18, <1>19, <1>20, <1>21, Zenon DEF Ringed
<1> QED
  BY <1>4, <1>10, <1>22, Zenon DEF g, c, p, n

\* The blocks of a packet that is not over: all but the one to come next.
SoFar(h, chain, taken, rest) ==
    /\ \A i \in 1 .. taken : /\ ~Over(At(h, chain, i))
                             /\ At(h, chain, i).frame = At(h, chain, 1).frame
                             /\ At(h, chain, i).len = At(h, chain, 1).len
    /\ taken > 0 => LET p == At(h, chain, taken) IN rest = p.len - (p.off + p.n)

\* What the driver makes of the block it was interrupted for: the length, from
\* the first block or as what was left, is what the block and those to come
\* hold, and with the end of a packet the blocks hold one whole frame.
LEMMA TakeNext ==
  ASSUME NEW h \in HW, NEW chain \in Seq(Block), NEW taken \in Nat, NEW m \in 0 .. Len(chain),
         NEW lo \in Nat, NEW hi \in Nat, NEW rest \in Int,
         Parts(h, chain, m, lo, hi), taken + 1 \in 1 .. m, SoFar(h, chain, taken, rest)
  PROVE  LET b   == chain[taken + 1]
             p   == At(h, chain, taken + 1)
             all == IF taken = 0 THEN Content(h.mem, b).len ELSE rest
         IN  /\ PartOK(p, b, lo, hi) /\ b \in Block /\ p \in Part
             /\ all = p.len - p.off /\ all \in Int /\ all > 0
             /\ all <= b.bc <=> Over(p)
             /\ ~Over(p) => SoFar(h, chain, taken + 1, all - b.bc) /\ Chained(b)
             /\ Over(p) => Assembled(h.mem, SubSeq(chain, 1, taken + 1)) = p.frame
<1> DEFINE k == taken + 1
           b == chain[k]
           p == At(h, chain, k)
           q == At(h, chain, taken)
           all == IF taken = 0 THEN Content(h.mem, b).len ELSE rest
<1>1. k \in 1 .. m /\ k \in 1 .. Len(chain) /\ k \in Nat /\ k > 0
  OBVIOUS
<1>2. PartOK(p, b, lo, hi) /\ b.id \in DOMAIN h.mem
  BY <1>1 DEF Parts
<1>3. b \in Block
  BY <1>1, ElementOfSeq
<1>4. p \in Part
  <2>1. h.mem \in Memory
    BY DEF HW
  <2> QED
    BY <1>2, <2>1, MemoryHas, Zenon DEF At
<1>5. Content(h.mem, b) = p
  BY <1>2, Zenon DEF Content, At
<1>6. p.len \in Int /\ p.off \in Int /\ p.n \in Int /\ b.bc \in Int /\ p.frame \in Nat
  BY <1>3, <1>4 DEF Part, Block
<1>7. taken > 0 => /\ taken \in 1 .. taken /\ ~Over(q) /\ GoesOn(q, p)
                   /\ rest = q.len - (q.off + q.n)
  <2> SUFFICES ASSUME taken > 0
               PROVE  /\ taken \in 1 .. taken /\ ~Over(q) /\ GoesOn(q, p)
                      /\ rest = q.len - (q.off + q.n)
    OBVIOUS
  <2>1. taken \in 1 .. taken /\ taken \in 1 .. m - 1
    BY <1>1
  <2> QED
    BY <2>1, Zenon DEF SoFar, Parts
<1>8. taken > 0 => p.frame = q.frame /\ p.len = q.len /\ p.off = q.off + q.n
  BY <1>7, Zenon DEF GoesOn
<1> HIDE DEF k, b, p, q
<1>9. taken = 0 => p.off = 0
  BY <1>1 DEF Parts, p, k
<1>10. all = p.len - p.off
  <2>1. CASE taken = 0
    BY <1>5, <1>6, <1>9, <2>1
  <2>2. CASE taken # 0
    BY <1>7, <1>8, <2>2
  <2> QED
    BY <2>1, <2>2
<1> HIDE DEF all
<1>11. p.off < p.len /\ p.n = (IF p.len - p.off <= b.bc THEN p.len - p.off ELSE b.bc) /\ (~Chained(b) => Over(p))
  BY <1>2, Zenon DEF PartOK
<1>12. all \in Int /\ all > 0
  BY <1>6, <1>10, <1>11
<1>13. all <= b.bc <=> Over(p)
  <2>1. p.off + p.n = p.len <=> p.n = all
    BY <1>6, <1>10
  <2>2. p.n = IF all <= b.bc THEN all ELSE b.bc
    BY <1>10, <1>11, Zenon
  <2> QED
    BY <1>6, <1>12, <2>1, <2>2 DEF Over
<1>14. \A i \in 1 .. k : At(h, chain, i).frame = At(h, chain, 1).frame /\ At(h, chain, i).len = At(h, chain, 1).len
  <2> TAKE i \in 1 .. k
  <2>1. CASE i \in 1 .. taken
    BY <2>1, Zenon DEF SoFar
  <2>2. CASE ~(i \in 1 .. taken) /\ taken = 0
    <3>1. i = 1
      BY <2>2 DEF k
    <3> QED
      BY <3>1
  <2>3. CASE ~(i \in 1 .. taken) /\ taken # 0
    <3>1. i = k /\ taken > 0
      BY <2>3 DEF k
    <3>2. q.frame = At(h, chain, 1).frame /\ q.len = At(h, chain, 1).len
      BY <1>7, <3>1, Zenon DEF SoFar, q
    <3> QED
      BY <1>8, <3>1, <3>2, Zenon DEF p
  <2> QED
    BY <2>1, <2>2, <2>3
<1>15. ASSUME ~Over(p)
       PROVE  SoFar(h, chain, k, all - b.bc) /\ Chained(b)
  <2>1. Chained(b) /\ p.n = b.bc
    <3>1. ~(p.len - p.off <= b.bc)
      BY <1>10, <1>13, <1>15, Zenon
    <3> QED
      BY <1>11, <1>15, <3>1, Zenon
  <2>2. all - b.bc = p.len - (p.off + p.n)
    BY <1>6, <1>10, <2>1
  <2>3. \A i \in 1 .. k : ~Over(At(h, chain, i))
    <3> TAKE i \in 1 .. k
    <3>1. i \in 1 .. taken \/ i = k
      BY DEF k
    <3> QED
      BY <1>15, <3>1, Zenon DEF SoFar, p
  <2> QED
    BY <1>14, <2>1, <2>2, <2>3, Zenon DEF SoFar, p
<1>16. ASSUME Over(p)
       PROVE  Assembled(h.mem, SubSeq(chain, 1, k)) = p.frame
  <2> DEFINE c == SubSeq(chain, 1, k)
             P(i) == Content(h.mem, c[i])
  <2>1. Len(c) = k /\ \A i \in 1 .. k : c[i] = chain[i]
    BY <1>1
  <2> HIDE DEF c
  <2>2. \A i \in 1 .. k : P(i) = At(h, chain, i)
    <3> TAKE i \in 1 .. k
    <3>1. i \in 1 .. m
      BY <1>1
    <3>2. c[i] = chain[i] /\ chain[i].id \in DOMAIN h.mem
      BY <2>1, <3>1, Zenon DEF Parts
    <3> QED
      BY <3>2, Zenon DEF Content, At
  <2>3. 1 \in 1 .. k /\ k \in 1 .. k
    BY <1>1
  <2>4. P(1).off = 0
    <3>1. At(h, chain, 1).off = 0
      BY <1>1 DEF Parts
    <3> QED
      BY <2>2, <2>3, <3>1, Zenon
  <2>5. \A i \in 2 .. Len(c) : P(i).frame = P(1).frame /\ P(i).off = P(i - 1).off + P(i - 1).n
    <3> TAKE i \in 2 .. Len(c)
    <3>1. i \in 1 .. k /\ i - 1 \in 1 .. k /\ i - 1 \in 1 .. taken /\ i - 1 \in 1 .. m - 1 /\ (i - 1) + 1 = i
      BY <1>1, <2>1 DEF k
    <3>2. GoesOn(At(h, chain, i - 1), At(h, chain, i)) /\ ~Over(At(h, chain, i - 1))
      BY <3>1, Zenon DEF Parts, SoFar
    <3>3. At(h, chain, i).off = At(h, chain, i - 1).off + At(h, chain, i - 1).n
      BY <3>2, Zenon DEF GoesOn
    <3> QED
      BY <1>14, <2>2, <2>3, <3>1, <3>3, Zenon
  <2>6. P(Len(c)).off + P(Len(c)).n = P(1).len /\ P(1).frame = p.frame
    <3>1. P(k) = p /\ P(1) = At(h, chain, 1)
      BY <2>2, <2>3, Zenon DEF p
    <3>2. p.frame = At(h, chain, 1).frame /\ p.len = At(h, chain, 1).len
      BY <1>14, <2>3, Zenon DEF p
    <3> QED
      BY <1>16, <2>1, <3>1, <3>2, Zenon DEF Over
  <2> QED
    BY <2>4, <2>5, <2>6, Zenon DEF Assembled, c
<1> QED
  BY <1>2, <1>3, <1>4, <1>10, <1>12, <1>13, <1>15, <1>16, Zenon DEF k, b, p, all

-----------------------------------------------------------------------------
(* V8's driver: receiving.                                                 *)

Chains == Seq(Block)
Queues == [Chs -> Seq(QBlock)]
Counts == [Chs -> Int]
Opened == SUBSET Chs
Channel == Chs \cup {NoChan}

V8Driver == [active : BOOLEAN, rcvpending : Int, chain : Chains, nbp : Nat, len : Int,
             tq : Channel, open : Opened, q : Queues, packets : Counts, panic : BOOLEAN]
V8State  == [d : V8Driver, h : HW]

Taken8(d) == IF d.nbp = 0 THEN Len(d.chain) ELSE d.nbp - 1

\* What a packet has left to come, from the blocks the driver has: ETHERMTU at
\* least for a packet that has not begun.
Recv8(s, lo, hi) ==
    LET d == s.d
    IN  /\ d.nbp \in {0, Len(d.chain)}
        /\ Ringed(s.h, d.chain, Taken8(d), lo, hi) /\ SoFar(s.h, d.chain, Taken8(d), d.len)
        /\ IF Taken8(d) > 0 THEN d.len <= Mtu
           ELSE \A i \in 1 .. Len(d.chain) : d.chain[i].bc >= SmallBlock
        /\ d.rcvpending > 0 =>
               d.nbp = 0 /\ d.rcvpending = IF d.chain = <<>> THEN Mtu ELSE d.len

\* What receiving depends on.
Recv8Same(s, t) ==
    /\ t.d.chain = s.d.chain /\ t.d.nbp = s.d.nbp /\ t.d.len = s.d.len
    /\ t.d.rcvpending = s.d.rcvpending /\ t.d.panic = s.d.panic
    /\ RxSame(s.h, t.h) /\ (t.h.rie = s.h.rie \/ t.h.rie = TRUE)
\* What sending depends on.
Send8Same(s, t) ==
    /\ t.d.active = s.d.active /\ t.d.tq = s.d.tq /\ t.d.open = s.d.open
    /\ t.d.q = s.d.q /\ t.d.packets = s.d.packets
    /\ TxSame(s.h, t.h)

LEMMA SuppliedIs ==
  ASSUME NEW d \in V8Driver, d.nbp \in {0, Len(d.chain)}
  PROVE  /\ Taken8(d) \in 0 .. Len(d.chain) /\ Taken8(d) \in Nat
         /\ Supplied(d) = SubSeq(d.chain, Taken8(d) + 1, Len(d.chain))
         /\ d.nbp = 0 => Supplied(d) = <<>>
<1>1. d.chain \in Seq(Block) /\ d.nbp \in Nat /\ Len(d.chain) \in Nat
  BY LenProperties DEF V8Driver, Chains
<1>2. CASE d.nbp = 0
  <2>1. SubSeq(d.chain, Len(d.chain) + 1, Len(d.chain)) = <<>>
    <3> DEFINE n == Len(d.chain) + 1
    <3>1. n \in 1 .. Len(d.chain) + 1
      BY <1>1
    <3> HIDE DEF n
    <3>2. SubSeq(d.chain, n, Len(d.chain)) = <<>> <=> n = Len(d.chain) + 1
      BY <1>1, <3>1, Rest
    <3> QED
      BY <3>2, Zenon DEF n
  <2>2. Taken8(d) = Len(d.chain) /\ Supplied(d) = <<>>
    BY <1>2, Zenon DEF Taken8, Supplied
  <2>3. Len(d.chain) \in 0 .. Len(d.chain)
    BY <1>1
  <2> QED
    BY <1>1, <2>1, <2>2, <2>3, Zenon
<1>3. CASE d.nbp # 0
  <2>1. Taken8(d) = d.nbp - 1 /\ d.nbp = Len(d.chain)
    BY <1>3 DEF Taken8
  <2>2. Taken8(d) + 1 = d.nbp /\ Taken8(d) \in 0 .. Len(d.chain)
    BY <1>1, <1>3, <2>1
  <2>3. Supplied(d) = SubSeq(d.chain, Taken8(d) + 1, Len(d.chain))
    BY <1>3, <2>2, Zenon DEF Supplied
  <2> QED
    BY <1>3, <2>2, <2>3
<1> QED
  BY <1>2, <1>3

LEMMA Recv8Kept ==
  ASSUME NEW s \in V8State, NEW t \in V8State, Recv8Same(s, t), NEW lo, NEW hi, Recv8(s, lo, hi)
  PROVE  Recv8(t, lo, hi)
<1>1. Taken8(t.d) = Taken8(s.d)
  BY Zenon DEF Recv8Same, Taken8
<1>2. Ringed(t.h, s.d.chain, Taken8(s.d), lo, hi)
  BY RingedSame DEF Recv8Same, Recv8
<1>3. \A i : At(t.h, s.d.chain, i) = At(s.h, s.d.chain, i)
  BY Zenon DEF At, RxSame, Recv8Same
<1>4. SoFar(t.h, s.d.chain, Taken8(s.d), s.d.len)
  <2>1. SoFar(s.h, s.d.chain, Taken8(s.d), s.d.len)
    BY DEF Recv8
  <2> QED
    BY <1>3, <2>1, Zenon DEF SoFar
<1> QED
  BY <1>1, <1>2, <1>4, Zenon DEF Recv8, Recv8Same

\* allocb() gives no block that is not to be chained but to who needs no other.
LEMMA BufferIs ==
  ASSUME NEW d \in V8Driver, NEW n \in Int, n > 0, n <= Mtu
  PROVE  /\ BufferFor(d, n) \in Block /\ BufferFor(d, n).bc > 0
         /\ Chained(BufferFor(d, n)) \/ n <= BufferFor(d, n).bc
         /\ n = Mtu => Blank(BufferFor(d, n))
         /\ \A i \in 1 .. Len(d.chain) : d.chain[i].id # BufferFor(d, n).id
<1> DEFINE b == BufferFor(d, n)
<1>1. b = [id |-> Fresh(d.chain), bc |-> AllocSize(n)]
  <2>1. ~(n > Mtu)
    BY StreamsAssumption
  <2> QED
    BY <2>1, Zenon DEF BufferFor
<1>2. /\ AllocSize(n) \in Int /\ AllocSize(n) > 0
      /\ AllocSize(n) % 8 = 0 \/ n <= AllocSize(n)
      /\ n = Mtu => AllocSize(n) >= SmallBlock /\ AllocSize(n) % 8 = 0
  BY StreamsAssumption DEF AllocSize
<1>3. /\ Fresh(d.chain) \in 1 .. Len(d.chain) + 1
      /\ \A i \in 1 .. Len(d.chain) : d.chain[i].id # Fresh(d.chain)
  <2>1. d.chain \in Seq(Block)
    BY DEF V8Driver, Chains
  <2> QED
    BY <2>1, FreshIs
<1> DEFINE f == Fresh(d.chain)
           a == AllocSize(n)
<1> HIDE DEF f, a
<1>4. b.id = f /\ b.bc = a /\ b = [id |-> f, bc |-> a]
  BY <1>1 DEF f, a
<1>5. f \in Nat /\ a \in Int
  BY <1>2, <1>3 DEF f, a
<1> HIDE DEF b
<1>6. b \in Block
  BY <1>4, <1>5 DEF Block
<1> QED
  BY <1>2, <1>3, <1>4, <1>6, Zenon DEF Chained, Blank, b, f, a

\* ilsetup() for what the packet has left to come; the driver is not active.
LEMMA IlSetupKeeps ==
  ASSUME NEW s \in V8State, NEW lo \in Nat, NEW hi \in Nat, NEW n \in Int,
         Recv8(s, lo, hi), s.d.active = FALSE,
         s.d.nbp = 0 => n = IF s.d.chain = <<>> THEN Mtu ELSE s.d.len
  PROVE  /\ IlSetup(s, n) \in V8State /\ Send8Same(s, IlSetup(s, n))
         /\ Recv8(IlSetup(s, n), lo, hi) /\ IlSetup(s, n).d.panic = s.d.panic
<1> DEFINE d == s.d
           h == s.h
           chain == d.chain
           t == IlSetup(s, n)
           b == BufferFor(d, n)
<1>1. d \in V8Driver /\ h \in HW /\ s = [d |-> d, h |-> h]
  BY DEF V8State
<1>2. d.nbp \in {0, Len(chain)} /\ chain \in Seq(Block) /\ d.len \in Int /\ Len(chain) \in Nat
  BY <1>1, LenProperties DEF Recv8, V8Driver, Chains
<1>3. /\ Taken8(d) \in 0 .. Len(chain) /\ Taken8(d) \in Nat
      /\ Supplied(d) = SubSeq(chain, Taken8(d) + 1, Len(chain))
      /\ d.nbp = 0 => Supplied(d) = <<>>
  BY <1>1, <1>2, SuppliedIs
<1>4. CASE n <= SumBytes(Supplied(d))
  <2>1. t = s
    BY <1>4 DEF IlSetup
  <2> QED
    BY <2>1 DEF Send8Same, TxSame
<1>5. CASE ~(n <= SumBytes(Supplied(d))) /\ Supplied(d) # <<>>
  <2> DEFINE e == [d EXCEPT !.rcvpending = 0]
  <2>1. t = [s EXCEPT !.d.rcvpending = 0]
    BY <1>5, Zenon DEF IlSetup
  <2>2. t = [d |-> e, h |-> h]
    BY <1>1, <2>1
  <2>3. /\ e \in V8Driver /\ e.active = d.active /\ e.tq = d.tq /\ e.open = d.open /\ e.q = d.q
        /\ e.packets = d.packets /\ e.chain = chain /\ e.nbp = d.nbp /\ e.len = d.len
        /\ e.rcvpending = 0 /\ e.panic = d.panic
    <3>1. e \in V8Driver
      BY <1>1 DEF V8Driver, Chains
    <3>2. e.active = d.active /\ e.panic = d.panic
      BY <1>1, Zenon DEF V8Driver, Chains
    <3> QED
      BY <1>1, <3>1, <3>2 DEF V8Driver, Chains
  <2> HIDE DEF e, t
  <2>4. t.d = e /\ t.h = h /\ t \in V8State
    BY <1>1, <2>2, <2>3 DEF V8State
  <2>5. Taken8(e) = Taken8(d)
    BY <2>3, Zenon DEF Taken8
  <2>6. Recv8(t, lo, hi)
    <3>1. ~(e.rcvpending > 0)
      BY <2>3
    <3> QED
      BY <2>3, <2>4, <2>5, <3>1, Zenon DEF Recv8
  <2> QED
    BY <2>3, <2>4, <2>6, Zenon DEF Send8Same, TxSame, t
<1>6. CASE ~(n <= SumBytes(Supplied(d))) /\ Supplied(d) = <<>>
  <2> DEFINE m == Taken8(d)
             c == Append(chain, b)
             g == RcvCommand(h, b, FALSE)
             e == [d EXCEPT !.chain = c, !.nbp = Len(chain) + 1, !.rcvpending = 0]
  <2>1. m = Len(chain)
    <3>1. m + 1 \in 1 .. Len(chain) + 1
      BY <1>2, <1>3
    <3>2. m + 1 = Len(chain) + 1
      <4> DEFINE k == m + 1
      <4> HIDE DEF k
      <4>1. SubSeq(chain, k, Len(chain)) = <<>> <=> k = Len(chain) + 1
        BY <1>2, <3>1, Rest DEF k
      <4> QED
        BY <1>3, <1>6, <4>1, Zenon DEF k
    <3> QED
      BY <1>2, <1>3, <3>2
  <2>2. /\ Ringed(h, chain, m, lo, hi) /\ SoFar(h, chain, m, d.len)
        /\ IF m > 0 THEN d.len <= Mtu
           ELSE \A i \in 1 .. Len(chain) : chain[i].bc >= SmallBlock
    BY Zenon DEF Recv8
  <2>3. d.nbp = 0
    BY <1>2, <1>3, <2>1 DEF Taken8
  <2> HIDE DEF m
  <2>4. /\ h.rpend = 0 /\ h.rxq = <<>> /\ Parts(h, chain, m, lo, hi) /\ InFlight(h, chain, m)
    <3>1. h.rpend \in 0 .. Len(chain) - m /\ h.rxq = SubSeq(chain, m + h.rpend + 1, Len(chain))
      BY <2>2, Zenon DEF Ringed, Ring
    <3>2. h.rpend = 0 /\ m + h.rpend = m
      BY <1>2, <2>1, <3>1
    <3>3. SubSeq(chain, m + 1, Len(chain)) = <<>>
      BY <1>3, <1>6, Zenon DEF m
    <3> QED
      BY <2>2, <3>1, <3>2, <3>3, Zenon DEF Ringed
  <2>5. /\ n > 0 /\ n <= Mtu
        /\ m = 0 => n = Mtu /\ h.rx = NoFrame
        /\ m > 0 => n = d.len /\ h.rx # NoFrame /\ h.rx.len - h.rx.off = n
    <3>1. CASE m = 0
      <4>1. chain = <<>>
        BY <1>2, <2>1, <3>1, EmptySeq
      <4> QED
        BY <2>3, <2>4, <3>1, <4>1, StreamsAssumption DEF InFlight
    <3>2. CASE m # 0
      <4>1. chain # <<>> /\ m \in 1 .. m /\ m > 0
        BY <1>2, <2>1, <3>2, EmptySeq
      <4> DEFINE p == At(h, chain, m)
      <4>2. PartOK(p, chain[m], lo, hi) /\ chain[m].id \in DOMAIN h.mem
        BY <2>4, <4>1 DEF Parts
      <4>3. ~Over(p) /\ d.len = p.len - (p.off + p.n)
        BY <2>2, <4>1, Zenon DEF SoFar
      <4>4. p \in Part
        BY <1>1, <4>2, MemoryHas DEF At, HW
      <4>5. h.rx = After(p)
        BY <2>4, <3>2, Zenon DEF InFlight
      <4> HIDE DEF p
      <4>6. h.rx = [frame |-> p.frame, len |-> p.len, off |-> p.off + p.n]
        BY <4>3, <4>5, Zenon DEF After
      <4>7. p.off < p.len /\ p.n > 0 /\ p.len \in Int /\ p.off \in Int /\ p.n \in Int /\ p.len > 0
            /\ p.n = (IF p.len - p.off <= chain[m].bc THEN p.len - p.off ELSE chain[m].bc)
        <5>1. /\ p.len \in FrameLens /\ p.off < p.len /\ p.n > 0
              /\ p.n = (IF p.len - p.off <= chain[m].bc THEN p.len - p.off ELSE chain[m].bc)
          BY <4>2, Zenon DEF PartOK
        <5> QED
          BY <4>4, <5>1, BoardAssumption DEF Part
      <4>8. h.rx.len - h.rx.off = d.len /\ h.rx # NoFrame
        BY <4>3, <4>6, <4>7 DEF NoFrame
      <4>9. d.len > 0
        <5>1. p.off + p.n # p.len
          BY <4>3 DEF Over
        <5>2. chain[m].bc \in Int
          <6>1. m \in 1 .. Len(chain)
            BY <2>1, <4>1
          <6>2. chain[m] \in Block
            BY <1>2, <6>1, ElementOfSeq
          <6> QED
            BY <6>2 DEF Block
        <5> QED
          BY <4>3, <4>7, <5>1, <5>2
      <4> QED
        BY <2>2, <2>3, <4>1, <4>8, <4>9
    <3> QED
      BY <3>1, <3>2
  <2>6. /\ b \in Block /\ b.bc > 0 /\ (Chained(b) \/ n <= b.bc) /\ (n = Mtu => Blank(b))
        /\ \A i \in 1 .. Len(chain) : chain[i].id # b.id
    BY <1>1, <2>5, BufferIs
  <2> HIDE DEF b
  <2>7. Fits(h, b)
    <3>1. h.rx = NoFrame => Blank(b)
      BY <1>3, <2>5, <2>6 DEF m
    <3>2. h.rx # NoFrame => Chained(b) \/ h.rx.len - h.rx.off <= b.bc
      <4>1. m = 0 \/ m > 0
        BY <1>3 DEF m
      <4> QED
        BY <2>5, <2>6, <4>1, Zenon
    <3> QED
      BY <2>4, <2>6, <3>1, <3>2, Zenon DEF Fits
  <2>8. Len(h.rxq) < RxQ
    <3>1. Len(h.rxq) = 0
      BY <2>4
    <3> QED
      BY <3>1, BoardAssumption
  <2>9. /\ g \in HW /\ TxSame(h, g) /\ g.rie = TRUE
        /\ Ringed(g, c, m, lo, hi) /\ Same(h, g, chain, m)
    BY <1>1, <1>2, <1>3, <2>2, <2>6, <2>7, <2>8, RcvKeeps DEF m
  <2>10. t = [d |-> e, h |-> g]
    <3>1. t = [d |-> [d EXCEPT !.chain = Append(@, b), !.nbp = Len(d.chain) + 1, !.rcvpending = 0], h |-> g]
      BY <1>6, Zenon DEF IlSetup, b
    <3> QED
      BY <3>1
  <2>11. /\ c \in Seq(Block) /\ Len(c) = Len(chain) + 1 /\ c[Len(chain) + 1] = b
         /\ \A i \in 1 .. Len(chain) : c[i] = chain[i]
    BY <1>2, <2>6, AppendProperties
  <2> HIDE DEF g, t, c
  <2>12. /\ e \in V8Driver /\ e.active = d.active /\ e.tq = d.tq /\ e.open = d.open /\ e.q = d.q
         /\ e.packets = d.packets /\ e.chain = c /\ e.nbp = Len(c) /\ e.len = d.len
         /\ e.rcvpending = 0 /\ e.panic = d.panic
    <3>1. Len(chain) + 1 \in Nat
      BY <1>2
    <3> QED
      <4> DEFINE k == Len(chain) + 1
                 z == 0
      <4>0. k \in Nat /\ e = [d EXCEPT !.chain = c, !.nbp = k, !.rcvpending = z] /\ k = Len(c)
            /\ z \in Int /\ z = 0
        BY <2>11, <3>1
      <4> HIDE DEF k, e, z
      <4>1. e \in V8Driver
        <5>1. c \in Chains /\ d \in V8Driver
          BY <1>1, <2>11 DEF Chains
        <5> HIDE DEF d
        <5> QED
          BY <4>0, <5>1 DEF V8Driver
      <4>2. e.active = d.active /\ e.panic = d.panic
        BY <1>1, <4>0, Zenon DEF V8Driver, Chains
      <4> QED
        BY <1>1, <4>0, <4>1, <4>2 DEF V8Driver, Chains
  <2> HIDE DEF e
  <2>13. t.d = e /\ t.h = g /\ t \in V8State
    BY <2>9, <2>10, <2>12 DEF V8State
  <2>14. Taken8(e) = m
    BY <1>2, <2>1, <2>11, <2>12 DEF Taken8
  <2>15. SoFar(g, c, m, d.len)
    <3>1. \A i \in 1 .. m : At(g, c, i) = At(h, chain, i)
      <4> TAKE i \in 1 .. m
      <4>1. c[i] = chain[i]
        BY <2>1, <2>11
      <4>2. At(g, chain, i) = At(h, chain, i)
        BY <2>9, Zenon DEF Same
      <4> QED
        BY <4>1, <4>2, Zenon DEF At
    <3>2. \A i \in 1 .. m : 1 \in 1 .. m /\ m \in 1 .. m
      BY <1>3 DEF m
    <3>3. m > 0 => m \in 1 .. m
      BY <1>3 DEF m
    <3> QED
      BY <2>2, <3>1, <3>2, <3>3, Zenon DEF SoFar
  <2>16. m = 0 => \A i \in 1 .. Len(c) : c[i].bc >= SmallBlock
    <3> SUFFICES ASSUME m = 0, NEW i \in 1 .. Len(c) PROVE c[i].bc >= SmallBlock
      OBVIOUS
    <3>1. i = 1 /\ c[i] = b
      BY <1>2, <2>1, <2>11
    <3> QED
      BY <2>5, <2>6, <3>1, Zenon DEF Blank
  <2>17. Recv8(t, lo, hi)
    <3>1. ~(e.rcvpending > 0)
      BY <2>12
    <3>2. IF m > 0 THEN d.len <= Mtu ELSE \A i \in 1 .. Len(c) : c[i].bc >= SmallBlock
      <4>1. m > 0 \/ m = 0
        BY <1>3 DEF m
      <4> QED
        BY <2>2, <2>16, <4>1, Zenon
    <3> QED
      BY <2>9, <2>12, <2>13, <2>14, <2>15, <3>1, <3>2, Zenon DEF Recv8
  <2> QED
    BY <2>9, <2>12, <2>13, <2>17, Zenon DEF Send8Same, t
<1> QED
  BY <1>4, <1>5, <1>6

LEMMA IlMoreKeeps ==
  ASSUME NEW s \in V8State, NEW lo \in Nat, NEW hi \in Nat, NEW n \in Int,
         Recv8(s, lo, hi), s.d.nbp = 0, n = IF s.d.chain = <<>> THEN Mtu ELSE s.d.len
  PROVE  /\ IlMore(s, n) \in V8State /\ Send8Same(s, IlMore(s, n))
         /\ Recv8(IlMore(s, n), lo, hi) /\ IlMore(s, n).d.panic = s.d.panic
<1> DEFINE d == s.d
           t == IlMore(s, n)
<1>1. d \in V8Driver /\ s.h \in HW /\ s = [d |-> d, h |-> s.h]
  BY DEF V8State
<1>2. CASE d.active
  <2> DEFINE e == [d EXCEPT !.rcvpending = n]
  <2>1. t = [s EXCEPT !.d.rcvpending = n]
    BY <1>2, Zenon DEF IlMore
  <2>2. t = [d |-> e, h |-> s.h]
    BY <1>1, <2>1
  <2>3. /\ e \in V8Driver /\ e.tq = d.tq /\ e.open = d.open /\ e.q = d.q
        /\ e.packets = d.packets /\ e.chain = d.chain /\ e.nbp = d.nbp /\ e.len = d.len
        /\ e.rcvpending = n
    BY <1>1 DEF V8Driver
  <2>4. e.active = d.active /\ e.panic = d.panic
    BY <1>1, Zenon DEF V8Driver
  <2> HIDE DEF e, t
  <2>5. t.d = e /\ t.h = s.h /\ t \in V8State
    BY <1>1, <2>2, <2>3 DEF V8State
  <2>6. Taken8(e) = Taken8(d)
    BY <2>3, Zenon DEF Taken8
  <2>7. Recv8(t, lo, hi)
    BY <2>3, <2>5, <2>6, Zenon DEF Recv8
  <2> QED
    BY <2>3, <2>4, <2>5, <2>7, Zenon DEF Send8Same, TxSame, t
<1>3. CASE ~d.active
  <2>1. t = IlSetup(s, n)
    BY <1>3, Zenon DEF IlMore
  <2>2. d.active = FALSE
    BY <1>1, <1>3 DEF V8Driver
  <2>3. s.d.active = FALSE /\ (s.d.nbp = 0 => n = IF s.d.chain = <<>> THEN Mtu ELSE s.d.len)
    BY <2>2
  <2>4. /\ IlSetup(s, n) \in V8State /\ Send8Same(s, IlSetup(s, n))
        /\ Recv8(IlSetup(s, n), lo, hi) /\ IlSetup(s, n).d.panic = s.d.panic
    BY <2>3, IlSetupKeeps, Zenon
  <2> QED
    BY <2>1, <2>4, Zenon
<1> QED
  BY <1>2, <1>3

\* ilrint() up to the end of the packet: its only block that the board has had
\* is filled, and is done with when it has got the end of its frame.
LEMMA FilledIs ==
  ASSUME NEW s \in V8State, NEW lo \in Nat, NEW hi \in Nat, Recv8(s, lo, hi), s.h.rint = TRUE
  PROVE  LET t     == [d |-> s.d, h |-> RintAck(s.h)]
             f     == Filled(t)
             chain == s.d.chain
             p     == At(s.h, chain, Len(chain))
         IN  /\ s.d.nbp # 0 /\ f.s \in V8State /\ Send8Same(s, f.s)
             /\ f.s.d.chain = chain /\ f.s.d.nbp = 0 /\ f.s.d.panic = s.d.panic
             /\ f.s.h.mem = s.h.mem /\ ~(f.s.d.rcvpending > 0)
             /\ Len(chain) \in 1 .. Len(chain)
             /\ f.done <=> Over(p)
             /\ ~Over(p) => Recv8(f.s, lo, hi)
             /\ Over(p) => /\ Ringed(f.s.h, chain, Len(chain), lo, hi)
                           /\ Assembled(s.h.mem, chain) = p.frame
<1> DEFINE d == s.d
           g == RintAck(s.h)
           chain == d.chain
           n == Len(chain)
           k == Taken8(d)
           p == At(s.h, chain, n)
           b == chain[n]
           all == IF k = 0 THEN Content(s.h.mem, b).len ELSE d.len
           left == all - b.bc
           t == [d |-> d, h |-> g]
           f == Filled(t)
           e == [d EXCEPT !.len = left, !.nbp = 0]
<1>1. d \in V8Driver /\ s.h \in HW /\ chain \in Seq(Block) /\ d.len \in Int /\ d.nbp \in {0, n} /\ n \in Nat
  <2>1. d \in V8Driver /\ s.h \in HW
    BY DEF V8State
  <2>2. chain \in Seq(Block) /\ d.len \in Int
    BY <2>1 DEF V8Driver, Chains
  <2>3. d.nbp \in {0, n}
    BY Zenon DEF Recv8
  <2> QED
    BY <2>1, <2>2, <2>3, LenProperties
<1>2. k \in 0 .. n /\ k \in Nat
  BY <1>1, SuppliedIs
<1>3. /\ Ringed(s.h, chain, k, lo, hi) /\ SoFar(s.h, chain, k, d.len)
      /\ IF k > 0 THEN d.len <= Mtu ELSE \A i \in 1 .. n : chain[i].bc >= SmallBlock
      /\ d.rcvpending > 0 => d.nbp = 0
  BY Zenon DEF Recv8
<1> HIDE DEF k
<1>4. /\ Ringed(g, chain, k + 1, lo, hi) /\ g \in HW /\ TxSame(s.h, g) /\ g.mem = s.h.mem
      /\ k + 1 \in 1 .. k + s.h.rpend /\ k + s.h.rpend \in 0 .. n
  BY <1>1, <1>2, <1>3, TakenKeeps
<1> HIDE DEF g
<1>5. d.nbp = n /\ n = k + 1 /\ n > 0 /\ d.nbp # 0
  <2>1. k < n
    BY <1>1, <1>2, <1>4
  <2>2. d.nbp # 0
    BY <2>1, <1>1 DEF k, Taken8
  <2>3. k = d.nbp - 1
    BY <2>2, Zenon DEF k, Taken8
  <2> QED
    BY <1>1, <2>2, <2>3 DEF V8Driver
<1> DEFINE m == k + s.h.rpend
<1>6. Parts(s.h, chain, m, lo, hi)
  BY <1>3, Zenon DEF Ringed
<1>7. /\ PartOK(p, b, lo, hi) /\ b \in Block /\ p \in Part
      /\ all = p.len - p.off /\ all \in Int /\ all > 0
      /\ all <= b.bc <=> Over(p)
      /\ ~Over(p) => SoFar(s.h, chain, n, left) /\ Chained(b)
      /\ Over(p) => Assembled(s.h.mem, SubSeq(chain, 1, n)) = p.frame
  <2> HIDE DEF m
  <2>1. m \in 0 .. n /\ k + 1 \in 1 .. m
    BY <1>4 DEF m
  <2>2. /\ PartOK(At(s.h, chain, k + 1), chain[k + 1], lo, hi) /\ chain[k + 1] \in Block
        /\ At(s.h, chain, k + 1) \in Part
        /\ LET b1 == chain[k + 1]
               p1 == At(s.h, chain, k + 1)
               a1 == IF k = 0 THEN Content(s.h.mem, b1).len ELSE d.len
           IN  /\ a1 = p1.len - p1.off /\ a1 \in Int /\ a1 > 0
               /\ a1 <= b1.bc <=> Over(p1)
               /\ ~Over(p1) => SoFar(s.h, chain, k + 1, a1 - b1.bc) /\ Chained(b1)
               /\ Over(p1) => Assembled(s.h.mem, SubSeq(chain, 1, k + 1)) = p1.frame
    <3> DEFINE rest == d.len
    <3>1. /\ s.h \in HW /\ chain \in Seq(Block) /\ k \in Nat /\ m \in 0 .. Len(chain) /\ rest \in Int
          /\ Parts(s.h, chain, m, lo, hi) /\ k + 1 \in 1 .. m /\ SoFar(s.h, chain, k, rest)
      BY <1>1, <1>2, <1>3, <1>6, <2>1, Zenon
    <3> HIDE DEF rest, chain
    <3>2. /\ PartOK(At(s.h, chain, k + 1), chain[k + 1], lo, hi) /\ chain[k + 1] \in Block
          /\ At(s.h, chain, k + 1) \in Part
          /\ LET b1 == chain[k + 1]
                 p1 == At(s.h, chain, k + 1)
                 a1 == IF k = 0 THEN Content(s.h.mem, b1).len ELSE rest
             IN  /\ a1 = p1.len - p1.off /\ a1 \in Int /\ a1 > 0
                 /\ a1 <= b1.bc <=> Over(p1)
                 /\ ~Over(p1) => SoFar(s.h, chain, k + 1, a1 - b1.bc) /\ Chained(b1)
                 /\ Over(p1) => Assembled(s.h.mem, SubSeq(chain, 1, k + 1)) = p1.frame
      BY <3>1, TakeNext
    <3> QED
      BY <3>2, Zenon DEF rest, chain
  <2> QED
    BY <1>5, <2>2, Zenon
<1>8. b.bc \in Int /\ left \in Int
  BY <1>7 DEF Block
<1>9. f = [s |-> [t EXCEPT !.d = e], done |-> left <= 0 \/ b.bc % 8 # 0]
  <2>1. (d.nbp = 1) <=> (k = 0)
    BY <1>2, <1>5
  <2>2. t.d = d /\ t.h.mem = s.h.mem
    BY <1>4
  <2>3. left = (IF d.nbp = 1 THEN Content(s.h.mem, b).len ELSE d.len) - b.bc
    BY <2>1
  <2> HIDE DEF t, left, all
  <2> QED
    BY <1>5, <2>2, <2>3 DEF Filled
<1> HIDE DEF all, f, p
<1>10. f.done <=> Over(p)
  <2>1. left <= 0 <=> all <= b.bc
    BY <1>7, <1>8
  <2>2. f.done = (left <= 0 \/ b.bc % 8 # 0)
    BY <1>9
  <2> QED
    BY <1>7, <2>1, <2>2, Zenon DEF Chained
<1> HIDE DEF b, left
<1>11. f.s = [d |-> e, h |-> g]
  BY <1>9
<1>12. /\ e \in V8Driver /\ e.tq = d.tq /\ e.open = d.open /\ e.q = d.q
       /\ e.packets = d.packets /\ e.chain = chain /\ e.nbp = 0 /\ e.len = left
       /\ e.rcvpending = d.rcvpending /\ e.active = d.active /\ e.panic = d.panic
  <2> DEFINE z == 0
  <2>1. z \in Nat /\ z = 0 /\ e = [d EXCEPT !.len = left, !.nbp = z]
    OBVIOUS
  <2> HIDE DEF z, e
  <2>2. e \in V8Driver
    BY <1>1, <1>8, <2>1 DEF V8Driver
  <2>3. e.active = d.active /\ e.panic = d.panic
    BY <1>1, <2>1, Zenon DEF V8Driver
  <2> QED
    BY <1>1, <2>1, <2>2, <2>3 DEF V8Driver
<1> HIDE DEF e
<1>13. f.s.d = e /\ f.s.h = g /\ f.s \in V8State
  BY <1>4, <1>11, <1>12 DEF V8State
<1>14. ~(e.rcvpending > 0)
  BY <1>3, <1>5, <1>12
<1>15. ASSUME ~Over(p)
       PROVE  Recv8(f.s, lo, hi)
  <2>1. Taken8(e) = n
    BY <1>12 DEF Taken8
  <2>2. SoFar(g, chain, n, left)
    <3>1. SoFar(s.h, chain, n, left)
      BY <1>7, <1>15
    <3>2. \A i : At(g, chain, i) = At(s.h, chain, i)
      BY <1>4, Zenon DEF At
    <3> QED
      BY <3>1, <3>2, Zenon DEF SoFar
  <2>3. left <= Mtu
    <3>1. CASE k = 0
      <4>1. p.len \in FrameLens /\ p.off >= 0
        BY <1>7, Zenon DEF PartOK
      <4>2. b.bc >= SmallBlock
        BY <1>3, <1>5, <3>1 DEF b
      <4>3. p.len \in Int /\ p.off \in Int
        BY <1>7 DEF Part
      <4> QED
        BY <1>7, <1>8, <4>1, <4>2, <4>3, FrameAssumption, StreamsAssumption DEF left
    <3>2. CASE k # 0
      <4>1. all = d.len /\ d.len <= Mtu
        BY <1>2, <1>3, <3>2 DEF all
      <4>2. b.bc >= 0
        <5>1. p.n > 0 /\ p.n = IF p.len - p.off <= b.bc THEN p.len - p.off ELSE b.bc
          BY <1>7, Zenon DEF PartOK
        <5>2. p.len \in Int /\ p.off \in Int
          BY <1>7 DEF Part
        <5> QED
          BY <1>7, <1>8, <5>1, <5>2
      <4> QED
        BY <1>7, <1>8, <4>1, <4>2, StreamsAssumption DEF left
    <3> QED
      BY <3>1, <3>2
  <2> QED
    BY <1>4, <1>5, <1>12, <1>13, <1>14, <2>1, <2>2, <2>3, Zenon DEF Recv8
<1>16. ASSUME Over(p)
       PROVE  Assembled(s.h.mem, chain) = p.frame
  <2>1. SubSeq(chain, 1, n) = chain
    BY <1>1, SubSeqFull
  <2> QED
    BY <1>7, <1>16, <2>1, Zenon
<1>17. n \in 1 .. n
  BY <1>1, <1>5
<1> QED
  BY <1>4, <1>5, <1>10, <1>12, <1>13, <1>14, <1>15, <1>16, <1>17, Zenon DEF f, p, Send8Same, TxSame, g

LEMMA Send8Trans ==
  ASSUME NEW s, NEW t, NEW u, Send8Same(s, t), Send8Same(t, u)
  PROVE  Send8Same(s, u)
BY DEF Send8Same, TxSame

\* The end of a packet: its blocks are freed, and a buffer is asked for.
LEMMA IlDoneKeeps ==
  ASSUME NEW s \in V8State, NEW lo \in Nat, NEW hi \in Nat, s.d.nbp = 0, ~(s.d.rcvpending > 0),
         Len(s.d.chain) \in 1 .. Len(s.d.chain),
         Ringed(s.h, s.d.chain, Len(s.d.chain), lo, hi),
         Over(At(s.h, s.d.chain, Len(s.d.chain)))
  PROVE  LET f == At(s.h, s.d.chain, Len(s.d.chain)).frame
         IN  /\ IlDone(s) \in V8State /\ Send8Same(s, IlDone(s)) /\ IlDone(s).d.panic = s.d.panic
             /\ f \in lo + 1 .. hi /\ Recv8(IlDone(s), f, hi)
<1> DEFINE d == s.d
           h == s.h
           chain == d.chain
           n == Len(chain)
           p == At(h, chain, n)
           g == [h EXCEPT !.mem = Free(@, chain)]
           c == Supplied(d)
           z == IF d.nbp = 0 THEN 0 ELSE 1
           e == [d EXCEPT !.chain = c, !.nbp = z]
           t == [d |-> e, h |-> g]
<1>1. d \in V8Driver /\ h \in HW /\ chain \in Seq(Block) /\ n \in Nat
  <2>1. d \in V8Driver /\ h \in HW
    BY DEF V8State
  <2>2. chain \in Seq(Block)
    BY <2>1 DEF V8Driver, Chains
  <2> QED
    BY <2>1, <2>2, LenProperties
<1>2. IlDone(s) = IlMore(t, Mtu)
  BY Zenon DEF IlDone
<1>3. c = <<>> /\ z = 0
  BY <1>1, SuppliedIs
<1>4. SubSeq(chain, 1, n) = chain /\ SubSeq(chain, n + 1, n) = <<>>
  <2>1. SubSeq(chain, 1, n) = chain
    BY <1>1, SubSeqFull
  <2> DEFINE k == n + 1
  <2>2. k \in 1 .. n + 1 /\ k = n + 1
    BY <1>1
  <2> HIDE DEF k
  <2>3. SubSeq(chain, k, n) = <<>>
    BY <1>1, <2>2, Rest
  <2> QED
    BY <2>1, <2>2, <2>3, Zenon
<1>5. /\ g \in HW /\ TxSame(h, g) /\ Ringed(g, <<>>, 0, p.frame, hi) /\ p.frame \in lo + 1 .. hi
  <2> DEFINE G == [h EXCEPT !.mem = Free(@, SubSeq(chain, 1, n))]
  <2>1. /\ G \in HW /\ TxSame(h, G) /\ Ringed(G, SubSeq(chain, n + 1, n), 0, p.frame, hi)
        /\ p.frame \in lo + 1 .. hi
    <3> DEFINE k == n
    <3>0. k \in 1 .. Len(chain) /\ Ringed(h, chain, k, lo, hi) /\ Over(At(h, chain, k))
      OBVIOUS
    <3> HIDE DEF k
    <3>1. LET F == [h EXCEPT !.mem = Free(@, SubSeq(chain, 1, k))]
          IN  /\ F \in HW /\ TxSame(h, F) /\ F.rie = h.rie
              /\ F.rpend = h.rpend /\ F.rxq = h.rxq /\ F.rx = h.rx
              /\ Ringed(F, SubSeq(chain, k + 1, Len(chain)), 0, At(h, chain, k).frame, hi)
              /\ At(h, chain, k).frame \in lo + 1 .. hi
      BY <1>1, <3>0, DropKeeps
    <3> QED
      BY <3>1, Zenon DEF k
  <2>2. G = g
    BY <1>4, Zenon
  <2> QED
    BY <1>4, <2>1, <2>2, Zenon
<1> HIDE DEF c, z, g, p
<1>6. /\ e \in V8Driver /\ e.tq = d.tq /\ e.open = d.open /\ e.q = d.q
      /\ e.packets = d.packets /\ e.chain = <<>> /\ e.nbp = 0 /\ e.len = d.len
      /\ e.rcvpending = d.rcvpending /\ e.active = d.active /\ e.panic = d.panic
  <2>1. c \in Chains /\ z \in Nat
    BY <1>3 DEF Chains
  <2>2. e \in V8Driver
    BY <1>1, <2>1 DEF V8Driver
  <2>3. e.active = d.active /\ e.panic = d.panic
    BY <1>1, Zenon DEF V8Driver
  <2> QED
    BY <1>1, <1>3, <2>2, <2>3 DEF V8Driver
<1> HIDE DEF e
<1>7. t \in V8State /\ t.d = e /\ t.h = g
  BY <1>5, <1>6 DEF V8State
<1> HIDE DEF t
<1>8. Recv8(t, p.frame, hi)
  <2>1. Taken8(e) = 0 /\ Len(<<>>) = 0
    BY <1>6 DEF Taken8
  <2>2. SoFar(g, <<>>, 0, e.len)
    BY DEF SoFar
  <2>3. \A i \in 1 .. Len(<<>>) : <<>>[i].bc >= SmallBlock
    OBVIOUS
  <2> QED
    BY <1>5, <1>6, <1>7, <2>1, <2>2, <2>3 DEF Recv8
<1>9. Send8Same(s, t)
  BY <1>5, <1>6, <1>7, Zenon DEF Send8Same, TxSame
<1>10. p.frame \in Nat
  BY <1>5
<1>11. /\ IlMore(t, Mtu) \in V8State /\ Send8Same(t, IlMore(t, Mtu))
       /\ Recv8(IlMore(t, Mtu), p.frame, hi) /\ IlMore(t, Mtu).d.panic = t.d.panic
  <2> DEFINE lw == p.frame
             n1 == Mtu
  <2>1. /\ t \in V8State /\ lw \in Nat /\ n1 \in Int /\ Recv8(t, lw, hi) /\ t.d.nbp = 0
        /\ n1 = IF t.d.chain = <<>> THEN Mtu ELSE t.d.len
    BY <1>6, <1>7, <1>8, <1>10, StreamsAssumption
  <2> HIDE DEF lw, n1
  <2>2. /\ IlMore(t, n1) \in V8State /\ Send8Same(t, IlMore(t, n1))
        /\ Recv8(IlMore(t, n1), lw, hi) /\ IlMore(t, n1).d.panic = t.d.panic
    BY <2>1, IlMoreKeeps
  <2> QED
    BY <2>2, Zenon DEF lw, n1
<1>12. Send8Same(s, IlMore(t, Mtu))
  BY <1>9, <1>11, Send8Trans
<1> QED
  BY <1>2, <1>5, <1>6, <1>7, <1>11, <1>12, Zenon DEF t, p

\* ilrint(): nothing is panicked about, and what goes up is one whole frame.
LEMMA IlRintKeeps ==
  ASSUME NEW lo \in Nat, NEW hi \in Nat, [d |-> v8, h |-> hw] \in V8State,
         Recv8([d |-> v8, h |-> hw], lo, hi), ~v8.panic, hw.rint = TRUE, IlRint
  PROVE  LET t == [d |-> v8', h |-> hw']
         IN  /\ t \in V8State /\ Send8Same([d |-> v8, h |-> hw], t) /\ ~v8'.panic
             /\ \/ got' = got /\ Recv8(t, lo, hi)
                \/ \E f \in lo + 1 .. hi : got' = Append(got, f) /\ Recv8(t, f, hi)
<1> DEFINE s == [d |-> v8, h |-> hw]
           a == [d |-> v8, h |-> RintAck(hw)]
           f == Filled(a)
           chain == v8.chain
           n == Len(chain)
           p == At(hw, chain, n)
           r == IF f.done THEN IlDone(f.s) ELSE IF f.s.d.nbp = 0 THEN IlMore(f.s, f.s.d.len) ELSE f.s
<1>0. s \in V8State /\ s.d = v8 /\ s.h = hw /\ Recv8(s, lo, hi)
  OBVIOUS
<1> HIDE DEF s
<1>1. /\ v8.nbp # 0 /\ f.s \in V8State /\ Send8Same(s, f.s)
      /\ f.s.d.chain = chain /\ f.s.d.nbp = 0 /\ f.s.d.panic = v8.panic
      /\ f.s.h.mem = hw.mem /\ ~(f.s.d.rcvpending > 0)
      /\ n \in 1 .. n
      /\ f.done <=> Over(p)
      /\ ~Over(p) => Recv8(f.s, lo, hi)
      /\ Over(p) => Ringed(f.s.h, chain, n, lo, hi) /\ Assembled(hw.mem, chain) = p.frame
  <2>1. LET x     == [d |-> s.d, h |-> RintAck(s.h)]
            y     == Filled(x)
            ch    == s.d.chain
            q     == At(s.h, ch, Len(ch))
        IN  /\ s.d.nbp # 0 /\ y.s \in V8State /\ Send8Same(s, y.s)
            /\ y.s.d.chain = ch /\ y.s.d.nbp = 0 /\ y.s.d.panic = s.d.panic
            /\ y.s.h.mem = s.h.mem /\ ~(y.s.d.rcvpending > 0)
            /\ Len(ch) \in 1 .. Len(ch)
            /\ y.done <=> Over(q)
            /\ ~Over(q) => Recv8(y.s, lo, hi)
            /\ Over(q) => /\ Ringed(y.s.h, ch, Len(ch), lo, hi)
                          /\ Assembled(s.h.mem, ch) = q.frame
    <3>1. s.h.rint = TRUE
      BY <1>0
    <3> QED
      BY <1>0, <3>1, FilledIs, Zenon
  <2> QED
    BY <1>0, <2>1, Zenon
<1>2. /\ v8' = r.d /\ hw' = r.h
      /\ IF f.done THEN got' = Append(got, Assembled(hw.mem, chain)) ELSE got' = got
  <2>1. f.s.d.nbp = 0 /\ v8.nbp # 0 /\ f.s.d.chain = chain
    BY <1>1, Zenon
  <2> HIDE DEF f
  <2>2. /\ v8' = r.d /\ hw' = r.h
        /\ IF f.done THEN PassUp(hw.mem, IF f.s.d.nbp = 0 THEN f.s.d.chain
                                         ELSE SubSeq(f.s.d.chain, 1, f.s.d.nbp - 1))
           ELSE UNCHANGED got
    BY <2>1, Zenon DEF IlRint, f
  <2>3. (IF f.s.d.nbp = 0 THEN f.s.d.chain ELSE SubSeq(f.s.d.chain, 1, f.s.d.nbp - 1)) = chain
    BY <2>1, Zenon
  <2> QED
    BY <2>2, <2>3, Zenon DEF PassUp
<1> HIDE DEF f, a, p
<1>3. CASE Over(p)
  <2>1. r = IlDone(f.s)
    BY <1>1, <1>3, Zenon
  <2>2. /\ IlDone(f.s) \in V8State /\ Send8Same(f.s, IlDone(f.s)) /\ IlDone(f.s).d.panic = v8.panic
        /\ p.frame \in lo + 1 .. hi /\ Recv8(IlDone(f.s), p.frame, hi)
    <3>1. At(f.s.h, chain, n) = p
      BY <1>1, Zenon DEF At, p
    <3> DEFINE u == f.s
    <3>2. /\ u \in V8State /\ u.d.nbp = 0 /\ ~(u.d.rcvpending > 0)
          /\ Len(u.d.chain) \in 1 .. Len(u.d.chain)
          /\ Ringed(u.h, u.d.chain, Len(u.d.chain), lo, hi)
          /\ Over(At(u.h, u.d.chain, Len(u.d.chain)))
      BY <1>1, <1>3, <3>1, Zenon
    <3> HIDE DEF u
    <3>3. LET F == At(u.h, u.d.chain, Len(u.d.chain)).frame
          IN  /\ IlDone(u) \in V8State /\ Send8Same(u, IlDone(u)) /\ IlDone(u).d.panic = u.d.panic
              /\ F \in lo + 1 .. hi /\ Recv8(IlDone(u), F, hi)
      BY <3>2, IlDoneKeeps
    <3>4. At(u.h, u.d.chain, Len(u.d.chain)).frame = p.frame /\ u.d.panic = v8.panic
      BY <1>1, <3>1, Zenon DEF u
    <3> QED
      BY <3>3, <3>4, Zenon DEF u
  <2>3. Send8Same(s, IlDone(f.s))
    BY <1>1, <2>2, Send8Trans
  <2>4. [d |-> v8', h |-> hw'] = IlDone(f.s)
    BY <1>2, <2>1, <2>2 DEF V8State
  <2>5. got' = Append(got, p.frame)
    BY <1>1, <1>2, <1>3, Zenon
  <2> QED
    BY <1>2, <2>1, <2>2, <2>3, <2>4, <2>5, Zenon DEF s
<1>4. CASE ~Over(p)
  <2> DEFINE u == f.s
  <2>1. r = IlMore(u, u.d.len)
    BY <1>1, <1>4, Zenon
  <2>2. /\ u \in V8State /\ u.d.nbp = 0 /\ u.d.len \in Int /\ Recv8(u, lo, hi)
        /\ u.d.len = IF u.d.chain = <<>> THEN Mtu ELSE u.d.len
    <3>1. u.d.chain # <<>>
      <4>1. n # 0 /\ Len(<<>>) = 0
        BY <1>1
      <4> QED
        BY <1>1, <4>1, Zenon
    <3>2. u.d.len \in Int
      BY <1>1 DEF V8State, V8Driver
    <3> QED
      BY <1>1, <1>4, <3>1, <3>2, Zenon
  <2> HIDE DEF u
  <2>3. /\ IlMore(u, u.d.len) \in V8State /\ Send8Same(u, IlMore(u, u.d.len))
        /\ Recv8(IlMore(u, u.d.len), lo, hi) /\ IlMore(u, u.d.len).d.panic = u.d.panic
    BY <2>2, IlMoreKeeps
  <2>4. Send8Same(s, IlMore(u, u.d.len))
    BY <1>1, <2>3, Send8Trans DEF u
  <2>5. [d |-> v8', h |-> hw'] = IlMore(u, u.d.len)
    BY <1>2, <2>1, <2>3 DEF V8State
  <2>6. got' = got /\ u.d.panic = v8.panic
    BY <1>1, <1>2, <1>4, Zenon DEF u
  <2> QED
    BY <1>2, <2>1, <2>3, <2>4, <2>5, <2>6, Zenon DEF s
<1> QED
  BY <1>3, <1>4

-----------------------------------------------------------------------------
(* V8's driver: sending.                                                   *)

\* Of some channels there is one that is before all others in any order.
LEMMA FirstChannel ==
  ASSUME NEW W \in SUBSET Chs, W # {}, NEW f \in [Chs -> Int]
  PROVE  \E c \in W : \A e \in W : f[c] <= f[e]
<1> DEFINE Upto(c) == {e \in W : f[e] <= f[c]}
           F == {Upto(c) : c \in W}
<1>1. IsFiniteSet(Chs)
  <2>1. 0 \in Int /\ NChan - 1 \in Int
    BY StreamsAssumption
  <2> QED
    BY <2>1, FS_Interval DEF Chs
<1>2. F \subseteq FiniteSubsetsOf(Chs) /\ F # {}
  <2>1. \A c \in W : Upto(c) \in SUBSET Chs
    OBVIOUS
  <2>2. F \subseteq SUBSET Chs /\ F # {}
    <3> HIDE DEF Upto
    <3> QED
      BY <2>1
  <2> QED
    BY <1>1, <2>2, FS_FiniteSubsetsOfFinite
<1>3. PICK x \in F : \A y \in F : <<y, x>> \notin StrictSubsetOrdering(Chs)
  <2>1. IsWellFoundedOn(StrictSubsetOrdering(Chs), FiniteSubsetsOf(Chs))
    BY <1>1, FS_StrictSubsetOrderingWellFounded
  <2> HIDE DEF F
  <2> QED
    BY <1>2, <2>1, WFMin
<1>4. PICK c \in W : x = Upto(c)
  BY <1>3
<1>5. ASSUME NEW e \in W, ~(f[c] <= f[e])
      PROVE  FALSE
  <2>1. \A k \in W : f[k] \in Int
    OBVIOUS
  <2>2. f[e] < f[c] /\ c \in Upto(c) /\ c \notin Upto(e)
    BY <1>5, <2>1
  <2>3. ASSUME NEW k \in Upto(e)
        PROVE  k \in Upto(c)
    BY <2>1, <2>2
  <2>4. Upto(e) \in F /\ Upto(e) \subseteq Chs /\ Upto(c) \subseteq Chs
    OBVIOUS
  <2> QED
    BY <2>2, <2>3, <2>4, <1>3, <1>4 DEF StrictSubsetOrdering
<1> QED
  BY <1>5

Shifted(q, c) == [q EXCEPT ![c] = Tail(@)]

LEMMA ShiftedIs ==
  ASSUME NEW q \in Queues, NEW c \in Chs, q[c] # <<>>
  PROVE  /\ Shifted(q, c) \in Queues /\ Head(q[c]) \in QBlock
         /\ Shifted(q, c)[c] = Tail(q[c])
         /\ \A e \in Chs : e # c => Shifted(q, c)[e] = q[e]
<1>1. q[c] \in Seq(QBlock) /\ DOMAIN q = Chs
  BY DEF Queues
<1>2. Tail(q[c]) \in Seq(QBlock) /\ Head(q[c]) \in QBlock
  BY <1>1, HeadTailProperties
<1> QED
  BY <1>1, <1>2 DEF Shifted, Queues

\* ilstart() has loaded the first block of a packet of channel c, from s to t.
Loaded8(s, t, c) ==
    /\ t.d.active = TRUE /\ t.d.tq = c /\ t.d.q = Shifted(s.d.q, c) /\ t.d.packets = s.d.packets
    /\ t.h.tx = Append(s.h.tx, Head(s.d.q[c]).piece) /\ t.h.air = s.h.air

Load8(s, c) == [d |-> [s.d EXCEPT !.active = TRUE, !.tq = c, !.q[c] = Tail(@)],
                h |-> LdXmitCommand(s.h, Head(s.d.q[c]).piece)]

\* The M_DELIM of channel c has ended its packet.
Closed8(s, t, c) ==
    /\ t.d.active = s.d.active /\ t.d.tq = NoChan /\ t.d.q = Shifted(s.d.q, c)
    /\ t.d.packets = [s.d.packets EXCEPT ![c] = @ - 1]
    /\ t.h.tx = <<>> /\ t.h.air = Append(s.h.air, s.h.tx)

Idle8(s, t) ==
    /\ t.d.active = FALSE /\ t.d.tq = s.d.tq /\ t.d.q = s.d.q /\ t.d.packets = s.d.packets
    /\ TxSame(s.h, t.h)

LEMMA LoadIs ==
  ASSUME NEW s \in V8State, NEW c \in Chs, s.d.q[c] # <<>>
  PROVE  LET t == Load8(s, c)
         IN  t \in V8State /\ Recv8Same(s, t) /\ t.d.open = s.d.open /\ Loaded8(s, t, c)
<1> DEFINE t == Load8(s, c)
           x == Head(s.d.q[c]).piece
           d == s.d
           h == s.h
           q == Shifted(d.q, c)
           e == [d EXCEPT !.active = TRUE, !.tq = c, !.q = q]
           g == LdXmitCommand(h, x)
<1>1. d \in V8Driver /\ h \in HW /\ d.q \in Queues
  BY DEF V8State, V8Driver
<1>2. q \in Queues /\ Head(d.q[c]) \in QBlock
  BY <1>1, ShiftedIs
<1>3. x \in Piece
  BY <1>2 DEF QBlock
<1>4. g \in HW /\ RxSame(h, g) /\ g.rie /\ g.tx = Append(h.tx, x) /\ g.air = h.air
  <2>1. <<>> \in Seq(Piece)
    OBVIOUS
  <2> QED
    BY <1>1, <1>3, <2>1, TransmitIs
<1>5. t = [d |-> e, h |-> g]
  BY Zenon DEF Shifted, Load8
<1> HIDE DEF g, q, x, t
<1>6. c \in Channel
  BY DEF Channel
<1>7. /\ e \in V8Driver /\ e.tq = c /\ e.open = d.open /\ e.q = q
      /\ e.packets = d.packets /\ e.chain = d.chain /\ e.nbp = d.nbp /\ e.len = d.len
      /\ e.rcvpending = d.rcvpending
  BY <1>1, <1>2, <1>6 DEF V8Driver
<1>8. e.active = TRUE /\ e.panic = d.panic
  BY <1>1, Zenon DEF V8Driver
<1> HIDE DEF e
<1>9. t.d = e /\ t.h = g /\ t \in V8State
  BY <1>4, <1>5, <1>7 DEF V8State
<1>10. g.rie = TRUE
  BY <1>4 DEF HW
<1> QED
  BY <1>4, <1>7, <1>8, <1>9, <1>10, Zenon DEF Recv8Same, Loaded8, q, x, t

LEMMA IlStartIs ==
  ASSUME NEW s \in V8State
  PROVE  LET t == IlStart(s)
         IN  /\ t \in V8State /\ Recv8Same(s, t) /\ t.d.open = s.d.open
             /\ \/ Idle8(s, t)
                \/ \E c \in s.d.open : s.d.packets[c] > 0 /\ s.d.q[c] = <<>>
                \/ \E c \in s.d.open : s.d.packets[c] > 0 /\ s.d.q[c] # <<>> /\ Loaded8(s, t, c)
<1> DEFINE d == s.d
           ready == {c \in d.open : d.packets[c] > 0}
           c == Min(ready)
           t == IlStart(s)
<1>1. d \in V8Driver /\ s.h \in HW /\ s = [d |-> d, h |-> s.h] /\ d.open \in SUBSET Chs
  BY DEF V8State, V8Driver, Opened
<1>2. CASE ready = {}
  <2> DEFINE e == [d EXCEPT !.active = FALSE]
  <2>1. t = [s EXCEPT !.d.active = FALSE]
    BY <1>2, Zenon DEF IlStart
  <2>2. t = [d |-> e, h |-> s.h]
    BY <1>1, <2>1
  <2>3. /\ e \in V8Driver /\ e.tq = d.tq /\ e.open = d.open /\ e.q = d.q
        /\ e.packets = d.packets /\ e.chain = d.chain /\ e.nbp = d.nbp /\ e.len = d.len
        /\ e.rcvpending = d.rcvpending
    BY <1>1 DEF V8Driver
  <2>4. e.active = FALSE /\ e.panic = d.panic
    BY <1>1, Zenon DEF V8Driver
  <2> HIDE DEF e, t
  <2>5. t.d = e /\ t.h = s.h /\ t \in V8State
    BY <1>1, <2>2, <2>3 DEF V8State
  <2> QED
    BY <2>3, <2>4, <2>5, Zenon DEF Recv8Same, RxSame, Idle8, TxSame, t
<1>3. CASE ready # {}
  <2>1. c \in ready
    <3> DEFINE f == [k \in Chs |-> k]
    <3>1. f \in [Chs -> Int] /\ \A k \in Chs : f[k] = k
      BY DEF Chs
    <3>2. ready \in SUBSET Chs
      BY <1>1
    <3> HIDE DEF f, ready
    <3>3. \E k \in ready : \A e \in ready : f[k] <= f[e]
      BY <1>3, <3>1, <3>2, FirstChannel
    <3>4. \E k \in ready : \A e \in ready : k <= e
      BY <3>1, <3>2, <3>3
    <3> QED
      BY <3>4, Zenon DEF Min
  <2>2. c \in d.open /\ d.packets[c] > 0 /\ c \in Chs
    BY <1>1, <2>1
  <2> HIDE DEF c
  <2>3. CASE d.q[c] = <<>>
    <3> DEFINE e == [d EXCEPT !.active = FALSE, !.tq = c]
    <3>1. t = [s EXCEPT !.d.active = FALSE, !.d.tq = c]
      BY <1>3, <2>3, Zenon DEF IlStart, c
    <3>2. t = [d |-> e, h |-> s.h]
      BY <1>1, <3>1
    <3>3. /\ e \in V8Driver /\ e.open = d.open /\ e.chain = d.chain /\ e.nbp = d.nbp /\ e.len = d.len
          /\ e.rcvpending = d.rcvpending
      BY <1>1, <2>2 DEF V8Driver, Channel
    <3>4. e.panic = d.panic
      BY <1>1, Zenon DEF V8Driver
    <3> HIDE DEF e, t
    <3>5. t.d = e /\ t.h = s.h /\ t \in V8State
      BY <1>1, <3>2, <3>3 DEF V8State
    <3>6. Recv8Same(s, t) /\ t.d.open = d.open
      BY <3>3, <3>4, <3>5, Zenon DEF Recv8Same, RxSame
    <3> QED
      BY <2>2, <2>3, <3>5, <3>6, Zenon DEF t
  <2>4. CASE d.q[c] # <<>>
    <3>1. t = Load8(s, c)
      BY <1>3, <2>4, Zenon DEF IlStart, c, Load8
    <3> HIDE DEF t
    <3>2. t \in V8State /\ Recv8Same(s, t) /\ t.d.open = s.d.open /\ Loaded8(s, t, c)
      BY <2>2, <2>4, <3>1, LoadIs
    <3> QED
      BY <2>2, <2>4, <3>2, Zenon DEF t
  <2> QED
    BY <2>3, <2>4
<1> QED
  BY <1>2, <1>3

\* ilcint() in the middle of a packet, from s to t.
LEMMA IlNextBlockIs ==
  ASSUME NEW s \in V8State, s.d.tq \in Chs, s.d.q[s.d.tq] # <<>>
  PROVE  LET t == IlNextBlock(s)
             c == s.d.tq
         IN  /\ t \in V8State /\ Recv8Same(s, t) /\ t.d.open = s.d.open
             /\ IF Head(s.d.q[c]).delim THEN Closed8(s, t, c)
                ELSE /\ t.d.active = s.d.active /\ t.d.tq = c /\ t.d.q = Shifted(s.d.q, c)
                     /\ t.d.packets = s.d.packets
                     /\ t.h.tx = Append(s.h.tx, Head(s.d.q[c]).piece) /\ t.h.air = s.h.air
<1> DEFINE d == s.d
           h == s.h
           c == d.tq
           q == Shifted(d.q, c)
           t == IlNextBlock(s)
           b == Head(d.q[c])
<1>1. d \in V8Driver /\ h \in HW /\ d.q \in Queues /\ d.packets \in Counts
  BY DEF V8State, V8Driver
<1>2. q \in Queues /\ b \in QBlock
  BY <1>1, ShiftedIs
<1>3. b.piece \in Piece /\ b.delim \in BOOLEAN /\ h.tx \in Seq(Piece)
  BY <1>1, <1>2 DEF QBlock, HW
<1> DEFINE x == b.piece
           ld == LdXmitCommand(h, x)
           xm == XmitCommand(h, <<>>)
           e == [d EXCEPT !.q = q]
<1>4. /\ ld \in HW /\ RxSame(h, ld) /\ ld.rie /\ ld.tx = Append(h.tx, x) /\ ld.air = h.air
      /\ xm \in HW /\ RxSame(h, xm) /\ xm.rie /\ xm.tx = <<>> /\ xm.air = Append(h.air, h.tx \o <<>>)
  <2>1. <<>> \in Seq(Piece)
    OBVIOUS
  <2> HIDE DEF x
  <2> QED
    BY <1>1, <1>3, <2>1, TransmitIs DEF x
<1>5. h.tx \o <<>> = h.tx
  BY <1>3, ConcatEmptySeq
<1>6. /\ e \in V8Driver /\ e.tq = c /\ e.open = d.open /\ e.q = q
      /\ e.packets = d.packets /\ e.chain = d.chain /\ e.nbp = d.nbp /\ e.len = d.len
      /\ e.rcvpending = d.rcvpending
  <2> HIDE DEF q
  <2> QED
    BY <1>1, <1>2 DEF V8Driver
<1>7. e.active = d.active /\ e.panic = d.panic
  BY <1>1, Zenon DEF V8Driver
<1>8. t = IF b.delim THEN [d |-> [e EXCEPT !.packets[c] = @ - 1, !.tq = NoChan], h |-> xm]
          ELSE [d |-> e, h |-> ld]
  BY Zenon DEF IlNextBlock, Shifted
<1> HIDE DEF b, q, x, ld, xm, e
<1>9. CASE b.delim
  <2> DEFINE k == [d.packets EXCEPT ![c] = @ - 1]
             u == [e EXCEPT !.packets = k, !.tq = NoChan]
  <2>1. k \in Counts
    BY <1>1 DEF Counts
  <2>2. t = [d |-> u, h |-> xm]
    BY <1>6, <1>8, <1>9, Zenon
  <2> HIDE DEF k, t
  <2>3. NoChan \in Channel
    BY DEF Channel
  <2>4. /\ u \in V8Driver /\ u.tq = NoChan /\ u.open = d.open /\ u.q = q
        /\ u.packets = k /\ u.chain = d.chain /\ u.nbp = d.nbp /\ u.len = d.len
        /\ u.rcvpending = d.rcvpending
    BY <1>6, <2>1, <2>3 DEF V8Driver
  <2>5. u.active = d.active /\ u.panic = d.panic
    BY <1>6, <1>7, Zenon DEF V8Driver
  <2> HIDE DEF u
  <2>6. t.d = u /\ t.h = xm /\ t \in V8State
    BY <1>4, <2>2, <2>4 DEF V8State
  <2>7. xm.rie = TRUE
    BY <1>4 DEF HW
  <2>8. Recv8Same(s, t) /\ t.d.open = d.open
    BY <1>4, <2>4, <2>5, <2>6, <2>7, Zenon DEF Recv8Same
  <2>9. Closed8(s, t, c)
    BY <1>4, <1>5, <2>4, <2>5, <2>6, Zenon DEF Closed8, q, k
  <2> QED
    BY <1>9, <2>6, <2>8, <2>9, Zenon DEF b, t
<1>10. CASE ~b.delim
  <2>2. t = [d |-> e, h |-> ld]
    BY <1>8, <1>10, Zenon
  <2> HIDE DEF t
  <2>6. t.d = e /\ t.h = ld /\ t \in V8State
    BY <1>4, <1>6, <2>2 DEF V8State
  <2>7. ld.rie = TRUE
    BY <1>4 DEF HW
  <2>8. Recv8Same(s, t) /\ t.d.open = d.open
    BY <1>4, <1>6, <1>7, <2>6, <2>7, Zenon DEF Recv8Same
  <2> QED
    BY <1>4, <1>6, <1>7, <1>10, <2>6, <2>8, Zenon DEF b, t, q, x
<1> QED
  BY <1>9, <1>10

-----------------------------------------------------------------------------
(* Packets on their way.  On each channel the pieces of a packet follow    *)
(* each other, from the protocol through the queue and the board to the    *)
(* network.  A stage of that way is the packet and how many of its pieces  *)
(* have passed, none of the next one after the end of a packet, and how    *)
(* many ends have passed.                                                  *)

Stage     == [pkt : Nat, k : Nat, n : Int]
Pieces(p) == [k \in 1 .. p.k |-> [pkt |-> p.pkt, k |-> k]]
Pkt(e)    == e.pieces[1].pkt
Packet    == [ch : Chs, pieces : Seq(Piece)]
Numbered(E) == \A e \in E : Pkt(e) \in Nat

\* Piece p comes next at stage x.
Comes(x, p) == IF x.k = 0 THEN p.pkt > x.pkt /\ p.k = 1 ELSE p.pkt = x.pkt /\ p.k = x.k + 1

\* The last piece of a packet is in the block that ends it, or before.
Reached(x, b) == IF b.piece = NoPiece THEN [pkt |-> x.pkt, k |-> x.k] ELSE b.piece

\* Block b passes at stage x of channel c; E are the packets put to their end.
Passes(c, x, b, y, E) ==
    /\ IF b.piece = NoPiece THEN b.delim /\ x.k > 0 ELSE Comes(x, b.piece)
    /\ b.delim => [ch |-> c, pieces |-> Pieces(Reached(x, b))] \in E
    /\ y = IF b.delim THEN [pkt |-> Reached(x, b).pkt, k |-> 0, n |-> x.n + 1]
           ELSE [pkt |-> Reached(x, b).pkt, k |-> Reached(x, b).k, n |-> x.n]

Stages(q) == [0 .. Len(q) -> Stage]

\* What the network has had of channel c comes before stage x.
Sent(air, E, c, x) ==
    \A i \in 1 .. Len(air) : \A e \in E :
        air[i] = e.pieces /\ e.ch = c => Pkt(e) < x.pkt \/ (Pkt(e) = x.pkt /\ x.k = 0)

\* The way of channel c: n ends of packets are in its queue q, of blocks B;
\* tx is the board's if it is this channel that sends.
Flow(B, c, sender, q, n, tx, air, put, beg, E) ==
    /\ \A i \in 1 .. Len(q) : q[i] \in B
    /\ \E st \in Stages(q) :
          /\ \A i \in 1 .. Len(q) : Passes(c, st[i - 1], q[i], st[i], E)
          /\ st[Len(q)].n = st[0].n + n
          /\ IF sender = c THEN st[0].k > 0 /\ tx = Pieces(st[0]) ELSE st[0].k = 0
          /\ put = IF st[Len(q)].k = 0 THEN NoPiece ELSE [pkt |-> st[Len(q)].pkt, k |-> st[Len(q)].k]
          /\ st[Len(q)].pkt <= beg
          /\ Sent(air, E, c, st[0])

LEMMA PiecesAre ==
  ASSUME NEW p \in Piece
  PROVE  /\ Pieces(p) \in Seq(Piece) /\ Len(Pieces(p)) = p.k
         /\ p.k = 0 => Pieces(p) = <<>>
         /\ p.k > 0 => Pieces(p)[1].pkt = p.pkt
         /\ Append(Pieces(p), [pkt |-> p.pkt, k |-> p.k + 1]) = Pieces([pkt |-> p.pkt, k |-> p.k + 1])
<1> DEFINE s == Pieces(p)
           z == [pkt |-> p.pkt, k |-> p.k + 1]
<1>1. p.k \in Nat /\ p.pkt \in Nat /\ z \in Piece /\ z.k = p.k + 1 /\ z.pkt = p.pkt
  BY DEF Piece
<1>2. /\ s \in [1 .. p.k -> Piece] /\ \A k \in 1 .. p.k : s[k] = [pkt |-> p.pkt, k |-> k]
      /\ Pieces(z) \in [1 .. p.k + 1 -> Piece]
      /\ \A k \in 1 .. p.k + 1 : Pieces(z)[k] = [pkt |-> p.pkt, k |-> k]
  BY <1>1 DEF Pieces, Piece
<1> HIDE DEF s, z
<1>3. s \in Seq(Piece) /\ Len(s) = p.k /\ Pieces(z) \in Seq(Piece) /\ Len(Pieces(z)) = p.k + 1
  <2> DEFINE j == p.k + 1
             w == Pieces(z)
  <2>1. j \in Nat /\ w \in [1 .. j -> Piece]
    BY <1>1, <1>2
  <2> HIDE DEF w, j
  <2>2. w \in Seq(Piece) /\ Len(w) = j
    BY <2>1
  <2> QED
    BY <1>1, <1>2, <2>2 DEF j, w
<1>4. p.k = 0 => s = <<>>
  BY <1>3, EmptySeq
<1>5. p.k > 0 => s[1].pkt = p.pkt
  <2>1. p.k > 0 => 1 \in 1 .. p.k
    BY <1>1
  <2>2. p.k > 0 => s[1] = [pkt |-> p.pkt, k |-> 1]
    BY <1>2, <2>1, Zenon
  <2> QED
    BY <2>2
<1>6. Append(s, z) = Pieces(z)
  <2> DEFINE a == Append(s, z)
             w == Pieces(z)
  <2>1. a \in Seq(Piece) /\ Len(a) = p.k + 1 /\ \A i \in 1 .. p.k + 1 : a[i] = IF i <= p.k THEN s[i] ELSE z
    BY <1>1, <1>3, AppendProperties
  <2>2. \A i \in 1 .. p.k + 1 : a[i] = w[i]
    <3> HIDE DEF a, w
    <3> TAKE i \in 1 .. p.k + 1
    <3>1. CASE i <= p.k
      <4>1. i \in 1 .. p.k
        BY <1>1, <3>1
      <4>2. s[i] = [pkt |-> p.pkt, k |-> i] /\ w[i] = [pkt |-> p.pkt, k |-> i]
        BY <1>2, <4>1, Zenon DEF w
      <4>3. a[i] = s[i]
        BY <2>1, <3>1
      <4> QED
        BY <4>2, <4>3
    <3>2. CASE ~(i <= p.k)
      <4>1. i = p.k + 1
        BY <1>1, <3>2
      <4> QED
        BY <1>1, <1>2, <2>1, <3>2, <4>1 DEF w, z
    <3> QED
      BY <3>1, <3>2
  <2>3. w \in Seq(Piece) /\ Len(w) = Len(a) /\ Len(a) = p.k + 1
    BY <1>3, <2>1
  <2> HIDE DEF a, w
  <2>4. a = w
    BY <2>1, <2>2, <2>3, SeqEqual
  <2> QED
    BY <2>4 DEF a, w
<1> QED
  BY <1>3, <1>4, <1>5, <1>6 DEF s, z

\* A stage is not before the one that a block takes to it.
LEMMA PassedIs ==
  ASSUME NEW c \in Chs, NEW x \in Stage, NEW b \in QBlock, NEW y \in Stage, NEW E, Passes(c, x, b, y, E)
  PROVE  /\ Reached(x, b) \in Piece /\ Reached(x, b).k > 0 /\ y.pkt = Reached(x, b).pkt
         /\ x.pkt <= y.pkt /\ (x.k = 0 => x.pkt < y.pkt)
         /\ y.k = (IF b.delim THEN 0 ELSE Reached(x, b).k)
         /\ y.n = (IF b.delim THEN x.n + 1 ELSE x.n)
         /\ x.k > 0 => x.pkt = y.pkt
<1> DEFINE z == Reached(x, b)
<1>1. x.pkt \in Nat /\ x.k \in Nat /\ b.piece \in Piece /\ x.n \in Int
  BY DEF Stage, QBlock
<1>2. b.piece.pkt \in Nat /\ b.piece.k \in Nat
  BY <1>1 DEF Piece
<1>3. z \in Piece /\ z.k > 0 /\ x.pkt <= z.pkt /\ (x.k = 0 => x.pkt < z.pkt) /\ (x.k > 0 => x.pkt = z.pkt)
  BY <1>1, <1>2 DEF Passes, Comes, Reached, Piece
<1> HIDE DEF z
<1>4. y = IF b.delim THEN [pkt |-> z.pkt, k |-> 0, n |-> x.n + 1] ELSE [pkt |-> z.pkt, k |-> z.k, n |-> x.n]
  BY DEF Passes, z
<1> QED
  BY <1>1, <1>3, <1>4 DEF z

\* With the end of a packet in its queue a channel has a block, and one of data
\* unless it is sending.
LEMMA FlowHas ==
  ASSUME NEW B, NEW c \in Chs, NEW sender, NEW q \in Seq(QBlock), NEW n \in Int, n > 0,
         NEW tx, NEW air, NEW put, NEW beg, NEW E, Flow(B, c, sender, q, n, tx, air, put, beg, E)
  PROVE  /\ q # <<>> /\ Head(q) \in QBlock /\ Head(q) \in B
         /\ sender # c => Head(q).piece # NoPiece
<1>1. PICK st \in Stages(q) :
          /\ \A i \in 1 .. Len(q) : Passes(c, st[i - 1], q[i], st[i], E)
          /\ st[Len(q)].n = st[0].n + n
          /\ IF sender = c THEN st[0].k > 0 /\ tx = Pieces(st[0]) ELSE st[0].k = 0
  BY Zenon DEF Flow
<1>2. Len(q) \in Nat /\ st[0] \in Stage
  BY DEF Stages
<1>3. q # <<>>
  <2> SUFFICES ASSUME Len(q) = 0 PROVE FALSE
    BY EmptySeq
  <2>1. st[0].n \in Int
    BY <1>2 DEF Stage
  <2> QED
    BY <1>1, <2>1
<1>4. 1 \in 1 .. Len(q) /\ Head(q) = q[1] /\ Head(q) \in QBlock
  BY <1>2, <1>3, HeadTailProperties, EmptySeq
<1>5. Passes(c, st[0], q[1], st[1], E)
  BY <1>1, <1>4
<1>6. sender # c => q[1].piece # NoPiece
  BY <1>1, <1>5 DEF Passes
<1> QED
  BY <1>3, <1>4, <1>6 DEF Flow

\* With the block b the packet ends whose pieces are those up to p.
Ends(B, c, q, n, tx, b, air, put, beg, E, p) ==
    /\ p.k > 0 /\ [ch |-> c, pieces |-> Pieces(p)] \in E
    /\ (IF b.piece = NoPiece THEN tx ELSE Append(tx, b.piece)) = Pieces(p)
    /\ \A i \in 1 .. Len(air) : \A e \in E : air[i] = e.pieces /\ e.ch = c => Pkt(e) < p.pkt
    /\ Flow(B, c, NoChan, q, n, <<>>, Append(air, Pieces(p)), put, beg, E)

\* The first block of a channel that sends or may begin to is given to the
\* board: one more piece of the packet, or the end of it.
LEMMA FlowNext ==
  ASSUME NEW B, NEW c \in Chs, NEW sender, NEW q \in Seq(QBlock), NEW n \in Int,
         NEW tx, NEW air \in Seq(Seq(Piece)), NEW put, NEW beg \in Nat,
         NEW E, Numbered(E),
         Flow(B, c, sender, q, n, tx, air, put, beg, E), q # <<>>, sender = c \/ tx = <<>>
  PROVE  /\ ~Head(q).delim =>
                Flow(B, c, c, Tail(q), n, Append(tx, Head(q).piece), air, put, beg, E)
         /\ Head(q).delim =>
                \E p \in Piece : Ends(B, c, Tail(q), n - 1, tx, Head(q), air, put, beg, E, p)
<1> DEFINE b == Head(q)
           r == Tail(q)
           m == Len(r)
<1>1. PICK st \in Stages(q) :
          /\ \A i \in 1 .. Len(q) : Passes(c, st[i - 1], q[i], st[i], E)
          /\ st[Len(q)].n = st[0].n + n
          /\ IF sender = c THEN st[0].k > 0 /\ tx = Pieces(st[0]) ELSE st[0].k = 0
          /\ put = IF st[Len(q)].k = 0 THEN NoPiece ELSE [pkt |-> st[Len(q)].pkt, k |-> st[Len(q)].k]
          /\ st[Len(q)].pkt <= beg
          /\ Sent(air, E, c, st[0])
  BY Zenon DEF Flow
<1>2. /\ b = q[1] /\ b \in QBlock /\ r \in Seq(QBlock) /\ m \in Nat /\ Len(q) = m + 1
      /\ \A i \in 1 .. m : r[i] = q[i + 1]
  <2>1. b \in QBlock /\ r \in Seq(QBlock) /\ b = q[1]
    BY HeadTailProperties
  <2>2. m = Len(q) - 1 /\ \A i \in 1 .. m : r[i] = q[i + 1]
    BY HeadTailProperties
  <2>3. m \in Nat
    BY <2>1
  <2> QED
    BY <2>1, <2>2, <2>3
<1> DEFINE x == st[0]
           y == st[1]
           p == Reached(x, b)
           s2 == [i \in 0 .. m |-> st[i + 1]]
<1> HIDE DEF b, r, m
<1>3. x \in Stage /\ y \in Stage
  BY <1>2 DEF Stages
<1>4. Passes(c, x, b, y, E)
  <2>1. 1 \in 1 .. Len(q)
    BY <1>2
  <2> QED
    BY <1>1, <1>2, <2>1
<1>5. s2 \in Stages(r)
  BY <1>2 DEF Stages, m
<1>6. \A i \in 1 .. m : Passes(c, s2[i - 1], r[i], s2[i], E)
  <2> TAKE i \in 1 .. m
  <2>1. i + 1 \in 1 .. Len(q) /\ i - 1 \in 0 .. m /\ i \in 0 .. m
    BY <1>2
  <2>2. Passes(c, st[i + 1 - 1], q[i + 1], st[i + 1], E) /\ i + 1 - 1 = i
    BY <1>1, <2>1
  <2>3. s2[i - 1] = st[i] /\ s2[i] = st[i + 1] /\ r[i] = q[i + 1]
    BY <1>2, <2>1
  <2> QED
    BY <2>2, <2>3
<1>7. s2[m] = st[Len(q)] /\ s2[0] = y
  BY <1>2
<1>8. \A i \in 1 .. m : r[i] \in B
  <2> TAKE i \in 1 .. m
  <2>1. i + 1 \in 1 .. Len(q) /\ r[i] = q[i + 1]
    BY <1>2
  <2> QED
    BY <2>1, Zenon DEF Flow
<1>9. /\ p \in Piece /\ p.k > 0 /\ y.pkt = p.pkt
      /\ x.pkt <= y.pkt /\ (x.k = 0 => x.pkt < y.pkt)
      /\ y.k = (IF b.delim THEN 0 ELSE p.k)
      /\ y.n = (IF b.delim THEN x.n + 1 ELSE x.n)
      /\ x.k > 0 => x.pkt = y.pkt
  BY <1>2, <1>3, <1>4, PassedIs
<1>10. x.pkt \in Nat /\ x.k \in Nat /\ x.n \in Int /\ b.piece \in Piece /\ p.pkt \in Nat /\ p.k \in Nat
  BY <1>2, <1>3, <1>9 DEF Stage, QBlock, Piece
<1> HIDE DEF x, y, s2, p
<1>11. Sent(air, E, c, x) /\ \A i \in 1 .. Len(air) : \A e \in E : air[i] = e.pieces /\ e.ch = c => Pkt(e) < p.pkt
  <2>1. Sent(air, E, c, x)
    BY <1>1, Zenon DEF x
  <2> SUFFICES ASSUME NEW i \in 1 .. Len(air), NEW e \in E, air[i] = e.pieces, e.ch = c
               PROVE  Pkt(e) < p.pkt
    BY <2>1, Zenon
  <2>2. Pkt(e) < x.pkt \/ (Pkt(e) = x.pkt /\ x.k = 0)
    BY <2>1, Zenon DEF Sent
  <2>3. Pkt(e) < x.pkt \/ (Pkt(e) = x.pkt /\ x.pkt < p.pkt)
    BY <1>9, <2>2, Zenon
  <2>4. x.pkt <= p.pkt
    BY <1>9, Zenon
  <2> QED
    <3>1. CASE Pkt(e) = x.pkt /\ x.pkt < p.pkt
      BY <3>1
    <3>2. CASE Pkt(e) < x.pkt
      <4>1. Pkt(e) \in Nat
        BY Zenon DEF Numbered
      <4> QED
        BY <2>4, <3>2, <4>1, <1>10
    <3> QED
      BY <2>3, <3>1, <3>2
<1>12. ASSUME b.piece # NoPiece
       PROVE  p = b.piece /\ Comes(x, p) /\ Append(tx, p) = Pieces(p)
  <2>1. p = b.piece
    BY <1>12 DEF p, Reached
  <2>2. Comes(x, p)
    BY <1>4, <1>12, <2>1 DEF Passes
  <2>3. Append(tx, p) = Pieces(p)
    <3> DEFINE o == [pkt |-> p.pkt, k |-> x.k]
    <3>1. o \in Piece /\ o.pkt = p.pkt /\ o.k = x.k
      BY <1>10 DEF Piece
    <3>2. p = [pkt |-> p.pkt, k |-> x.k + 1]
      <4>1. p = [pkt |-> p.pkt, k |-> p.k]
        BY <1>9 DEF Piece
      <4>2. p.k = x.k + 1
        BY <1>10, <2>2 DEF Comes
      <4> QED
        BY <4>1, <4>2
    <3>3. tx = Pieces(o)
      <4>1. CASE sender = c
        <5>1. tx = Pieces(x) /\ x.k > 0
          BY <1>1, <4>1, Zenon DEF x
        <5>2. x.pkt = p.pkt
          BY <1>9, <5>1
        <5> QED
          BY <5>1, <5>2, <3>1 DEF Pieces
      <4>2. CASE sender # c
        <5>1. tx = <<>> /\ x.k = 0
          BY <1>1, <4>2, Zenon DEF x
        <5> HIDE DEF o
        <5> QED
          BY <3>1, <5>1, PiecesAre
      <4> QED
        BY <4>1, <4>2
    <3> HIDE DEF o
    <3>4. Append(Pieces(o), [pkt |-> o.pkt, k |-> o.k + 1]) = Pieces([pkt |-> o.pkt, k |-> o.k + 1])
      BY <3>1, PiecesAre
    <3> QED
      BY <3>1, <3>2, <3>3, <3>4, Zenon
  <2> QED
    BY <2>1, <2>2, <2>3
<1>13. ASSUME ~b.delim
       PROVE  Flow(B, c, c, r, n, Append(tx, b.piece), air, put, beg, E)
  <2>1. b.piece # NoPiece
    BY <1>4, <1>13 DEF Passes
  <2>2. y.k = p.k
    BY <1>9, <1>13
  <2>4. y.k > 0 /\ Pieces(p) = Pieces(y)
    BY <1>9, <2>2 DEF Pieces
  <2>3. p = b.piece /\ Append(tx, p) = Pieces(p)
    BY <1>12, <2>1
  <2>5. Sent(air, E, c, y)
    BY <1>9, <1>11 DEF Sent
  <2>6. st[Len(q)].n = y.n + n
    BY <1>1, <1>9, <1>13 DEF x
  <2>7. /\ s2[m].n = s2[0].n + n
        /\ s2[0].k > 0 /\ Append(tx, b.piece) = Pieces(s2[0])
        /\ put = IF s2[m].k = 0 THEN NoPiece ELSE [pkt |-> s2[m].pkt, k |-> s2[m].k]
        /\ s2[m].pkt <= beg
        /\ Sent(air, E, c, s2[0])
    BY <1>1, <1>7, <2>1, <2>3, <2>4, <2>5, <2>6, Zenon
  <2> QED
    BY <1>5, <1>6, <1>8, <2>7, Zenon DEF Flow, m
<1>14. ASSUME b.delim = TRUE
       PROVE  /\ [ch |-> c, pieces |-> Pieces(p)] \in E
              /\ (IF b.piece = NoPiece THEN tx ELSE Append(tx, b.piece)) = Pieces(p)
              /\ Flow(B, c, NoChan, r, n - 1, <<>>, Append(air, Pieces(p)), put, beg, E)
  <2>1. [ch |-> c, pieces |-> Pieces(p)] \in E
    BY <1>4, <1>14 DEF Passes, p
  <2>2. (IF b.piece = NoPiece THEN tx ELSE Append(tx, b.piece)) = Pieces(p)
    <3>1. CASE b.piece = NoPiece
      <4>1. x.k > 0 /\ p.pkt = x.pkt /\ p.k = x.k
        BY <1>4, <3>1 DEF Passes, p, Reached
      <4>2. sender = c
        <5>1. x.k # 0
          BY <4>1
        <5> QED
          BY <1>1, <5>1, Zenon DEF x
      <4>3. tx = Pieces(x)
        BY <1>1, <4>2, Zenon DEF x
      <4>4. Pieces(x) = Pieces(p)
        BY <4>1, Zenon DEF Pieces
      <4> QED
        BY <3>1, <4>3, <4>4
    <3>2. CASE b.piece # NoPiece
      BY <1>12, <3>2
    <3> QED
      BY <3>1, <3>2
  <2> DEFINE more == Append(air, Pieces(p))
  <2>3. Sent(more, E, c, y)
    <3>1. /\ Len(more) = Len(air) + 1 /\ Len(air) \in Nat
          /\ \A i \in 1 .. Len(air) : more[i] = air[i]
          /\ more[Len(air) + 1] = Pieces(p)
      <4>1. Pieces(p) \in Seq(Piece)
        BY <1>9, PiecesAre
      <4> QED
        BY <4>1
    <3> HIDE DEF more
    <3> SUFFICES ASSUME NEW i \in 1 .. Len(more), NEW e \in E, more[i] = e.pieces, e.ch = c
                 PROVE  Pkt(e) < y.pkt \/ Pkt(e) = y.pkt
      BY <1>9, <1>14, Zenon DEF Sent
    <3>2. CASE i \in 1 .. Len(air)
      BY <1>9, <1>11, <3>1, <3>2
    <3>3. CASE i = Len(air) + 1
      <4>1. e.pieces = Pieces(p)
        BY <3>1, <3>3
      <4>2. Pieces(p)[1].pkt = p.pkt
        BY <1>9, PiecesAre
      <4> QED
        BY <1>9, <4>1, <4>2, Zenon DEF Pkt
    <3> QED
      BY <3>1, <3>2, <3>3
  <2>4. y.k = 0 /\ NoChan # c
    <3>1. NoChan # c
      BY StreamsAssumption DEF Chs, NoChan
    <3> QED
      BY <1>9, <1>14, <3>1
  <2>5. st[Len(q)].n = y.n + (n - 1)
    <3>1. y.n = x.n + 1
      BY <1>9, <1>14
    <3>2. st[Len(q)].n = x.n + n
      BY <1>1 DEF x
    <3>3. \A a, k \in Int : a + k = (a + 1) + (k - 1)
      OBVIOUS
    <3> QED
      BY <1>10, <3>1, <3>2, <3>3, Zenon
  <2>6. /\ s2[m].n = s2[0].n + (n - 1)
        /\ IF NoChan = c THEN s2[0].k > 0 /\ <<>> = Pieces(s2[0]) ELSE s2[0].k = 0
        /\ put = IF s2[m].k = 0 THEN NoPiece ELSE [pkt |-> s2[m].pkt, k |-> s2[m].k]
        /\ s2[m].pkt <= beg
        /\ Sent(more, E, c, s2[0])
    <3> HIDE DEF more
    <3> QED
      BY <1>1, <1>7, <2>3, <2>4, <2>5, Zenon
  <2>7. Flow(B, c, NoChan, r, n - 1, <<>>, more, put, beg, E)
    <3> HIDE DEF more
    <3> QED
      BY <1>5, <1>6, <1>8, <2>6, Zenon DEF Flow, m
  <2> QED
    BY <2>1, <2>2, <2>7
<1>15. b.delim \in BOOLEAN
  BY <1>2 DEF QBlock
<1>16. b.delim = TRUE => Ends(B, c, r, n - 1, tx, b, air, put, beg, E, p)
  BY <1>9, <1>11, <1>14, Zenon DEF Ends
<1> QED
  BY <1>9, <1>13, <1>15, <1>16, Zenon DEF b, r

\* What other channels do, and what comes of it, is nothing to channel c.
Beside(c, sender, tx, air, E, sender2, tx2, air2, E2) ==
    /\ E \subseteq E2 /\ (sender2 = c <=> sender = c) /\ (sender = c => tx2 = tx)
    /\ \A i \in 1 .. Len(air2) : \A e \in E2 : air2[i] = e.pieces /\ e.ch = c
           => e \in E /\ \E j \in 1 .. Len(air) : air[j] = e.pieces

LEMMA FlowKept ==
  ASSUME NEW B, NEW c \in Chs, NEW sender, NEW q \in Seq(QBlock), NEW n \in Int,
         NEW tx, NEW air, NEW put, NEW beg \in Nat, NEW E,
         Flow(B, c, sender, q, n, tx, air, put, beg, E),
         NEW sender2, NEW tx2, NEW air2, NEW beg2 \in Nat, NEW E2,
         beg <= beg2, Beside(c, sender, tx, air, E, sender2, tx2, air2, E2)
  PROVE  Flow(B, c, sender2, q, n, tx2, air2, put, beg2, E2)
<1>1. PICK st \in Stages(q) :
          /\ \A i \in 1 .. Len(q) : Passes(c, st[i - 1], q[i], st[i], E)
          /\ st[Len(q)].n = st[0].n + n
          /\ IF sender = c THEN st[0].k > 0 /\ tx = Pieces(st[0]) ELSE st[0].k = 0
          /\ put = IF st[Len(q)].k = 0 THEN NoPiece ELSE [pkt |-> st[Len(q)].pkt, k |-> st[Len(q)].k]
          /\ st[Len(q)].pkt <= beg
          /\ Sent(air, E, c, st[0])
  BY Zenon DEF Flow
<1>2. \A i \in 1 .. Len(q) : Passes(c, st[i - 1], q[i], st[i], E2)
  <2>1. E \subseteq E2
    BY DEF Beside
  <2> QED
    BY <1>1, <2>1 DEF Passes
<1>3. st[Len(q)].pkt <= beg2
  <2>1. Len(q) \in 0 .. Len(q)
    OBVIOUS
  <2>2. st[Len(q)].pkt \in Nat
    BY <2>1 DEF Stages, Stage
  <2> QED
    BY <1>1, <2>2
<1>4. Sent(air2, E2, c, st[0])
  BY <1>1, Zenon DEF Sent, Beside
<1>5. IF sender2 = c THEN st[0].k > 0 /\ tx2 = Pieces(st[0]) ELSE st[0].k = 0
  BY <1>1, Zenon DEF Beside
<1> QED
  BY <1>1, <1>2, <1>3, <1>4, <1>5, Zenon DEF Flow

\* The protocol of channel c puts block b, which takes its packet to piece z.
LEMMA FlowPut ==
  ASSUME NEW B, NEW c \in Chs, NEW sender, NEW q \in Seq(QBlock), NEW n \in Int,
         NEW tx, NEW air, NEW put \in Piece, NEW beg \in Nat, NEW E,
         Flow(B, c, sender, q, n, tx, air, put, beg, E),
         NEW b \in QBlock, b \in B, NEW z \in Piece, z.k > 0,
         IF b.piece = NoPiece THEN b.delim /\ put # NoPiece /\ z = put
         ELSE b.piece = z /\ IF put = NoPiece THEN z.pkt > beg /\ z.k = 1
                             ELSE z.pkt = put.pkt /\ z.k = put.k + 1,
         NEW beg2 \in Nat, z.pkt <= beg2, NEW E2, E \subseteq E2,
         b.delim => [ch |-> c, pieces |-> Pieces(z)] \in E2,
         \A i \in 1 .. Len(air) : \A e \in E2 : air[i] = e.pieces => e \in E
  PROVE  Flow(B, c, sender, Append(q, b), IF b.delim THEN n + 1 ELSE n, tx, air,
              IF b.delim THEN NoPiece ELSE z, beg2, E2)
<1> DEFINE m == Len(q)
           r == Append(q, b)
<1>1. PICK st \in Stages(q) :
          /\ \A i \in 1 .. Len(q) : Passes(c, st[i - 1], q[i], st[i], E)
          /\ st[Len(q)].n = st[0].n + n
          /\ IF sender = c THEN st[0].k > 0 /\ tx = Pieces(st[0]) ELSE st[0].k = 0
          /\ put = IF st[Len(q)].k = 0 THEN NoPiece ELSE [pkt |-> st[Len(q)].pkt, k |-> st[Len(q)].k]
          /\ st[Len(q)].pkt <= beg
          /\ Sent(air, E, c, st[0])
  BY Zenon DEF Flow
<1> DEFINE x == st[m]
           k == IF b.delim THEN 0 ELSE z.k
           a == IF b.delim THEN x.n + 1 ELSE x.n
           y == [pkt |-> z.pkt, k |-> k, n |-> a]
           s2 == [i \in 0 .. m + 1 |-> IF i <= m THEN st[i] ELSE y]
<1>2. /\ m \in Nat /\ r \in Seq(QBlock) /\ Len(r) = m + 1
      /\ \A i \in 1 .. m : r[i] = q[i]
      /\ r[m + 1] = b
  OBVIOUS
<1> HIDE DEF r, m
<1>3. x \in Stage /\ st[0] \in Stage
  BY <1>2 DEF Stages, m
<1>4. x.pkt \in Nat /\ x.k \in Nat /\ x.n \in Int /\ z.pkt \in Nat /\ z.k \in Nat
  BY <1>3 DEF Stage, Piece
<1>5. k \in Nat /\ a \in Int
  BY <1>4
<1> HIDE DEF k, a
<1>6. y \in Stage /\ y.pkt = z.pkt /\ y.k = k /\ y.n = a
  BY <1>4, <1>5 DEF Stage
<1>7. /\ s2 \in Stages(r) /\ s2[0] = st[0] /\ s2[m + 1] = y
      /\ \A i \in 0 .. m : s2[i] = st[i]
  <2> HIDE DEF y
  <2>1. \A i \in 0 .. m + 1 : (IF i <= m THEN st[i] ELSE y) \in Stage
    BY <1>2, <1>6 DEF Stages, m
  <2> QED
    BY <1>2, <2>1 DEF Stages
<1>8. Passes(c, x, b, y, E2)
  <2>1. put = IF x.k = 0 THEN NoPiece ELSE [pkt |-> x.pkt, k |-> x.k]
    BY <1>1, Zenon DEF m
  <2>2. put # NoPiece <=> x.k > 0
    BY <1>4, <2>1 DEF NoPiece
  <2>3. x.k > 0 => put.pkt = x.pkt /\ put.k = x.k /\ put = [pkt |-> x.pkt, k |-> x.k]
    BY <1>4, <2>1
  <2>4. x.pkt <= beg
    BY <1>1, Zenon DEF m
  <2>5. IF b.piece = NoPiece THEN b.delim /\ x.k > 0 ELSE Comes(x, b.piece)
    BY <1>4, <2>2, <2>3, <2>4 DEF Comes
  <2>6. Reached(x, b) = z
    BY <2>2, <2>3, Zenon DEF Reached
  <2>7. y = IF b.delim THEN [pkt |-> z.pkt, k |-> 0, n |-> x.n + 1] ELSE [pkt |-> z.pkt, k |-> z.k, n |-> x.n]
    BY DEF k, a
  <2> QED
    BY <2>5, <2>6, <2>7, Zenon DEF Passes
<1> HIDE DEF y, s2
<1>9. \A i \in 1 .. m + 1 : Passes(c, s2[i - 1], r[i], s2[i], E2)
  <2> TAKE i \in 1 .. m + 1
  <2>1. CASE i \in 1 .. m
    <3>1. i - 1 \in 0 .. m /\ i \in 0 .. m
      BY <1>2, <2>1
    <3>2. s2[i - 1] = st[i - 1] /\ s2[i] = st[i] /\ r[i] = q[i]
      BY <1>2, <1>7, <2>1, <3>1, Zenon
    <3>3. Passes(c, st[i - 1], q[i], st[i], E)
      BY <1>1, <2>1, Zenon DEF m
    <3>4. Passes(c, st[i - 1], q[i], st[i], E2)
      BY <3>3, Zenon DEF Passes
    <3> QED
      BY <3>2, <3>4, Zenon
  <2>2. CASE i = m + 1
    <3>1. i - 1 = m /\ m \in 0 .. m
      BY <1>2, <2>2
    <3> QED
      BY <1>2, <1>7, <1>8, <2>2, <3>1, Zenon DEF x
  <2> QED
    BY <1>2, <2>1, <2>2
<1>10. \A i \in 1 .. m + 1 : r[i] \in B
  <2> TAKE i \in 1 .. m + 1
  <2>1. CASE i \in 1 .. m
    BY <1>2, <2>1, Zenon DEF Flow, m
  <2>2. CASE i = m + 1
    BY <1>2, <2>2
  <2> QED
    BY <1>2, <2>1, <2>2
<1>11. s2[m + 1].n = s2[0].n + (IF b.delim THEN n + 1 ELSE n)
  <2>1. x.n = st[0].n + n /\ st[0].n \in Int
    BY <1>1, <1>3 DEF x, m, Stage
  <2>2. a = st[0].n + (IF b.delim THEN n + 1 ELSE n)
    <3>1. \A u, v \in Int : (u + v) + 1 = u + (v + 1)
      OBVIOUS
    <3> QED
      BY <2>1, <3>1, Zenon DEF a
  <2> QED
    BY <1>6, <1>7, <2>2, Zenon
<1>12. (IF b.delim THEN NoPiece ELSE z) = IF s2[m + 1].k = 0 THEN NoPiece ELSE [pkt |-> s2[m + 1].pkt, k |-> s2[m + 1].k]
  <2>1. z = [pkt |-> z.pkt, k |-> z.k]
    BY DEF Piece
  <2>2. k = (IF b.delim THEN 0 ELSE z.k) /\ z.k # 0
    BY <1>4 DEF k
  <2> QED
    BY <1>6, <1>7, <2>1, <2>2, Zenon
<1>13. s2[m + 1].pkt <= beg2
  BY <1>6, <1>7, Zenon
<1>14. Sent(air, E2, c, s2[0])
  BY <1>1, <1>7, Zenon DEF Sent
<1>15. IF sender = c THEN s2[0].k > 0 /\ tx = Pieces(s2[0]) ELSE s2[0].k = 0
  BY <1>1, <1>7, Zenon
<1>16. m + 1 = Len(r)
  BY <1>2
<1> QED
  BY <1>7, <1>9, <1>10, <1>11, <1>12, <1>13, <1>14, <1>15, <1>16, Zenon DEF Flow, r

\* The packets that were put to their end, and those that were not: each has
\* a number of its own.
Puts == [Chs -> Piece]
Ledger(put, beg, E) ==
    /\ \A e \in E : /\ e \in Packet
                    /\ \E p \in Piece : p.k > 0 /\ p.pkt \in 1 .. beg /\ e.pieces = Pieces(p)
    /\ \A e, f \in E : Pkt(e) = Pkt(f) => e = f
    /\ \A c \in Chs : put[c] # NoPiece =>
           /\ put[c].k > 0 /\ put[c].pkt \in 1 .. beg
           /\ \A e \in E : Pkt(e) # put[c].pkt
    /\ \A c, d \in Chs : put[c] # NoPiece /\ put[d] # NoPiece /\ put[c].pkt = put[d].pkt => c = d

\* WholePackets, of what has gone out and of the packets put to their end.
Whole(air, E) ==
    /\ \A i \in 1 .. Len(air) : \E e \in E : air[i] = e.pieces
    /\ \A i, j \in 1 .. Len(air) : \A e, f \in E :
           i < j /\ air[i] = e.pieces /\ air[j] = f.pieces
               => e # f /\ (e.ch = f.ch => Pkt(e) < Pkt(f))

\* All channels, of which sender is in the middle of a packet.
Flows(B, sender, q, n, tx, air, put, beg, E) ==
    /\ \A c \in Chs : Flow(B, c, sender, q[c], n[c], tx, air, put[c], beg, E)
    /\ sender = NoChan => tx = <<>>
    /\ Ledger(put, beg, E) /\ Whole(air, E)

LEMMA LedgerHas ==
  ASSUME NEW put, NEW beg \in Nat, NEW E, Ledger(put, beg, E), NEW e \in E
  PROVE  e \in Packet /\ Pkt(e) \in 1 .. beg
<1>1. PICK p \in Piece : p.k > 0 /\ p.pkt \in 1 .. beg /\ e.pieces = Pieces(p)
  BY DEF Ledger
<1>2. Pkt(e) = p.pkt
  BY <1>1, PiecesAre DEF Pkt
<1> QED
  BY <1>1, <1>2 DEF Ledger

\* A packet goes out whose pieces are those of e, of channel c.
LEMMA WholeGrows ==
  ASSUME NEW put, NEW beg \in Nat, NEW E, Ledger(put, beg, E),
         NEW air \in Seq(Seq(Piece)), Whole(air, E), NEW g \in E,
         \A i \in 1 .. Len(air) : \A e \in E : air[i] = e.pieces /\ e.ch = g.ch => Pkt(e) < Pkt(g)
  PROVE  Whole(Append(air, g.pieces), E)
<1> DEFINE more == Append(air, g.pieces)
           m == Len(air)
<1>1. g.pieces \in Seq(Piece)
  BY LedgerHas DEF Packet
<1>2. /\ Len(more) = m + 1 /\ m \in Nat /\ more[m + 1] = g.pieces
      /\ \A i \in 1 .. m : more[i] = air[i]
  BY <1>1
<1> HIDE DEF more, m
<1>3. \A i \in 1 .. Len(more) : \E e \in E : more[i] = e.pieces
  <2> TAKE i \in 1 .. Len(more)
  <2>1. i \in 1 .. m \/ i = m + 1
    BY <1>2
  <2> QED
    BY <1>2, <2>1, Zenon DEF Whole, m
<1>4. ASSUME NEW i \in 1 .. Len(more), NEW j \in 1 .. Len(more), NEW e \in E, NEW f \in E,
             i < j, more[i] = e.pieces, more[j] = f.pieces
      PROVE  e # f /\ (e.ch = f.ch => Pkt(e) < Pkt(f))
  <2>1. i \in 1 .. m
    BY <1>2, <1>4
  <2>2. CASE j \in 1 .. m
    BY <1>2, <1>4, <2>1, <2>2, Zenon DEF Whole, m
  <2>3. CASE j = m + 1
    <3>1. f.pieces = g.pieces
      BY <1>2, <1>4, <2>3, Zenon
    <3>2. f = g
      BY <3>1, Zenon DEF Ledger, Pkt
    <3>3. air[i] = e.pieces
      BY <1>2, <1>4, <2>1, Zenon
    <3>4. e.ch = g.ch => Pkt(e) < Pkt(g)
      BY <2>1, <3>3, Zenon DEF m
    <3>5. Pkt(g) \in Nat
      BY LedgerHas
    <3>6. ~(Pkt(g) < Pkt(g))
      BY <3>5
    <3> QED
      BY <3>2, <3>4, <3>6, Zenon
  <2> QED
    BY <1>2, <2>2, <2>3
<1> QED
  BY <1>3, <1>4, Zenon DEF Whole, more

\* A packet that is put to its end has a number of its own.
LEMMA WholeKept ==
  ASSUME NEW put, NEW beg \in Nat, NEW E, Ledger(put, beg, E), NEW air, Whole(air, E),
         NEW g, \A e \in E : Pkt(e) # Pkt(g)
  PROVE  /\ Whole(air, E \cup {g})
         /\ \A i \in 1 .. Len(air) : \A e \in E \cup {g} : air[i] = e.pieces => e \in E
<1>1. ASSUME NEW i \in 1 .. Len(air), NEW e \in E \cup {g}, air[i] = e.pieces
      PROVE  e \in E
  <2>1. PICK f \in E : air[i] = f.pieces
    BY DEF Whole
  <2>2. Pkt(f) = Pkt(e)
    BY <1>1, <2>1, Zenon DEF Pkt
  <2> QED
    BY <2>2
<1>2. Whole(air, E \cup {g})
  BY <1>1, Zenon DEF Whole
<1> QED
  BY <1>1, <1>2

LEMMA FlowsSend ==
  ASSUME NEW B, NEW sender \in Channel, NEW q \in Queues, NEW n \in Counts,
         NEW tx, NEW air \in Seq(Seq(Piece)), NEW put, NEW beg \in Nat, NEW E,
         Flows(B, sender, q, n, tx, air, put, beg, E),
         NEW c \in Chs, sender \in {NoChan, c}, q[c] # <<>>
  PROVE  LET b == Head(q[c])
             z == Append(tx, b.piece)
             w == IF b.piece = NoPiece THEN tx ELSE Append(tx, b.piece)
         IN  /\ ~b.delim => Flows(B, c, Shifted(q, c), n, z, air, put, beg, E)
             /\ b.delim => Flows(B, NoChan, Shifted(q, c), [n EXCEPT ![c] = @ - 1], <<>>,
                                 Append(air, w), put, beg, E)
<1> DEFINE b == Head(q[c])
           z == Append(tx, b.piece)
           w == IF b.piece = NoPiece THEN tx ELSE Append(tx, b.piece)
           r == Shifted(q, c)
<1>1. /\ \A e \in Chs : q[e] \in Seq(QBlock) /\ n[e] \in Int
      /\ \A e \in Chs : Flow(B, e, sender, q[e], n[e], tx, air, put[e], beg, E)
      /\ Ledger(put, beg, E) /\ Whole(air, E)
  BY DEF Queues, Counts, Flows
<1>2. Numbered(E)
  <2> SUFFICES ASSUME NEW e \in E PROVE Pkt(e) \in Nat
    BY DEF Numbered
  <2>1. Pkt(e) \in 1 .. beg
    BY <1>1, LedgerHas
  <2> QED
    BY <2>1
<1>3. sender = c \/ tx = <<>>
  BY Zenon DEF Flows
<1>4. r[c] = Tail(q[c]) /\ \A e \in Chs : e # c => r[e] = q[e]
  BY ShiftedIs
<1>5. c # NoChan
  BY StreamsAssumption DEF Chs, NoChan
<1> DEFINE Q == q[c]
           N == n[c]
           P == put[c]
<1>6. Q \in Seq(QBlock) /\ N \in Int /\ Flow(B, c, sender, Q, N, tx, air, P, beg, E) /\ Q # <<>>
  BY <1>1
<1>7. /\ ~Head(Q).delim => Flow(B, c, c, Tail(Q), N, Append(tx, Head(Q).piece), air, P, beg, E)
      /\ Head(Q).delim =>
             \E p \in Piece : Ends(B, c, Tail(Q), N - 1, tx, Head(Q), air, P, beg, E, p)
  <2> HIDE DEF Q, N, P
  <2> QED
    BY <1>2, <1>3, <1>6, FlowNext
<1>8. ASSUME ~b.delim
      PROVE  Flows(B, c, r, n, z, air, put, beg, E)
  <2>1. ASSUME NEW e \in Chs
        PROVE  Flow(B, e, c, r[e], n[e], z, air, put[e], beg, E)
    <3>1. CASE e = c
      BY <1>4, <1>7, <1>8, <3>1, Zenon
    <3>2. CASE e # c
      <4>0. sender # e /\ c # e
        <5>1. e # NoChan
          BY StreamsAssumption DEF Chs, NoChan
        <5> QED
          BY <3>2, <5>1
      <4> DEFINE Qe == q[e]
                 Ne == n[e]
                 Pe == put[e]
                 S  == sender
                 S2 == c
                 T  == z
                 A2 == air
                 E2 == E
                 g2 == beg
      <4>1. Qe \in Seq(QBlock) /\ Ne \in Int /\ Flow(B, e, S, Qe, Ne, tx, air, Pe, beg, E)
        BY <1>1
      <4>2. Beside(e, S, tx, air, E, S2, T, A2, E2) /\ beg <= g2 /\ g2 \in Nat
        BY <4>0 DEF Beside
      <4> HIDE DEF Qe, Ne, Pe, S, S2, T, A2, E2, g2
      <4>3. Flow(B, e, S2, Qe, Ne, T, A2, Pe, g2, E2)
        BY <4>1, <4>2, FlowKept
      <4> QED
        BY <1>4, <3>2, <4>3, Zenon DEF Qe, Ne, Pe, S2, T, A2, E2, g2
    <3> QED
      BY <3>1, <3>2
  <2> QED
    BY <1>1, <1>5, <2>1, Zenon DEF Flows
<1>9. ASSUME b.delim
      PROVE  Flows(B, NoChan, r, [n EXCEPT ![c] = @ - 1], <<>>, Append(air, w), put, beg, E)
  <2> DEFINE k == [n EXCEPT ![c] = @ - 1]
  <2>0. k[c] = n[c] - 1 /\ \A e \in Chs : e # c => k[e] = n[e]
    BY DEF Counts
  <2>1. PICK p \in Piece :
                    /\ p.k > 0 /\ [ch |-> c, pieces |-> Pieces(p)] \in E /\ w = Pieces(p)
                    /\ \A i \in 1 .. Len(air) : \A e \in E :
                           air[i] = e.pieces /\ e.ch = c => Pkt(e) < p.pkt
                    /\ Flow(B, c, NoChan, Tail(Q), N - 1, <<>>, Append(air, Pieces(p)), P, beg, E)
    BY <1>7, <1>9, Zenon DEF Ends
  <2> DEFINE g == [ch |-> c, pieces |-> Pieces(p)]
             more == Append(air, w)
  <2>2. g \in E /\ g.ch = c /\ g.pieces = w /\ Pkt(g) = p.pkt
    <3>1. g.ch = c /\ g.pieces = Pieces(p)
      OBVIOUS
    <3>2. Pkt(g) = p.pkt
      BY <2>1, <3>1, PiecesAre DEF Pkt
    <3> QED
      BY <2>1, <3>1, <3>2
  <2> HIDE DEF k, g, w
  <2>3. Whole(more, E)
    <3>1. \A i \in 1 .. Len(air) : \A e \in E : air[i] = e.pieces /\ e.ch = g.ch => Pkt(e) < Pkt(g)
      BY <2>1, <2>2, Zenon
    <3>2. Whole(Append(air, g.pieces), E)
      BY <1>1, <2>2, <3>1, WholeGrows
    <3> QED
      BY <2>2, <3>2
  <2>4. /\ Len(more) = Len(air) + 1 /\ Len(air) \in Nat /\ more[Len(air) + 1] = w
        /\ \A i \in 1 .. Len(air) : more[i] = air[i]
    <3>1. w \in Seq(Piece)
      BY <2>1, PiecesAre
    <3> QED
      BY <3>1
  <2> HIDE DEF more
  <2>5. ASSUME NEW e \in Chs
        PROVE  Flow(B, e, NoChan, r[e], k[e], <<>>, more, put[e], beg, E)
    <3>1. CASE e = c
      BY <1>4, <2>0, <2>1, <3>1, Zenon DEF more
    <3>2. CASE e # c
      <4>0. sender # e /\ NoChan # e
        <5>1. e # NoChan
          BY StreamsAssumption DEF Chs, NoChan
        <5> QED
          BY <3>2, <5>1
      <4> DEFINE Qe == q[e]
                 Ne == n[e]
                 Pe == put[e]
                 S  == sender
                 S2 == NoChan
                 T2 == <<>>
      <4>1. Qe \in Seq(QBlock) /\ Ne \in Int /\ Flow(B, e, S, Qe, Ne, tx, air, Pe, beg, E)
        BY <1>1
      <4>2. ASSUME NEW i \in 1 .. Len(more), NEW f \in E, more[i] = f.pieces, f.ch = e
            PROVE  f \in E /\ \E j \in 1 .. Len(air) : air[j] = f.pieces
        <5>1. CASE i \in 1 .. Len(air)
          BY <2>4, <4>2, <5>1, Zenon
        <5>2. CASE i = Len(air) + 1
          <6>1. Pkt(f) = Pkt(g)
            BY <2>2, <2>4, <4>2, <5>2, Zenon DEF Pkt
          <6>2. f = g
            BY <1>1, <2>2, <6>1, Zenon DEF Ledger
          <6> QED
            BY <2>2, <3>2, <4>2, <6>2
        <5> QED
          BY <2>4, <5>1, <5>2
      <4>3. (S2 = e <=> S = e) /\ (S = e => T2 = tx)
        BY <4>0
      <4> HIDE DEF Qe, Ne, Pe, S, S2, T2
      <4>4. Beside(e, S, tx, air, E, S2, T2, more, E) /\ beg <= beg
        BY <4>2, <4>3 DEF Beside
      <4>5. Flow(B, e, S2, Qe, Ne, T2, more, Pe, beg, E)
        BY <4>1, <4>4, FlowKept
      <4> QED
        BY <1>4, <2>0, <3>2, <4>5, Zenon DEF Qe, Ne, Pe, S2, T2
    <3> QED
      BY <3>1, <3>2
  <2> QED
    BY <1>1, <2>3, <2>5, Zenon DEF Flows, k, more
<1> QED
  BY <1>8, <1>9, Zenon DEF b

\* Where a packet is complete, there is a block to send.
LEMMA FlowsHave ==
  ASSUME NEW B, NEW sender \in Channel, NEW q \in Queues, NEW n \in Counts,
         NEW tx, NEW air, NEW put, NEW beg, NEW E, Flows(B, sender, q, n, tx, air, put, beg, E),
         NEW c \in Chs, n[c] > 0
  PROVE  /\ q[c] # <<>> /\ Head(q[c]) \in QBlock /\ Head(q[c]) \in B
         /\ sender # c => Head(q[c]).piece # NoPiece
<1> DEFINE Q == q[c]
           N == n[c]
           P == put[c]
<1>1. Q \in Seq(QBlock) /\ N \in Int /\ N > 0 /\ Flow(B, c, sender, Q, N, tx, air, P, beg, E)
  BY DEF Queues, Counts, Flows
<1> HIDE DEF Q, N, P
<1>2. Q # <<>> /\ Head(Q) \in QBlock /\ Head(Q) \in B /\ (sender # c => Head(Q).piece # NoPiece)
  BY <1>1, FlowHas
<1> QED
  BY <1>2, Zenon DEF Q

LEMMA FlowsInit ==
  ASSUME NEW B
  PROVE  Flows(B, NoChan, [c \in Chs |-> <<>>], [c \in Chs |-> 0], <<>>, <<>>,
               [c \in Chs |-> NoPiece], 0, {})
<1>1. ASSUME NEW c \in Chs
      PROVE  Flow(B, c, NoChan, <<>>, 0, <<>>, <<>>, NoPiece, 0, {})
  <2> DEFINE x == [pkt |-> 0, k |-> 0, n |-> 0]
             st == [i \in 0 .. 0 |-> x]
  <2>1. x \in Stage /\ x.pkt = 0 /\ x.k = 0 /\ x.n = 0
    BY DEF Stage
  <2>2. Len(<<>>) = 0
    OBVIOUS
  <2>3. st \in Stages(<<>>) /\ st[0] = x
    BY <2>1, <2>2 DEF Stages
  <2> HIDE DEF x, st
  <2>4. NoChan # c
    BY StreamsAssumption DEF Chs, NoChan
  <2>5. /\ \A i \in 1 .. Len(<<>>) : <<>>[i] \in B /\ Passes(c, st[i - 1], <<>>[i], st[i], {})
        /\ st[Len(<<>>)].n = st[0].n + 0
        /\ IF NoChan = c THEN st[0].k > 0 /\ <<>> = Pieces(st[0]) ELSE st[0].k = 0
        /\ NoPiece = IF st[Len(<<>>)].k = 0 THEN NoPiece ELSE [pkt |-> st[Len(<<>>)].pkt, k |-> st[Len(<<>>)].k]
        /\ st[Len(<<>>)].pkt <= 0
    BY <2>1, <2>2, <2>3, <2>4
  <2>6. Sent(<<>>, {}, c, st[0])
    BY Zenon DEF Sent
  <2> QED
    BY <2>3, <2>5, <2>6, Zenon DEF Flow
<1>2. Ledger([c \in Chs |-> NoPiece], 0, {})
  BY DEF Ledger
<1>3. Whole(<<>>, {})
  BY DEF Whole
<1> QED
  BY <1>1, <1>2, <1>3, Zenon DEF Flows

\* What is put next, and to where it takes a packet.
Following(p, beg) == IF p = NoPiece THEN [pkt |-> beg + 1, k |-> 1] ELSE [p EXCEPT !.k = @ + 1]
Target(b, p)      == IF b.piece = NoPiece THEN p ELSE b.piece
MayFollow(b, p, beg) ==
    IF b.piece = NoPiece THEN b.delim /\ p # NoPiece ELSE b.piece = Following(p, beg)

\* What comes of block b on channel c: of the queues, the ends of packets in
\* them, the pieces put last, the packets begun and those put to their end.
Queued(q, c, b)     == [q EXCEPT ![c] = Append(@, b)]
Counted(n, c, b)    == IF b.delim THEN [n EXCEPT ![c] = @ + 1] ELSE n
PutAlready(put, c, b) == [put EXCEPT ![c] = IF b.delim THEN NoPiece ELSE Target(b, put[c])]
Begins(b, p, beg)   == IF b.piece # NoPiece /\ p = NoPiece THEN beg + 1 ELSE beg
EndedBy(E, c, b, p) ==
    IF b.delim THEN E \cup {[ch |-> c, pieces |-> Pieces(Target(b, p))]} ELSE E

\* The protocol of channel c puts block b.
LEMMA FlowsPut ==
  ASSUME NEW B, NEW sender \in Channel, NEW q \in Queues, NEW n \in Counts,
         NEW tx, NEW air, NEW put \in Puts, NEW beg \in Nat, NEW E,
         Flows(B, sender, q, n, tx, air, put, beg, E),
         NEW c \in Chs, NEW b \in QBlock, b \in B,
         MayFollow(b, put[c], beg)
  PROVE  /\ Flows(B, sender, Queued(q, c, b), Counted(n, c, b), tx, air, PutAlready(put, c, b),
                  Begins(b, put[c], beg), EndedBy(E, c, b, put[c]))
         /\ PutAlready(put, c, b) \in Puts /\ Begins(b, put[c], beg) \in Nat
<1> DEFINE p == put[c]
           z == Target(b, p)
           g == [ch |-> c, pieces |-> Pieces(z)]
           beg2 == IF b.piece # NoPiece /\ p = NoPiece THEN beg + 1 ELSE beg
           E2 == IF b.delim THEN E \cup {g} ELSE E
           put2 == [put EXCEPT ![c] = IF b.delim THEN NoPiece ELSE z]
           q2 == [q EXCEPT ![c] = Append(@, b)]
           n2 == IF b.delim THEN [n EXCEPT ![c] = @ + 1] ELSE n
<1>1. /\ \A e \in Chs : q[e] \in Seq(QBlock) /\ n[e] \in Int /\ put[e] \in Piece
      /\ \A e \in Chs : Flow(B, e, sender, q[e], n[e], tx, air, put[e], beg, E)
      /\ Ledger(put, beg, E) /\ Whole(air, E)
  BY DEF Queues, Counts, Flows, Puts
<1>2. beg2 \in Nat /\ beg <= beg2 /\ p \in Piece /\ b.piece \in Piece /\ b.delim \in BOOLEAN
  BY <1>1 DEF QBlock
\* A packet that was begun goes on; any other gets the next number.
<1>3. /\ z \in Piece /\ z.k > 0 /\ z.pkt \in 1 .. beg2 /\ beg2 \in Nat
      /\ IF b.piece = NoPiece THEN b.delim /\ p # NoPiece /\ z = p
         ELSE b.piece = z /\ IF p = NoPiece THEN z.pkt > beg /\ z.k = 1
                             ELSE z.pkt = p.pkt /\ z.k = p.k + 1
      /\ p # NoPiece => z.pkt = p.pkt /\ p.pkt \in 1 .. beg
      /\ p = NoPiece => z.pkt = beg + 1
  <2>1. p.pkt \in Nat /\ p.k \in Nat
    BY <1>2 DEF Piece
  <2>2. p # NoPiece => p.k > 0 /\ p.pkt \in 1 .. beg
    BY <1>1 DEF Ledger
  <2>3. CASE b.piece = NoPiece
    <3>1. z = p /\ p # NoPiece /\ beg2 = beg /\ b.delim
      BY <2>3 DEF Target, MayFollow
    <3> HIDE DEF p, z, beg2
    <3> QED
      BY <1>2, <2>1, <2>2, <2>3, <3>1
  <2>4. CASE b.piece # NoPiece
    <3>1. z = b.piece /\ z = Following(p, beg)
      BY <2>4 DEF Target, MayFollow
    <3>2. CASE p = NoPiece
      <4>1. z = [pkt |-> beg + 1, k |-> 1] /\ beg2 = beg + 1
        BY <2>4, <3>1, <3>2 DEF Following
      <4>2. z.pkt = beg + 1 /\ z.k = 1
        BY <4>1
      <4> HIDE DEF p, z, beg2
      <4> QED
        BY <1>2, <2>1, <2>2, <2>4, <3>1, <3>2, <4>1, <4>2
    <3>3. CASE p # NoPiece
      <4>1. z = [p EXCEPT !.k = @ + 1] /\ beg2 = beg
        BY <2>4, <3>1, <3>3 DEF Following
      <4>2. z.pkt = p.pkt /\ z.k = p.k + 1
        BY <1>2, <4>1 DEF Piece
      <4> HIDE DEF p, z, beg2
      <4> QED
        BY <1>2, <2>1, <2>2, <2>4, <3>1, <3>3, <4>1, <4>2
    <3> QED
      BY <3>2, <3>3
  <2> QED
    BY <2>3, <2>4
<1>4. /\ q2[c] = Append(q[c], b) /\ n2[c] = (IF b.delim THEN n[c] + 1 ELSE n[c])
      /\ put2[c] = (IF b.delim THEN NoPiece ELSE z)
      /\ \A e \in Chs : e # c => q2[e] = q[e] /\ n2[e] = n[e] /\ put2[e] = put[e]
  <2> HIDE DEF z
  <2>1. DOMAIN q = Chs /\ DOMAIN n = Chs /\ DOMAIN put = Chs
    BY DEF Queues, Counts, Puts
  <2> QED
    BY <2>1
<1>5. put2 \in Puts
  <2> DEFINE v == IF b.delim THEN NoPiece ELSE z
  <2>1. v \in Piece
    BY <1>3 DEF NoPiece, Piece
  <2>2. put2 = [put EXCEPT ![c] = v]
    OBVIOUS
  <2> HIDE DEF v, put2
  <2> QED
    BY <2>1, <2>2 DEF Puts
<1> HIDE DEF p, z, beg2, put2, q2, n2
<1>6. g.ch = c /\ g.pieces = Pieces(z) /\ Pkt(g) = z.pkt /\ g \in Packet /\ E \subseteq E2
  <2>1. Pieces(z) \in Seq(Piece) /\ Pieces(z)[1].pkt = z.pkt
    BY <1>3, PiecesAre
  <2>2. g.ch = c /\ g.pieces = Pieces(z)
    OBVIOUS
  <2>3. g \in Packet
    BY <2>1 DEF Packet
  <2> QED
    BY <2>1, <2>2, <2>3, Zenon DEF Pkt
<1> HIDE DEF g
<1>7. \A e \in E : Pkt(e) # z.pkt
  <2> TAKE e \in E
  <2>1. Pkt(e) \in 1 .. beg
    BY <1>1, LedgerHas
  <2>2. p # NoPiece => Pkt(e) # p.pkt
    BY <1>1 DEF Ledger, p
  <2> QED
    BY <1>3, <2>1, <2>2
<1>8. /\ Whole(air, E2)
      /\ \A i \in 1 .. Len(air) : \A e \in E2 : air[i] = e.pieces => e \in E
  <2>1. \A e \in E : Pkt(e) # Pkt(g)
    BY <1>6, <1>7
  <2>2. /\ Whole(air, E \cup {g})
        /\ \A i \in 1 .. Len(air) : \A e \in E \cup {g} : air[i] = e.pieces => e \in E
    BY <1>1, <2>1, WholeKept
  <2> QED
    BY <1>1, <2>2
<1>9. b.delim => g \in E2
  OBVIOUS
<1>10. Ledger(put2, beg2, E2)
  <2>1. ASSUME NEW e \in E2
        PROVE  e \in Packet /\ \E y \in Piece : y.k > 0 /\ y.pkt \in 1 .. beg2 /\ e.pieces = Pieces(y)
    <3>1. CASE e \in E
      <4>1. PICK y \in Piece : y.k > 0 /\ y.pkt \in 1 .. beg /\ e.pieces = Pieces(y)
        BY <1>1, <3>1 DEF Ledger
      <4>2. y.pkt \in 1 .. beg2
        BY <1>2, <4>1
      <4> QED
        BY <1>1, <3>1, <4>1, <4>2 DEF Ledger
    <3>2. CASE e = g
      BY <1>3, <1>6, <3>2
    <3> QED
      BY <3>1, <3>2
  <2>2. \A e, f \in E2 : Pkt(e) = Pkt(f) => e = f
    <3>1. \A e \in E2 : e \in E \/ e = g
      OBVIOUS
    <3> QED
      BY <1>1, <1>6, <1>7, <3>1, Zenon DEF Ledger
  <2>3. ASSUME NEW e \in Chs, put2[e] # NoPiece
        PROVE  /\ put2[e].k > 0 /\ put2[e].pkt \in 1 .. beg2
               /\ \A f \in E2 : Pkt(f) # put2[e].pkt
    <3>1. CASE e = c
      <4>1. ~b.delim /\ put2[e] = z /\ E2 = E
        BY <1>4, <2>3, <3>1
      <4> QED
        BY <1>3, <1>7, <4>1
    <3>2. CASE e # c
      <4>1. put2[e] = put[e] /\ put[e] # NoPiece
        BY <1>4, <2>3, <3>2
      <4>2. put[e].k > 0 /\ put[e].pkt \in 1 .. beg /\ \A f \in E : Pkt(f) # put[e].pkt
        BY <1>1, <4>1 DEF Ledger
      <4>3. put[e].pkt \in 1 .. beg2
        BY <1>2, <4>2
      <4>4. put[e].pkt # z.pkt
        <5>1. p # NoPiece => put[e].pkt # p.pkt
          BY <1>1, <3>2, <4>1, Zenon DEF Ledger, p
        <5> QED
          BY <1>3, <4>2, <5>1
      <4> QED
        BY <1>6, <4>1, <4>2, <4>3, <4>4
    <3> QED
      BY <3>1, <3>2
  <2>4. ASSUME NEW e \in Chs, NEW f \in Chs, put2[e] # NoPiece, put2[f] # NoPiece, put2[e].pkt = put2[f].pkt
        PROVE  e = f
    <3>1. ASSUME NEW a \in Chs, a # c, put2[a] # NoPiece
          PROVE  put2[a] = put[a] /\ put[a].pkt # z.pkt
      <4>1. put2[a] = put[a]
        BY <1>4, <3>1
      <4>2. put[a].pkt \in 1 .. beg
        BY <1>1, <3>1, <4>1 DEF Ledger
      <4>3. p # NoPiece => put[a].pkt # p.pkt
        BY <1>1, <3>1, <4>1, Zenon DEF Ledger, p
      <4> QED
        BY <1>3, <4>1, <4>2, <4>3
    <3>2. put2[c] # NoPiece => put2[c] = z
      BY <1>4
    <3>3. e # c /\ f # c => e = f
      BY <1>1, <2>4, <3>1, Zenon DEF Ledger
    <3> QED
      BY <2>4, <3>1, <3>2, <3>3, Zenon
  <2> QED
    BY <2>1, <2>2, <2>3, <2>4, Zenon DEF Ledger
<1>11. z.pkt <= beg2
  BY <1>2, <1>3
<1>12. ASSUME NEW e \in Chs
       PROVE  Flow(B, e, sender, q2[e], n2[e], tx, air, put2[e], beg2, E2)
  <2> DEFINE Q == q[e]
             N == n[e]
             P == put[e]
             G == beg2
             S == sender
             F == E2
  <2>1. /\ Q \in Seq(QBlock) /\ N \in Int /\ P \in Piece /\ G \in Nat /\ beg <= G /\ E \subseteq F
        /\ Flow(B, e, S, Q, N, tx, air, P, beg, E)
    BY <1>1, <1>2, <1>6
  <2>2. CASE e = c
    <3>1. /\ IF b.piece = NoPiece THEN b.delim /\ P # NoPiece /\ z = P
             ELSE b.piece = z /\ IF P = NoPiece THEN z.pkt > beg /\ z.k = 1
                                 ELSE z.pkt = P.pkt /\ z.k = P.k + 1
          /\ z \in Piece /\ z.k > 0 /\ z.pkt <= G
          /\ b.delim => [ch |-> e, pieces |-> Pieces(z)] \in F
          /\ \A i \in 1 .. Len(air) : \A f \in F : air[i] = f.pieces => f \in E
      BY <1>3, <1>8, <1>9, <1>11, <2>2, Zenon DEF p, g
    <3> HIDE DEF Q, N, P, G, S, F
    <3>2. Flow(B, e, S, Append(Q, b), IF b.delim THEN N + 1 ELSE N, tx, air,
               IF b.delim THEN NoPiece ELSE z, G, F)
      BY <2>1, <3>1, FlowPut
    <3> QED
      BY <1>4, <2>2, <3>2, Zenon DEF Q, N, P, G, S, F
  <2>3. CASE e # c
    <3>1. Beside(e, S, tx, air, E, S, tx, air, F)
      BY <1>6, <1>8, Zenon DEF Beside
    <3> HIDE DEF Q, N, P, G, S, F
    <3>2. Flow(B, e, S, Q, N, tx, air, P, G, F)
      BY <2>1, <3>1, FlowKept
    <3> QED
      BY <1>4, <2>3, <3>2, Zenon DEF Q, N, P, G, S, F
  <2> QED
    BY <2>2, <2>3
<1>13. sender = NoChan => tx = <<>>
  BY DEF Flows
<1>14. Flows(B, sender, q2, n2, tx, air, put2, beg2, E2)
  BY <1>8, <1>10, <1>12, <1>13, Zenon DEF Flows
<1> QED
  BY <1>2, <1>5, <1>14, Zenon DEF p, z, g, beg2, put2, q2, n2, Queued, Counted, PutAlready, Begins, EndedBy

-----------------------------------------------------------------------------
(* V8's driver: what its steps keep.                                       *)

\* A packet of V8 ends with an M_DELIM, which holds no data.
Blocks8 == {b \in QBlock : b.delim <=> b.piece = NoPiece}

Sending8(s, put, beg, E) ==
    LET d == s.d
    IN  /\ Flows(Blocks8, d.tq, d.q, d.packets, s.h.tx, s.h.air, put, beg, E)
        /\ d.tq # NoChan => d.active = TRUE /\ d.packets[d.tq] > 0
        /\ \A c \in Chs : c \notin d.open => d.q[c] = <<>> /\ d.packets[c] = 0

LEMMA Sending8Kept ==
  ASSUME NEW s, NEW t, Send8Same(s, t), NEW put, NEW beg, NEW E, Sending8(s, put, beg, E)
  PROVE  Sending8(t, put, beg, E)
BY Zenon DEF Send8Same, Sending8, TxSame

\* ilstart() when no packet is under way.
LEMMA IlStartKeeps ==
  ASSUME NEW s \in V8State, s.d.tq = NoChan, NEW put, NEW beg \in Nat, NEW E, Sending8(s, put, beg, E)
  PROVE  LET t == IlStart(s)
         IN  /\ t \in V8State /\ Recv8Same(s, t) /\ t.d.open = s.d.open
             /\ Sending8(t, put, beg, E)
<1> DEFINE t == IlStart(s)
           d == s.d
           h == s.h
<1>1. /\ t \in V8State /\ Recv8Same(s, t) /\ t.d.open = d.open
      /\ \/ Idle8(s, t)
         \/ \E c \in d.open : d.packets[c] > 0 /\ d.q[c] = <<>>
         \/ \E c \in d.open : d.packets[c] > 0 /\ d.q[c] # <<>> /\ Loaded8(s, t, c)
  BY IlStartIs
<1> HIDE DEF t
<1>2. /\ d.q \in Queues /\ d.packets \in Counts /\ d.tq \in Channel /\ d.open \in SUBSET Chs
      /\ h.air \in Seq(Seq(Piece))
  BY DEF V8State, V8Driver, Opened, HW
<1>3. /\ Flows(Blocks8, NoChan, d.q, d.packets, h.tx, h.air, put, beg, E)
      /\ \A c \in Chs : c \notin d.open => d.q[c] = <<>> /\ d.packets[c] = 0
  BY Zenon DEF Sending8
<1>4. CASE Idle8(s, t)
  <2>1. /\ t.d.tq = NoChan /\ t.d.q = d.q /\ t.d.packets = d.packets /\ t.h.tx = h.tx /\ t.h.air = h.air
    BY <1>4, Zenon DEF Idle8, TxSame
  <2>2. t.d.open = d.open
    BY <1>1
  <2>3. Sending8(t, put, beg, E)
    BY <1>3, <2>1, <2>2 DEF Sending8
  <2> QED
    BY <1>1, <2>3, Zenon DEF t
<1>5. ASSUME NEW c \in d.open, d.packets[c] > 0
      PROVE  d.q[c] # <<>> /\ ~Head(d.q[c]).delim
  <2> DEFINE q == d.q
             n == d.packets
  <2>1. c \in Chs /\ q \in Queues /\ n \in Counts /\ n[c] > 0 /\ NoChan \in Channel /\ NoChan # c
    BY <1>2, <1>5, StreamsAssumption DEF Channel, Chs, NoChan
  <2>2. Flows(Blocks8, NoChan, q, n, h.tx, h.air, put, beg, E)
    BY <1>3
  <2> HIDE DEF q, n, h, d
  <2>3. /\ q[c] # <<>> /\ Head(q[c]) \in QBlock /\ Head(q[c]) \in Blocks8
        /\ NoChan # c => Head(q[c]).piece # NoPiece
    BY <2>1, <2>2, FlowsHave
  <2> QED
    BY <2>1, <2>3 DEF Blocks8, q
<1>6. ASSUME NEW c \in d.open, d.packets[c] > 0, Loaded8(s, t, c)
      PROVE  Sending8(t, put, beg, E)
  <2> DEFINE q == d.q
             n == d.packets
             N == NoChan
  <2>1. c \in Chs /\ q \in Queues /\ n \in Counts /\ N \in Channel /\ N \in {NoChan, c}
    BY <1>2 DEF Channel
  <2>2. Flows(Blocks8, N, q, n, h.tx, h.air, put, beg, E) /\ q[c] # <<>> /\ ~Head(q[c]).delim
    BY <1>3, <1>5, <1>6
  <2> HIDE DEF q, n, N
  <2>3. Flows(Blocks8, c, Shifted(q, c), n, Append(h.tx, Head(q[c]).piece), h.air, put, beg, E)
    BY <1>2, <2>1, <2>2, FlowsSend
  <2>4. /\ t.d.active = TRUE /\ t.d.tq = c /\ t.d.q = Shifted(q, c) /\ t.d.packets = n
        /\ t.h.tx = Append(h.tx, Head(q[c]).piece) /\ t.h.air = h.air
    BY <1>6, Zenon DEF Loaded8, q, n
  <2>5. \A e \in Chs : e \notin d.open => Shifted(q, c)[e] = <<>> /\ n[e] = 0
    <3>1. \A e \in Chs : e # c => Shifted(q, c)[e] = q[e]
      BY <2>1, <2>2, ShiftedIs
    <3> QED
      BY <1>3, <1>6, <3>1 DEF q, n
  <2>6. n[c] > 0
    BY <1>6 DEF n
  <2> HIDE DEF d
  <2> QED
    BY <1>1, <2>3, <2>4, <2>5, <2>6, Zenon DEF Sending8
<1>7. ASSUME NEW c \in d.open, d.packets[c] > 0
      PROVE  d.q[c] # <<>>
  BY <1>5, <1>7
<1> QED
  BY <1>1, <1>4, <1>6, <1>7, Zenon DEF t

\* The block that comes next of the packet under way.
LEMMA IlNextBlockKeeps ==
  ASSUME NEW s \in V8State, s.d.tq # NoChan, NEW put, NEW beg \in Nat, NEW E, Sending8(s, put, beg, E)
  PROVE  LET t == IlNextBlock(s)
         IN  /\ t \in V8State /\ Recv8Same(s, t) /\ t.d.open = s.d.open
             /\ Sending8(t, put, beg, E)
<1> DEFINE t == IlNextBlock(s)
           d == s.d
           h == s.h
           c == d.tq
           q == d.q
           n == d.packets
<1>1. /\ q \in Queues /\ n \in Counts /\ c \in Channel /\ d.open \in SUBSET Chs
      /\ h.air \in Seq(Seq(Piece)) /\ c \in Chs
  BY DEF V8State, V8Driver, Opened, HW, Channel
<1>2. /\ Flows(Blocks8, c, q, n, h.tx, h.air, put, beg, E)
      /\ d.active = TRUE /\ n[c] > 0
      /\ \A e \in Chs : e \notin d.open => q[e] = <<>> /\ n[e] = 0
  BY Zenon DEF Sending8
<1>3. q[c] # <<>> /\ Head(q[c]) \in QBlock /\ Head(q[c]) \in Blocks8
  <2> HIDE DEF q, n, c
  <2> QED
    BY <1>1, <1>2, FlowsHave
<1> DEFINE b == Head(q[c])
<1>4. /\ t \in V8State /\ Recv8Same(s, t) /\ t.d.open = s.d.open
      /\ IF b.delim THEN Closed8(s, t, c)
         ELSE /\ t.d.active = d.active /\ t.d.tq = c /\ t.d.q = Shifted(q, c)
              /\ t.d.packets = n
              /\ t.h.tx = Append(h.tx, b.piece) /\ t.h.air = h.air
  BY <1>1, <1>3, IlNextBlockIs
<1> HIDE DEF t
<1>5. /\ ~b.delim => Flows(Blocks8, c, Shifted(q, c), n, Append(h.tx, b.piece), h.air, put, beg, E)
      /\ b.delim => Flows(Blocks8, NoChan, Shifted(q, c), [n EXCEPT ![c] = @ - 1], <<>>,
                          Append(h.air, IF b.piece = NoPiece THEN h.tx ELSE Append(h.tx, b.piece)), put, beg, E)
  <2>1. c \in {NoChan, c}
    OBVIOUS
  <2> HIDE DEF q, n, c
  <2>2. LET b1 == Head(q[c])
            z1 == Append(h.tx, b1.piece)
            w1 == IF b1.piece = NoPiece THEN h.tx ELSE Append(h.tx, b1.piece)
        IN  /\ ~b1.delim => Flows(Blocks8, c, Shifted(q, c), n, z1, h.air, put, beg, E)
            /\ b1.delim => Flows(Blocks8, NoChan, Shifted(q, c), [n EXCEPT ![c] = @ - 1], <<>>,
                                 Append(h.air, w1), put, beg, E)
    BY <1>1, <1>2, <1>3, <2>1, FlowsSend
  <2> QED
    BY <2>2, Zenon
<1>6. c \in d.open
  <2>1. n[c] # 0
    BY <1>2
  <2> QED
    BY <1>1, <1>2, <2>1, Zenon
<1>7. \A e \in Chs : e \notin d.open => Shifted(q, c)[e] = <<>> /\ n[e] = 0
  <2>1. \A e \in Chs : e # c => Shifted(q, c)[e] = q[e]
    BY <1>1, <1>3, ShiftedIs
  <2> QED
    BY <1>2, <1>6, <2>1, Zenon
<1>8. CASE b.delim
  <2>1. /\ t.d.tq = NoChan /\ t.d.q = Shifted(q, c) /\ t.d.packets = [n EXCEPT ![c] = @ - 1]
        /\ t.h.tx = <<>> /\ t.h.air = Append(h.air, h.tx)
    BY <1>4, <1>8, Zenon DEF Closed8
  <2>2. b.piece = NoPiece
    BY <1>3, <1>8 DEF Blocks8
  <2>3. \A e \in Chs : e \notin d.open => [n EXCEPT ![c] = @ - 1][e] = 0
    BY <1>1, <1>6, <1>7 DEF Counts
  <2>4. Flows(Blocks8, t.d.tq, t.d.q, t.d.packets, t.h.tx, t.h.air, put, beg, E)
    BY <1>5, <1>8, <2>1, <2>2, Zenon
  <2>5. \A e \in Chs : e \notin t.d.open => t.d.q[e] = <<>> /\ t.d.packets[e] = 0
    BY <1>4, <1>7, <2>1, <2>3, Zenon
  <2> QED
    BY <1>4, <2>1, <2>4, <2>5, Zenon DEF Sending8, t
<1>9. CASE ~b.delim
  <2>1. /\ t.d.active = TRUE /\ t.d.tq = c /\ t.d.q = Shifted(q, c) /\ t.d.packets = n
        /\ t.h.tx = Append(h.tx, b.piece) /\ t.h.air = h.air
    BY <1>2, <1>4, <1>9, Zenon
  <2>2. \A e \in Chs : e \notin t.d.open => t.d.q[e] = <<>> /\ t.d.packets[e] = 0
    BY <1>4, <1>7, <2>1, Zenon
  <2>3. Flows(Blocks8, t.d.tq, t.d.q, t.d.packets, t.h.tx, t.h.air, put, beg, E)
    BY <1>5, <1>9, <2>1, Zenon
  <2> QED
    BY <1>2, <1>4, <2>1, <2>2, <2>3, Zenon DEF Sending8, t
<1> QED
  BY <1>8, <1>9

\* All that V8's driver keeps; lo is the last frame passed up, hi the last that
\* has arrived.
In8(s, lo, hi, put, beg, E) ==
    s \in V8State /\ s.d.panic = FALSE /\ Recv8(s, lo, hi) /\ Sending8(s, put, beg, E)

LEMMA In8Kept ==
  ASSUME NEW s, NEW t \in V8State, NEW lo, NEW hi, NEW put, NEW beg, NEW E,
         In8(s, lo, hi, put, beg, E), Recv8Same(s, t), Send8Same(s, t)
  PROVE  In8(t, lo, hi, put, beg, E)
<1>1. s \in V8State /\ s.d.panic = FALSE /\ Recv8(s, lo, hi) /\ Sending8(s, put, beg, E)
  BY Zenon DEF In8
<1>2. t.d.panic = FALSE
  BY <1>1, Zenon DEF Recv8Same
<1>3. Recv8(t, lo, hi)
  BY <1>1, Recv8Kept
<1>4. Sending8(t, put, beg, E)
  BY <1>1, Sending8Kept
<1> QED
  BY <1>2, <1>3, <1>4, Zenon DEF In8

LEMMA ActiveIs ==
  ASSUME NEW s \in V8State, NEW b
  PROVE  [s EXCEPT !.d.active = b] = [d |-> [s.d EXCEPT !.active = b], h |-> s.h]
BY DEF V8State

\* ilcint()
LEMMA IlCintKeeps ==
  ASSUME NEW s, NEW lo \in Nat, NEW hi \in Nat, NEW put, NEW beg \in Nat, NEW E,
         In8(s, lo, hi, put, beg, E)
  PROVE  In8(IlCint(s), lo, hi, put, beg, E) /\ IlCint(s).d.open = s.d.open
<1> DEFINE d == s.d
<1>1. s \in V8State /\ d.panic = FALSE /\ Recv8(s, lo, hi) /\ Sending8(s, put, beg, E)
  BY Zenon DEF In8
<1>2. d \in V8Driver /\ s.h \in HW /\ s = [d |-> d, h |-> s.h] /\ d.active \in BOOLEAN /\ d.rcvpending \in Int
  BY <1>1 DEF V8State, V8Driver
<1>3. CASE ~d.active
  <2>1. IlCint(s) = s
    BY <1>3, Zenon DEF IlCint
  <2> QED
    BY <2>1
<1>4. CASE d.active /\ d.tq # NoChan
  <2> DEFINE t == IlNextBlock(s)
  <2>1. IlCint(s) = t
    BY <1>4, Zenon DEF IlCint
  <2>2. t \in V8State /\ Recv8Same(s, t) /\ t.d.open = d.open /\ Sending8(t, put, beg, E)
    BY <1>1, <1>4, IlNextBlockKeeps
  <2> HIDE DEF t
  <2>3. Recv8(t, lo, hi)
    BY <1>1, <2>2, Recv8Kept
  <2>4. t.d.panic = FALSE
    BY <1>1, <2>2, Zenon DEF Recv8Same
  <2> QED
    BY <2>1, <2>2, <2>3, <2>4, Zenon DEF In8
<1>5. CASE d.active /\ d.tq = NoChan
  <2> DEFINE e == [d EXCEPT !.active = FALSE]
             idle == [s EXCEPT !.d.active = FALSE]
             u == IF d.rcvpending > 0 THEN IlSetup(idle, d.rcvpending) ELSE idle
             t == IlStart(u)
  <2>1. IlCint(s) = t
    BY <1>5, Zenon DEF IlCint
  <2>2. idle = [d |-> e, h |-> s.h]
    BY <1>1, ActiveIs
  <2>3. /\ e \in V8Driver /\ e.tq = NoChan /\ e.open = d.open /\ e.q = d.q
        /\ e.packets = d.packets /\ e.chain = d.chain /\ e.nbp = d.nbp /\ e.len = d.len
        /\ e.rcvpending = d.rcvpending
    BY <1>2, <1>5 DEF V8Driver
  <2>4. e.active = FALSE /\ e.panic = FALSE
    BY <1>1, <1>2, Zenon DEF V8Driver
  <2> HIDE DEF e, idle
  <2>5. idle.d = e /\ idle.h = s.h /\ idle \in V8State
    BY <1>2, <2>2, <2>3 DEF V8State
  <2>6. Recv8Same(s, idle)
    BY <1>1, <2>3, <2>4, <2>5, Zenon DEF Recv8Same, RxSame
  <2>7. Recv8(idle, lo, hi)
    BY <1>1, <2>5, <2>6, Recv8Kept
  <2>8. Sending8(idle, put, beg, E)
    BY <1>1, <1>5, <2>3, <2>4, <2>5, Zenon DEF Sending8
  <2>9. /\ u \in V8State /\ Send8Same(idle, u) /\ Recv8(u, lo, hi) /\ u.d.panic = FALSE
    <3>1. CASE d.rcvpending > 0
      <4> DEFINE n == d.rcvpending
      <4>1. n \in Int /\ idle.d.active = FALSE
        BY <1>2, <2>4, <2>5
      <4>2. idle.d.nbp = 0 => n = IF idle.d.chain = <<>> THEN Mtu ELSE idle.d.len
        BY <1>1, <2>3, <2>5, <3>1, Zenon DEF Recv8
      <4> HIDE DEF n
      <4>3. /\ IlSetup(idle, n) \in V8State /\ Send8Same(idle, IlSetup(idle, n))
            /\ Recv8(IlSetup(idle, n), lo, hi) /\ IlSetup(idle, n).d.panic = idle.d.panic
        BY <2>5, <2>7, <4>1, <4>2, IlSetupKeeps
      <4> QED
        BY <2>4, <2>5, <3>1, <4>3, Zenon DEF n
    <3>2. CASE ~(d.rcvpending > 0)
      <4>1. u = idle
        BY <3>2, Zenon
      <4>2. Send8Same(idle, idle)
        BY Zenon DEF Send8Same, TxSame
      <4> QED
        BY <2>4, <2>5, <2>7, <4>1, <4>2, Zenon
    <3> QED
      BY <3>1, <3>2
  <2> HIDE DEF u
  <2>10. Sending8(u, put, beg, E)
    BY <2>8, <2>9, Sending8Kept
  <2>11. u.d.tq = NoChan /\ u.d.open = d.open
    BY <2>3, <2>5, <2>9, Zenon DEF Send8Same
  <2>12. /\ t \in V8State /\ Recv8Same(u, t) /\ t.d.open = u.d.open
         /\ Sending8(t, put, beg, E)
    BY <2>9, <2>10, <2>11, IlStartKeeps
  <2> HIDE DEF t
  <2>13. Recv8(t, lo, hi)
    BY <2>9, <2>12, Recv8Kept
  <2>14. t.d.panic = FALSE
    BY <2>9, <2>12, Zenon DEF Recv8Same
  <2> QED
    BY <2>1, <2>11, <2>12, <2>13, <2>14, Zenon DEF In8
<1> QED
  BY <1>3, <1>4, <1>5

Cur8 == [d |-> v8, h |-> hw]
Nxt8 == [d |-> v8', h |-> hw']

LEMMA Rint8Keeps ==
  ASSUME NEW lo \in Nat, NEW hi \in Nat, In8(Cur8, lo, hi, putting, begun, ended), Rint8
  PROVE  /\ UNCHANGED <<putting, begun, ended>>
         /\ \/ got' = got /\ In8(Nxt8, lo, hi, putting, begun, ended)
            \/ \E f \in lo + 1 .. hi : got' = Append(got, f) /\ In8(Nxt8, f, hi, putting, begun, ended)
<1>1. /\ Cur8 \in V8State /\ Cur8.d.panic = FALSE /\ Recv8(Cur8, lo, hi)
      /\ Sending8(Cur8, putting, begun, ended)
  BY Zenon DEF In8
<1>2. Cur8 = [d |-> v8, h |-> hw] /\ ~v8.panic /\ hw \in HW
  BY <1>1 DEF Cur8, V8State
<1>3. hw.rint = TRUE /\ IlRint /\ UNCHANGED <<putting, begun, ended>>
  BY <1>2 DEF Rint8, HW
<1>4. /\ Nxt8 \in V8State /\ Send8Same(Cur8, Nxt8) /\ ~v8'.panic
      /\ \/ got' = got /\ Recv8(Nxt8, lo, hi)
         \/ \E f \in lo + 1 .. hi : got' = Append(got, f) /\ Recv8(Nxt8, f, hi)
  BY <1>1, <1>2, <1>3, IlRintKeeps DEF Cur8, Nxt8
<1>5. Nxt8.d.panic = FALSE
  <2>1. Nxt8.d = v8'
    BY DEF Nxt8
  <2>2. v8'.panic \in BOOLEAN
    BY <1>4, <2>1 DEF V8State, V8Driver
  <2> QED
    BY <1>4, <2>1, <2>2
<1>6. Sending8(Nxt8, putting, begun, ended)
  BY <1>1, <1>4, Sending8Kept
<1> QED
  BY <1>3, <1>4, <1>5, <1>6, Zenon DEF In8

LEMMA Cint8Keeps ==
  ASSUME NEW lo \in Nat, NEW hi \in Nat, begun \in Nat, In8(Cur8, lo, hi, putting, begun, ended), Cint8
  PROVE  /\ UNCHANGED <<putting, begun, ended, got>>
         /\ In8(Nxt8, lo, hi, putting, begun, ended)
<1> DEFINE s == [d |-> v8, h |-> CintAck(hw)]
<1>1. Cur8 \in V8State /\ Cur8.d = v8 /\ Cur8.h = hw /\ v8 \in V8Driver /\ hw \in HW
  BY Zenon DEF In8, Cur8, V8State
<1>2. CintAck(hw) \in HW /\ RxSame(hw, CintAck(hw)) /\ TxSame(hw, CintAck(hw)) /\ CintAck(hw).rie = hw.rie
  BY <1>1, AcksAre
<1>3. s \in V8State /\ s.d = v8 /\ s.h = CintAck(hw)
  BY <1>1, <1>2 DEF V8State
<1>4. v8' = IlCint(s).d /\ hw' = IlCint(s).h /\ UNCHANGED <<putting, begun, ended, got>>
  BY DEF Cint8, Result8
<1> HIDE DEF s
<1>5. Recv8Same(Cur8, s) /\ Send8Same(Cur8, s)
  BY <1>1, <1>2, <1>3, Zenon DEF Recv8Same, Send8Same
<1>6. In8(s, lo, hi, putting, begun, ended)
  BY <1>3, <1>5, In8Kept
<1>7. In8(IlCint(s), lo, hi, putting, begun, ended)
  BY <1>6, IlCintKeeps
<1>8. Nxt8 = IlCint(s)
  <2>1. IlCint(s) = [d |-> IlCint(s).d, h |-> IlCint(s).h]
    BY <1>7 DEF In8, V8State
  <2> QED
    BY <1>4, <2>1 DEF Nxt8
<1> QED
  BY <1>4, <1>7, <1>8

LEMMA IlOpenKeeps ==
  ASSUME NEW lo \in Nat, NEW hi \in Nat, begun \in Nat, In8(Cur8, lo, hi, putting, begun, ended),
         NEW c \in Chs, IlOpen(c)
  PROVE  /\ UNCHANGED <<putting, begun, ended, got>>
         /\ In8(Nxt8, lo, hi, putting, begun, ended)
<1> DEFINE N == [v8.packets EXCEPT ![c] = 0]
           O == v8.open \cup {c}
           e == [v8 EXCEPT !.open = O, !.packets = N]
           s == [d |-> e, h |-> hw]
           a == [s EXCEPT !.d.active = TRUE]
           r == IF e.rcvpending > 0 /\ ~e.active THEN IlCint(a) ELSE s
<1>1. /\ Cur8 \in V8State /\ Cur8.d = v8 /\ Cur8.h = hw /\ v8 \in V8Driver /\ hw \in HW
      /\ Recv8(Cur8, lo, hi) /\ Sending8(Cur8, putting, begun, ended) /\ v8.panic = FALSE
  BY Zenon DEF In8, Cur8, V8State
<1>2. c \notin v8.open /\ Result8(r) /\ UNCHANGED <<putting, begun, ended, got>>
  BY Zenon DEF IlOpen
<1>3. N = v8.packets /\ O \in Opened
  <2>1. v8.packets[c] = 0 /\ v8.packets \in Counts /\ v8.open \in Opened
    BY <1>1, <1>2 DEF Sending8, V8Driver
  <2> QED
    BY <2>1 DEF Counts, Opened
<1> HIDE DEF N, O
<1>4. /\ e \in V8Driver /\ e.tq = v8.tq /\ e.open = O /\ e.q = v8.q
      /\ e.packets = v8.packets /\ e.chain = v8.chain /\ e.nbp = v8.nbp /\ e.len = v8.len
      /\ e.rcvpending = v8.rcvpending
  BY <1>1, <1>3 DEF V8Driver
<1>5. e.active = v8.active /\ e.panic = FALSE
  BY <1>1, Zenon DEF V8Driver
<1> HIDE DEF e
<1>6. s \in V8State /\ s.d = e /\ s.h = hw
  BY <1>1, <1>4 DEF V8State
<1>7. Recv8Same(Cur8, s)
  BY <1>1, <1>4, <1>5, <1>6, Zenon DEF Recv8Same, RxSame
<1>8. Recv8(s, lo, hi)
  BY <1>1, <1>6, <1>7, Recv8Kept
<1>9. Sending8(s, putting, begun, ended)
  <2>1. \A k \in Chs : k \notin O => v8.q[k] = <<>> /\ v8.packets[k] = 0
    BY <1>1 DEF Sending8, O
  <2> QED
    BY <1>1, <1>4, <1>5, <1>6, <2>1, Zenon DEF Sending8
<1>10. In8(s, lo, hi, putting, begun, ended)
  BY <1>5, <1>6, <1>8, <1>9, Zenon DEF In8
<1>11. In8(r, lo, hi, putting, begun, ended)
  <2>1. CASE e.rcvpending > 0 /\ ~e.active
    <3> DEFINE f == [e EXCEPT !.active = TRUE]
    <3>1. a = [d |-> f, h |-> hw]
      <4> HIDE DEF s
      <4> QED
        BY <1>6, ActiveIs
    <3>2. /\ f \in V8Driver /\ f.tq = e.tq /\ f.open = e.open /\ f.q = e.q
          /\ f.packets = e.packets /\ f.chain = e.chain /\ f.nbp = e.nbp /\ f.len = e.len
          /\ f.rcvpending = e.rcvpending
      BY <1>4 DEF V8Driver
    <3>3. f.active = TRUE /\ f.panic = FALSE
      BY <1>4, <1>5, Zenon DEF V8Driver
    <3> HIDE DEF f
    <3>4. a \in V8State /\ a.d = f /\ a.h = hw
      BY <1>1, <3>1, <3>2 DEF V8State
    <3> HIDE DEF a
    <3>5. Recv8Same(s, a)
      BY <1>5, <1>6, <3>2, <3>3, <3>4, Zenon DEF Recv8Same, RxSame
    <3>6. Recv8(a, lo, hi)
      BY <1>6, <1>8, <3>4, <3>5, Recv8Kept
    <3>7. Sending8(a, putting, begun, ended)
      BY <1>6, <1>9, <3>2, <3>3, <3>4, Zenon DEF Sending8
    <3>8. In8(a, lo, hi, putting, begun, ended)
      BY <3>3, <3>4, <3>6, <3>7, Zenon DEF In8
    <3>9. In8(IlCint(a), lo, hi, putting, begun, ended)
      BY <3>8, IlCintKeeps
    <3> QED
      BY <2>1, <3>9, Zenon
  <2>2. CASE ~(e.rcvpending > 0 /\ ~e.active)
    BY <1>10, <2>2, Zenon
  <2> QED
    BY <2>1, <2>2
<1> HIDE DEF r
<1>12. Nxt8 = r
  <2>1. r = [d |-> r.d, h |-> r.h]
    BY <1>11 DEF In8, V8State
  <2> QED
    BY <1>2, <2>1 DEF Nxt8, Result8
<1> QED
  BY <1>2, <1>11, <1>12

\* A block is put on the queue of channel c.
LEMMA QueuedKeeps ==
  ASSUME NEW lo \in Nat, NEW hi \in Nat, In8(Cur8, lo, hi, putting, begun, ended),
         NEW c \in Chs, c \in v8.open, NEW Q \in Queues, NEW N \in Counts,
         \A e \in Chs : (e # c => Q[e] = v8.q[e] /\ N[e] = v8.packets[e]) /\ v8.packets[e] <= N[e],
         NEW put, NEW beg, NEW E, Flows(Blocks8, v8.tq, Q, N, hw.tx, hw.air, put, beg, E)
  PROVE  In8([d |-> [v8 EXCEPT !.q = Q, !.packets = N], h |-> hw], lo, hi, put, beg, E)
<1> DEFINE e == [v8 EXCEPT !.q = Q, !.packets = N]
           s == [d |-> e, h |-> hw]
<1>1. /\ Cur8 \in V8State /\ Cur8.d = v8 /\ Cur8.h = hw /\ v8 \in V8Driver /\ hw \in HW
      /\ Recv8(Cur8, lo, hi) /\ Sending8(Cur8, putting, begun, ended) /\ v8.panic = FALSE
  BY Zenon DEF In8, Cur8, V8State
<1>2. /\ e \in V8Driver /\ e.tq = v8.tq /\ e.open = v8.open /\ e.q = Q
      /\ e.packets = N /\ e.chain = v8.chain /\ e.nbp = v8.nbp /\ e.len = v8.len
      /\ e.rcvpending = v8.rcvpending
  BY <1>1 DEF V8Driver
<1>3. e.active = v8.active /\ e.panic = FALSE
  BY <1>1, Zenon DEF V8Driver
<1> HIDE DEF e
<1>4. s \in V8State /\ s.d = e /\ s.h = hw
  BY <1>1, <1>2 DEF V8State
<1> HIDE DEF s
<1>5. Recv8Same(Cur8, s)
  BY <1>1, <1>2, <1>3, <1>4, Zenon DEF Recv8Same, RxSame
<1>6. Recv8(s, lo, hi)
  BY <1>1, <1>4, <1>5, Recv8Kept
<1>7. Sending8(s, put, beg, E)
  <2>1. \A k \in Chs : k \notin v8.open => Q[k] = <<>> /\ N[k] = 0
    BY <1>1, Zenon DEF Sending8
  <2>2. v8.tq # NoChan => v8.active = TRUE /\ N[v8.tq] > 0
    <3>1. v8.tq # NoChan => v8.active = TRUE /\ v8.packets[v8.tq] > 0
      BY <1>1, Zenon DEF Sending8
    <3>2. v8.tq # NoChan => v8.tq \in Chs
      BY <1>1 DEF V8Driver, Channel
    <3>3. \A k \in Chs : v8.packets[k] \in Int /\ N[k] \in Int
      BY <1>1 DEF V8Driver, Counts
    <3> QED
      BY <3>1, <3>2, <3>3
  <2> QED
    BY <1>2, <1>3, <1>4, <2>1, <2>2, Zenon DEF Sending8
<1> QED
  BY <1>3, <1>4, <1>6, <1>7, Zenon DEF In8, s, e

LEMMA FollowingIs ==
  ASSUME NEW p \in Piece, NEW beg \in Nat
  PROVE  Following(p, beg) \in Piece /\ Following(p, beg) # NoPiece
<1>1. CASE p = NoPiece
  BY <1>1 DEF Following, Piece, NoPiece
<1>2. CASE p # NoPiece
  BY <1>2 DEF Following, Piece, NoPiece
<1> QED
  BY <1>1, <1>2

LEMMA IlPutDataKeeps ==
  ASSUME NEW lo \in Nat, NEW hi \in Nat, begun \in Nat, putting \in Puts,
         In8(Cur8, lo, hi, putting, begun, ended), NEW c \in Chs, IlPutData(c)
  PROVE  /\ got' = got /\ putting' \in Puts /\ begun' \in Nat
         /\ In8(Nxt8, lo, hi, putting', begun', ended')
<1> DEFINE p == putting[c]
           z == NextPiece(c)
           b == [piece |-> z, delim |-> FALSE]
           Q == [v8.q EXCEPT ![c] = Append(@, b)]
           N == v8.packets
<1>1. /\ Cur8 \in V8State /\ Cur8.d = v8 /\ Cur8.h = hw /\ v8 \in V8Driver /\ hw \in HW
      /\ Sending8(Cur8, putting, begun, ended) /\ v8.q \in Queues /\ N \in Counts /\ v8.tq \in Channel
  BY Zenon DEF In8, Cur8, V8State, V8Driver
<1>2. /\ c \in v8.open /\ v8' = [v8 EXCEPT !.q[c] = Append(@, b)] /\ UNCHANGED <<hw, ended, got>>
      /\ putting' = [putting EXCEPT ![c] = z]
      /\ begun' = IF p = NoPiece THEN begun + 1 ELSE begun
  BY Zenon DEF IlPutData, PutOn
<1>3. v8' = [v8 EXCEPT !.q = Q, !.packets = N]
  BY <1>1, <1>2 DEF V8Driver
<1>4. p \in Piece
  BY DEF Puts
<1>5. z = Following(p, begun)
  BY DEF NextPiece, Following
<1>6. z \in Piece /\ z # NoPiece
  BY <1>4, <1>5, FollowingIs
<1> HIDE DEF z
<1>7. b \in QBlock /\ b.piece = z /\ b.delim = FALSE
  BY <1>6 DEF QBlock
<1> HIDE DEF b
<1>8. b \in Blocks8
  BY <1>6, <1>7 DEF Blocks8
<1>9. Flows(Blocks8, v8.tq, v8.q, v8.packets, hw.tx, hw.air, putting, begun, ended)
  BY <1>1, Zenon DEF Sending8
<1>10. MayFollow(b, p, begun)
  BY <1>5, <1>6, <1>7, Zenon DEF MayFollow
<1>11. /\ Flows(Blocks8, v8.tq, Queued(v8.q, c, b), Counted(v8.packets, c, b), hw.tx, hw.air,
                PutAlready(putting, c, b), Begins(b, putting[c], begun), EndedBy(ended, c, b, putting[c]))
       /\ PutAlready(putting, c, b) \in Puts /\ Begins(b, putting[c], begun) \in Nat
  BY <1>1, <1>7, <1>8, <1>9, <1>10, FlowsPut
<1>12. /\ Queued(v8.q, c, b) = Q /\ Counted(v8.packets, c, b) = N
       /\ PutAlready(putting, c, b) = putting' /\ Begins(b, putting[c], begun) = begun'
       /\ EndedBy(ended, c, b, putting[c]) = ended'
  <2>1. ~b.delim /\ b.piece # NoPiece
    BY <1>6, <1>7
  <2> QED
    BY <1>2, <1>7, <2>1, Zenon DEF Queued, Counted, PutAlready, Begins, EndedBy, Target
<1>13. Flows(Blocks8, v8.tq, Q, N, hw.tx, hw.air, putting', begun', ended') /\ putting' \in Puts /\ begun' \in Nat
  BY <1>11, <1>12, Zenon
<1>14. /\ Q \in Queues
       /\ \A e \in Chs : (e # c => Q[e] = v8.q[e] /\ N[e] = v8.packets[e]) /\ v8.packets[e] <= N[e]
  <2>1. \A e \in Chs : v8.q[e] \in Seq(QBlock)
    BY <1>1 DEF Queues
  <2>2. Append(v8.q[c], b) \in Seq(QBlock)
    BY <1>7, <2>1, AppendProperties
  <2>3. \A e \in Chs : N[e] \in Int
    BY <1>1 DEF Counts
  <2> QED
    BY <1>1, <2>2, <2>3 DEF Queues
<1> HIDE DEF Q, N
<1>15. In8([d |-> [v8 EXCEPT !.q = Q, !.packets = N], h |-> hw], lo, hi, putting', begun', ended')
  BY <1>1, <1>2, <1>13, <1>14, QueuedKeeps DEF N
<1>16. Nxt8 = [d |-> [v8 EXCEPT !.q = Q, !.packets = N], h |-> hw]
  BY <1>2, <1>3, Zenon DEF Nxt8
<1> QED
  BY <1>2, <1>13, <1>15, <1>16

LEMMA IlPutDelimKeeps ==
  ASSUME NEW lo \in Nat, NEW hi \in Nat, begun \in Nat, putting \in Puts,
         In8(Cur8, lo, hi, putting, begun, ended), NEW c \in Chs, IlPutDelim(c)
  PROVE  /\ got' = got /\ putting' \in Puts /\ begun' \in Nat
         /\ In8(Nxt8, lo, hi, putting', begun', ended')
<1> DEFINE p == putting[c]
           b == [piece |-> NoPiece, delim |-> TRUE]
           Q == [v8.q EXCEPT ![c] = Append(@, b)]
           N == [v8.packets EXCEPT ![c] = @ + 1]
           e == [v8 EXCEPT !.q[c] = Append(@, b), !.packets[c] = @ + 1]
           s == [d |-> e, h |-> hw]
           r == IF e.active THEN s ELSE IlStart(s)
           g == [ch |-> c, pieces |-> Pieces(p)]
<1>1. /\ Cur8 \in V8State /\ Cur8.d = v8 /\ Cur8.h = hw /\ v8 \in V8Driver /\ hw \in HW
      /\ Sending8(Cur8, putting, begun, ended) /\ v8.q \in Queues /\ v8.packets \in Counts /\ v8.tq \in Channel
  BY Zenon DEF In8, Cur8, V8State, V8Driver
<1>2. /\ c \in v8.open /\ p # NoPiece /\ Result8(r) /\ UNCHANGED <<begun, got>>
      /\ putting' = [putting EXCEPT ![c] = NoPiece] /\ ended' = ended \cup {g}
  BY Zenon DEF IlPutDelim, Ended, Pieces
<1>3. e = [v8 EXCEPT !.q = Q, !.packets = N]
  BY <1>1 DEF V8Driver
<1>4. b \in QBlock /\ b.piece = NoPiece /\ b.delim = TRUE
  BY DEF QBlock, Piece, NoPiece
<1> HIDE DEF b
<1>5. b \in Blocks8
  BY <1>4 DEF Blocks8
<1>6. Flows(Blocks8, v8.tq, v8.q, v8.packets, hw.tx, hw.air, putting, begun, ended)
  BY <1>1, Zenon DEF Sending8
<1>7. MayFollow(b, p, begun)
  BY <1>2, <1>4, Zenon DEF MayFollow
<1>8. /\ Flows(Blocks8, v8.tq, Queued(v8.q, c, b), Counted(v8.packets, c, b), hw.tx, hw.air,
               PutAlready(putting, c, b), Begins(b, putting[c], begun), EndedBy(ended, c, b, putting[c]))
      /\ PutAlready(putting, c, b) \in Puts /\ Begins(b, putting[c], begun) \in Nat
  BY <1>1, <1>4, <1>5, <1>6, <1>7, FlowsPut
<1>9. /\ Queued(v8.q, c, b) = Q /\ Counted(v8.packets, c, b) = N
      /\ PutAlready(putting, c, b) = putting' /\ Begins(b, putting[c], begun) = begun'
      /\ EndedBy(ended, c, b, putting[c]) = ended'
  <2>1. b.delim /\ b.piece = NoPiece /\ UNCHANGED begun
    BY <1>2, <1>4
  <2> QED
    BY <1>2, <1>4, <2>1, Zenon DEF Queued, Counted, PutAlready, Begins, EndedBy, Target
<1>10. Flows(Blocks8, v8.tq, Q, N, hw.tx, hw.air, putting', begun', ended') /\ putting' \in Puts /\ begun' \in Nat
  BY <1>8, <1>9, Zenon
<1>11. /\ Q \in Queues /\ N \in Counts
       /\ \A k \in Chs : (k # c => Q[k] = v8.q[k] /\ N[k] = v8.packets[k]) /\ v8.packets[k] <= N[k]
  <2>1. \A k \in Chs : v8.q[k] \in Seq(QBlock) /\ v8.packets[k] \in Int
    BY <1>1 DEF Queues, Counts
  <2>2. Append(v8.q[c], b) \in Seq(QBlock) /\ v8.packets[c] + 1 \in Int
    BY <1>4, <2>1, AppendProperties
  <2>3. Q \in Queues /\ \A k \in Chs : k # c => Q[k] = v8.q[k]
    BY <1>1, <2>2 DEF Queues
  <2>4. N \in Counts /\ N[c] = v8.packets[c] + 1 /\ \A k \in Chs : k # c => N[k] = v8.packets[k]
    BY <1>1, <2>2 DEF Counts
  <2> HIDE DEF Q, N
  <2>5. \A k \in Chs : v8.packets[k] <= N[k]
    BY <2>1, <2>4
  <2> QED
    BY <2>3, <2>4, <2>5
<1> HIDE DEF Q, N
<1>12. In8([d |-> [v8 EXCEPT !.q = Q, !.packets = N], h |-> hw], lo, hi, putting', begun', ended')
  BY <1>1, <1>2, <1>10, <1>11, QueuedKeeps
<1> HIDE DEF e
<1>13. In8(s, lo, hi, putting', begun', ended')
  BY <1>3, <1>12, Zenon
<1>14. s.d = e /\ s.h = hw
  OBVIOUS
<1> HIDE DEF s
<1>15. In8(r, lo, hi, putting', begun', ended')
  <2>1. CASE e.active
    BY <1>13, <2>1, Zenon
  <2>2. CASE ~e.active
    <3> DEFINE u == IlStart(s)
               A == putting'
               B == begun'
               C == ended'
    <3>1. s \in V8State /\ s.d.panic = FALSE /\ Recv8(s, lo, hi) /\ Sending8(s, A, B, C) /\ B \in Nat
      BY <1>10, <1>13, Zenon DEF In8
    <3>2. s.d.tq = NoChan
      <4>1. s.d.tq # NoChan => s.d.active = TRUE
        BY <3>1, Zenon DEF Sending8
      <4> QED
        BY <1>14, <2>2, <4>1
    <3> HIDE DEF A, B, C
    <3>3. u \in V8State /\ Recv8Same(s, u) /\ u.d.open = s.d.open /\ Sending8(u, A, B, C)
      BY <3>1, <3>2, IlStartKeeps
    <3> HIDE DEF u
    <3>4. Recv8(u, lo, hi)
      BY <3>1, <3>3, Recv8Kept
    <3>5. u.d.panic = FALSE
      BY <3>1, <3>3, Zenon DEF Recv8Same
    <3>6. In8(u, lo, hi, A, B, C)
      BY <3>3, <3>4, <3>5, Zenon DEF In8
    <3> QED
      BY <2>2, <3>6, Zenon DEF u, A, B, C
  <2> QED
    BY <2>1, <2>2
<1> HIDE DEF r
<1>16. Nxt8 = r
  <2>1. r = [d |-> r.d, h |-> r.h]
    BY <1>15 DEF In8, V8State
  <2> QED
    BY <1>2, <2>1 DEF Nxt8, Result8
<1> QED
  BY <1>2, <1>10, <1>15, <1>16

-----------------------------------------------------------------------------
(* V10's driver: receiving.                                                *)

Steps10   == {"reset", "stat", "online", "done", "up"}
Currents  == [Chs -> QBlock]
V10Driver == [stage : Steps10, cmdact : BOOLEAN, chain : Chains, rnext : Nat, rcur : Int,
              rbytes : Int, rbufs : Int, lastch : Chs, q : Queues, ndelims : Counts,
              xcur : Currents, panic : BOOLEAN]
V10State  == [d : V10Driver, h : HW]

\* The blocks of chain behind the first taken ones are of total bytes.
Sums(chain, taken, total) ==
    \E g \in [0 .. Len(chain) -> Int] :
        /\ \A i \in 1 .. Len(chain) : g[i] = g[i - 1] + chain[i].bc
        /\ total = g[Len(chain)] - g[taken]

LEMMA SumsNone ==
  ASSUME NEW chain \in Seq(Block), NEW total, Sums(chain, Len(chain), total)
  PROVE  total = 0
<1>1. PICK g \in [0 .. Len(chain) -> Int] : total = g[Len(chain)] - g[Len(chain)]
  BY DEF Sums
<1>2. Len(chain) \in 0 .. Len(chain)
  OBVIOUS
<1>3. g[Len(chain)] \in Int
  BY <1>2
<1> QED
  BY <1>1, <1>3

LEMMA SumsTake ==
  ASSUME NEW chain \in Seq(Block), NEW taken \in Nat, taken + 1 \in 1 .. Len(chain),
         NEW total \in Int, Sums(chain, taken, total)
  PROVE  Sums(chain, taken + 1, total - chain[taken + 1].bc)
<1>1. PICK g \in [0 .. Len(chain) -> Int] :
          /\ \A i \in 1 .. Len(chain) : g[i] = g[i - 1] + chain[i].bc
          /\ total = g[Len(chain)] - g[taken]
  BY DEF Sums
<1> DEFINE n == Len(chain)
           j == taken + 1
           x == chain[j].bc
<1>2. n \in Nat /\ n \in 0 .. n /\ taken \in 0 .. n /\ j \in 0 .. n /\ j \in 1 .. n /\ j - 1 = taken
  OBVIOUS
<1>3. chain[j] \in Block
  BY <1>2, ElementOfSeq
<1>4. x \in Int
  BY <1>3 DEF Block
<1>5. g[j] = g[taken] + x
  BY <1>1, <1>2
<1> HIDE DEF n, j, x
<1>6. g[n] \in Int /\ g[taken] \in Int /\ g[j] \in Int
  BY <1>2 DEF n
<1>7. total - x = g[n] - g[j]
  BY <1>1, <1>4, <1>5, <1>6 DEF n
<1>8. Sums(chain, j, total - x)
  BY <1>1, <1>7 DEF Sums, n
<1> QED
  BY <1>8 DEF j, x

LEMMA SumsMore ==
  ASSUME NEW chain \in Seq(Block), NEW taken \in 0 .. Len(chain), NEW total \in Int,
         Sums(chain, taken, total), NEW b \in Block
  PROVE  Sums(Append(chain, b), taken, total + b.bc)
<1>1. PICK g \in [0 .. Len(chain) -> Int] :
          /\ \A i \in 1 .. Len(chain) : g[i] = g[i - 1] + chain[i].bc
          /\ total = g[Len(chain)] - g[taken]
  BY DEF Sums
<1> DEFINE n == Len(chain)
           c == Append(chain, b)
           f == [i \in 0 .. n + 1 |-> IF i <= n THEN g[i] ELSE g[n] + b.bc]
<1>2. n \in Nat /\ n \in 0 .. n /\ Len(c) = n + 1 /\ c[n + 1] = b /\ \A i \in 1 .. n : c[i] = chain[i]
  OBVIOUS
<1>3. b.bc \in Int
  BY DEF Block
<1> HIDE DEF n, c
<1>4. g[n] \in Int /\ g[taken] \in Int /\ \A i \in 0 .. n : g[i] \in Int
  BY <1>2 DEF n
<1>5. /\ f \in [0 .. n + 1 -> Int] /\ f[n + 1] = g[n] + b.bc
      /\ \A i \in 0 .. n : f[i] = g[i]
  BY <1>2, <1>3, <1>4
<1> HIDE DEF f
<1>6. \A i \in 1 .. n + 1 : f[i] = f[i - 1] + c[i].bc
  <2> TAKE i \in 1 .. n + 1
  <2>1. CASE i \in 1 .. n
    <3>1. i \in 0 .. n /\ i - 1 \in 0 .. n
      BY <1>2, <2>1
    <3>2. f[i] = g[i] /\ f[i - 1] = g[i - 1] /\ c[i] = chain[i]
      BY <1>2, <1>5, <2>1, <3>1, Zenon
    <3>3. g[i] = g[i - 1] + chain[i].bc
      BY <1>1, <2>1 DEF n
    <3> QED
      BY <3>2, <3>3
  <2>2. CASE i = n + 1
    <3>1. i - 1 = n
      BY <1>2, <2>2
    <3> QED
      BY <1>2, <1>5, <2>2, <3>1
  <2> QED
    BY <1>2, <2>1, <2>2
<1>7. total + b.bc = f[n + 1] - f[taken]
  <2>1. taken \in 0 .. n /\ total = g[n] - g[taken]
    BY <1>1 DEF n
  <2>2. f[taken] = g[taken]
    BY <1>5, <2>1
  <2> QED
    BY <1>3, <1>4, <1>5, <2>1, <2>2
<1>8. Sums(c, taken, total + b.bc)
  BY <1>2, <1>5, <1>6, <1>7, Zenon DEF Sums
<1> QED
  BY <1>8 DEF c

LEMMA SumsDrop ==
  ASSUME NEW chain \in Seq(Block), NEW k \in 0 .. Len(chain), NEW total, Sums(chain, k, total)
  PROVE  Sums(SubSeq(chain, k + 1, Len(chain)), 0, total)
<1>1. PICK g \in [0 .. Len(chain) -> Int] :
          /\ \A i \in 1 .. Len(chain) : g[i] = g[i - 1] + chain[i].bc
          /\ total = g[Len(chain)] - g[k]
  BY DEF Sums
<1> DEFINE n == Len(chain)
           j == k + 1
           c == SubSeq(chain, k + 1, n)
           m == n - k
           f == [i \in 0 .. m |-> g[k + i]]
<1>2. /\ n \in Nat /\ m \in Nat /\ k \in Nat /\ n = k + m
      /\ Len(c) = m /\ \A i \in 1 .. m : c[i] = chain[k + i]
  <2>1. j \in 1 .. n + 1 /\ n \in Nat
    OBVIOUS
  <2> HIDE DEF j
  <2>2. /\ Len(SubSeq(chain, j, n)) = n + 1 - j
        /\ \A i \in 1 .. n + 1 - j : SubSeq(chain, j, n)[i] = chain[j + i - 1]
    BY <2>1, Rest
  <2> QED
    BY <2>1, <2>2 DEF j
<1> HIDE DEF n, c, m
<1>3. f \in [0 .. m -> Int] /\ \A i \in 0 .. m : f[i] = g[k + i]
  BY <1>2 DEF n
<1> HIDE DEF f
<1>4. \A i \in 1 .. m : f[i] = f[i - 1] + c[i].bc
  <2> TAKE i \in 1 .. m
  <2>1. i \in 0 .. m /\ i - 1 \in 0 .. m /\ k + i \in 1 .. n /\ k + (i - 1) = (k + i) - 1
    BY <1>2
  <2>2. f[i] = g[k + i] /\ f[i - 1] = g[k + (i - 1)] /\ c[i] = chain[k + i]
    BY <1>2, <1>3, <2>1, Zenon
  <2>3. g[k + i] = g[(k + i) - 1] + chain[k + i].bc
    BY <1>1, <2>1, Zenon DEF n
  <2> QED
    BY <2>1, <2>2, <2>3, Zenon
<1>5. total = f[m] - f[0]
  <2>1. f[m] = g[k + m] /\ f[0] = g[k + 0] /\ k + 0 = k
    BY <1>2, <1>3
  <2> QED
    BY <1>1, <1>2, <2>1, Zenon DEF n
<1>6. Sums(c, 0, total)
  BY <1>2, <1>3, <1>4, <1>5, Zenon DEF Sums
<1> QED
  BY <1>6 DEF c, n

Taken10(d) == IF d.rnext = 0 THEN 0 ELSE d.rnext - 1

\* The buffers that the driver waits for are counted.
Buffers10(h, chain, taken, bytes, bufs, lo, hi) ==
    /\ Ringed(h, chain, taken, lo, hi)
    /\ bufs = Len(chain) - taken /\ Sums(chain, taken, bytes)

Recv10(s, lo, hi) ==
    LET d == s.d
    IN  /\ d.rnext # 1
        /\ Buffers10(s.h, d.chain, Taken10(d), d.rbytes, d.rbufs, lo, hi)
        /\ SoFar(s.h, d.chain, Taken10(d), d.rcur)
        /\ d.stage # "up" => d.chain = <<>>

\* What sending depends on.
Send10Same(s, t) ==
    /\ t.d.lastch = s.d.lastch /\ t.d.q = s.d.q /\ t.d.ndelims = s.d.ndelims
    /\ t.d.xcur = s.d.xcur /\ t.d.stage = s.d.stage /\ TxSame(s.h, t.h)
    /\ s.d.cmdact = TRUE => t.d.cmdact = TRUE

\* ilrcvbufs() has added a block to the chain, or there was no need to.
Refilled(s, t, taken) ==
    /\ Send10Same(s, t) /\ Same(s.h, t.h, s.d.chain, taken)
    /\ t.d.rnext = s.d.rnext /\ t.d.rcur = s.d.rcur /\ t.d.panic = s.d.panic
    /\ \A i \in 1 .. Len(s.d.chain) : i \in 1 .. Len(t.d.chain) /\ t.d.chain[i] = s.d.chain[i]
    /\ t.d.cmdact = TRUE \/ (t = s /\ ~CanSupply(s.d))
    /\ CanSupply(s.d) => t.d.cmdact = TRUE

LEMMA ReceiveBlockIs ==
  /\ AllocReceive \in Int /\ AllocReceive >= SmallBlock /\ AllocReceive % 8 = 0 /\ AllocReceive > 0
BY StreamsAssumption DEF AllocReceive

\* ilrcvbufs()
LEMMA IlRcvBufsKeeps ==
  ASSUME NEW s \in V10State, NEW taken \in Nat, NEW lo \in Nat, NEW hi \in Nat,
         Buffers10(s.h, s.d.chain, taken, s.d.rbytes, s.d.rbufs, lo, hi)
  PROVE  /\ IlRcvBufs(s) \in V10State /\ Refilled(s, IlRcvBufs(s), taken)
         /\ Buffers10(IlRcvBufs(s).h, IlRcvBufs(s).d.chain, taken,
                      IlRcvBufs(s).d.rbytes, IlRcvBufs(s).d.rbufs, lo, hi)
<1> DEFINE d == s.d
           h == s.h
           chain == d.chain
           n == Len(chain)
           t == IlRcvBufs(s)
           b == [id |-> Fresh(chain), bc |-> AllocReceive]
<1>1. d \in V10Driver /\ h \in HW /\ s = [d |-> d, h |-> h]
  BY DEF V10State
<1>2. chain \in Seq(Block) /\ n \in Nat /\ d.rbytes \in Int /\ d.rbufs \in Int
  BY <1>1, LenProperties DEF V10Driver, Chains
<1>3. Ringed(h, chain, taken, lo, hi) /\ d.rbufs = n - taken /\ Sums(chain, taken, d.rbytes)
  BY DEF Buffers10
<1>4. CASE ~CanSupply(d)
  <2>1. t = s
    BY <1>4 DEF IlRcvBufs
  <2>2. \A i \in 1 .. n : i \in 1 .. n
    OBVIOUS
  <2> QED
    BY <1>4, <2>1, <2>2, Zenon DEF Refilled, Send10Same, Same, TxSame
<1>5. CASE CanSupply(d)
  <2> DEFINE c == Append(chain, b)
             g == RcvCommand(h, b, TRUE)
             x == d.rbytes + b.bc
             y == d.rbufs + 1
             e == [d EXCEPT !.chain = c, !.rbytes = x, !.rbufs = y, !.cmdact = TRUE]
  <2>1. b \in Block /\ b.bc = AllocReceive /\ b.id = Fresh(chain)
    <3>1. Fresh(chain) \in Nat
      BY <1>2, FreshIs
    <3> QED
      BY <3>1, ReceiveBlockIs DEF Block
  <2>2. Blank(b) /\ Fits(h, b)
    BY <2>1, ReceiveBlockIs DEF Blank, Fits, Chained
  <2>3. \A i \in 1 .. n : chain[i].id # b.id
    BY <1>2, <2>1, FreshIs
  <2>4. Len(h.rxq) < RxQ
    <3>1. /\ taken \in 0 .. n /\ h.rpend \in 0 .. n - taken
          /\ h.rxq = SubSeq(chain, taken + h.rpend + 1, n)
      BY <1>3, Zenon DEF Ringed, Ring
    <3> DEFINE k == taken + h.rpend + 1
    <3>2. k \in 1 .. n + 1 /\ n + 1 - k <= n - taken
      <4> DEFINE r == h.rpend
      <4>1. taken \in 0 .. n /\ r \in 0 .. n - taken /\ n \in Nat /\ k = taken + r + 1
        BY <1>2, <3>1, Zenon
      <4> HIDE DEF n, r, k
      <4> QED
        BY <4>1
    <3> HIDE DEF k
    <3>3. Len(h.rxq) = n + 1 - k
      <4>1. Len(SubSeq(chain, k, n)) = n + 1 - k
        BY <1>2, <3>2, Rest
      <4> QED
        BY <3>1, <4>1, Zenon DEF k
    <3>4. d.rbufs < MaxRBufs /\ MaxRBufs \in Nat /\ RxQ \in Nat /\ RxQ >= MaxRBufs
      BY <1>5, BoardAssumption, RingAssumption, DriverAssumption DEF CanSupply
    <3>5. d.rbufs = n - taken /\ taken \in 0 .. n
      BY <1>3, <3>1
    <3> HIDE DEF n, d
    <3> QED
      BY <1>2, <3>2, <3>3, <3>4, <3>5
  <2>5. /\ g \in HW /\ TxSame(h, g) /\ g.rie = TRUE
        /\ Ringed(g, c, taken, lo, hi) /\ Same(h, g, chain, taken)
    BY <1>1, <1>2, <1>3, <2>1, <2>2, <2>3, <2>4, RcvKeeps
  <2>6. t = [d |-> e, h |-> g]
    <3>1. t = [d |-> [d EXCEPT !.chain = Append(@, b), !.rbytes = @ + b.bc,
                               !.rbufs = @ + 1, !.cmdact = TRUE], h |-> g]
      BY <1>5, Zenon DEF IlRcvBufs
    <3> QED
      BY <3>1
  <2>7. /\ c \in Seq(Block) /\ Len(c) = n + 1 /\ \A i \in 1 .. n : c[i] = chain[i]
    BY <1>2, <2>1, AppendProperties
  <2>8. x \in Int /\ y \in Int
    BY <1>2, <2>1, ReceiveBlockIs
  <2>9. Sums(c, taken, x)
    <3>1. taken \in 0 .. n
      BY <1>3, Zenon DEF Ringed
    <3> HIDE DEF b
    <3> QED
      BY <1>2, <1>3, <2>1, <3>1, SumsMore
  <2>10. y = Len(c) - taken
    <3> HIDE DEF n, c, d
    <3> QED
      BY <1>2, <1>3, <2>7
  <2> HIDE DEF g, t, c, x, y, b
  <2>11. /\ e \in V10Driver /\ e.chain = c /\ e.rbytes = x /\ e.rbufs = y /\ e.cmdact = TRUE
         /\ e.stage = d.stage /\ e.rnext = d.rnext /\ e.rcur = d.rcur /\ e.lastch = d.lastch
         /\ e.q = d.q /\ e.ndelims = d.ndelims /\ e.xcur = d.xcur /\ e.panic = d.panic
    <3>1. c \in Chains
      BY <2>7 DEF Chains
    <3>2. e \in V10Driver
      BY <1>1, <2>8, <3>1 DEF V10Driver
    <3>3. e.cmdact = TRUE /\ e.panic = d.panic
      BY <1>1, Zenon DEF V10Driver
    <3> QED
      BY <1>1, <3>2, <3>3 DEF V10Driver
  <2> HIDE DEF e
  <2>12. t.d = e /\ t.h = g /\ t \in V10State
    BY <2>5, <2>6, <2>11 DEF V10State
  <2>13. \A i \in 1 .. n : i \in 1 .. Len(c)
    BY <1>2, <2>7
  <2>14. Refilled(s, t, taken)
    BY <2>5, <2>7, <2>11, <2>12, <2>13, Zenon DEF Refilled, Send10Same, TxSame
  <2>15. Buffers10(t.h, t.d.chain, taken, t.d.rbytes, t.d.rbufs, lo, hi)
    BY <2>5, <2>9, <2>10, <2>11, <2>12, Zenon DEF Buffers10
  <2> QED
    BY <2>12, <2>14, <2>15, Zenon DEF t
<1> QED
  BY <1>4, <1>5

\* The driver has taken the interrupt for block k, and refilled.
Took(s, t, k, lo, hi) ==
    LET p == At(s.h, s.d.chain, k)
        q == At(t.h, t.d.chain, k)
    IN  /\ Send10Same(s, t) /\ t.d.panic = s.d.panic /\ t.d.stage = "up"
        /\ Buffers10(t.h, t.d.chain, k, t.d.rbytes, t.d.rbufs, lo, hi)
        /\ t.d.rcur > 0 <=> ~Over(p)
        /\ ~Over(p) => SoFar(t.h, t.d.chain, k, t.d.rcur)
        /\ q = p /\ SubSeq(t.d.chain, 1, k) = SubSeq(s.d.chain, 1, k)
        /\ Over(p) => Assembled(s.h.mem, SubSeq(s.d.chain, 1, k)) = p.frame
        /\ k = Len(t.d.chain) => t.d.cmdact = TRUE
        /\ k \in 1 .. Len(s.d.chain) /\ k \in 1 .. Len(t.d.chain)

LEMMA SamePrefix ==
  ASSUME NEW c \in Seq(Block), NEW e \in Seq(Block), NEW k \in 1 .. Len(c), k \in 1 .. Len(e),
         \A i \in 1 .. k : c[i] = e[i]
  PROVE  SubSeq(c, 1, k) = SubSeq(e, 1, k)
OBVIOUS

\* The assignments of il0int() to is.
Noted(a, w, z) == [a EXCEPT !.d.rbytes = @ - w, !.d.rbufs = @ - 1, !.d.rcur = z]
NotedIn(d, w, z) == [d EXCEPT !.rbytes = d.rbytes - w, !.rbufs = d.rbufs - 1, !.rcur = z]

LEMMA NotedIs ==
  ASSUME NEW d, NEW h, NEW w, NEW z
  PROVE  Noted([d |-> d, h |-> h], w, z) = [d |-> NotedIn(d, w, z), h |-> h]
<1> DEFINE a == [d |-> d, h |-> h]
           d1 == [d EXCEPT !.rbytes = @ - w]
           d2 == [d1 EXCEPT !.rbufs = @ - 1]
           d3 == [d2 EXCEPT !.rcur = z]
<1>1. [a EXCEPT !.d.rbytes = @ - w] = [d |-> d1, h |-> h]
  OBVIOUS
<1>2. [[d |-> d1, h |-> h] EXCEPT !.d.rbufs = @ - 1] = [d |-> d2, h |-> h]
  <2> HIDE DEF d1
  <2> QED OBVIOUS
<1>3. [[d |-> d2, h |-> h] EXCEPT !.d.rcur = z] = [d |-> d3, h |-> h]
  <2> HIDE DEF d2
  <2> QED OBVIOUS
<1>4. [a EXCEPT !.d.rbytes = @ - w, !.d.rbufs = @ - 1, !.d.rcur = z] = [[[a EXCEPT !.d.rbytes = @ - w] EXCEPT !.d.rbufs = @ - 1] EXCEPT !.d.rcur = z]
  BY Zenon
<1>5. [d EXCEPT !.rbytes = d.rbytes - w, !.rbufs = d.rbufs - 1, !.rcur = z] = d3
  OBVIOUS
<1> HIDE DEF d1, d2, d3
<1>6. [[a EXCEPT !.d.rbytes = @ - w] EXCEPT !.d.rbufs = @ - 1] = [d |-> d2, h |-> h]
  BY <1>1, <1>2, Zenon
<1>7. [[[a EXCEPT !.d.rbytes = @ - w] EXCEPT !.d.rbufs = @ - 1] EXCEPT !.d.rcur = z] = [d |-> d3, h |-> h]
  BY <1>3, <1>6, Zenon
<1> QED
  BY <1>4, <1>5, <1>7, Zenon DEF Noted, NotedIn, a

\* il0int(), up to the refill.
LEMMA Il0TakeKeeps ==
  ASSUME NEW s \in V10State, NEW lo \in Nat, NEW hi \in Nat, Recv10(s, lo, hi), s.h.rint = TRUE
  PROVE  /\ Il0Take([d |-> s.d, h |-> RintAck(s.h)]) \in V10State
         /\ Took(s, Il0Take([d |-> s.d, h |-> RintAck(s.h)]), Taken10(s.d) + 1, lo, hi)
         /\ Current(s.d) = Taken10(s.d) + 1 /\ s.d.chain # <<>> /\ Taken10(s.d) \in Nat
<1> DEFINE d == s.d
           h == s.h
           g == RintAck(h)
           chain == d.chain
           n == Len(chain)
           taken == Taken10(d)
           k == taken + 1
           m == taken + h.rpend
           b == chain[k]
           p == At(h, chain, k)
           rest == IF taken = 0 THEN Content(h.mem, b).len ELSE d.rcur
           x == d.rbytes - b.bc
           y == d.rbufs - 1
           z == rest - Min({rest, b.bc})
           e == [d EXCEPT !.rbytes = x, !.rbufs = y, !.rcur = z]
           u == [d |-> e, h |-> g]
           t == IlRcvBufs(u)
<1>1. d \in V10Driver /\ h \in HW /\ s = [d |-> d, h |-> h]
  BY DEF V10State
<1>2. /\ chain \in Seq(Block) /\ n \in Nat /\ d.rbytes \in Int /\ d.rbufs \in Int /\ d.rcur \in Int
      /\ d.rnext \in Nat
  BY <1>1, LenProperties DEF V10Driver, Chains
<1>3. /\ d.rnext # 1 /\ Ringed(h, chain, taken, lo, hi) /\ d.rbufs = n - taken
      /\ Sums(chain, taken, d.rbytes) /\ SoFar(h, chain, taken, d.rcur)
      /\ d.stage # "up" => chain = <<>>
  BY Zenon DEF Recv10, Buffers10
<1>4. taken \in Nat /\ Current(d) = k /\ (d.rnext = 0 <=> taken = 0)
  BY <1>2, <1>3 DEF Taken10, Current
<1> HIDE DEF taken
<1>5. /\ Ringed(g, chain, k, lo, hi) /\ g \in HW /\ TxSame(h, g) /\ g.rie = h.rie
      /\ g.mem = h.mem /\ k \in 1 .. m /\ m \in 0 .. n
  BY <1>1, <1>2, <1>3, <1>4, TakenKeeps
<1>6. k \in 1 .. n /\ k \in Nat /\ chain # <<>>
  <2>1. k \in 1 .. n
    BY <1>2, <1>5
  <2> QED
    BY <1>2, <2>1
<1>7. /\ PartOK(p, b, lo, hi) /\ b \in Block /\ p \in Part
      /\ rest = p.len - p.off /\ rest \in Int /\ rest > 0
      /\ rest <= b.bc <=> Over(p)
      /\ ~Over(p) => SoFar(h, chain, k, rest - b.bc)
      /\ Over(p) => Assembled(h.mem, SubSeq(chain, 1, k)) = p.frame
  <2>1. Parts(h, chain, m, lo, hi)
    BY <1>3, Zenon DEF Ringed
  <2> DEFINE l == m
             r == d.rcur
  <2>2. l \in 0 .. Len(chain) /\ taken + 1 \in 1 .. l /\ r \in Int
    BY <1>2, <1>5
  <2> HIDE DEF l
  <2>3. LET B   == chain[taken + 1]
            P   == At(h, chain, taken + 1)
            all == IF taken = 0 THEN Content(h.mem, B).len ELSE r
         IN  /\ PartOK(P, B, lo, hi) /\ B \in Block /\ P \in Part
             /\ all = P.len - P.off /\ all \in Int /\ all > 0
             /\ all <= B.bc <=> Over(P)
             /\ ~Over(P) => SoFar(h, chain, taken + 1, all - B.bc) /\ Chained(B)
             /\ Over(P) => Assembled(h.mem, SubSeq(chain, 1, taken + 1)) = P.frame
    <3> HIDE DEF r
    <3> QED
      BY <1>1, <1>2, <1>3, <1>4, <2>1, <2>2, TakeNext DEF l, r
  <2> QED
    BY <2>3, Zenon
<1>8. b.bc \in Int /\ z \in Int /\ (z > 0 <=> ~Over(p)) /\ (~Over(p) => z = rest - b.bc)
  <2> DEFINE w == b.bc
  <2>1. w \in Int
    BY <1>7 DEF Block
  <2> HIDE DEF b, rest, p
  <2>2. Min({rest, w}) = IF rest <= w THEN rest ELSE w
    BY <1>7, <2>1, MinOfTwo
  <2>3. rest \in Int /\ rest > 0 /\ (rest <= w <=> Over(p))
    BY <1>7
  <2> QED
    BY <2>1, <2>2, <2>3
<1>9. x \in Int /\ y \in Int /\ y = n - k /\ Sums(chain, k, x)
  <2>1. Sums(chain, k, x)
    BY <1>2, <1>3, <1>4, <1>6, SumsTake
  <2>2. d.rbufs = n - taken
    BY <1>3
  <2> HIDE DEF n, d, b
  <2> QED
    BY <1>2, <1>4, <1>8, <2>1, <2>2
<1>10. Il0Take([d |-> s.d, h |-> RintAck(s.h)]) = t
  <2> DEFINE a == [d |-> d, h |-> g]
  <2>1. a.d = d /\ a.h = g
    OBVIOUS
  <2>2. (IF a.d.rnext = 0 THEN Content(a.h.mem, a.d.chain[k]).len ELSE a.d.rcur) = rest
    BY <1>4, <1>5, <2>1, Zenon
  <2>3. [a EXCEPT !.d.rbytes = @ - b.bc, !.d.rbufs = @ - 1, !.d.rcur = z] = u
    <3> DEFINE w == b.bc
    <3> HIDE DEF w, z, g, d
    <3>1. Noted(a, w, z) = [d |-> NotedIn(d, w, z), h |-> g]
      <4> HIDE DEF chain, n, k, m, p, rest, x, y, e, u, t, h
      <4> QED
        BY NotedIs
    <3> QED
      BY <3>1, Zenon DEF w, Noted, NotedIn
  <2> HIDE DEF u
  <2>4. Il0Take(a) = IlRcvBufs([a EXCEPT !.d.rbytes = @ - b.bc, !.d.rbufs = @ - 1, !.d.rcur = z])
    <3>1. Current(a.d) = k /\ a.d.chain = chain
      BY <1>4, <2>1, Zenon
    <3> HIDE DEF a, b, rest
    <3> QED
      BY <2>2, <3>1, Zenon DEF Il0Take, b
  <2> QED
    BY <2>3, <2>4, Zenon
<1> HIDE DEF x, y, z, rest, b, g
<1>11. /\ e \in V10Driver /\ e.rbytes = x /\ e.rbufs = y /\ e.rcur = z /\ e.chain = chain
       /\ e.stage = d.stage /\ e.rnext = d.rnext /\ e.lastch = d.lastch
       /\ e.q = d.q /\ e.ndelims = d.ndelims /\ e.xcur = d.xcur
       /\ e.cmdact = d.cmdact /\ e.panic = d.panic
  <2>1. e \in V10Driver
    BY <1>1, <1>8, <1>9 DEF V10Driver
  <2>2. e.cmdact = d.cmdact /\ e.panic = d.panic
    BY <1>1, Zenon DEF V10Driver
  <2> QED
    BY <1>1, <2>1, <2>2 DEF V10Driver
<1> HIDE DEF e
<1>12. u \in V10State /\ u.d = e /\ u.h = g
  BY <1>5, <1>11 DEF V10State
<1> HIDE DEF u
<1>13. Buffers10(u.h, u.d.chain, k, u.d.rbytes, u.d.rbufs, lo, hi)
  BY <1>5, <1>9, <1>11, <1>12, Zenon DEF Buffers10
<1>14. /\ t \in V10State /\ Refilled(u, t, k)
       /\ Buffers10(t.h, t.d.chain, k, t.d.rbytes, t.d.rbufs, lo, hi)
  <2> HIDE DEF k
  <2> QED
    BY <1>6, <1>12, <1>13, IlRcvBufsKeeps
<1> HIDE DEF t
<1>15. Send10Same(s, t) /\ t.d.panic = d.panic /\ t.d.stage = "up"
  <2>1. Send10Same(u, t) /\ t.d.panic = u.d.panic
    BY <1>14, Zenon DEF Refilled
  <2>2. d.stage = "up"
    BY <1>3, <1>6
  <2> QED
    BY <1>5, <1>11, <1>12, <2>1, <2>2, Zenon DEF Send10Same, TxSame
<1>16. /\ t.d.chain \in Seq(Block) /\ \A i \in 1 .. n : i \in 1 .. Len(t.d.chain) /\ t.d.chain[i] = chain[i]
       /\ \A i \in 1 .. k : i \in 1 .. n /\ At(t.h, t.d.chain, i) = At(h, chain, i)
  <2>1. t.d.chain \in Seq(Block)
    BY <1>14 DEF V10State, V10Driver, Chains
  <2>2. \A i \in 1 .. n : i \in 1 .. Len(t.d.chain) /\ t.d.chain[i] = chain[i]
    BY <1>11, <1>12, <1>14, Zenon DEF Refilled
  <2>3. \A i \in 1 .. k : i \in 1 .. n
    BY <1>2, <1>6
  <2>4. \A i \in 1 .. k : At(t.h, chain, i) = At(g, chain, i)
    BY <1>11, <1>12, <1>14, Zenon DEF Refilled, Same
  <2> QED
    BY <1>5, <2>1, <2>2, <2>3, <2>4, Zenon DEF At
<1>17. k \in 1 .. Len(t.d.chain) /\ At(t.h, t.d.chain, k) = p /\ SubSeq(t.d.chain, 1, k) = SubSeq(chain, 1, k)
  <2>1. k \in 1 .. k
    BY <1>6
  <2>2. k \in 1 .. Len(t.d.chain) /\ At(t.h, t.d.chain, k) = p
    BY <1>6, <1>16, <2>1, Zenon
  <2>3. \A i \in 1 .. k : t.d.chain[i] = chain[i]
    BY <1>16, Zenon
  <2> DEFINE c == t.d.chain
             o == chain
  <2> HIDE DEF k, o, c
  <2>4. SubSeq(c, 1, k) = SubSeq(o, 1, k)
    BY <1>2, <1>6, <1>16, <2>2, <2>3, SamePrefix DEF c, o
  <2> QED
    BY <2>2, <2>4, Zenon DEF c, o
<1>18. t.d.rcur = z
  BY <1>11, <1>12, <1>14, Zenon DEF Refilled
<1>19. ASSUME ~Over(p)
       PROVE  SoFar(t.h, t.d.chain, k, t.d.rcur)
  <2>1. SoFar(h, chain, k, z)
    BY <1>7, <1>8, <1>19, Zenon
  <2>2. 1 \in 1 .. k /\ k \in 1 .. k
    BY <1>6
  <2> QED
    BY <1>16, <1>18, <2>1, <2>2, Zenon DEF SoFar
<1>20. ASSUME k = Len(t.d.chain)
       PROVE  t.d.cmdact = TRUE
  <2>1. SUFFICES ASSUME t = u, ~CanSupply(u.d), u.d.cmdact # TRUE
                 PROVE  FALSE
    BY <1>14, Zenon DEF Refilled
  <2>2. k = n /\ y = 0
    BY <1>2, <1>9, <1>11, <1>12, <1>20, <2>1
  <2>3. x = 0
    <3> HIDE DEF n, k
    <3>1. Sums(chain, Len(chain), x)
      BY <1>9, <2>2, Zenon DEF n
    <3> QED
      BY <1>2, <3>1, SumsNone
  <2>4. u.d.cmdact \in BOOLEAN
    BY <1>12 DEF V10State, V10Driver
  <2>5. u.d.rbytes < RBytes /\ u.d.rbufs < MaxRBufs
    BY <1>11, <1>12, <2>2, <2>3, DriverAssumption
  <2> QED
    BY <2>1, <2>4, <2>5, Zenon DEF CanSupply
<1>21. t.d.rcur > 0 <=> ~Over(p)
  BY <1>8, <1>18, Zenon
<1>22. Took(s, t, k, lo, hi)
  BY <1>6, <1>7, <1>14, <1>15, <1>17, <1>19, <1>20, <1>21, Zenon DEF Took
<1> QED
  BY <1>4, <1>6, <1>10, <1>14, <1>22, Zenon DEF taken

\* il0int() goes on, with a packet taken to its end or not, or panics.
Goes10(t, lo, hi) ==
    \/ t.d.panic = FALSE /\ got' = got /\ Recv10(t, lo, hi)
    \/ t.d.panic = FALSE /\ \E f \in lo + 1 .. hi : got' = Append(got, f) /\ Recv10(t, f, hi)
    \/ /\ t.d.panic = TRUE /\ t.d.cmdact = TRUE /\ got' = got
       /\ \E taken \in Nat : Ringed(t.h, t.d.chain, taken, lo, hi)

Cur10 == [d |-> v10, h |-> hw]
Nxt10 == [d |-> v10', h |-> hw']

\* il0int(): it panics only when a command has not been answered, and what goes
\* up is one whole frame.
LEMMA Il0intKeeps ==
  ASSUME NEW lo \in Nat, NEW hi \in Nat, Cur10 \in V10State, Recv10(Cur10, lo, hi),
         v10.panic = FALSE, hw.rint = TRUE, Il0int
  PROVE  Nxt10 \in V10State /\ Send10Same(Cur10, Nxt10) /\ Goes10(Nxt10, lo, hi)
<1> DEFINE s == Cur10
           a == [d |-> v10, h |-> RintAck(hw)]
           t == Il0Take(a)
           k == Taken10(v10) + 1
           p == At(hw, v10.chain, k)
           c == t.d.chain
           n == Len(c)
<1>1. /\ t \in V10State /\ Took(s, t, k, lo, hi)
      /\ Current(v10) = k /\ v10.chain # <<>> /\ Taken10(v10) \in Nat
  <2>1. s.h.rint = TRUE /\ s.d = v10 /\ s.h = hw
    BY DEF Cur10
  <2> DEFINE r == Cur10
  <2> HIDE DEF r
  <2>2. /\ Il0Take([d |-> r.d, h |-> RintAck(r.h)]) \in V10State
        /\ Took(r, Il0Take([d |-> r.d, h |-> RintAck(r.h)]), Taken10(r.d) + 1, lo, hi)
        /\ Current(r.d) = Taken10(r.d) + 1 /\ r.d.chain # <<>> /\ Taken10(r.d) \in Nat
    BY <2>1, Il0TakeKeeps DEF r
  <2> QED
    BY <2>1, <2>2, Zenon DEF r
<1>2. s.d = v10 /\ s.h = hw /\ v10 \in V10Driver /\ hw \in HW
  BY DEF Cur10, V10State
<1>3. IF t.d.rcur > 0
      THEN /\ v10' = IF k = n THEN [t.d EXCEPT !.rnext = 0, !.panic = TRUE]
                     ELSE [t.d EXCEPT !.rnext = k + 1]
           /\ hw' = t.h /\ got' = got
      ELSE /\ v10' = [t.d EXCEPT !.rnext = 0, !.chain = SubSeq(@, k + 1, Len(@))]
           /\ hw' = [t.h EXCEPT !.mem = Free(@, SubSeq(v10.chain, 1, k))]
           /\ got' = Append(got, Assembled(hw.mem, SubSeq(v10.chain, 1, k)))
  <2> HIDE DEF k
  <2> QED
    BY <1>1, Zenon DEF Il0int, PassUp
<1> HIDE DEF s, a, t, k
<1>4. /\ t.d \in V10Driver /\ t.h \in HW /\ c \in Seq(Block) /\ n \in Nat
  <2>1. t.d \in V10Driver /\ t.h \in HW
    BY <1>1 DEF V10State
  <2>2. c \in Seq(Block)
    BY <2>1 DEF V10Driver, Chains
  <2> QED
    BY <2>1, <2>2, LenProperties
<1>5. /\ Send10Same(s, t) /\ t.d.panic = v10.panic /\ t.d.stage = "up"
      /\ Buffers10(t.h, c, k, t.d.rbytes, t.d.rbufs, lo, hi)
      /\ t.d.rcur > 0 <=> ~Over(p)
      /\ ~Over(p) => SoFar(t.h, c, k, t.d.rcur)
      /\ At(t.h, c, k) = p /\ SubSeq(c, 1, k) = SubSeq(v10.chain, 1, k)
      /\ Over(p) => Assembled(hw.mem, SubSeq(v10.chain, 1, k)) = p.frame
      /\ k = n => t.d.cmdact = TRUE
      /\ k \in 1 .. n
  BY <1>1, <1>2, Zenon DEF Took
<1>6. k \in Nat /\ k > 0
  BY <1>1 DEF k
<1> HIDE DEF c, p
<1>7. CASE ~Over(p) /\ k = n
  <2> DEFINE z == 0
             e == [t.d EXCEPT !.rnext = z, !.panic = TRUE]
  <2>1. v10' = e /\ hw' = t.h /\ got' = got /\ t.d.cmdact = TRUE
    BY <1>3, <1>5, <1>7, Zenon
  <2>2. z \in Nat
    OBVIOUS
  <2> HIDE DEF z
  <2>3. /\ e \in V10Driver /\ e.panic = TRUE /\ e.cmdact = t.d.cmdact /\ e.chain = c
        /\ e.lastch = t.d.lastch /\ e.q = t.d.q /\ e.ndelims = t.d.ndelims /\ e.xcur = t.d.xcur
        /\ e.stage = t.d.stage
    <3>1. e \in V10Driver
      BY <1>4, <2>2 DEF V10Driver
    <3>2. e.panic = TRUE /\ e.cmdact = t.d.cmdact
      BY <1>4, Zenon DEF V10Driver
    <3> QED
      BY <1>4, <3>1, <3>2 DEF V10Driver, c
  <2> HIDE DEF e
  <2>4. Nxt10 \in V10State /\ Nxt10.d = e /\ Nxt10.h = t.h
    BY <1>4, <2>1, <2>3 DEF Nxt10, V10State
  <2>5. Send10Same(s, Nxt10)
    BY <1>5, <2>3, <2>4, Zenon DEF Send10Same
  <2>6. Ringed(Nxt10.h, Nxt10.d.chain, k, lo, hi)
    BY <1>5, <2>3, <2>4, Zenon DEF Buffers10
  <2>7. Goes10(Nxt10, lo, hi)
    BY <1>6, <2>1, <2>3, <2>4, <2>6, Zenon DEF Goes10
  <2> QED
    BY <2>4, <2>5, <2>7 DEF s
<1>8. CASE ~Over(p) /\ k # n
  <2> DEFINE r == k + 1
             e == [t.d EXCEPT !.rnext = r]
  <2>1. v10' = e /\ hw' = t.h /\ got' = got
    BY <1>3, <1>5, <1>8, Zenon
  <2>2. r \in Nat /\ r # 0 /\ r # 1 /\ r - 1 = k
    BY <1>6
  <2> HIDE DEF r
  <2>3. /\ e \in V10Driver /\ e.panic = t.d.panic /\ e.cmdact = t.d.cmdact /\ e.chain = c
        /\ e.lastch = t.d.lastch /\ e.q = t.d.q /\ e.ndelims = t.d.ndelims /\ e.xcur = t.d.xcur
        /\ e.stage = t.d.stage /\ e.rnext = r /\ e.rcur = t.d.rcur /\ e.rbytes = t.d.rbytes
        /\ e.rbufs = t.d.rbufs
    <3>1. e \in V10Driver
      BY <1>4, <2>2 DEF V10Driver
    <3>2. e.panic = t.d.panic /\ e.cmdact = t.d.cmdact
      BY <1>4, Zenon DEF V10Driver
    <3> QED
      BY <1>4, <3>1, <3>2 DEF V10Driver, c
  <2> HIDE DEF e
  <2>4. Nxt10 \in V10State /\ Nxt10.d = e /\ Nxt10.h = t.h
    BY <1>4, <2>1, <2>3 DEF Nxt10, V10State
  <2>5. Send10Same(s, Nxt10)
    BY <1>5, <2>3, <2>4, Zenon DEF Send10Same
  <2>6. Taken10(e) = k
    BY <2>2, <2>3, Zenon DEF Taken10
  <2>7. Recv10(Nxt10, lo, hi)
    BY <1>5, <1>8, <2>2, <2>3, <2>4, <2>6, Zenon DEF Recv10
  <2>8. Goes10(Nxt10, lo, hi)
    BY <1>5, <2>1, <2>3, <2>4, <2>7, Zenon DEF Goes10
  <2> QED
    BY <2>4, <2>5, <2>8 DEF s
<1>9. CASE Over(p)
  <2> DEFINE z == 0
             o == SubSeq(c, k + 1, n)
             g == [t.h EXCEPT !.mem = Free(@, SubSeq(c, 1, k))]
             e == [t.d EXCEPT !.rnext = z, !.chain = o]
  <2>1. v10' = e /\ hw' = g /\ got' = Append(got, p.frame)
    <3>1. /\ v10' = [t.d EXCEPT !.rnext = 0, !.chain = SubSeq(@, k + 1, Len(@))]
          /\ hw' = [t.h EXCEPT !.mem = Free(@, SubSeq(v10.chain, 1, k))]
          /\ got' = Append(got, Assembled(hw.mem, SubSeq(v10.chain, 1, k)))
      BY <1>3, <1>5, <1>9, Zenon
    <3>2. [t.d EXCEPT !.rnext = 0, !.chain = SubSeq(@, k + 1, Len(@))] = e
      BY DEF c
    <3> QED
      BY <1>5, <1>9, <3>1, <3>2, Zenon
  <2>2. /\ g \in HW /\ TxSame(t.h, g) /\ Ringed(g, o, 0, p.frame, hi) /\ p.frame \in lo + 1 .. hi
    <3> DEFINE u == t.h
    <3>1. Ringed(u, c, k, lo, hi) /\ Over(At(u, c, k)) /\ u \in HW /\ k \in 1 .. Len(c)
      BY <1>4, <1>5, <1>9, Zenon DEF Buffers10
    <3> HIDE DEF u
    <3>2. LET F == [u EXCEPT !.mem = Free(@, SubSeq(c, 1, k))]
          IN  /\ F \in HW /\ TxSame(u, F) /\ F.rie = u.rie
              /\ F.rpend = u.rpend /\ F.rxq = u.rxq /\ F.rx = u.rx
              /\ Ringed(F, SubSeq(c, k + 1, Len(c)), 0, At(u, c, k).frame, hi)
              /\ At(u, c, k).frame \in lo + 1 .. hi
      BY <1>4, <3>1, DropKeeps
    <3> QED
      BY <1>5, <3>2, Zenon DEF u
  <2>3. o \in Seq(Block) /\ Len(o) = n - k
    <3>1. k + 1 \in 1 .. n + 1
      BY <1>4, <1>5
    <3> DEFINE i == k + 1
    <3> HIDE DEF i
    <3>2. SubSeq(c, i, n) \in Seq(Block) /\ Len(SubSeq(c, i, n)) = n + 1 - i
      BY <1>4, <3>1, Rest DEF i
    <3> HIDE DEF n
    <3> QED
      BY <1>4, <1>6, <3>2 DEF i
  <2>4. Sums(o, 0, t.d.rbytes) /\ t.d.rbufs = Len(o) - 0
    <3>1. Sums(c, k, t.d.rbytes) /\ t.d.rbufs = n - k
      BY <1>5, Zenon DEF Buffers10
    <3>2. k \in 0 .. n
      BY <1>4, <1>5
    <3>3. Sums(o, 0, t.d.rbytes)
      BY <1>4, <3>1, <3>2, SumsDrop
    <3>4. n - k = (n - k) - 0
      BY <1>4, <1>6
    <3> QED
      BY <2>3, <3>1, <3>3, <3>4, Zenon
  <2>5. z \in Nat /\ z = 0
    OBVIOUS
  <2> HIDE DEF z, o, g
  <2>6. /\ e \in V10Driver /\ e.panic = t.d.panic /\ e.cmdact = t.d.cmdact /\ e.chain = o
        /\ e.lastch = t.d.lastch /\ e.q = t.d.q /\ e.ndelims = t.d.ndelims /\ e.xcur = t.d.xcur
        /\ e.stage = t.d.stage /\ e.rnext = z /\ e.rcur = t.d.rcur /\ e.rbytes = t.d.rbytes
        /\ e.rbufs = t.d.rbufs
    <3>0. o \in Chains
      BY <2>3 DEF Chains
    <3>1. e \in V10Driver
      BY <1>4, <2>5, <3>0 DEF V10Driver
    <3>2. e.panic = t.d.panic /\ e.cmdact = t.d.cmdact
      BY <1>4, Zenon DEF V10Driver
    <3> QED
      BY <1>4, <3>1, <3>2 DEF V10Driver
  <2> HIDE DEF e
  <2>7. Nxt10 \in V10State /\ Nxt10.d = e /\ Nxt10.h = g
    BY <2>1, <2>2, <2>6 DEF Nxt10, V10State
  <2>8. Send10Same(s, Nxt10)
    BY <1>5, <2>2, <2>6, <2>7, Zenon DEF Send10Same, TxSame
  <2>9. Taken10(e) = 0 /\ e.rnext # 1
    BY <2>5, <2>6 DEF Taken10
  <2>10. SoFar(g, o, 0, e.rcur)
    BY DEF SoFar
  <2>11. Recv10(Nxt10, p.frame, hi)
    <3>1. Buffers10(g, o, 0, e.rbytes, e.rbufs, p.frame, hi)
      BY <2>2, <2>4, <2>6, Zenon DEF Buffers10
    <3> QED
      BY <1>5, <2>6, <2>7, <2>9, <2>10, <3>1, Zenon DEF Recv10
  <2>12. Goes10(Nxt10, lo, hi)
    BY <1>5, <2>1, <2>2, <2>6, <2>7, <2>11, Zenon DEF Goes10
  <2> QED
    BY <2>7, <2>8, <2>12 DEF s
<1> QED
  BY <1>7, <1>8, <1>9

-----------------------------------------------------------------------------
(* V10's driver: sending.                                                  *)

\* A packet of V10 ends with a block that holds data.
Blocks10 == {b \in QBlock : b.piece # NoPiece}

\* K is in the middle of its packet, whose end ndelims counts no longer; N are
\* the ends of packets in the queues.
Midway(d, K, N) ==
    /\ K = IF d.xcur[d.lastch] # NoBlock /\ ~d.xcur[d.lastch].delim THEN d.lastch ELSE NoChan
    /\ \A c \in Chs : d.ndelims[c] >= 0 /\ N[c] = IF c = K THEN d.ndelims[c] + 1 ELSE d.ndelims[c]

Outgoing(s, K, N, put, beg, E) ==
    /\ Midway(s.d, K, N) /\ Flows(Blocks10, K, s.d.q, N, s.h.tx, s.h.air, put, beg, E)
    /\ s.d.stage # "up" => K = NoChan

\* A command is under way in the middle of a packet.
Sending10(s, put, beg, E) ==
    \E K \in Channel, N \in Counts :
        Outgoing(s, K, N, put, beg, E) /\ (K # NoChan => s.d.cmdact = TRUE)

\* What receiving depends on.
Recv10Same(s, t) ==
    /\ t.d.chain = s.d.chain /\ t.d.rnext = s.d.rnext /\ t.d.rcur = s.d.rcur
    /\ t.d.rbytes = s.d.rbytes /\ t.d.rbufs = s.d.rbufs /\ t.d.stage = s.d.stage
    /\ t.d.panic = s.d.panic
    /\ RxSame(s.h, t.h) /\ (t.h.rie = s.h.rie \/ t.h.rie = TRUE)

LEMMA Recv10Kept ==
  ASSUME NEW s, NEW t, Recv10Same(s, t), NEW lo, NEW hi, Recv10(s, lo, hi)
  PROVE  Recv10(t, lo, hi)
<1>1. Taken10(t.d) = Taken10(s.d)
  BY Zenon DEF Recv10Same, Taken10
<1>2. Ringed(t.h, s.d.chain, Taken10(s.d), lo, hi)
  BY RingedSame DEF Recv10Same, Recv10, Buffers10
<1>3. \A i : At(t.h, s.d.chain, i) = At(s.h, s.d.chain, i)
  BY Zenon DEF At, RxSame, Recv10Same
<1>4. SoFar(t.h, s.d.chain, Taken10(s.d), s.d.rcur)
  <2>1. SoFar(s.h, s.d.chain, Taken10(s.d), s.d.rcur)
    BY DEF Recv10
  <2> QED
    BY <1>3, <2>1, Zenon DEF SoFar
<1> QED
  BY <1>1, <1>2, <1>4, Zenon DEF Recv10, Buffers10, Recv10Same

\* The head of channel c's queue is to be sent, with m the ends counted.
Next10(d, c, m) == [d EXCEPT !.lastch = c, !.q = Shifted(d.q, c), !.ndelims = m,
                             !.xcur = [d.xcur EXCEPT ![c] = Head(d.q[c])]]

\* ilsendblock() of the head of channel c's queue, which is in the middle of
\* its packet or begins one.
LEMMA IlSendBlockKeeps ==
  ASSUME NEW s \in V10State, NEW K \in Channel, NEW N \in Counts,
         NEW put, NEW beg \in Nat, NEW E,
         Flows(Blocks10, K, s.d.q, N, s.h.tx, s.h.air, put, beg, E),
         NEW c \in Chs, K \in {NoChan, c}, N[c] > 0, s.d.stage = "up",
         NEW m \in Counts, m[c] = N[c] - 1, \A k \in Chs : m[k] >= 0 /\ (k # c => m[k] = N[k])
  PROVE  LET t == IlSendBlock([d |-> Next10(s.d, c, m), h |-> s.h], Head(s.d.q[c]))
         IN  t \in V10State /\ Recv10Same(s, t) /\ Sending10(t, put, beg, E)
<1> DEFINE d == s.d
           h == s.h
           q == d.q
           b == Head(q[c])
           x == b.piece
           e == Next10(d, c, m)
           g == IF b.delim THEN XmitCommand(h, <<x>>) ELSE LdXmitCommand(h, x)
           f == [e EXCEPT !.cmdact = TRUE]
           t == IlSendBlock([d |-> e, h |-> h], b)
           y == [d.xcur EXCEPT ![c] = b]
           r == Shifted(q, c)
<1>1. d \in V10Driver /\ h \in HW /\ q \in Queues /\ d.xcur \in Currents /\ h.air \in Seq(Seq(Piece))
  BY DEF V10State, V10Driver, HW
<1>2. q[c] # <<>> /\ b \in QBlock /\ b \in Blocks10
  <2> DEFINE Tx == h.tx
             Air == h.air
  <2>1. Flows(Blocks10, K, q, N, Tx, Air, put, beg, E)
    OBVIOUS
  <2> HIDE DEF q, Tx, Air
  <2> QED
    BY <1>1, <2>1, FlowsHave
<1>3. x \in Piece /\ x # NoPiece /\ b \in QBlock /\ b.delim \in BOOLEAN
  BY <1>2 DEF Blocks10, QBlock
<1>4. r \in Queues
  BY <1>1, <1>2, ShiftedIs
<1>5. /\ ~b.delim => Flows(Blocks10, c, r, N, Append(h.tx, x), h.air, put, beg, E)
      /\ b.delim => Flows(Blocks10, NoChan, r, [N EXCEPT ![c] = @ - 1], <<>>,
                          Append(h.air, Append(h.tx, x)), put, beg, E)
  <2> DEFINE Tx == h.tx
             Air == h.air
  <2>1. Flows(Blocks10, K, q, N, Tx, Air, put, beg, E) /\ Air \in Seq(Seq(Piece)) /\ q[c] # <<>>
    BY <1>1, <1>2
  <2> HIDE DEF q, Tx, Air
  <2>2. LET b1 == Head(q[c])
            z1 == Append(Tx, b1.piece)
            w1 == IF b1.piece = NoPiece THEN Tx ELSE Append(Tx, b1.piece)
        IN  /\ ~b1.delim => Flows(Blocks10, c, Shifted(q, c), N, z1, Air, put, beg, E)
            /\ b1.delim => Flows(Blocks10, NoChan, Shifted(q, c), [N EXCEPT ![c] = @ - 1], <<>>,
                                 Append(Air, w1), put, beg, E)
    BY <1>1, <2>1, FlowsSend
  <2> QED
    BY <1>3, <2>2, Zenon DEF Tx, Air
<1> HIDE DEF b, r
<1>6. /\ g \in HW /\ RxSame(h, g) /\ g.rie = TRUE
      /\ ~b.delim => g.tx = Append(h.tx, x) /\ g.air = h.air
      /\ b.delim => g.tx = <<>> /\ g.air = Append(h.air, Append(h.tx, x))
  <2> DEFINE ps == <<x>>
  <2>1. ps \in Seq(Piece) /\ h.tx \o ps = Append(h.tx, x)
    BY <1>1, <1>3 DEF HW
  <2> HIDE DEF ps, x
  <2>2. /\ LdXmitCommand(h, x) \in HW /\ RxSame(h, LdXmitCommand(h, x)) /\ LdXmitCommand(h, x).rie
        /\ LdXmitCommand(h, x).tx = Append(h.tx, x) /\ LdXmitCommand(h, x).air = h.air
        /\ XmitCommand(h, ps) \in HW /\ RxSame(h, XmitCommand(h, ps)) /\ XmitCommand(h, ps).rie
        /\ XmitCommand(h, ps).tx = <<>> /\ XmitCommand(h, ps).air = Append(h.air, h.tx \o ps)
    BY <1>1, <1>3, <2>1, TransmitIs
  <2>3. \A u \in HW : u.rie => u.rie = TRUE
    BY DEF HW
  <2> QED
    BY <2>1, <2>2, <2>3, Zenon DEF ps
<1> HIDE DEF g
<1>7. t = [d |-> f, h |-> g]
  BY DEF IlSendBlock, g
<1>8. y \in Currents /\ y[c] = b
  BY <1>1, <1>3 DEF Currents
<1> HIDE DEF y
<1>9. /\ f \in V10Driver /\ f.cmdact = TRUE /\ f.panic = d.panic
      /\ f.lastch = c /\ f.q = r /\ f.ndelims = m /\ f.xcur = y
      /\ f.chain = d.chain /\ f.rnext = d.rnext /\ f.rcur = d.rcur /\ f.rbytes = d.rbytes
      /\ f.rbufs = d.rbufs /\ f.stage = d.stage
  <2>1. f = [d EXCEPT !.lastch = c, !.q = r, !.ndelims = m, !.xcur = y, !.cmdact = TRUE]
    <3>1. e = [d EXCEPT !.lastch = c, !.q = r, !.ndelims = m, !.xcur = y]
      BY Zenon DEF Next10, r, y, b
    <3> HIDE DEF e
    <3> QED
      BY <3>1
  <2> HIDE DEF f
  <2>2. f \in V10Driver
    BY <1>1, <1>4, <1>8, <2>1 DEF V10Driver
  <2>3. f.cmdact = TRUE /\ f.panic = d.panic
    BY <1>1, <2>1, Zenon DEF V10Driver
  <2> QED
    BY <1>1, <2>1, <2>2, <2>3 DEF V10Driver
<1> HIDE DEF f, t
<1>10. t.d = f /\ t.h = g /\ t \in V10State
  BY <1>6, <1>7, <1>9 DEF V10State
<1>11. Recv10Same(s, t)
  BY <1>6, <1>9, <1>10, Zenon DEF Recv10Same
<1>12. b # NoBlock
  BY <1>3 DEF NoBlock
<1>13. NoChan # c /\ NoChan \in Channel /\ c \in Channel /\ \A k \in Chs : k # NoChan
  BY StreamsAssumption DEF Channel, Chs, NoChan
<1>14. \A k \in Chs : m[k] \in Int /\ N[k] \in Int
  BY DEF Counts
<1>15. CASE ~b.delim
  <2>1. Midway(t.d, c, N)
    <3>1. \A k \in Chs : N[k] = IF k = c THEN m[k] + 1 ELSE m[k]
      BY <1>14
    <3> QED
      BY <1>8, <1>9, <1>10, <1>12, <1>15, <3>1, Zenon DEF Midway
  <2>2. Outgoing(t, c, N, put, beg, E)
    BY <1>5, <1>6, <1>9, <1>10, <1>15, <2>1, Zenon DEF Outgoing
  <2>3. Sending10(t, put, beg, E)
    BY <1>9, <1>10, <1>13, <2>2, Zenon DEF Sending10
  <2> QED
    BY <1>10, <1>11, <2>3, Zenon DEF t, e, b
<1>16. CASE b.delim
  <2> DEFINE M == [N EXCEPT ![c] = @ - 1]
  <2>1. M \in Counts /\ \A k \in Chs : M[k] = m[k]
    BY <1>14 DEF Counts
  <2>2. Flows(Blocks10, NoChan, r, M, <<>>, Append(h.air, Append(h.tx, x)), put, beg, E)
    BY <1>5, <1>16, Zenon
  <2> HIDE DEF M
  <2>3. Midway(t.d, NoChan, M)
    BY <1>8, <1>9, <1>10, <1>13, <1>16, <2>1, Zenon DEF Midway
  <2>4. Outgoing(t, NoChan, M, put, beg, E)
    BY <1>6, <1>9, <1>10, <1>16, <2>2, <2>3, Zenon DEF Outgoing
  <2>5. Sending10(t, put, beg, E)
    BY <1>9, <1>10, <1>13, <2>1, <2>4, Zenon DEF Sending10
  <2> QED
    BY <1>10, <1>11, <2>5, Zenon DEF t, e, b
<1> QED
  BY <1>15, <1>16

\* The assignments of ilsendpkt() to is.
Picked(s, c, b) == [s EXCEPT !.d.lastch = c, !.d.q[c] = Tail(@), !.d.ndelims[c] = @ - 1, !.d.xcur[c] = b]

LEMMA PickedIs ==
  ASSUME NEW d \in V10Driver, NEW h, NEW c \in Chs
  PROVE  Picked([d |-> d, h |-> h], c, Head(d.q[c])) =
         [d |-> Next10(d, c, [d.ndelims EXCEPT ![c] = @ - 1]), h |-> h]
<1> DEFINE s == [d |-> d, h |-> h]
           b == Head(d.q[c])
           q == Shifted(d.q, c)
           m == [d.ndelims EXCEPT ![c] = @ - 1]
           y == [d.xcur EXCEPT ![c] = b]
           d1 == [d EXCEPT !.lastch = c]
           d2 == [d1 EXCEPT !.q = q]
           d3 == [d2 EXCEPT !.ndelims = m]
           d4 == [d3 EXCEPT !.xcur = y]
<1>1. [s EXCEPT !.d.lastch = c] = [d |-> d1, h |-> h]
  OBVIOUS
<1>2. d1.q = d.q /\ d1.ndelims = d.ndelims /\ d1.xcur = d.xcur
  BY DEF V10Driver
<1> HIDE DEF b, m, y, q
<1> DEFINE a == Tail(d.q[c])
           n == d.ndelims[c] - 1
<1>3. [[d |-> d1, h |-> h] EXCEPT !.d.q[c] = a] = [d |-> d2, h |-> h]
  <2>1. q = [d1.q EXCEPT ![c] = a]
    BY <1>2, Zenon DEF q, Shifted
  <2> HIDE DEF d1, a
  <2> QED
    BY <2>1
<1>4. d2.ndelims = d.ndelims /\ d2.xcur = d.xcur
  BY DEF V10Driver
<1>5. [[d |-> d2, h |-> h] EXCEPT !.d.ndelims[c] = n] = [d |-> d3, h |-> h]
  <2>1. m = [d2.ndelims EXCEPT ![c] = n]
    <3> HIDE DEF d2
    <3> QED
      BY <1>4, Zenon DEF m
  <2> HIDE DEF d2
  <2> QED
    BY <2>1
<1>6. d3.xcur = d.xcur
  BY DEF V10Driver
<1>7. [[d |-> d3, h |-> h] EXCEPT !.d.xcur[c] = b] = [d |-> d4, h |-> h]
  <2>1. y = [d3.xcur EXCEPT ![c] = b]
    <3> HIDE DEF d3
    <3> QED
      BY <1>6, Zenon DEF y
  <2> HIDE DEF d3
  <2> QED
    BY <2>1
<1>8. Next10(d, c, m) = d4
  <2>1. d4 = [d EXCEPT !.lastch = c, !.q = q, !.ndelims = m, !.xcur = y]
    OBVIOUS
  <2> HIDE DEF d4
  <2> QED
    BY <2>1, Zenon DEF Next10, q, y, b
<1>9. Picked(s, c, b) = [[[[s EXCEPT !.d.lastch = c] EXCEPT !.d.q[c] = a]
                              EXCEPT !.d.ndelims[c] = n] EXCEPT !.d.xcur[c] = b]
  BY Zenon DEF Picked
<1> HIDE DEF d1, d2, d3, d4, a, n
<1>10. [[s EXCEPT !.d.lastch = c] EXCEPT !.d.q[c] = a] = [d |-> d2, h |-> h]
  BY <1>1, <1>3, Zenon
<1>11. [[[s EXCEPT !.d.lastch = c] EXCEPT !.d.q[c] = a] EXCEPT !.d.ndelims[c] = n] = [d |-> d3, h |-> h]
  BY <1>5, <1>10, Zenon
<1>12. Picked(s, c, b) = [d |-> d4, h |-> h]
  BY <1>7, <1>9, <1>11, Zenon
<1> QED
  BY <1>8, <1>12, Zenon DEF b, m

LEMMA TurnsAre ==
  ASSUME NEW d \in V10Driver, NEW c \in Chs
  PROVE  Turn(d, c) \in Int
<1>1. d.lastch \in Chs
  BY DEF V10Driver
<1> QED
  BY <1>1, StreamsAssumption DEF Turn, Chs

\* ilsendpkt() when no channel is in the middle of a packet: there is always a
\* block where ndelims says so.
LEMMA IlSendPktKeeps ==
  ASSUME NEW s \in V10State, NEW N \in Counts, NEW put, NEW beg \in Nat, NEW E,
         Outgoing(s, NoChan, N, put, beg, E), s.d.stage = "up"
  PROVE  LET t == IlSendPkt(s)
         IN  t \in V10State /\ Recv10Same(s, t) /\ Sending10(t, put, beg, E)
<1> DEFINE d == s.d
           h == s.h
           W == Waiting(d)
           c == CHOOSE k \in W : \A e \in W : Turn(d, k) <= Turn(d, e)
           b == Head(d.q[c])
           m == [d.ndelims EXCEPT ![c] = @ - 1]
           t == IlSendPkt(s)
<1>1. d \in V10Driver /\ h \in HW /\ d.q \in Queues /\ d.ndelims \in Counts /\ s = [d |-> d, h |-> h]
  BY DEF V10State, V10Driver
<1>2. NoChan \in Channel /\ \A k \in Chs : k # NoChan
  BY StreamsAssumption DEF Channel, Chs, NoChan
<1>3. /\ Flows(Blocks10, NoChan, d.q, N, h.tx, h.air, put, beg, E)
      /\ \A k \in Chs : N[k] = d.ndelims[k] /\ d.ndelims[k] >= 0
  BY <1>2, Zenon DEF Outgoing, Midway
<1>4. CASE d.cmdact \/ W = {}
  <2>1. t = s
    BY <1>4, Zenon DEF IlSendPkt
  <2>2. Sending10(s, put, beg, E)
    BY <1>2, Zenon DEF Sending10
  <2> QED
    BY <2>1, <2>2, Zenon DEF Recv10Same, RxSame
<1>5. CASE ~d.cmdact /\ W # {}
  <2>1. c \in W
    <3> DEFINE f == [k \in Chs |-> Turn(d, k)]
    <3>1. f \in [Chs -> Int] /\ \A k \in Chs : f[k] = Turn(d, k)
      BY <1>1, TurnsAre
    <3>2. W \in SUBSET Chs
      BY DEF Waiting
    <3> HIDE DEF f, W
    <3>3. \E k \in W : \A e \in W : f[k] <= f[e]
      BY <1>5, <3>1, <3>2, FirstChannel
    <3>4. \E k \in W : \A e \in W : Turn(d, k) <= Turn(d, e)
      BY <3>1, <3>2, <3>3
    <3> QED
      BY <3>4, Zenon
  <2>2. c \in Chs /\ d.ndelims[c] > 0
    BY <2>1 DEF Waiting
  <2>3. N[c] = d.ndelims[c] /\ N[c] > 0
    BY <1>3, <2>2
  <2> HIDE DEF c
  <2>4. d.q[c] # <<>>
    <3> DEFINE Q == d.q
               Tx == h.tx
               Air == h.air
    <3>1. Flows(Blocks10, NoChan, Q, N, Tx, Air, put, beg, E) /\ Q \in Queues
      BY <1>1, <1>3
    <3> HIDE DEF Q, Tx, Air
    <3>2. Q[c] # <<>>
      BY <1>2, <2>2, <2>3, <3>1, FlowsHave
    <3> QED
      BY <3>2 DEF Q
  <2>5. t = IlSendBlock(Picked(s, c, b), b)
    BY <1>5, <2>4, Zenon DEF IlSendPkt, Picked, c
  <2>6. Picked(s, c, b) = [d |-> Next10(d, c, m), h |-> h]
    <3> DEFINE dd == s.d
    <3>1. dd \in V10Driver
      BY <1>1
    <3> HIDE DEF dd
    <3>2. Picked([d |-> dd, h |-> h], c, Head(dd.q[c])) =
         [d |-> Next10(dd, c, [dd.ndelims EXCEPT ![c] = @ - 1]), h |-> h]
      BY <2>2, <3>1, PickedIs
    <3> QED
      BY <1>1, <3>2, Zenon DEF dd
  <2>7. /\ m \in Counts /\ m[c] = N[c] - 1 /\ \A k \in Chs : m[k] >= 0 /\ (k # c => m[k] = N[k])
    <3>1. \A k \in Chs : d.ndelims[k] \in Int
      BY <1>1 DEF Counts
    <3>2. m \in Counts
      BY <1>1, <2>2, <3>1 DEF Counts
    <3> DEFINE n == d.ndelims
    <3>3. n \in [Chs -> Int] /\ n[c] > 0 /\ \A k \in Chs : N[k] = n[k] /\ n[k] >= 0
      BY <1>1, <1>3, <2>2 DEF Counts
    <3> HIDE DEF n
    <3>4. [n EXCEPT ![c] = @ - 1][c] = N[c] - 1
      BY <2>2, <3>3
    <3>5. \A k \in Chs : [n EXCEPT ![c] = @ - 1][k] >= 0 /\ (k # c => [n EXCEPT ![c] = @ - 1][k] = N[k])
      BY <2>2, <3>3
    <3> QED
      BY <3>2, <3>4, <3>5 DEF n
  <2>8. LET u == IlSendBlock([d |-> Next10(s.d, c, m), h |-> s.h], Head(s.d.q[c]))
        IN  u \in V10State /\ Recv10Same(s, u) /\ Sending10(u, put, beg, E)
    <3> DEFINE K == NoChan
    <3>1. K \in Channel /\ K \in {NoChan, c} /\ Flows(Blocks10, K, s.d.q, N, s.h.tx, s.h.air, put, beg, E)
      BY <1>2, <1>3
    <3> HIDE DEF K, m
    <3> QED
      BY <2>2, <2>3, <2>7, <3>1, IlSendBlockKeeps
  <2> QED
    BY <2>5, <2>6, <2>8, Zenon
<1> QED
  BY <1>4, <1>5

\* The next command is that of a packet: the next block of one that K is in the
\* middle of, or the first of another.
LEMMA IlSentKeeps ==
  ASSUME NEW s \in V10State, NEW K \in Channel, NEW N \in Counts, NEW put, NEW beg \in Nat, NEW E,
         Outgoing(s, K, N, put, beg, E), s.d.stage = "up"
  PROVE  LET t == IlSent(s)
         IN  t \in V10State /\ Recv10Same(s, t) /\ Sending10(t, put, beg, E)
<1> DEFINE d == s.d
           h == s.h
           c == d.lastch
           b == d.xcur[c]
           y == [d.xcur EXCEPT ![c] = NoBlock]
           e == [d EXCEPT !.xcur = y]
           t == IlSent(s)
           mid == b # NoBlock /\ ~b.delim
<1>1. /\ d \in V10Driver /\ h \in HW /\ d.q \in Queues /\ d.ndelims \in Counts /\ d.xcur \in Currents
      /\ c \in Chs /\ s = [d |-> d, h |-> h]
  BY DEF V10State, V10Driver
<1>2. NoChan \in Channel /\ \A k \in Chs : k # NoChan
  BY StreamsAssumption DEF Channel, Chs, NoChan
<1>3. /\ Flows(Blocks10, K, d.q, N, h.tx, h.air, put, beg, E)
      /\ K = IF mid THEN c ELSE NoChan
      /\ \A k \in Chs : d.ndelims[k] >= 0 /\ N[k] = IF k = K THEN d.ndelims[k] + 1 ELSE d.ndelims[k]
  BY Zenon DEF Outgoing, Midway
<1>4. y \in Currents /\ y[c] = NoBlock
  BY <1>1 DEF Currents, NoBlock, QBlock, Piece, NoPiece
<1>5. \A k \in Chs : d.ndelims[k] \in Int
  BY <1>1 DEF Counts
<1>6. CASE mid
  <2>1. K = c /\ N[c] = d.ndelims[c] + 1 /\ d.ndelims[c] >= 0
    BY <1>1, <1>3, <1>6, Zenon
  <2>2. N[c] > 0 /\ d.ndelims[c] = N[c] - 1
    BY <1>1, <1>5, <2>1
  <2>3. \A k \in Chs : d.ndelims[k] >= 0 /\ (k # c => d.ndelims[k] = N[k])
    BY <1>3, <2>1, Zenon
  <2>4. d.q[c] # <<>>
    <3> DEFINE Q == d.q
               Tx == h.tx
               Air == h.air
               C == c
    <3>1. Flows(Blocks10, K, Q, N, Tx, Air, put, beg, E) /\ Q \in Queues /\ C \in Chs /\ N[C] > 0
      BY <1>1, <1>3, <2>2
    <3> HIDE DEF Q, Tx, Air, C
    <3>2. Q[C] # <<>>
      BY <3>1, FlowsHave
    <3> QED
      BY <3>2 DEF Q, C
  <2> DEFINE o == Head(d.q[c])
             x == [s EXCEPT !.d = [e EXCEPT !.q[c] = Tail(@), !.xcur[c] = o]]
             m == d.ndelims
  <2>5. t = IlSendBlock(x, o)
    <3> DEFINE dd == [d EXCEPT !.xcur[c] = NoBlock]
    <3>1. dd = e /\ dd.q = d.q
      BY <1>1 DEF V10Driver
    <3>2. t = IF b # NoBlock /\ ~b.delim /\ dd.q[c] # <<>>
              THEN IlSendBlock([s EXCEPT !.d = [dd EXCEPT !.q[c] = Tail(@), !.xcur[c] = Head(dd.q[c])]],
                               Head(dd.q[c]))
              ELSE IlSendPkt([s EXCEPT !.d = dd])
      BY Zenon DEF IlSent
    <3> HIDE DEF dd, e
    <3> QED
      BY <1>6, <2>4, <3>1, <3>2, Zenon
  <2>6. x = [d |-> Next10(d, c, m), h |-> h]
    <3> DEFINE w == [e EXCEPT !.q[c] = Tail(@), !.xcur[c] = o]
               r == Shifted(d.q, c)
               v == [d.xcur EXCEPT ![c] = o]
    <3>1. x = [d |-> w, h |-> h]
      <4>1. \A k : [s EXCEPT !.d = k] = [d |-> k, h |-> h]
        BY DEF V10State
      <4> HIDE DEF w
      <4> QED
        BY <4>1, Zenon DEF w
    <3>2. e.q = d.q /\ e.xcur = y /\ [y EXCEPT ![c] = o] = v
      BY <1>1, <1>4 DEF V10Driver, Currents
    <3>3. w = [e EXCEPT !.q = r, !.xcur = v]
      <4>1. r = [e.q EXCEPT ![c] = Tail(e.q[c])] /\ v = [e.xcur EXCEPT ![c] = o]
        <5> HIDE DEF e, v, y
        <5> QED
          BY <3>2, Zenon DEF Shifted
      <4> HIDE DEF e, r, v, o
      <4>2. w = [e EXCEPT !.q[c] = Tail(e.q[c]), !.xcur[c] = o]
        OBVIOUS
      <4> QED
        BY <4>1, <4>2
    <3> HIDE DEF r, v, o, y, m
    <3>4. [e EXCEPT !.q = r, !.xcur = v] = [d EXCEPT !.lastch = c, !.q = r, !.ndelims = m, !.xcur = v]
      BY <1>1 DEF V10Driver, m
    <3>5. Next10(d, c, m) = [d EXCEPT !.lastch = c, !.q = r, !.ndelims = m, !.xcur = v]
      BY Zenon DEF Next10, r, v, o
    <3> HIDE DEF w, e
    <3> QED
      BY <3>1, <3>3, <3>4, <3>5, Zenon
  <2>7. LET u == IlSendBlock([d |-> Next10(s.d, c, m), h |-> s.h], Head(s.d.q[c]))
        IN  u \in V10State /\ Recv10Same(s, u) /\ Sending10(u, put, beg, E)
    <3> DEFINE C == c
               M == m
    <3>1. /\ C \in Chs /\ K \in {NoChan, C} /\ M \in Counts /\ N[C] > 0 /\ M[C] = N[C] - 1
          /\ \A k \in Chs : M[k] >= 0 /\ (k # C => M[k] = N[k])
          /\ Flows(Blocks10, K, s.d.q, N, s.h.tx, s.h.air, put, beg, E)
      BY <1>1, <1>3, <2>1, <2>2, <2>3
    <3> HIDE DEF C, M
    <3>2. LET u == IlSendBlock([d |-> Next10(s.d, C, M), h |-> s.h], Head(s.d.q[C]))
          IN  u \in V10State /\ Recv10Same(s, u) /\ Sending10(u, put, beg, E)
      BY <3>1, IlSendBlockKeeps
    <3> QED
      BY <3>2, Zenon DEF C, M
  <2> QED
    BY <2>5, <2>6, <2>7, Zenon
<1>7. CASE ~mid
  <2> DEFINE u == [s EXCEPT !.d = e]
  <2>1. K = NoChan
    BY <1>3, <1>7, Zenon
  <2>2. t = IlSendPkt(u)
    <3> DEFINE dd == [d EXCEPT !.xcur[c] = NoBlock]
    <3>1. dd = e
      BY <1>1 DEF V10Driver
    <3>2. t = IF b # NoBlock /\ ~b.delim /\ dd.q[c] # <<>>
              THEN IlSendBlock([s EXCEPT !.d = [dd EXCEPT !.q[c] = Tail(@), !.xcur[c] = Head(dd.q[c])]],
                               Head(dd.q[c]))
              ELSE IlSendPkt([s EXCEPT !.d = dd])
      BY Zenon DEF IlSent
    <3> HIDE DEF dd, e
    <3> QED
      BY <1>7, <3>1, <3>2, Zenon
  <2> HIDE DEF y
  <2>3. /\ e \in V10Driver /\ e.cmdact = d.cmdact /\ e.panic = d.panic
        /\ e.lastch = c /\ e.q = d.q /\ e.ndelims = d.ndelims /\ e.xcur = y
        /\ e.chain = d.chain /\ e.rnext = d.rnext /\ e.rcur = d.rcur /\ e.rbytes = d.rbytes
        /\ e.rbufs = d.rbufs /\ e.stage = d.stage
    <3>1. e \in V10Driver
      BY <1>1, <1>4 DEF V10Driver
    <3>2. e.cmdact = d.cmdact /\ e.panic = d.panic
      BY <1>1, Zenon DEF V10Driver
    <3> QED
      BY <1>1, <3>1, <3>2 DEF V10Driver
  <2> HIDE DEF e
  <2>4. u.d = e /\ u.h = h /\ u \in V10State
    <3>1. u = [d |-> e, h |-> h]
      BY <1>1
    <3> HIDE DEF u
    <3> QED
      BY <1>1, <2>3, <3>1 DEF V10State
  <2> HIDE DEF u, t
  <2>5. Outgoing(u, NoChan, N, put, beg, E) /\ u.d.stage = "up"
    <3>1. Midway(e, NoChan, N)
      BY <1>2, <1>3, <1>4, <2>1, <2>3, Zenon DEF Midway
    <3> QED
      BY <1>3, <2>1, <2>3, <2>4, <3>1, Zenon DEF Outgoing
  <2>6. LET r == IlSendPkt(u)
        IN  r \in V10State /\ Recv10Same(u, r) /\ Sending10(r, put, beg, E)
    BY <2>4, <2>5, IlSendPktKeeps
  <2>7. Recv10Same(s, t)
    <3>1. Recv10Same(u, t)
      BY <2>2, <2>6, Zenon
    <3> QED
      BY <2>3, <2>4, <3>1, Zenon DEF Recv10Same, RxSame
  <2> QED
    BY <2>2, <2>6, <2>7, Zenon DEF t
<1> QED
  BY <1>6, <1>7

-----------------------------------------------------------------------------
(* V10's driver: what its steps keep.                                      *)

LEMMA RefillKeeps ==
  ASSUME NEW s \in V10State, NEW lo \in Nat, NEW hi \in Nat, Recv10(s, lo, hi), s.d.stage = "up"
  PROVE  /\ IlRcvBufs(s) \in V10State /\ Send10Same(s, IlRcvBufs(s))
         /\ IlRcvBufs(s).d.panic = s.d.panic /\ Recv10(IlRcvBufs(s), lo, hi)
         /\ CanSupply(s.d) => IlRcvBufs(s).d.cmdact = TRUE
<1> DEFINE t == IlRcvBufs(s)
           d == s.d
           k == Taken10(d)
<1>1. /\ d.rnext # 1 /\ Buffers10(s.h, d.chain, k, d.rbytes, d.rbufs, lo, hi)
      /\ SoFar(s.h, d.chain, k, d.rcur)
  BY Zenon DEF Recv10
<1>2. k \in Nat
  <2>1. d.rnext \in Nat
    BY DEF V10State, V10Driver
  <2> QED
    BY <2>1 DEF Taken10
<1>3. /\ t \in V10State /\ Refilled(s, t, k)
      /\ Buffers10(t.h, t.d.chain, k, t.d.rbytes, t.d.rbufs, lo, hi)
  <2> HIDE DEF k
  <2> QED
    BY <1>1, <1>2, IlRcvBufsKeeps
<1> HIDE DEF t
<1>4. Taken10(t.d) = k /\ t.d.rnext = d.rnext /\ t.d.rcur = d.rcur
  BY <1>3, Zenon DEF Refilled, Taken10
<1>5. \A i \in 1 .. k : At(t.h, t.d.chain, i) = At(s.h, d.chain, i)
  <2>1. k \in 0 .. Len(d.chain) /\ Len(d.chain) \in Nat
    <3>1. d.chain \in Seq(Block)
      BY DEF V10State, V10Driver, Chains
    <3>2. k \in 0 .. Len(d.chain)
      BY <1>1, Zenon DEF Buffers10, Ringed
    <3> QED
      BY <3>1, <3>2, LenProperties
  <2>2. \A i \in 1 .. k : i \in 1 .. Len(d.chain)
    <3> HIDE DEF k, d
    <3> QED
      BY <2>1
  <2> QED
    BY <1>3, <2>2, Zenon DEF Refilled, Same, At
<1>6. SoFar(t.h, t.d.chain, k, t.d.rcur)
  <2>1. k > 0 => 1 \in 1 .. k /\ k \in 1 .. k
    <3> HIDE DEF k
    <3> QED
      BY <1>2
  <2>2. \A i \in 1 .. k : 1 \in 1 .. k
    <3> HIDE DEF k
    <3> QED
      BY <1>2
  <2> QED
    BY <1>1, <1>4, <1>5, <2>1, <2>2, Zenon DEF SoFar
<1>7. Recv10(t, lo, hi)
  <2>1. t.d.stage = "up"
    BY <1>3, Zenon DEF Refilled, Send10Same
  <2> QED
    BY <1>1, <1>3, <1>4, <1>6, <2>1, Zenon DEF Recv10
<1> QED
  BY <1>3, <1>7, Zenon DEF Refilled, t

\* What sending is, when cmdact at least is what it was.
LEMMA Sending10Kept ==
  ASSUME NEW s, NEW t, Send10Same(s, t), NEW put, NEW beg, NEW E, Sending10(s, put, beg, E)
  PROVE  Sending10(t, put, beg, E)
<1>1. PICK K \in Channel, N \in Counts :
          Outgoing(s, K, N, put, beg, E) /\ (K # NoChan => s.d.cmdact = TRUE)
  BY Zenon DEF Sending10
<1>2. Outgoing(t, K, N, put, beg, E)
  BY <1>1, Zenon DEF Outgoing, Midway, Send10Same, TxSame
<1> QED
  BY <1>1, <1>2, Zenon DEF Sending10, Send10Same

\* il1int()
LEMMA Il1intKeeps ==
  ASSUME NEW s \in V10State, NEW lo \in Nat, NEW hi \in Nat, NEW put, NEW beg \in Nat, NEW E,
         Recv10(s, lo, hi), Sending10(s, put, beg, E)
  PROVE  LET t == Il1int(s)
         IN  t \in V10State /\ t.d.panic = s.d.panic /\ Recv10(t, lo, hi) /\ Sending10(t, put, beg, E)
<1> DEFINE d == s.d
           h == s.h
           e == [d EXCEPT !.cmdact = FALSE]
           u == [s EXCEPT !.d.cmdact = FALSE]
           t == Il1int(s)
<1>1. d \in V10Driver /\ h \in HW /\ s = [d |-> d, h |-> h]
  BY DEF V10State
<1>2. PICK K \in Channel, N \in Counts :
          Outgoing(s, K, N, put, beg, E) /\ (K # NoChan => d.cmdact = TRUE)
  BY Zenon DEF Sending10
<1>3. /\ e \in V10Driver /\ e.cmdact = FALSE /\ e.panic = d.panic
      /\ e.lastch = d.lastch /\ e.q = d.q /\ e.ndelims = d.ndelims /\ e.xcur = d.xcur
      /\ e.chain = d.chain /\ e.rnext = d.rnext /\ e.rcur = d.rcur /\ e.rbytes = d.rbytes
      /\ e.rbufs = d.rbufs /\ e.stage = d.stage
  <2>1. e \in V10Driver
    BY <1>1 DEF V10Driver
  <2>2. e.cmdact = FALSE /\ e.panic = d.panic
    BY <1>1, Zenon DEF V10Driver
  <2> QED
    BY <1>1, <2>1, <2>2 DEF V10Driver
<1>4. u = [d |-> e, h |-> h]
  <2>1. \A k : [s EXCEPT !.d = k] = [d |-> k, h |-> h]
    BY DEF V10State
  <2>2. u = [s EXCEPT !.d = e]
    BY Zenon
  <2> HIDE DEF e, u
  <2> QED
    BY <2>1, <2>2, Zenon
<1> HIDE DEF e, u
<1>5. u.d = e /\ u.h = h /\ u \in V10State
  BY <1>1, <1>3, <1>4 DEF V10State
<1>6. Recv10(u, lo, hi)
  <2>1. Recv10Same(s, u)
    BY <1>3, <1>5, Zenon DEF Recv10Same, RxSame
  <2> QED
    BY <2>1, Recv10Kept
<1>7. Outgoing(u, K, N, put, beg, E)
  BY <1>2, <1>3, <1>5, Zenon DEF Outgoing, Midway
<1>8. CASE ~d.cmdact
  <2>1. t = s
    BY <1>8, Zenon DEF Il1int
  <2> QED
    BY <2>1, Zenon
<1>9. CASE d.cmdact /\ d.stage # "up"
  <2>1. t = u
    BY <1>9, Zenon DEF Il1int, u
  <2>2. K = NoChan
    BY <1>2, <1>9, Zenon DEF Outgoing
  <2>3. Sending10(u, put, beg, E)
    BY <1>7, <2>2, Zenon DEF Sending10
  <2> QED
    BY <1>3, <1>5, <1>6, <2>1, <2>3, Zenon
<1>10. CASE d.cmdact /\ d.stage = "up" /\ CanSupply(u.d)
  <2>1. t = IlRcvBufs(u)
    BY <1>10, Zenon DEF Il1int, u
  <2> HIDE DEF t
  <2>2. t \in V10State /\ Send10Same(u, t) /\ t.d.panic = u.d.panic /\ Recv10(t, lo, hi) /\ t.d.cmdact = TRUE
    <3>1. u.d.stage = "up"
      BY <1>3, <1>5, <1>10, Zenon
    <3> QED
      BY <1>5, <1>6, <1>10, <2>1, <3>1, RefillKeeps
  <2>3. Outgoing(t, K, N, put, beg, E)
    BY <1>7, <2>2, Zenon DEF Outgoing, Midway, Send10Same, TxSame
  <2>4. Sending10(t, put, beg, E)
    BY <2>2, <2>3, Zenon DEF Sending10
  <2> QED
    BY <1>3, <1>5, <2>2, <2>4, Zenon DEF t
<1>11. CASE d.cmdact /\ d.stage = "up" /\ ~CanSupply(u.d)
  <2>1. t = IlSent(u)
    BY <1>11, Zenon DEF Il1int, u
  <2> HIDE DEF t
  <2>2. t \in V10State /\ Recv10Same(u, t) /\ Sending10(t, put, beg, E)
    <3>1. u.d.stage = "up"
      BY <1>3, <1>5, <1>11, Zenon
    <3>2. LET r == IlSent(u)
          IN  r \in V10State /\ Recv10Same(u, r) /\ Sending10(r, put, beg, E)
      BY <1>5, <1>7, <3>1, IlSentKeeps
    <3> QED
      BY <2>1, <3>2, Zenon
  <2>3. Recv10(t, lo, hi)
    BY <1>6, <2>2, Recv10Kept
  <2>4. t.d.panic = d.panic
    BY <1>3, <1>5, <2>2, Zenon DEF Recv10Same
  <2> QED
    BY <2>2, <2>3, <2>4, Zenon DEF t
<1> QED
  BY <1>8, <1>9, <1>10, <1>11, Zenon

\* All that V10's driver keeps, and what is left of it after a panic.
In10(s, lo, hi, put, beg, E) ==
    /\ s \in V10State
    /\ \/ s.d.panic = FALSE /\ Recv10(s, lo, hi) /\ Sending10(s, put, beg, E)
       \/ /\ s.d.panic = TRUE /\ s.d.cmdact = TRUE /\ Whole(s.h.air, E)
          /\ \E taken \in Nat : Ringed(s.h, s.d.chain, taken, lo, hi)

LEMMA Cint10Keeps ==
  ASSUME NEW lo \in Nat, NEW hi \in Nat, begun \in Nat,
         In10(Cur10, lo, hi, putting, begun, ended), v10.panic = FALSE, Cint10
  PROVE  /\ UNCHANGED <<putting, begun, ended, got>>
         /\ In10(Nxt10, lo, hi, putting, begun, ended)
<1> DEFINE s == [d |-> v10, h |-> CintAck(hw)]
           t == Il1int(s)
<1>1. /\ Cur10 \in V10State /\ Cur10.d = v10 /\ Cur10.h = hw /\ v10 \in V10Driver /\ hw \in HW
      /\ Recv10(Cur10, lo, hi) /\ Sending10(Cur10, putting, begun, ended)
  <2>1. Cur10.d = v10 /\ Cur10.h = hw
    BY DEF Cur10
  <2>2. Cur10 \in V10State /\ Recv10(Cur10, lo, hi) /\ Sending10(Cur10, putting, begun, ended)
    BY <2>1, Zenon DEF In10
  <2> QED
    BY <2>1, <2>2 DEF V10State
<1>2. CintAck(hw) \in HW /\ RxSame(hw, CintAck(hw)) /\ TxSame(hw, CintAck(hw)) /\ CintAck(hw).rie = hw.rie
  BY <1>1, AcksAre
<1>3. Result10(t) /\ UNCHANGED <<putting, begun, ended, got>>
  BY Zenon DEF Cint10
<1>4. s \in V10State /\ s.d = v10 /\ s.h = CintAck(hw)
  <2> DEFINE g == CintAck(hw)
  <2> HIDE DEF g
  <2>1. [d |-> v10, h |-> g] \in V10State /\ [d |-> v10, h |-> g].d = v10 /\ [d |-> v10, h |-> g].h = g
    BY <1>1, <1>2 DEF V10State, g
  <2> QED
    BY <2>1 DEF g
<1> HIDE DEF s
<1>5. Recv10(s, lo, hi)
  <2>1. Recv10Same(Cur10, s)
    BY <1>1, <1>2, <1>4, Zenon DEF Recv10Same
  <2> QED
    BY <1>1, <2>1, Recv10Kept
<1>6. Sending10(s, putting, begun, ended)
  <2>1. Send10Same(Cur10, s)
    BY <1>1, <1>2, <1>4, Zenon DEF Send10Same
  <2> QED
    BY <1>1, <2>1, Sending10Kept
<1>7. t \in V10State /\ t.d.panic = FALSE /\ Recv10(t, lo, hi) /\ Sending10(t, putting, begun, ended)
  <2> DEFINE A == putting
             C == ended
  <2>1. Sending10(s, A, begun, C)
    BY <1>6
  <2> HIDE DEF A, C
  <2>2. LET u == Il1int(s)
        IN  u \in V10State /\ u.d.panic = s.d.panic /\ Recv10(u, lo, hi) /\ Sending10(u, A, begun, C)
    BY <1>4, <1>5, <2>1, Il1intKeeps
  <2> QED
    BY <1>4, <2>2, Zenon DEF A, C
<1> HIDE DEF t
<1>8. Nxt10 = t
  <2>1. t = [d |-> t.d, h |-> t.h]
    BY <1>7 DEF V10State
  <2> QED
    BY <1>3, <2>1 DEF Nxt10, Result10
<1> QED
  BY <1>3, <1>7, <1>8, Zenon DEF In10

LEMMA Rint10Keeps ==
  ASSUME NEW lo \in Nat, NEW hi \in Nat,
         In10(Cur10, lo, hi, putting, begun, ended), v10.panic = FALSE, Rint10
  PROVE  /\ UNCHANGED <<putting, begun, ended>>
         /\ \/ got' = got /\ In10(Nxt10, lo, hi, putting, begun, ended)
            \/ \E f \in lo + 1 .. hi :
                  got' = Append(got, f) /\ In10(Nxt10, f, hi, putting, begun, ended)
<1>1. /\ Cur10 \in V10State /\ Cur10.d = v10 /\ Cur10.h = hw /\ v10 \in V10Driver /\ hw \in HW
      /\ Recv10(Cur10, lo, hi) /\ Sending10(Cur10, putting, begun, ended)
  <2>1. Cur10.d = v10 /\ Cur10.h = hw
    BY DEF Cur10
  <2>2. Cur10 \in V10State /\ Recv10(Cur10, lo, hi) /\ Sending10(Cur10, putting, begun, ended)
    BY <2>1, Zenon DEF In10
  <2> QED
    BY <2>1, <2>2 DEF V10State
<1>2. hw.rint = TRUE /\ Il0int /\ UNCHANGED <<putting, begun, ended>>
  <2>1. hw.rint \in BOOLEAN
    BY <1>1 DEF HW
  <2> QED
    BY <2>1, Zenon DEF Rint10
<1>3. Nxt10 \in V10State /\ Send10Same(Cur10, Nxt10) /\ Goes10(Nxt10, lo, hi)
  BY <1>1, <1>2, Il0intKeeps
<1>4. Sending10(Nxt10, putting, begun, ended)
  BY <1>1, <1>3, Sending10Kept
<1>5. Whole(Nxt10.h.air, ended)
  <2>1. PICK K \in Channel, N \in Counts : Outgoing(Nxt10, K, N, putting, begun, ended)
    BY <1>4, Zenon DEF Sending10
  <2> QED
    BY <2>1, Zenon DEF Outgoing, Flows
<1> QED
  BY <1>2, <1>3, <1>4, <1>5, Zenon DEF Goes10, In10

\* A command of ilinit(), before there are buffers and packets.
LEMMA QuietIs ==
  ASSUME NEW h \in HW, h.rxq = <<>>, h.rpend = 0, h.tx = <<>>
  PROVE  /\ ResetCommand(h, TRUE) \in HW /\ RxSame(h, ResetCommand(h, TRUE)) /\ TxSame(h, ResetCommand(h, TRUE))
         /\ OtherCommand(h, TRUE) \in HW /\ RxSame(h, OtherCommand(h, TRUE)) /\ TxSame(h, OtherCommand(h, TRUE))
<1> DEFINE e == Enable(h, TRUE, FALSE)
           z == 0
           f == [e EXCEPT !.rxq = <<>>, !.rpend = z, !.tx = <<>>]
<1>1. e \in HW /\ RxSame(h, e) /\ TxSame(h, e)
  BY EnableIs
<1>2. ResetCommand(h, TRUE) = SetCint(f) /\ OtherCommand(h, TRUE) = SetCint(e)
  BY Zenon DEF ResetCommand, OtherCommand
<1>3. z = 0 /\ z \in Nat
  OBVIOUS
<1> HIDE DEF e, z
<1>4. f \in HW /\ RxSame(h, f) /\ TxSame(h, f)
  <2>1. f \in HW
    BY <1>1, <1>3 DEF HW
  <2>2. f.rxq = <<>> /\ f.rpend = z /\ f.tx = <<>> /\ f.air = e.air /\ f.rx = e.rx /\ f.mem = e.mem
    BY <1>1 DEF HW
  <2>3. f.rint = e.rint
    BY <1>1, Zenon DEF HW
  <2> QED
    BY <1>1, <1>3, <2>1, <2>2, <2>3, Zenon DEF RxSame, TxSame
<1> HIDE DEF f
<1>5. /\ SetCint(f) \in HW /\ RxSame(f, SetCint(f)) /\ TxSame(f, SetCint(f))
      /\ SetCint(e) \in HW /\ RxSame(e, SetCint(e)) /\ TxSame(e, SetCint(e))
  BY <1>1, <1>4, SetCintIs
<1> QED
  BY <1>1, <1>2, <1>4, <1>5, Zenon DEF RxSame, TxSame

\* Without buffers the enables do not matter.
LEMMA RingedQuiet ==
  ASSUME NEW h, NEW g, RxSame(h, g), h.rxq = <<>>,
         NEW chain, NEW taken, NEW lo, NEW hi, Ringed(h, chain, taken, lo, hi)
  PROVE  Ringed(g, chain, taken, lo, hi)
<1>1. \A i : At(g, chain, i) = At(h, chain, i)
  BY Zenon DEF At, RxSame
<1>2. ASSUME NEW m, Parts(h, chain, m, lo, hi)
      PROVE  Parts(g, chain, m, lo, hi)
  <2>1. g.mem = h.mem
    BY Zenon DEF RxSame
  <2> QED
    BY <1>1, <1>2, <2>1 DEF Parts
<1>3. \A m : InFlight(h, chain, m) => InFlight(g, chain, m)
  BY <1>1, Zenon DEF InFlight, RxSame
<1>4. Ring(h, chain, taken) => Ring(g, chain, taken)
  BY Zenon DEF Ring, RxSame
<1>5. g.rpend = h.rpend
  BY DEF RxSame
<1> QED
  BY <1>2, <1>3, <1>4, <1>5, Zenon DEF Ringed

\* A step of ilinit() that gives a command.
LEMMA GiveKeeps ==
  ASSUME NEW lo \in Nat, NEW hi \in Nat, NEW put, NEW beg, NEW E, NEW s \in V10State,
         Recv10(s, lo, hi), Sending10(s, put, beg, E), s.d.panic = FALSE, s.d.stage # "up",
         NEW to \in Steps10, to # "up", NEW g \in HW, RxSame(s.h, g), TxSame(s.h, g)
  PROVE  In10([d |-> [s.d EXCEPT !.stage = to, !.cmdact = TRUE], h |-> g], lo, hi, put, beg, E)
<1> DEFINE d == s.d
           h == s.h
           e == [d EXCEPT !.stage = to, !.cmdact = TRUE]
           t == [d |-> e, h |-> g]
           k == Taken10(d)
<1>1. d \in V10Driver /\ h \in HW
  BY DEF V10State
<1>2. /\ e \in V10Driver /\ e.cmdact = TRUE /\ e.panic = d.panic
      /\ e.lastch = d.lastch /\ e.q = d.q /\ e.ndelims = d.ndelims /\ e.xcur = d.xcur
      /\ e.chain = d.chain /\ e.rnext = d.rnext /\ e.rcur = d.rcur /\ e.rbytes = d.rbytes
      /\ e.rbufs = d.rbufs /\ e.stage = to
  <2>1. e \in V10Driver
    BY <1>1 DEF V10Driver
  <2>2. e.cmdact = TRUE /\ e.panic = d.panic
    BY <1>1, Zenon DEF V10Driver
  <2> QED
    BY <1>1, <2>1, <2>2 DEF V10Driver
<1> HIDE DEF e
<1>3. t \in V10State /\ t.d = e /\ t.h = g
  BY <1>2 DEF V10State
<1> HIDE DEF t
<1>4. /\ d.rnext # 1 /\ Ringed(h, d.chain, k, lo, hi) /\ d.rbufs = Len(d.chain) - k
      /\ Sums(d.chain, k, d.rbytes) /\ SoFar(h, d.chain, k, d.rcur) /\ d.chain = <<>>
  BY Zenon DEF Recv10, Buffers10
<1>5. h.rxq = <<>>
  <2>1. k \in 0 .. Len(d.chain) /\ h.rpend \in 0 .. Len(d.chain) - k
        /\ h.rxq = SubSeq(d.chain, k + h.rpend + 1, Len(d.chain))
    BY <1>4, Zenon DEF Ringed, Ring
  <2>2. k = 0 /\ h.rpend = 0
    BY <1>4, <2>1
  <2>3. SubSeq(<<>>, 0 + 0 + 1, Len(<<>>)) = <<>>
    OBVIOUS
  <2> QED
    BY <1>4, <2>1, <2>2, <2>3, Zenon
<1>6. Ringed(g, d.chain, k, lo, hi)
  BY <1>4, <1>5, RingedQuiet
<1>7. SoFar(g, d.chain, k, d.rcur)
  <2>1. \A i : At(g, d.chain, i) = At(h, d.chain, i)
    BY Zenon DEF At, RxSame
  <2> QED
    BY <1>4, <2>1, Zenon DEF SoFar
<1>8. Recv10(t, lo, hi)
  <2>1. Taken10(e) = k
    BY <1>2, Zenon DEF Taken10
  <2> QED
    BY <1>2, <1>3, <1>4, <1>6, <1>7, <2>1, Zenon DEF Recv10, Buffers10
<1>9. Sending10(t, put, beg, E)
  <2>1. PICK K \in Channel, N \in Counts : Outgoing(s, K, N, put, beg, E)
    BY Zenon DEF Sending10
  <2>2. K = NoChan
    BY <2>1, Zenon DEF Outgoing
  <2>3. Outgoing(t, K, N, put, beg, E)
    BY <1>2, <1>3, <2>1, <2>2, Zenon DEF Outgoing, Midway, TxSame
  <2> QED
    BY <2>2, <2>3, Zenon DEF Sending10
<1> QED
  BY <1>2, <1>3, <1>8, <1>9, Zenon DEF In10, t, e

LEMMA IlInitKeeps ==
  ASSUME NEW lo \in Nat, NEW hi \in Nat,
         In10(Cur10, lo, hi, putting, begun, ended), v10.panic = FALSE, IlInit
  PROVE  /\ UNCHANGED <<putting, begun, ended, got>>
         /\ In10(Nxt10, lo, hi, putting, begun, ended)
<1> DEFINE A == putting
           B == begun
           C == ended
<1>1. /\ Cur10 \in V10State /\ Cur10.d = v10 /\ Cur10.h = hw /\ v10 \in V10Driver /\ hw \in HW
      /\ Recv10(Cur10, lo, hi) /\ Sending10(Cur10, A, B, C)
  <2>1. Cur10.d = v10 /\ Cur10.h = hw
    BY DEF Cur10
  <2>2. Cur10 \in V10State /\ Recv10(Cur10, lo, hi) /\ Sending10(Cur10, A, B, C)
    BY <2>1, Zenon DEF In10
  <2> QED
    BY <2>1, <2>2 DEF V10State
<1>2. UNCHANGED <<putting, begun, ended, got>> /\ v10.stage # "up"
  BY Zenon DEF IlInit
<1>3. /\ hw.rxq = <<>> /\ hw.rpend = 0 /\ hw.tx = <<>> /\ v10.chain = <<>>
  <2> DEFINE k == Taken10(v10)
  <2>1. Ringed(hw, v10.chain, k, lo, hi) /\ v10.chain = <<>>
    BY <1>1, <1>2, Zenon DEF Recv10, Buffers10
  <2>2. k \in 0 .. Len(v10.chain) /\ hw.rpend \in 0 .. Len(v10.chain) - k
        /\ hw.rxq = SubSeq(v10.chain, k + hw.rpend + 1, Len(v10.chain))
    BY <2>1, Zenon DEF Ringed, Ring
  <2>3. k = 0 /\ hw.rpend = 0
    BY <2>1, <2>2
  <2>4. SubSeq(<<>>, 0 + 0 + 1, Len(<<>>)) = <<>>
    OBVIOUS
  <2>5. PICK K \in Channel, N \in Counts : Outgoing(Cur10, K, N, A, B, C)
    BY <1>1, Zenon DEF Sending10
  <2>6. hw.tx = <<>>
    BY <1>1, <1>2, <2>5, Zenon DEF Outgoing, Flows
  <2> QED
    BY <2>1, <2>2, <2>3, <2>4, <2>6, Zenon
<1>4. /\ ResetCommand(hw, TRUE) \in HW /\ RxSame(hw, ResetCommand(hw, TRUE)) /\ TxSame(hw, ResetCommand(hw, TRUE))
      /\ OtherCommand(hw, TRUE) \in HW /\ RxSame(hw, OtherCommand(hw, TRUE)) /\ TxSame(hw, OtherCommand(hw, TRUE))
  BY <1>1, <1>3, QuietIs
<1>5. ASSUME NEW to \in Steps10, to # "up", NEW g \in HW, RxSame(hw, g), TxSame(hw, g),
             Result10([d |-> [v10 EXCEPT !.stage = to, !.cmdact = TRUE], h |-> g])
      PROVE  In10(Nxt10, lo, hi, A, B, C)
  <2> DEFINE s == Cur10
  <2>1. s.d = v10 /\ s.h = hw /\ s \in V10State /\ Recv10(s, lo, hi) /\ Sending10(s, A, B, C)
        /\ s.d.stage # "up" /\ s.d.panic = FALSE
    BY <1>1, <1>2
  <2> HIDE DEF s, A, B, C
  <2>2. In10([d |-> [s.d EXCEPT !.stage = to, !.cmdact = TRUE], h |-> g], lo, hi, A, B, C)
    <3>1. RxSame(s.h, g) /\ TxSame(s.h, g)
      BY <1>5, <2>1, Zenon
    <3> QED
      BY <1>5, <2>1, <3>1, GiveKeeps
  <2>3. Nxt10 = [d |-> [v10 EXCEPT !.stage = to, !.cmdact = TRUE], h |-> g]
    BY <1>5 DEF Nxt10, Result10
  <2> QED
    BY <2>1, <2>2, <2>3, Zenon
<1>6. ASSUME Result10(IlRcvBufs([d |-> [v10 EXCEPT !.stage = "up"], h |-> hw]))
      PROVE  In10(Nxt10, lo, hi, A, B, C)
  <2> DEFINE e == [v10 EXCEPT !.stage = "up"]
             s == [d |-> e, h |-> hw]
             t == IlRcvBufs(s)
  <2>1. /\ e \in V10Driver /\ e.cmdact = v10.cmdact /\ e.panic = v10.panic
        /\ e.lastch = v10.lastch /\ e.q = v10.q /\ e.ndelims = v10.ndelims /\ e.xcur = v10.xcur
        /\ e.chain = v10.chain /\ e.rnext = v10.rnext /\ e.rcur = v10.rcur /\ e.rbytes = v10.rbytes
        /\ e.rbufs = v10.rbufs /\ e.stage = "up"
    <3>1. e \in V10Driver
      BY <1>1 DEF V10Driver, Steps10
    <3>2. e.cmdact = v10.cmdact /\ e.panic = v10.panic
      BY <1>1, Zenon DEF V10Driver
    <3> QED
      BY <1>1, <3>1, <3>2 DEF V10Driver
  <2> HIDE DEF e
  <2>2. s \in V10State /\ s.d = e /\ s.h = hw
    BY <1>1, <2>1 DEF V10State
  <2> HIDE DEF s
  <2>3. Recv10(s, lo, hi)
    <3>1. Taken10(e) = Taken10(v10)
      BY <2>1, Zenon DEF Taken10
    <3> QED
      BY <1>1, <2>1, <2>2, <3>1, Zenon DEF Recv10
  <2>4. Sending10(s, A, B, C)
    <3>1. PICK K \in Channel, N \in Counts : Outgoing(Cur10, K, N, A, B, C) /\ (K # NoChan => v10.cmdact = TRUE)
      BY <1>1, Zenon DEF Sending10
    <3>2. Outgoing(s, K, N, A, B, C)
      BY <1>1, <2>1, <2>2, <3>1, Zenon DEF Outgoing, Midway
    <3> QED
      BY <2>1, <2>2, <3>1, <3>2, Zenon DEF Sending10
  <2> HIDE DEF A, B, C
  <2>5. t \in V10State /\ Send10Same(s, t) /\ t.d.panic = s.d.panic /\ Recv10(t, lo, hi)
    <3>1. s.d.stage = "up"
      BY <2>1, <2>2, Zenon
    <3> QED
      BY <2>2, <2>3, <3>1, RefillKeeps
  <2> HIDE DEF t
  <2>6. Sending10(t, A, B, C)
    BY <2>4, <2>5, Sending10Kept
  <2>7. Nxt10 = t
    <3>1. t = [d |-> t.d, h |-> t.h]
      BY <2>5 DEF V10State
    <3> QED
      BY <1>6, <3>1 DEF Nxt10, Result10, t, s, e
  <2>8. t.d.panic = FALSE
    BY <2>1, <2>2, <2>5, Zenon
  <2>9. In10(t, lo, hi, A, B, C)
    BY <2>5, <2>6, <2>8, Zenon DEF In10
  <2> QED
    BY <2>7, <2>9, Zenon
<1>7. /\ "stat" \in Steps10 /\ "online" \in Steps10 /\ "done" \in Steps10
      /\ "stat" # "up" /\ "online" # "up" /\ "done" # "up"
  BY DEF Steps10
<1> HIDE DEF A, B, C
<1>8. \/ Result10([d |-> [v10 EXCEPT !.stage = "stat", !.cmdact = TRUE], h |-> ResetCommand(hw, TRUE)])
      \/ Result10([d |-> [v10 EXCEPT !.stage = "online", !.cmdact = TRUE], h |-> OtherCommand(hw, TRUE)])
      \/ Result10([d |-> [v10 EXCEPT !.stage = "done", !.cmdact = TRUE], h |-> OtherCommand(hw, TRUE)])
      \/ Result10(IlRcvBufs([d |-> [v10 EXCEPT !.stage = "up"], h |-> hw]))
  BY Zenon DEF IlInit
<1>9. In10(Nxt10, lo, hi, A, B, C)
  <2> DEFINE r == ResetCommand(hw, TRUE)
             o == OtherCommand(hw, TRUE)
  <2> HIDE DEF r, o
  <2>1. CASE Result10([d |-> [v10 EXCEPT !.stage = "stat", !.cmdact = TRUE], h |-> r])
    BY <1>4, <1>5, <1>7, <2>1, Zenon DEF r
  <2>2. CASE Result10([d |-> [v10 EXCEPT !.stage = "online", !.cmdact = TRUE], h |-> o])
    BY <1>4, <1>5, <1>7, <2>2, Zenon DEF o
  <2>3. CASE Result10([d |-> [v10 EXCEPT !.stage = "done", !.cmdact = TRUE], h |-> o])
    BY <1>4, <1>5, <1>7, <2>3, Zenon DEF o
  <2>4. CASE Result10(IlRcvBufs([d |-> [v10 EXCEPT !.stage = "up"], h |-> hw]))
    BY <1>6, <2>4, Zenon
  <2> QED
    BY <1>8, <2>1, <2>2, <2>3, <2>4, Zenon DEF r, o
<1> QED
  BY <1>2, <1>9 DEF A, B, C

\* What putting does to the counts of the queues.
LEMMA CountedIs ==
  ASSUME NEW q \in Queues, NEW n \in Counts, NEW c \in Chs, NEW b \in QBlock
  PROVE  /\ Queued(q, c, b) \in Queues /\ Counted(n, c, b) \in Counts
         /\ \A k \in Chs : Counted(n, c, b)[k] = IF b.delim /\ k = c THEN n[k] + 1 ELSE n[k]
<1>1. \A k \in Chs : q[k] \in Seq(QBlock) /\ n[k] \in Int
  BY DEF Queues, Counts
<1>2. Append(q[c], b) \in Seq(QBlock)
  BY <1>1, AppendProperties
<1>3. Queued(q, c, b) \in Queues
  BY <1>2 DEF Queued, Queues
<1>4. CASE b.delim
  <2>1. n[c] + 1 \in Int
    BY <1>1
  <2>2. Counted(n, c, b) = [n EXCEPT ![c] = n[c] + 1]
    BY <1>4, Zenon DEF Counted
  <2> QED
    BY <1>3, <1>4, <2>1, <2>2 DEF Counts
<1>5. CASE ~b.delim
  BY <1>3, <1>5, Zenon DEF Counted
<1> QED
  BY <1>4, <1>5

\* A block is put on the queue of channel c.
With10(d, c, b) == [d EXCEPT !.q = Queued(d.q, c, b), !.ndelims = Counted(d.ndelims, c, b)]
Put10(c, b) == [d |-> With10(v10, c, b), h |-> hw]

LEMMA Queued10Keeps ==
  ASSUME NEW lo \in Nat, NEW hi \in Nat, begun \in Nat, putting \in Puts,
         In10(Cur10, lo, hi, putting, begun, ended), v10.panic = FALSE, v10.stage = "up",
         NEW c \in Chs, NEW b \in QBlock, b \in Blocks10, MayFollow(b, putting[c], begun)
  PROVE  /\ PutAlready(putting, c, b) \in Puts /\ Begins(b, putting[c], begun) \in Nat
         /\ Put10(c, b) \in V10State /\ Put10(c, b).d.panic = FALSE /\ Put10(c, b).d.stage = "up"
         /\ Recv10(Put10(c, b), lo, hi) /\ Put10(c, b).d.cmdact = v10.cmdact
         /\ \E K \in Channel, N \in Counts :
               /\ K # NoChan => v10.cmdact = TRUE
               /\ Outgoing(Put10(c, b), K, N, PutAlready(putting, c, b),
                           Begins(b, putting[c], begun), EndedBy(ended, c, b, putting[c]))
<1> DEFINE Q == Queued(v10.q, c, b)
           M == Counted(v10.ndelims, c, b)
           e == With10(v10, c, b)
           s == Put10(c, b)
           A == PutAlready(putting, c, b)
           B == Begins(b, putting[c], begun)
           C == EndedBy(ended, c, b, putting[c])
<1>1. /\ Cur10 \in V10State /\ Cur10.d = v10 /\ Cur10.h = hw /\ v10 \in V10Driver /\ hw \in HW
      /\ Recv10(Cur10, lo, hi) /\ Sending10(Cur10, putting, begun, ended)
      /\ v10.q \in Queues /\ v10.ndelims \in Counts
  <2>1. Cur10.d = v10 /\ Cur10.h = hw
    BY DEF Cur10
  <2>2. Cur10 \in V10State /\ Recv10(Cur10, lo, hi) /\ Sending10(Cur10, putting, begun, ended)
    BY <2>1, Zenon DEF In10
  <2> QED
    BY <2>1, <2>2 DEF V10State, V10Driver
<1>2. /\ Q \in Queues /\ M \in Counts
      /\ \A k \in Chs : M[k] = IF b.delim /\ k = c THEN v10.ndelims[k] + 1 ELSE v10.ndelims[k]
  BY <1>1, CountedIs
<1>3. PICK K \in Channel, n \in Counts :
          Outgoing(Cur10, K, n, putting, begun, ended) /\ (K # NoChan => v10.cmdact = TRUE)
  BY <1>1, Zenon DEF Sending10
<1> DEFINE N == Counted(n, c, b)
<1>4. /\ N \in Counts
      /\ \A k \in Chs : N[k] = IF b.delim /\ k = c THEN n[k] + 1 ELSE n[k]
  BY <1>1, CountedIs
<1>5. Flows(Blocks10, K, v10.q, n, hw.tx, hw.air, putting, begun, ended) /\ Midway(v10, K, n)
  BY <1>1, <1>3, Zenon DEF Outgoing
<1>6. Flows(Blocks10, K, Q, N, hw.tx, hw.air, A, B, C) /\ A \in Puts /\ B \in Nat
  BY <1>1, <1>5, FlowsPut
<1> HIDE DEF Q, M, N, A, B, C
<1>7. /\ e \in V10Driver /\ e.q = Q /\ e.ndelims = M /\ e.stage = v10.stage /\ e.chain = v10.chain
      /\ e.rnext = v10.rnext /\ e.rcur = v10.rcur /\ e.rbytes = v10.rbytes /\ e.rbufs = v10.rbufs
      /\ e.lastch = v10.lastch /\ e.xcur = v10.xcur
  <2>1. e = [v10 EXCEPT !.q = Q, !.ndelims = M]
    BY Zenon DEF With10, Q, M
  <2> HIDE DEF e
  <2> QED
    BY <1>1, <1>2, <2>1 DEF V10Driver
<1>8. e.cmdact = v10.cmdact /\ e.panic = v10.panic
  <2>1. e = [v10 EXCEPT !.q = Q, !.ndelims = M]
    BY Zenon DEF With10, Q, M
  <2> HIDE DEF e
  <2> QED
    BY <1>1, <2>1, Zenon DEF V10Driver
<1>9. s \in V10State /\ s.d = e /\ s.h = hw
  <2>1. s = [d |-> e, h |-> hw]
    BY Zenon DEF Put10
  <2> HIDE DEF s, e
  <2> QED
    BY <1>1, <1>7, <2>1 DEF V10State
<1> HIDE DEF s, e
<1>10. Recv10(s, lo, hi)
  <2>1. Recv10Same(Cur10, s)
    BY <1>1, <1>7, <1>8, <1>9, Zenon DEF Recv10Same, RxSame
  <2> QED
    BY <1>1, <2>1, Recv10Kept
<1>11. Midway(e, K, N)
  <2>1. /\ K = IF v10.xcur[v10.lastch] # NoBlock /\ ~v10.xcur[v10.lastch].delim THEN v10.lastch ELSE NoChan
        /\ \A k \in Chs : v10.ndelims[k] >= 0 /\ n[k] = IF k = K THEN v10.ndelims[k] + 1 ELSE v10.ndelims[k]
    BY <1>5, Zenon DEF Midway
  <2>2. \A k \in Chs : v10.ndelims[k] \in Int /\ n[k] \in Int
    BY <1>1, <1>3 DEF Counts
  <2>3. K = IF e.xcur[e.lastch] # NoBlock /\ ~e.xcur[e.lastch].delim THEN e.lastch ELSE NoChan
    BY <1>7, <2>1, Zenon
  <2>4. \A k \in Chs : M[k] >= 0 /\ N[k] = IF k = K THEN M[k] + 1 ELSE M[k]
    BY <1>2, <1>4, <2>1, <2>2
  <2> QED
    BY <1>7, <2>3, <2>4, Zenon DEF Midway
<1>12. Outgoing(s, K, N, A, B, C)
  BY <1>6, <1>7, <1>9, <1>11, Zenon DEF Outgoing
<1> QED
  BY <1>3, <1>4, <1>6, <1>7, <1>8, <1>9, <1>10, <1>12, Zenon DEF A, B, C, s

LEMMA IlPutKeeps ==
  ASSUME NEW lo \in Nat, NEW hi \in Nat, begun \in Nat, putting \in Puts,
         In10(Cur10, lo, hi, putting, begun, ended), v10.panic = FALSE,
         NEW c \in Chs, NEW delim \in BOOLEAN, IlPut(c, delim)
  PROVE  /\ got' = got /\ putting' \in Puts /\ begun' \in Nat
         /\ In10(Nxt10, lo, hi, putting', begun', ended')
<1> DEFINE p == putting[c]
           z == NextPiece(c)
           b == [piece |-> z, delim |-> delim]
           d == [v10 EXCEPT !.q[c] = Append(@, [piece |-> z, delim |-> delim]),
                            !.ndelims[c] = IF delim THEN @ + 1 ELSE @]
           s == [d |-> d, h |-> hw]
           u == Put10(c, b)
<1>1. v10 \in V10Driver /\ hw \in HW /\ v10.q \in Queues /\ v10.ndelims \in Counts
  BY DEF In10, Cur10, V10State, V10Driver
<1>2. /\ v10.stage = "up" /\ got' = got
      /\ IF delim THEN /\ Ended(c, z) /\ Result10(IlSendPkt(s))
                       /\ begun' = IF p = NoPiece THEN begun + 1 ELSE begun
         ELSE PutOn(c) /\ Result10(s) /\ UNCHANGED ended
  BY Zenon DEF IlPut
<1>3. p \in Piece
  BY DEF Puts
<1>4. z = Following(p, begun)
  BY DEF NextPiece, Following
<1>5. z \in Piece /\ z # NoPiece
  BY <1>3, <1>4, FollowingIs
<1>6. d = With10(v10, c, b)
  <2>1. v10.q[c] \in Seq(QBlock) /\ v10.ndelims[c] \in Int
    BY <1>1 DEF Queues, Counts
  <2>2. CASE delim
    BY <1>1, <2>1, <2>2 DEF With10, Queued, Counted, V10Driver
  <2>3. CASE ~delim
    <3>1. v10.ndelims = [v10.ndelims EXCEPT ![c] = v10.ndelims[c]]
      BY <1>1 DEF Counts
    <3> QED
      BY <1>1, <2>1, <2>3, <3>1 DEF With10, Queued, Counted, V10Driver
  <2> QED
    BY <2>2, <2>3
<1>7. s = u
  BY <1>6, Zenon DEF Put10
<1> HIDE DEF z
<1>8. b \in QBlock /\ b.piece = z /\ (b.delim <=> delim)
  BY <1>5 DEF QBlock
<1> HIDE DEF b, d, s
<1>9. b \in Blocks10
  BY <1>5, <1>8 DEF Blocks10
<1>10. MayFollow(b, p, begun)
  BY <1>4, <1>5, <1>8, Zenon DEF MayFollow
<1> DEFINE A == PutAlready(putting, c, b)
           B == Begins(b, putting[c], begun)
           C == EndedBy(ended, c, b, putting[c])
<1>11. /\ A \in Puts /\ B \in Nat
       /\ u \in V10State /\ u.d.panic = FALSE /\ u.d.stage = "up"
       /\ Recv10(u, lo, hi) /\ u.d.cmdact = v10.cmdact
       /\ \E K \in Channel, N \in Counts : (K # NoChan => v10.cmdact = TRUE) /\ Outgoing(u, K, N, A, B, C)
  BY <1>2, <1>8, <1>9, <1>10, Queued10Keeps
<1>12. A = putting' /\ B = begun' /\ C = ended'
  <2>1. b.piece # NoPiece /\ Target(b, p) = z
    BY <1>5, <1>8, Zenon DEF Target
  <2>2. CASE delim
    <3>1. /\ putting' = [putting EXCEPT ![c] = NoPiece] /\ ended' = ended \cup {[ch |-> c, pieces |-> Pieces(z)]}
      BY <1>2, <2>2, Zenon DEF Ended, Pieces
    <3> QED
      BY <1>2, <1>8, <2>1, <2>2, <3>1, Zenon DEF PutAlready, Begins, EndedBy
  <2>3. CASE ~delim
    <3>1. /\ putting' = [putting EXCEPT ![c] = z] /\ ended' = ended
          /\ begun' = IF p = NoPiece THEN begun + 1 ELSE begun
      BY <1>2, <2>3, Zenon DEF PutOn, z
    <3> QED
      BY <1>8, <2>1, <2>3, <3>1, Zenon DEF PutAlready, Begins, EndedBy
  <2> QED
    BY <2>2, <2>3
<1> HIDE DEF A, B, C, u
<1>13. PICK K \in Channel, N \in Counts : (K # NoChan => v10.cmdact = TRUE) /\ Outgoing(u, K, N, A, B, C)
  BY <1>11
<1>14. In10(Nxt10, lo, hi, A, B, C)
  <2>1. CASE ~delim
    <3>1. Sending10(u, A, B, C)
      BY <1>11, <1>13, Zenon DEF Sending10
    <3>2. In10(u, lo, hi, A, B, C)
      BY <1>11, <3>1, Zenon DEF In10
    <3>3. Nxt10 = u
      <4>1. u = [d |-> u.d, h |-> u.h]
        BY <1>11 DEF V10State
      <4>2. Result10(u)
        BY <1>2, <1>7, <2>1, Zenon
      <4> QED
        BY <4>1, <4>2 DEF Nxt10, Result10
    <3> QED
      BY <3>2, <3>3, Zenon
  <2>2. CASE delim
    <3> DEFINE t == IlSendPkt(u)
    <3>1. t \in V10State /\ Recv10Same(u, t) /\ Sending10(t, A, B, C)
      <4>1. CASE v10.cmdact
        <5>1. t = u
          BY <1>11, <4>1, Zenon DEF IlSendPkt
        <5>2. Sending10(u, A, B, C)
          BY <1>11, <1>13, Zenon DEF Sending10
        <5> QED
          BY <1>11, <5>1, <5>2, Zenon DEF Recv10Same, RxSame
      <4>2. CASE ~v10.cmdact
        <5>1. Outgoing(u, NoChan, N, A, B, C)
          BY <1>13, <4>2, Zenon
        <5> QED
          BY <1>11, <5>1, IlSendPktKeeps
      <4> QED
        BY <4>1, <4>2
    <3> HIDE DEF t
    <3>2. Recv10(t, lo, hi)
      BY <1>11, <3>1, Recv10Kept
    <3>3. t.d.panic = FALSE
      BY <1>11, <3>1, Zenon DEF Recv10Same
    <3>4. In10(t, lo, hi, A, B, C)
      BY <3>1, <3>2, <3>3, Zenon DEF In10
    <3>5. Nxt10 = t
      <4>1. t = [d |-> t.d, h |-> t.h]
        BY <3>1 DEF V10State
      <4>2. Result10(t)
        BY <1>2, <1>7, <2>2, Zenon DEF t
      <4> QED
        BY <4>1, <4>2 DEF Nxt10, Result10
    <3> QED
      BY <3>4, <3>5, Zenon
  <2> QED
    BY <2>1, <2>2
<1> QED
  BY <1>2, <1>11, <1>12, <1>14, Zenon

-----------------------------------------------------------------------------
(* The board by itself.                                                    *)

LEMMA SvcKeeps ==
  ASSUME hw \in HW, arrived \in Nat, NEW chain \in Seq(Block), NEW taken \in Nat, NEW lo \in Nat,
         lo <= arrived, Ringed(hw, chain, taken, lo, arrived), Svc
  PROVE  /\ arrived' \in Nat /\ arrived <= arrived'
         /\ hw' \in HW /\ TxSame(hw, hw') /\ hw'.rie = hw.rie
         /\ Ringed(hw', chain, taken, lo, arrived') /\ Same(hw, hw', chain, taken)
<1> DEFINE h == RxPump(hw)
           hi == arrived
<1>1. /\ h \in HW /\ TxSame(hw, h) /\ h.rie = hw.rie
      /\ Ringed(h, chain, taken, lo, hi) /\ Same(hw, h, chain, taken)
  BY PumpKeeps
<1>2. CASE hw' = h /\ arrived' = arrived
  BY <1>1, <1>2
<1>3. CASE /\ h.rx = NoFrame /\ arrived' = arrived + 1
           /\ \E l \in FrameLens : hw' = Deliver(h, [id |-> arrived', len |-> l])
  <2>1. PICK l \in FrameLens : hw' = Deliver(h, [id |-> hi + 1, len |-> l])
    BY <1>3
  <2> HIDE DEF h
  <2>2. LET g == Deliver(h, [id |-> hi + 1, len |-> l])
        IN  /\ g \in HW /\ TxSame(h, g) /\ g.rie = h.rie
            /\ Ringed(g, chain, taken, lo, hi + 1) /\ Same(h, g, chain, taken)
    BY <1>1, <1>3, DeliverKeeps
  <2>3. /\ hw' \in HW /\ TxSame(h, hw') /\ hw'.rie = h.rie
        /\ Ringed(hw', chain, taken, lo, hi + 1) /\ Same(h, hw', chain, taken)
    BY <2>1, <2>2, Zenon
  <2>4. TxSame(hw, hw') /\ hw'.rie = hw.rie /\ Same(hw, hw', chain, taken)
    BY <1>1, <2>3, Zenon DEF TxSame, Same
  <2>5. arrived' \in Nat /\ arrived <= arrived' /\ arrived' = hi + 1
    BY <1>3
  <2> HIDE DEF hi
  <2> QED
    BY <2>3, <2>4, <2>5, Zenon
<1> QED
  BY <1>2, <1>3, Zenon DEF Svc

LEMMA SoFarKept ==
  ASSUME NEW h, NEW g, NEW chain, NEW taken \in Nat, NEW rest, Same(h, g, chain, taken),
         SoFar(h, chain, taken, rest)
  PROVE  SoFar(g, chain, taken, rest)
<1>1. \A i \in 1 .. taken : At(g, chain, i) = At(h, chain, i)
  BY DEF Same
<1>2. \A i \in 1 .. taken : /\ ~Over(At(g, chain, i))
                            /\ At(g, chain, i).frame = At(g, chain, 1).frame
                            /\ At(g, chain, i).len = At(g, chain, 1).len
  <2>1. \A i \in 1 .. taken : 1 \in 1 .. taken
    OBVIOUS
  <2> QED
    BY <1>1, <2>1, Zenon DEF SoFar
<1>3. taken > 0 => taken \in 1 .. taken
  OBVIOUS
<1>4. taken > 0 => LET p == At(g, chain, taken) IN rest = p.len - (p.off + p.n)
  BY <1>1, <1>3, Zenon DEF SoFar
<1> QED
  BY <1>2, <1>4, Zenon DEF SoFar

LEMMA Svc8Keeps ==
  ASSUME arrived \in Nat, NEW lo \in Nat, lo <= arrived,
         In8(Cur8, lo, arrived, putting, begun, ended), Svc, v8' = v8
  PROVE  /\ arrived' \in Nat /\ lo <= arrived'
         /\ In8(Nxt8, lo, arrived', putting, begun, ended)
<1> DEFINE chain == v8.chain
           k == Taken8(v8)
<1>1. /\ Cur8 \in V8State /\ Cur8.d = v8 /\ Cur8.h = hw /\ v8 \in V8Driver /\ hw \in HW
      /\ Recv8(Cur8, lo, arrived) /\ Sending8(Cur8, putting, begun, ended) /\ v8.panic = FALSE
  BY Zenon DEF In8, Cur8, V8State
<1>2. /\ Ringed(hw, chain, k, lo, arrived) /\ SoFar(hw, chain, k, v8.len) /\ v8.nbp \in {0, Len(v8.chain)}
  BY <1>1, Zenon DEF Recv8
<1>3. chain \in Seq(Block) /\ k \in Nat
  BY <1>1, <1>2, SuppliedIs DEF V8Driver, Chains
<1> HIDE DEF chain, k
<1>4. /\ arrived' \in Nat /\ arrived <= arrived'
      /\ hw' \in HW /\ TxSame(hw, hw') /\ hw'.rie = hw.rie
      /\ Ringed(hw', chain, k, lo, arrived') /\ Same(hw, hw', chain, k)
  BY <1>1, <1>2, <1>3, SvcKeeps
<1>5. SoFar(hw', chain, k, v8.len)
  BY <1>2, <1>3, <1>4, SoFarKept
<1>6. Nxt8 \in V8State /\ Nxt8.d = v8 /\ Nxt8.h = hw'
  BY <1>1, <1>4 DEF Nxt8, V8State
<1>7. Recv8(Nxt8, lo, arrived')
  BY <1>1, <1>4, <1>5, <1>6, Zenon DEF Recv8, chain, k
<1>8. Sending8(Nxt8, putting, begun, ended)
  BY <1>1, <1>4, <1>6, Zenon DEF Sending8, TxSame
<1>9. lo <= arrived'
  BY <1>4
<1> QED
  BY <1>1, <1>4, <1>6, <1>7, <1>8, <1>9, Zenon DEF In8

LEMMA Svc10Keeps ==
  ASSUME arrived \in Nat, NEW lo \in Nat, lo <= arrived,
         In10(Cur10, lo, arrived, putting, begun, ended), Svc, v10' = v10
  PROVE  /\ arrived' \in Nat /\ lo <= arrived'
         /\ In10(Nxt10, lo, arrived', putting, begun, ended)
<1> DEFINE chain == v10.chain
<1>1. /\ Cur10 \in V10State /\ Cur10.d = v10 /\ Cur10.h = hw /\ v10 \in V10Driver /\ hw \in HW
  BY Zenon DEF In10, Cur10, V10State
<1>2. chain \in Seq(Block)
  BY <1>1 DEF V10Driver, Chains
<1>3. CASE v10.panic = FALSE
  <2> DEFINE k == Taken10(v10)
  <2>1. Recv10(Cur10, lo, arrived) /\ Sending10(Cur10, putting, begun, ended)
    BY <1>1, <1>3, Zenon DEF In10
  <2>2. /\ Buffers10(hw, chain, k, v10.rbytes, v10.rbufs, lo, arrived) /\ SoFar(hw, chain, k, v10.rcur)
        /\ Ringed(hw, chain, k, lo, arrived)
    BY <1>1, <2>1, Zenon DEF Recv10, Buffers10
  <2>3. k \in Nat
    <3>1. k \in 0 .. Len(chain)
      BY <2>2, Zenon DEF Ringed
    <3> QED
      BY <3>1
  <2> HIDE DEF chain, k
  <2>4. /\ arrived' \in Nat /\ arrived <= arrived'
        /\ hw' \in HW /\ TxSame(hw, hw') /\ hw'.rie = hw.rie
        /\ Ringed(hw', chain, k, lo, arrived') /\ Same(hw, hw', chain, k)
    BY <1>1, <1>2, <2>2, <2>3, SvcKeeps
  <2>5. SoFar(hw', chain, k, v10.rcur)
    BY <2>2, <2>3, <2>4, SoFarKept
  <2>6. Nxt10 \in V10State /\ Nxt10.d = v10 /\ Nxt10.h = hw'
    BY <1>1, <2>4 DEF Nxt10, V10State
  <2>7. Recv10(Nxt10, lo, arrived')
    BY <1>1, <2>1, <2>2, <2>4, <2>5, <2>6, Zenon DEF Recv10, Buffers10, chain, k
  <2>8. Sending10(Nxt10, putting, begun, ended)
    <3>1. Send10Same(Cur10, Nxt10)
      BY <1>1, <2>4, <2>6, Zenon DEF Send10Same
    <3> QED
      BY <2>1, <3>1, Sending10Kept
  <2>9. lo <= arrived'
    BY <2>4
  <2> QED
    BY <1>3, <2>4, <2>6, <2>7, <2>8, <2>9, Zenon DEF In10
\* After a panic the board goes on.
<1>4. CASE ~(v10.panic = FALSE)
  <2>1. v10.panic = TRUE /\ v10.cmdact = TRUE /\ Whole(hw.air, ended)
        /\ \E k \in Nat : Ringed(hw, chain, k, lo, arrived)
    BY <1>1, <1>4, Zenon DEF In10
  <2>2. PICK k \in Nat : Ringed(hw, chain, k, lo, arrived)
    BY <2>1
  <2> HIDE DEF chain
  <2>3. /\ arrived' \in Nat /\ arrived <= arrived'
        /\ hw' \in HW /\ TxSame(hw, hw') /\ Ringed(hw', chain, k, lo, arrived')
    BY <1>1, <1>2, <2>2, SvcKeeps
  <2>4. Nxt10 \in V10State /\ Nxt10.d = v10 /\ Nxt10.h = hw'
    BY <1>1, <2>3 DEF Nxt10, V10State
  <2>5. Whole(hw'.air, ended)
    BY <2>1, <2>3, Zenon DEF TxSame
  <2>6. lo <= arrived'
    BY <2>3
  <2> QED
    BY <2>1, <2>3, <2>4, <2>5, <2>6, Zenon DEF In10, chain
<1> QED
  BY <1>3, <1>4

-----------------------------------------------------------------------------
(* The whole: what one driver and the board keep, while the other driver   *)
(* is as it was attached.  Frames up to number lo have been passed up, or  *)
(* were lost before they were; those after it are on their way.            *)

Up(passed, lo) ==
    /\ passed \in Seq(Nat) /\ \A i \in 1 .. Len(passed) : passed[i] \in 1 .. lo
    /\ \A i \in 1 .. Len(passed) - 1 : passed[i] < passed[i + 1]

Held(lo, hi, put, beg, E, passed, g, s8, s10) ==
    /\ hi \in Nat /\ lo <= hi /\ beg \in Nat /\ put \in Puts /\ Up(passed, lo)
    /\ \/ g = "v8" /\ s10.d.panic = FALSE /\ In8(s8, lo, hi, put, beg, E)
       \/ g = "v10" /\ s8.d.panic = FALSE /\ In10(s10, lo, hi, put, beg, E)

IInv == \E lo \in Nat : Held(lo, arrived, putting, begun, ended, got, guest, Cur8, Cur10)

LEMMA UpMore ==
  ASSUME NEW lo \in Nat, NEW hi \in Nat, NEW passed, Up(passed, lo), NEW f \in lo + 1 .. hi
  PROVE  Up(Append(passed, f), f)
<1> DEFINE more == Append(passed, f)
           n == Len(passed)
<1>1. passed \in Seq(Nat) /\ f \in Nat /\ n \in Nat
  BY DEF Up
<1>2. /\ more \in Seq(Nat) /\ Len(more) = n + 1 /\ more[n + 1] = f
      /\ \A i \in 1 .. n : more[i] = passed[i]
  BY <1>1
<1>3. /\ \A i \in 1 .. n : passed[i] \in 1 .. lo
      /\ \A i \in 1 .. n - 1 : passed[i] < passed[i + 1]
  BY DEF Up
<1> HIDE DEF more, n
<1>4. \A i \in 1 .. n + 1 : more[i] \in 1 .. f
  <2> TAKE i \in 1 .. n + 1
  <2>1. CASE i = n + 1
    BY <1>2, <2>1
  <2>2. CASE i # n + 1
    <3>1. i \in 1 .. n
      BY <1>1, <2>2
    <3> QED
      BY <1>2, <1>3, <3>1
  <2> QED
    BY <2>1, <2>2
<1>5. \A i \in 1 .. n : more[i] < more[i + 1]
  <2> TAKE i \in 1 .. n
  <2>1. CASE i = n
    <3>1. more[i] \in 1 .. lo
      BY <1>2, <1>3
    <3> QED
      BY <1>2, <2>1, <3>1
  <2>2. CASE i # n
    <3>1. i \in 1 .. n - 1 /\ i + 1 \in 1 .. n
      BY <1>1, <2>2
    <3> QED
      BY <1>2, <1>3, <3>1
  <2> QED
    BY <2>1, <2>2
<1>6. (n + 1) - 1 = n
  BY <1>1
<1> QED
  BY <1>2, <1>4, <1>5, <1>6, Zenon DEF Up, more

LEMMA InitHeld == Init => IInv
<1> SUFFICES ASSUME Init PROVE Held(0, arrived, putting, begun, ended, got, guest, Cur8, Cur10)
  BY Zenon DEF IInv
<1>1. /\ arrived = 0 /\ begun = 0 /\ ended = {} /\ got = <<>> /\ putting = [c \in Chs |-> NoPiece]
      /\ guest \in {"v8", "v10"}
  BY DEF Init, BoardInit, StreamsInit
<1>2. putting \in Puts /\ arrived \in Nat /\ 0 <= arrived /\ begun \in Nat
  BY <1>1 DEF Puts, Piece, NoPiece
<1>3. Up(got, 0)
  BY <1>1 DEF Up
<1>4. /\ hw \in HW /\ hw.rpend = 0 /\ hw.rxq = <<>> /\ hw.rint = FALSE /\ hw.rx = NoFrame
      /\ hw.tx = <<>> /\ hw.air = <<>>
  <2>1. <<>> \in Memory
    <3>1. <<>> = [i \in {} |-> 0]
      OBVIOUS
    <3>2. [i \in {} |-> 0] \in [{} -> Part]
      OBVIOUS
    <3> QED
      BY <3>1, <3>2 DEF Memory
  <2>2. NoFrame \in Frame
    BY DEF NoFrame, Frame
  <2> HIDE DEF NoFrame
  <2>3. hw = [cie |-> FALSE, rie |-> FALSE, cint |-> FALSE, rint |-> FALSE, rpend |-> 0,
              rxq |-> <<>>, rx |-> NoFrame, mem |-> <<>>, tx |-> <<>>, air |-> <<>>]
    BY Zenon DEF Init, BoardInit
  <2> QED
    BY <2>1, <2>2, <2>3 DEF HW
<1>5. Ringed(hw, <<>>, 0, 0, 0)
  <2>1. Ring(hw, <<>>, 0)
    <3>1. hw.rpend \in 0 .. Len(<<>>) - 0 /\ (0 > 0) = FALSE
      BY <1>4
    <3>2. SubSeq(<<>>, 0 + 0 + 1, Len(<<>>)) = <<>>
      OBVIOUS
    <3> QED
      BY <1>4, <3>1, <3>2, Zenon DEF Ring
  <2>2. Distinct(<<>>) /\ Parts(hw, <<>>, 0, 0, 0)
    BY DEF Distinct, Parts
  <2>3. InFlight(hw, <<>>, 0)
    BY <1>4 DEF InFlight
  <2> QED
    BY <1>4, <2>1, <2>2, <2>3 DEF Ringed
<1>6. \A rest : SoFar(hw, <<>>, 0, rest)
  BY DEF SoFar
<1>7. /\ NoChan \in Channel /\ 0 \in Chs /\ (\A c \in Chs : c # NoChan)
  BY StreamsAssumption DEF Channel, Chs, NoChan
<1>8. [c \in Chs |-> <<>>] \in Queues /\ [c \in Chs |-> 0] \in Counts
  BY DEF Queues, Counts
<1>9. \A B : Flows(B, NoChan, [c \in Chs |-> <<>>], [c \in Chs |-> 0], hw.tx, hw.air, putting, begun, ended)
  BY <1>1, <1>4, FlowsInit, Zenon
<1>10. v8.panic = FALSE /\ v10.panic = FALSE
  BY DEF Init, IllInit, Ni1010aInit
<1>11. In8(Cur8, 0, arrived, putting, begun, ended)
  <2>1. v8 = [active |-> FALSE, rcvpending |-> Mtu, chain |-> <<>>, nbp |-> 0, len |-> 0,
              tq |-> NoChan, open |-> {}, q |-> [c \in Chs |-> <<>>],
              packets |-> [c \in Chs |-> 0], panic |-> FALSE]
    BY Zenon DEF Init, IllInit
  <2> DEFINE q == [c \in Chs |-> <<>>]
             n == [c \in Chs |-> 0]
  <2>2. \A c \in Chs : q[c] = <<>> /\ n[c] = 0
    OBVIOUS
  <2>3. q \in Queues /\ n \in Counts
    BY <1>8
  <2> HIDE DEF q, n
  <2>4. /\ v8 \in V8Driver /\ v8.chain = <<>> /\ v8.nbp = 0 /\ v8.len = 0 /\ v8.rcvpending = Mtu
        /\ v8.tq = NoChan /\ v8.open = {} /\ v8.q = q /\ v8.packets = n
    <3>1. v8 = [active |-> FALSE, rcvpending |-> Mtu, chain |-> <<>>, nbp |-> 0, len |-> 0,
                tq |-> NoChan, open |-> {}, q |-> q, packets |-> n, panic |-> FALSE]
      BY <2>1, Zenon DEF q, n
    <3>2. Mtu \in Int /\ <<>> \in Chains /\ {} \in Opened
      BY StreamsAssumption DEF Chains, Opened
    <3> QED
      BY <1>7, <2>3, <3>1, <3>2 DEF V8Driver
  <2>5. Cur8 \in V8State /\ Cur8.d = v8 /\ Cur8.h = hw
    BY <1>4, <2>4 DEF Cur8, V8State
  <2>6. Taken8(v8) = 0
    BY <2>4 DEF Taken8
  <2>7. Recv8(Cur8, 0, 0)
    <3>1. 0 \in {0, Len(<<>>)} /\ ~(0 > 0)
      OBVIOUS
    <3>2. \A i \in 1 .. Len(<<>>) : <<>>[i].bc >= SmallBlock
      OBVIOUS
    <3> QED
      BY <1>5, <1>6, <2>4, <2>5, <2>6, <3>1, <3>2, Zenon DEF Recv8
  <2>8. Sending8(Cur8, putting, begun, ended)
    BY <1>9, <2>2, <2>4, <2>5, Zenon DEF Sending8, q, n
  <2> QED
    BY <1>1, <1>10, <2>5, <2>7, <2>8, Zenon DEF In8
<1>12. In10(Cur10, 0, arrived, putting, begun, ended)
  <2> DEFINE q == [c \in Chs |-> <<>>]
             n == [c \in Chs |-> 0]
             x == [c \in Chs |-> NoBlock]
  <2>1. v10 = [stage |-> "reset", cmdact |-> FALSE, chain |-> <<>>, rnext |-> 0, rcur |-> 0,
               rbytes |-> 0, rbufs |-> 0, lastch |-> 0, q |-> q,
               ndelims |-> n, xcur |-> x, panic |-> FALSE]
    BY Zenon DEF Init, Ni1010aInit
  <2>2. \A c \in Chs : q[c] = <<>> /\ n[c] = 0 /\ x[c] = NoBlock
    OBVIOUS
  <2>3. q \in Queues /\ n \in Counts /\ x \in Currents
    BY <1>8 DEF Currents, NoBlock, QBlock, Piece, NoPiece
  <2> HIDE DEF q, n, x
  <2>4. /\ v10 \in V10Driver /\ v10.chain = <<>> /\ v10.rnext = 0 /\ v10.rcur = 0 /\ v10.rbytes = 0
        /\ v10.rbufs = 0 /\ v10.lastch = 0 /\ v10.q = q /\ v10.ndelims = n /\ v10.xcur = x
    BY <1>7, <2>1, <2>3 DEF V10Driver, Steps10, Chains
  <2>5. Cur10 \in V10State /\ Cur10.d = v10 /\ Cur10.h = hw
    BY <1>4, <2>4 DEF Cur10, V10State
  <2>6. Taken10(v10) = 0
    BY <2>4 DEF Taken10
  <2>7. Buffers10(hw, <<>>, 0, 0, 0, 0, 0)
    <3>1. Sums(<<>>, 0, 0)
      <4> DEFINE f == [i \in 0 .. Len(<<>>) |-> 0]
      <4>1. f \in [0 .. Len(<<>>) -> Int] /\ 0 = f[Len(<<>>)] - f[0]
        OBVIOUS
      <4>2. \A i \in 1 .. Len(<<>>) : f[i] = f[i - 1] + <<>>[i].bc
        OBVIOUS
      <4> HIDE DEF f
      <4> QED
        BY <4>1, <4>2, Zenon DEF Sums
    <3>2. 0 = Len(<<>>) - 0
      OBVIOUS
    <3> QED
      BY <1>5, <3>1, <3>2, Zenon DEF Buffers10
  <2>8. Recv10(Cur10, 0, 0)
    <3>1. 0 # 1
      OBVIOUS
    <3> QED
      BY <1>6, <2>4, <2>5, <2>6, <2>7, <3>1, Zenon DEF Recv10
  <2>9. Midway(v10, NoChan, n)
    <3>1. \A c \in Chs : n[c] >= 0
      BY <2>2
    <3>2. x[0] = NoBlock
      BY <1>7, <2>2, Zenon
    <3> QED
      BY <1>7, <2>4, <3>1, <3>2, Zenon DEF Midway
  <2>10. Outgoing(Cur10, NoChan, n, putting, begun, ended)
    BY <1>9, <2>4, <2>5, <2>9, Zenon DEF Outgoing, q, n
  <2>11. Sending10(Cur10, putting, begun, ended)
    BY <1>7, <2>3, <2>10, Zenon DEF Sending10
  <2> QED
    BY <1>1, <1>10, <2>5, <2>8, <2>11, Zenon DEF In10
<1>13. Cur8.d.panic = FALSE /\ Cur10.d.panic = FALSE
  <2>1. Cur8.d = v8 /\ Cur10.d = v10
    BY DEF Cur8, Cur10
  <2> QED
    BY <1>10, <2>1, Zenon
<1> QED
  BY <1>1, <1>2, <1>3, <1>11, <1>12, <1>13, Zenon DEF Held

LEMMA NextHeld == IInv /\ [Next]_vars => IInv'
<1> SUFFICES ASSUME IInv, [Next]_vars
             PROVE  \E lo \in Nat : Held(lo, arrived', putting', begun', ended', got', guest', Nxt8, Nxt10)
  <2>1. Cur8' = Nxt8 /\ Cur10' = Nxt10
    BY Zenon DEF Cur8, Cur10, Nxt8, Nxt10
  <2> QED
    BY <2>1, Zenon DEF IInv
<1>1. PICK lo \in Nat : Held(lo, arrived, putting, begun, ended, got, guest, Cur8, Cur10)
  BY Zenon DEF IInv
<1>2. arrived \in Nat /\ lo <= arrived /\ begun \in Nat /\ putting \in Puts /\ Up(got, lo)
  BY <1>1, Zenon DEF Held
<1>3. /\ Cur8.d = v8 /\ Cur10.d = v10 /\ Nxt8.d = v8' /\ Nxt10.d = v10'
  BY DEF Cur8, Cur10, Nxt8, Nxt10
<1>4. ASSUME NEW f \in lo + 1 .. arrived
      PROVE  f \in Nat /\ f <= arrived /\ Up(Append(got, f), f)
  <2>1. f \in Nat /\ f <= arrived
    BY <1>2
  <2> QED
    BY <1>2, <1>4, <2>1, UpMore
\* V8's driver.
<1>5. CASE V8
  <2>1. guest = "v8" /\ UNCHANGED <<arrived, v10, guest>>
    BY <1>5, Zenon DEF V8
  <2>2. v10.panic = FALSE /\ In8(Cur8, lo, arrived, putting, begun, ended)
    <3>1. "v8" # "v10"
      OBVIOUS
    <3> QED
      BY <1>1, <1>3, <2>1, <3>1, Zenon DEF Held
  <2>3. ASSUME got' = got, putting' \in Puts, begun' \in Nat,
               In8(Nxt8, lo, arrived, putting', begun', ended')
        PROVE  Held(lo, arrived', putting', begun', ended', got', guest', Nxt8, Nxt10)
    BY <1>2, <1>3, <2>1, <2>2, <2>3, Zenon DEF Held
  <2>4. CASE Rint8
    <3>1. /\ UNCHANGED <<putting, begun, ended>>
          /\ \/ got' = got /\ In8(Nxt8, lo, arrived, putting, begun, ended)
             \/ \E f \in lo + 1 .. arrived :
                   got' = Append(got, f) /\ In8(Nxt8, f, arrived, putting, begun, ended)
      BY <1>2, <2>2, <2>4, Rint8Keeps
    <3>2. CASE got' = got /\ In8(Nxt8, lo, arrived, putting, begun, ended)
      BY <1>2, <2>3, <3>1, <3>2, Zenon
    <3>3. ASSUME NEW f \in lo + 1 .. arrived,
                 got' = Append(got, f), In8(Nxt8, f, arrived, putting, begun, ended)
          PROVE  f \in Nat /\ Held(f, arrived', putting', begun', ended', got', guest', Nxt8, Nxt10)
      BY <1>2, <1>3, <1>4, <2>1, <2>2, <3>1, <3>3, Zenon DEF Held
    <3> QED
      BY <3>1, <3>2, <3>3, Zenon
  <2>5. CASE Cint8
    BY <1>2, <2>2, <2>3, <2>5, Cint8Keeps, Zenon
  <2>6. CASE \E c \in Chs : IlOpen(c) \/ IlPutData(c) \/ IlPutDelim(c)
    <3>1. PICK c \in Chs : IlOpen(c) \/ IlPutData(c) \/ IlPutDelim(c)
      BY <2>6
    <3>2. CASE IlOpen(c)
      BY <1>2, <2>2, <2>3, <3>2, IlOpenKeeps, Zenon
    <3>3. CASE IlPutData(c)
      BY <1>2, <2>2, <2>3, <3>3, IlPutDataKeeps, Zenon
    <3>4. CASE IlPutDelim(c)
      BY <1>2, <2>2, <2>3, <3>4, IlPutDelimKeeps, Zenon
    <3> QED
      BY <3>1, <3>2, <3>3, <3>4
  <2> QED
    BY <1>5, <2>4, <2>5, <2>6, Zenon DEF V8
\* V10's driver.
<1>6. CASE V10
  <2>1. guest = "v10" /\ UNCHANGED <<arrived, v8, guest>>
    BY <1>6, Zenon DEF V10
  <2>2. v8.panic = FALSE /\ In10(Cur10, lo, arrived, putting, begun, ended)
    <3>1. "v8" # "v10"
      OBVIOUS
    <3> QED
      BY <1>1, <1>3, <2>1, <3>1, Zenon DEF Held
  <2>3. v10.panic = FALSE
    <3>1. Cur10 \in V10State /\ ~v10.panic
      BY <1>6, <2>2, Zenon DEF V10, In10
    <3> QED
      BY <1>3, <3>1 DEF V10State, V10Driver
  <2>4. ASSUME got' = got, putting' \in Puts, begun' \in Nat,
               In10(Nxt10, lo, arrived, putting', begun', ended')
        PROVE  Held(lo, arrived', putting', begun', ended', got', guest', Nxt8, Nxt10)
    BY <1>2, <1>3, <2>1, <2>2, <2>4, Zenon DEF Held
  <2>5. CASE Rint10
    <3>1. /\ UNCHANGED <<putting, begun, ended>>
          /\ \/ got' = got /\ In10(Nxt10, lo, arrived, putting, begun, ended)
             \/ \E f \in lo + 1 .. arrived :
                   got' = Append(got, f) /\ In10(Nxt10, f, arrived, putting, begun, ended)
      BY <1>2, <2>2, <2>3, <2>5, Rint10Keeps
    <3>2. CASE got' = got /\ In10(Nxt10, lo, arrived, putting, begun, ended)
      BY <1>2, <2>4, <3>1, <3>2, Zenon
    <3>3. ASSUME NEW f \in lo + 1 .. arrived,
                 got' = Append(got, f), In10(Nxt10, f, arrived, putting, begun, ended)
          PROVE  f \in Nat /\ Held(f, arrived', putting', begun', ended', got', guest', Nxt8, Nxt10)
      BY <1>2, <1>3, <1>4, <2>1, <2>2, <3>1, <3>3, Zenon DEF Held
    <3> QED
      BY <3>1, <3>2, <3>3, Zenon
  <2>6. CASE Cint10
    BY <1>2, <2>2, <2>3, <2>4, <2>6, Cint10Keeps, Zenon
  <2>7. CASE IlInit
    BY <1>2, <2>2, <2>3, <2>4, <2>7, IlInitKeeps, Zenon
  <2>8. CASE \E c \in Chs, delim \in BOOLEAN : IlPut(c, delim)
    <3>1. PICK c \in Chs, delim \in BOOLEAN : IlPut(c, delim)
      BY <2>8
    <3> QED
      BY <1>2, <2>2, <2>3, <2>4, <3>1, IlPutKeeps, Zenon
  <2> QED
    BY <1>6, <2>5, <2>6, <2>7, <2>8, Zenon DEF V10
<1>7. CASE Board
  <2>1. Svc /\ UNCHANGED <<putting, begun, ended, got, v8, v10, guest>>
    BY <1>7, Zenon DEF Board, streams
  <2>2. CASE guest = "v8"
    <3>1. v10.panic = FALSE /\ In8(Cur8, lo, arrived, putting, begun, ended)
      <4>1. "v8" # "v10"
        OBVIOUS
      <4> QED
        BY <1>1, <1>3, <2>2, <4>1, Zenon DEF Held
    <3>2. arrived' \in Nat /\ lo <= arrived' /\ In8(Nxt8, lo, arrived', putting, begun, ended)
      BY <1>2, <2>1, <3>1, Svc8Keeps
    <3> QED
      BY <1>2, <1>3, <2>1, <2>2, <3>1, <3>2, Zenon DEF Held
  <2>3. CASE guest = "v10"
    <3>1. v8.panic = FALSE /\ In10(Cur10, lo, arrived, putting, begun, ended)
      <4>1. "v8" # "v10"
        OBVIOUS
      <4> QED
        BY <1>1, <1>3, <2>3, <4>1, Zenon DEF Held
    <3>2. arrived' \in Nat /\ lo <= arrived' /\ In10(Nxt10, lo, arrived', putting, begun, ended)
      BY <1>2, <2>1, <3>1, Svc10Keeps
    <3> QED
      BY <1>2, <1>3, <2>1, <2>3, <3>1, <3>2, Zenon DEF Held
  <2> QED
    BY <1>1, <2>2, <2>3, Zenon DEF Held
\* The large blocks run out, or come back; or nothing happens.
<1>8. CASE Kernel \/ UNCHANGED vars
  <2>1. UNCHANGED <<hw, arrived, putting, begun, ended, got, v8, v10, guest>>
    BY <1>8, Zenon DEF Kernel, Blocks, board, vars
  <2>2. Nxt8 = Cur8 /\ Nxt10 = Cur10
    BY <2>1, Zenon DEF Cur8, Cur10, Nxt8, Nxt10
  <2> QED
    BY <1>1, <2>1, <2>2, Zenon
<1> QED
  BY <1>5, <1>6, <1>7, <1>8, Zenon DEF Next

LEMMA SpecHeld == Spec => []IInv
<1>1. Spec => Init /\ [][Next]_vars
  BY PTL DEF Spec
<1> QED
  BY <1>1, InitHeld, NextHeld, PTL

-----------------------------------------------------------------------------
(* The properties.                                                         *)

\* Of the blocks a driver waits for, in its own order, the first ones are
\* filled and the others are the board's.
LEMMA RingSays ==
  ASSUME NEW h, NEW chain \in Seq(Block), NEW taken \in 0 .. Len(chain), Ring(h, chain, taken)
  PROVE  LET o == SubSeq(chain, taken + 1, Len(chain))
         IN  h.rpend <= Len(o) /\ h.rxq = SubSeq(o, h.rpend + 1, Len(o))
<1> DEFINE o == SubSeq(chain, taken + 1, Len(chain))
           j == h.rpend + 1
           k == taken + 1
<1>1. Len(chain) \in Nat /\ k \in 1 .. Len(chain) + 1
  BY LenProperties
<1>2. h.rpend \in 0 .. Len(chain) - taken /\ h.rxq = SubSeq(chain, taken + h.rpend + 1, Len(chain))
  BY Zenon DEF Ring
<1>3. Len(o) = Len(chain) + 1 - k
  BY <1>1, Rest
<1>4. h.rpend <= Len(o) /\ j \in 1 .. Len(chain) + 2 - k /\ k + j - 1 = taken + h.rpend + 1
  <2> DEFINE p == h.rpend
             m == Len(o)
             n == Len(chain)
  <2>1. p \in 0 .. n - taken /\ n \in Nat /\ taken \in 0 .. n /\ m = n + 1 - (taken + 1)
    BY <1>1, <1>2, <1>3
  <2> HIDE DEF p, m, n
  <2>2. p <= m /\ p + 1 \in 1 .. n + 2 - (taken + 1) /\ (taken + 1) + (p + 1) - 1 = taken + p + 1
    BY <2>1
  <2> QED
    BY <2>2 DEF p, m, n
<1> HIDE DEF j, k
<1>5. SubSeq(SubSeq(chain, k, Len(chain)), j, Len(SubSeq(chain, k, Len(chain)))) = SubSeq(chain, k + j - 1, Len(chain))
  BY <1>1, <1>4, RestOfRest
<1>6. SubSeq(o, j, Len(o)) = h.rxq
  BY <1>2, <1>4, <1>5, Zenon DEF k
<1> QED
  BY <1>4, <1>6, Zenon DEF j

LEMMA RingHolds == IInv => RingAgrees
<1> SUFFICES ASSUME IInv PROVE RingAgrees
  OBVIOUS
<1>1. PICK lo \in Nat : Held(lo, arrived, putting, begun, ended, got, guest, Cur8, Cur10)
  BY Zenon DEF IInv
<1>2. Cur8.d = v8 /\ Cur10.d = v10 /\ Cur8.h = hw /\ Cur10.h = hw
  BY DEF Cur8, Cur10
<1>3. CASE guest = "v8" /\ In8(Cur8, lo, arrived, putting, begun, ended)
  <2>1. v8 \in V8Driver /\ Recv8(Cur8, lo, arrived)
    BY <1>2, <1>3 DEF In8, V8State
  <2>2. v8.nbp \in {0, Len(v8.chain)} /\ Ring(hw, v8.chain, Taken8(v8))
    BY <1>2, <2>1, Zenon DEF Recv8, Ringed
  <2>3. Taken8(v8) \in 0 .. Len(v8.chain) /\ Supplied(v8) = SubSeq(v8.chain, Taken8(v8) + 1, Len(v8.chain))
    BY <2>1, <2>2, SuppliedIs
  <2>4. v8.chain \in Seq(Block)
    BY <2>1 DEF V8Driver, Chains
  <2>5. hw.rpend <= Len(Supplied(v8)) /\ hw.rxq = SubSeq(Supplied(v8), hw.rpend + 1, Len(Supplied(v8)))
    BY <2>2, <2>3, <2>4, RingSays, Zenon
  <2> QED
    BY <1>3, <2>5, Zenon DEF RingAgrees, Out
<1>4. CASE guest = "v10" /\ In10(Cur10, lo, arrived, putting, begun, ended)
  <2>1. v10 \in V10Driver
    BY <1>2, <1>4 DEF In10, V10State
  <2>2. CASE v10.panic = FALSE
    <3> DEFINE k == Taken10(v10)
    <3>1. Ringed(hw, v10.chain, k, lo, arrived)
      BY <1>2, <1>4, <2>2, Zenon DEF In10, Recv10, Buffers10
    <3>2. k \in 0 .. Len(v10.chain) /\ Ring(hw, v10.chain, k)
      BY <3>1, Zenon DEF Ringed
    <3>3. k + 1 = Current(v10)
      BY <2>1 DEF Taken10, Current, V10Driver
    <3>4. v10.chain \in Seq(Block)
      BY <2>1 DEF V10Driver, Chains
    <3> HIDE DEF k
    <3> DEFINE o == SubSeq(v10.chain, k + 1, Len(v10.chain))
    <3>5. hw.rpend <= Len(o) /\ hw.rxq = SubSeq(o, hw.rpend + 1, Len(o))
      BY <3>2, <3>4, RingSays, Zenon
    <3>6. Out = o
      <4>1. "v10" # "v8"
        OBVIOUS
      <4> QED
        BY <1>4, <3>3, <4>1, Zenon DEF Out
    <3> QED
      BY <3>5, <3>6, Zenon DEF RingAgrees
  <2>3. CASE v10.panic # FALSE
    BY <2>1, <2>3 DEF V10Driver, RingAgrees, Panicked
  <2> QED
    BY <2>2, <2>3
<1> QED
  BY <1>1, <1>3, <1>4, Zenon DEF Held

\* Board and driver agree, whichever driver it is, at every moment until a
\* panic: the board's queue is the driver's chain of buffers behind those
\* that are filled, and the filled ones are as many as il_rint_ack() has
\* interrupts left to raise.
THEOREM RingsAgree == Spec => []RingAgrees
BY SpecHeld, RingHolds, PTL

LEMMA PanicsHold == IInv => PanicsExplained
<1> SUFFICES ASSUME IInv PROVE PanicsExplained
  OBVIOUS
<1>1. PICK lo \in Nat : Held(lo, arrived, putting, begun, ended, got, guest, Cur8, Cur10)
  BY Zenon DEF IInv
<1>2. Cur8.d = v8 /\ Cur10.d = v10
  BY DEF Cur8, Cur10
<1>3. CASE v10.panic = FALSE /\ In8(Cur8, lo, arrived, putting, begun, ended)
  <2>1. v8.panic = FALSE
    BY <1>2, <1>3, Zenon DEF In8
  <2> QED
    BY <1>3, <2>1, Zenon DEF PanicsExplained
<1>4. CASE v8.panic = FALSE /\ In10(Cur10, lo, arrived, putting, begun, ended)
  <2>1. v10.panic = FALSE \/ v10.cmdact = TRUE
    BY <1>2, <1>4, Zenon DEF In10
  <2> QED
    BY <1>4, <2>1, Zenon DEF PanicsExplained
<1> QED
  BY <1>1, <1>2, <1>3, <1>4, Zenon DEF Held

\* V8's driver never panics, and V10's does so only while a command has not
\* been answered, when it could not have supplied the buffer that is missing.
THEOREM PanicsAreExplained == Spec => []PanicsExplained
BY SpecHeld, PanicsHold, PTL

LEMMA FramesHold == IInv => WholeFrames
<1> SUFFICES ASSUME IInv PROVE WholeFrames
  OBVIOUS
<1>1. PICK lo \in Nat : Up(got, lo)
  BY Zenon DEF IInv, Held
<1>2. got \in Seq(Nat) /\ DOMAIN got = 1 .. Len(got)
  BY <1>1 DEF Up
<1>3. \A i \in 1 .. Len(got) : got[i] # 0
  <2> TAKE i \in 1 .. Len(got)
  <2>1. got[i] \in 1 .. lo
    BY <1>1, Zenon DEF Up
  <2> QED
    BY <2>1
<1> QED
  BY <1>1, <1>2, <1>3, Zenon DEF Up, WholeFrames

\* What either driver passes up is whole frames in the order of their
\* arrival, whatever the sizes of the buffers the kernel had to give.
THEOREM FramesAreWhole == Spec => []WholeFrames
BY SpecHeld, FramesHold, PTL

LEMMA PacketsHold == IInv => WholePackets
<1> SUFFICES ASSUME IInv PROVE WholePackets
  OBVIOUS
<1>1. PICK lo \in Nat : Held(lo, arrived, putting, begun, ended, got, guest, Cur8, Cur10)
  BY Zenon DEF IInv
<1>2. Cur8.d = v8 /\ Cur10.d = v10 /\ Cur8.h = hw /\ Cur10.h = hw
  BY DEF Cur8, Cur10
<1>3. hw \in HW /\ Whole(hw.air, ended)
  <2>1. CASE In8(Cur8, lo, arrived, putting, begun, ended)
    <3>1. Whole(hw.air, ended)
      BY <1>2, <2>1, Zenon DEF In8, Sending8, Flows
    <3> QED
      BY <1>2, <2>1, <3>1 DEF In8, V8State
  <2>2. CASE In10(Cur10, lo, arrived, putting, begun, ended)
    <3>1. Whole(hw.air, ended)
      BY <1>2, <2>2, Zenon DEF In10, Sending10, Outgoing, Flows
    <3> QED
      BY <1>2, <2>2, <3>1 DEF In10, V10State
  <2> QED
    BY <1>1, <2>1, <2>2, Zenon DEF Held
<1>4. DOMAIN hw.air = 1 .. Len(hw.air)
  BY <1>3 DEF HW
<1> QED
  BY <1>3, <1>4, Zenon DEF Whole, WholePackets, Pkt

\* What goes out is whole packets, each once and a channel's in its order,
\* though V10's driver may give a receive command between two pieces of a
\* packet, and packets are put on every channel meanwhile.
THEOREM PacketsAreWhole == Spec => []WholePackets
BY SpecHeld, PacketsHold, PTL
===============================================================================
