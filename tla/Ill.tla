---------------------------------- MODULE Ill ----------------------------------
(***************************************************************************)
(* V8's driver of the NI1010, v8/usr/sys/dev/ill.c, on the board of NI1010 *)
(* and the blocks of Streams.  It keeps one receive buffer with the board  *)
(* (ILOUTSTANDING), and gives commands only while it is not active.        *)
(*                                                                         *)
(* The driver runs at spl6 or in its handlers, so that it is interrupted   *)
(* by nobody but the board's own clock.  A handler is an operator from     *)
(* [d, h], driver and board, to what they are when it returns.             *)
(*                                                                         *)
(*   active      a transmit command is under way                           *)
(*   rcvpending  bytes to supply a buffer for when it is over              *)
(*   chain, nbp  is->bp and the blocks behind it; the index of is->nbp,    *)
(*               the block filled next, 0 for none                         *)
(*   len         what is left of the packet being received                 *)
(*   tq          the channel that transmits, NoChan when the last block of *)
(*               its packet has been given to the board                    *)
(*   open, q, packets  per channel: icp->rq, the queue, complete packets   *)
(*                                                                         *)
(* ilprobe() and ilattach() are over in the initial state.                 *)
(***************************************************************************)
EXTENDS NI1010, Streams

VARIABLE v8

\* IL_MAXFRAME + IL_HDRLEN is 22 more than ETHERMTU: what is left of a frame
\* after a first buffer is never more than the driver asks a buffer for.
ASSUME FrameAssumption == \A l \in FrameLens : l <= Mtu + SmallBlock

NoChan == -1

\* ilattach()
IllInit ==
    v8 = [active |-> FALSE, rcvpending |-> Mtu, chain |-> <<>>, nbp |-> 0, len |-> 0,
          tq |-> NoChan, open |-> {}, q |-> [c \in Chs |-> <<>>],
          packets |-> [c \in Chs |-> 0], panic |-> FALSE]

\* The blocks from is->nbp on, which the board may still fill.
Supplied(d) == IF d.nbp = 0 THEN <<>> ELSE SubSeq(d.chain, d.nbp, Len(d.chain))

SumBytes(blocks) == FoldSeq(LAMBDA b, sum : b.bc + sum, 0, blocks)

-----------------------------------------------------------------------------
(* ilsetup(n): supply a buffer for n bytes, unless the board has one.      *)

BufferFor(d, n) ==
    [id |-> Fresh(d.chain), bc |-> IF n > Mtu THEN AllocSize(n) - 2 ELSE AllocSize(n)]

IlSetup(s, n) ==
    LET d == s.d
    IN  IF d.active THEN [s EXCEPT !.d.panic = TRUE]
        ELSE IF n <= SumBytes(Supplied(d)) THEN s
        ELSE IF Supplied(d) # <<>> THEN [s EXCEPT !.d.rcvpending = 0]
        ELSE LET b == BufferFor(d, n)
             IN  [d |-> [d EXCEPT !.chain = Append(@, b), !.nbp = Len(d.chain) + 1,
                                  !.rcvpending = 0],
                  h |-> RcvCommand(s.h, b, FALSE)]

-----------------------------------------------------------------------------
(* Transmitting.                                                           *)

\* ilstart(): the first block of a packet, for the first channel that has one.
IlStart(s) ==
    LET ready == {c \in s.d.open : s.d.packets[c] > 0}
    IN  IF ready = {} THEN [s EXCEPT !.d.active = FALSE]
        ELSE LET c == Min(ready)
             IN  IF s.d.q[c] = <<>>
                 THEN [s EXCEPT !.d.active = FALSE, !.d.tq = c]
                 ELSE [d |-> [s.d EXCEPT !.active = TRUE, !.tq = c, !.q[c] = Tail(@)],
                       h |-> LdXmitCommand(s.h, Head(s.d.q[c]).piece)]

\* ilcint() in the middle of a packet: the block that comes next.
IlNextBlock(s) ==
    LET c == s.d.tq
    IN  IF s.d.q[c] = <<>>
        THEN [s EXCEPT !.d.active = FALSE, !.d.tq = NoChan]
        ELSE LET b == Head(s.d.q[c])
                 d == [s.d EXCEPT !.q[c] = Tail(@)]
             IN  IF b.delim
                 THEN [d |-> [d EXCEPT !.packets[c] = @ - 1, !.tq = NoChan],
                       h |-> XmitCommand(s.h, <<>>)]
                 ELSE [d |-> d, h |-> LdXmitCommand(s.h, b.piece)]

\* Mutant: the buffer that waits is left for the next receive interrupt.
IlCintSends(s) ==
    IF ~s.d.active THEN s
    ELSE IF s.d.tq # NoChan THEN IlNextBlock(s)
    ELSE IlStart([s EXCEPT !.d.active = FALSE])

\* ilcint(): the packet is out when there is no tq; a buffer that had to
\* wait for it is supplied, and the next packet started.
IlCint(s) ==
    IF ~s.d.active THEN s
    ELSE IF s.d.tq # NoChan THEN IlNextBlock(s)
    ELSE LET idle == [s EXCEPT !.d.active = FALSE]
         IN  IlStart(IF s.d.rcvpending > 0 THEN IlSetup(idle, s.d.rcvpending) ELSE idle)

-----------------------------------------------------------------------------
(* Receiving.                                                              *)

\* Mutant: a transmission is interfered with.
IlMoreAtOnce(s, n) == IlSetup(s, n)

\* Ask for a buffer, or leave it for ilcint().
IlMore(s, n) ==
    IF s.d.active THEN [s EXCEPT !.d.rcvpending = n] ELSE IlSetup(s, n)

\* The end of a packet, `setup': blocks up to is->nbp are gone.
IlDone(s) ==
    LET used == IF s.d.nbp = 0 THEN s.d.chain ELSE SubSeq(s.d.chain, 1, s.d.nbp - 1)
        d    == [s.d EXCEPT !.chain = Supplied(s.d), !.nbp = IF @ = 0 THEN 0 ELSE 1]
    IN  IlMore([d |-> d, h |-> [s.h EXCEPT !.mem = Free(@, used)]], Mtu)

\* ilrint(), after the panics: the block at nbp has been filled.  result
\* says whether the packet is complete.
Filled(s) ==
    LET b    == s.d.chain[s.d.nbp]
        left == (IF s.d.nbp = 1 THEN Content(s.h.mem, b).len ELSE s.d.len) - b.bc
        d    == [s.d EXCEPT !.len = left,
                            !.nbp = IF @ = Len(s.d.chain) THEN 0 ELSE @ + 1]
    IN  [s    |-> [s EXCEPT !.d = d],
         done |-> left <= 0 \/ b.bc % 8 # 0]

\* The whole handler.
IlRint ==
    LET s == [d |-> v8, h |-> RintAck(hw)]
        f == Filled(s)
        r == IF f.done THEN IlDone(f.s)
             ELSE IF f.s.d.nbp = 0 THEN IlMore(f.s, f.s.d.len) ELSE f.s
        packet == IF f.s.d.nbp = 0 THEN f.s.d.chain
                  ELSE SubSeq(f.s.d.chain, 1, f.s.d.nbp - 1)
    IN  IF v8.nbp = 0
        THEN v8' = [v8 EXCEPT !.panic = TRUE] /\ hw' = s.h /\ UNCHANGED got
        ELSE /\ v8' = r.d /\ hw' = r.h
             /\ IF f.done THEN PassUp(hw.mem, packet)
                ELSE UNCHANGED got

-----------------------------------------------------------------------------
(* The actions.                                                            *)

Result8(s) == v8' = s.d /\ hw' = s.h

\* The vector of the receive interrupt comes before the command's.
Rint8 == hw.rint /\ IlRint /\ UNCHANGED <<putting, begun, ended>>
Cint8 ==
    /\ hw.cint /\ ~hw.rint
    /\ Result8(IlCint([d |-> v8, h |-> CintAck(hw)]))
    /\ UNCHANGED <<putting, begun, ended, got>>

\* ilopen(): the first one calls ilcint() to have a buffer supplied.
IlOpen(c) ==
    LET d == [v8 EXCEPT !.open = @ \cup {c}, !.packets[c] = 0]
        s == [d |-> d, h |-> hw]
    IN  /\ c \notin v8.open
        /\ Result8(IF d.rcvpending > 0 /\ ~d.active
                   THEN IlCint([s EXCEPT !.d.active = TRUE]) ELSE s)
        /\ UNCHANGED <<putting, begun, ended, got>>

\* ilput() of a block of data.
IlPutData(c) ==
    /\ c \in v8.open /\ PutOn(c)
    /\ v8' = [v8 EXCEPT !.q[c] = Append(@, [piece |-> NextPiece(c), delim |-> FALSE])]
    /\ UNCHANGED <<hw, ended, got>>

\* ilput() of the M_DELIM that ends a packet.
IlPutDelim(c) ==
    LET d == [v8 EXCEPT !.q[c] = Append(@, [piece |-> NoPiece, delim |-> TRUE]),
                        !.packets[c] = @ + 1]
        s == [d |-> d, h |-> hw]
    IN  /\ c \in v8.open /\ putting[c] # NoPiece /\ Ended(c, putting[c])
        /\ Result8(IF d.active THEN s ELSE IlStart(s))
        /\ UNCHANGED <<begun, got>>
=============================================================================
