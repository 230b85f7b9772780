-------------------------------- MODULE Ni1010a --------------------------------
(***************************************************************************)
(* V10's driver of the NI1010, v10/usr/sys/io/ni1010a.c, on the board of   *)
(* NI1010 and the blocks of Streams.  It keeps ILRBYTES of receive buffers *)
(* with the board, and gives one command at a time, each with a command    *)
(* interrupt.                                                              *)
(*                                                                         *)
(* As in Ill, the driver is interrupted by nobody but the board's clock,   *)
(* and a handler is an operator on [d, h].                                 *)
(*                                                                         *)
(*   stage       how far ilinit() is; "up" is INITDONE                     *)
(*   cmdact      CMDACT: a command has not been answered                   *)
(*   chain       the blocks from is->rfirst to is->rlast                   *)
(*   rnext, rcur the index of the block that goes on with a packet (0:     *)
(*               none), and the bytes it is to bring                       *)
(*   rbytes, rbufs  the buffers outstanding                                *)
(*   lastch      the channel that transmits or transmitted last            *)
(*   q, ndelims, xcur  per channel: the queue, the packets complete in it, *)
(*               the block being sent                                      *)
(***************************************************************************)
EXTENDS NI1010, Streams

CONSTANTS
    RBytes,    \* ILRBYTES
    MaxRBufs   \* MAXRBUFS

ASSUME DriverAssumption ==
    RBytes \in Nat \ {0} /\ MaxRBufs \in Nat \ {0}

\* `il_rxq_covers_both_drivers': V8 has one buffer out.
ASSUME RingAssumption == RxQ >= MaxRBufs

VARIABLE v10

NoBlock == [piece |-> NoPiece, delim |-> FALSE]

Ni1010aInit ==
    v10 = [stage |-> "reset", cmdact |-> FALSE, chain |-> <<>>, rnext |-> 0, rcur |-> 0,
           rbytes |-> 0, rbufs |-> 0, lastch |-> 0, q |-> [c \in Chs |-> <<>>],
           ndelims |-> [c \in Chs |-> 0], xcur |-> [c \in Chs |-> NoBlock], panic |-> FALSE]

-----------------------------------------------------------------------------
(* ilrcvbufs(): one more receive buffer, if it is wanted and a command can *)
(* be given.                                                               *)

CanSupply(d) == ~d.cmdact /\ d.rbytes < RBytes /\ d.rbufs < MaxRBufs

IlRcvBufs(s) ==
    IF ~CanSupply(s.d) THEN s
    ELSE LET b == [id |-> Fresh(s.d.chain), bc |-> AllocReceive]
         IN  [d |-> [s.d EXCEPT !.chain = Append(@, b), !.rbytes = @ + b.bc,
                                !.rbufs = @ + 1, !.cmdact = TRUE],
              h |-> RcvCommand(s.h, b, TRUE)]

-----------------------------------------------------------------------------
(* Transmitting.                                                           *)

\* ilsendblock()
IlSendBlock(s, b) ==
    [d |-> [s.d EXCEPT !.cmdact = TRUE],
     h |-> IF b.delim THEN XmitCommand(s.h, <<b.piece>>) ELSE LdXmitCommand(s.h, b.piece)]

\* The channels after lastch that have a packet, in the order they are asked.
Turn(d, c) == (c + NChan - d.lastch - 1) % NChan
Waiting(d) == {c \in Chs : d.ndelims[c] > 0}

\* ilsendpkt()
IlSendPkt(s) ==
    IF s.d.cmdact \/ Waiting(s.d) = {} THEN s
    ELSE LET c == CHOOSE c \in Waiting(s.d) :
                      \A e \in Waiting(s.d) : Turn(s.d, c) <= Turn(s.d, e)
             b == Head(s.d.q[c])
         IN  IF s.d.q[c] = <<>> THEN [s EXCEPT !.d.panic = TRUE]
             ELSE IlSendBlock([s EXCEPT !.d.lastch = c, !.d.q[c] = Tail(@),
                                        !.d.ndelims[c] = @ - 1, !.d.xcur[c] = b], b)

\* Mutant: the next packet waits for somebody to put one.
IlSentOnly(s) ==
    LET c == s.d.lastch
        b == s.d.xcur[c]
        d == [s.d EXCEPT !.xcur[c] = NoBlock]
    IN  IF b # NoBlock /\ ~b.delim /\ d.q[c] # <<>>
        THEN IlSendBlock([s EXCEPT !.d = [d EXCEPT !.q[c] = Tail(@), !.xcur[c] = Head(d.q[c])]],
                         Head(d.q[c]))
        ELSE [s EXCEPT !.d = d]

\* il1int(), after a receive buffer was not needed: the block that was sent
\* is done with; send the next one, of its packet or of another.
IlSent(s) ==
    LET c == s.d.lastch
        b == s.d.xcur[c]
        d == [s.d EXCEPT !.xcur[c] = NoBlock]
    IN  IF b # NoBlock /\ ~b.delim /\ d.q[c] # <<>>
        THEN IlSendBlock([s EXCEPT !.d = [d EXCEPT !.q[c] = Tail(@), !.xcur[c] = Head(d.q[c])]],
                         Head(d.q[c]))
        ELSE IlSendPkt([s EXCEPT !.d = d])

\* il1int(): the command interrupt.
Il1int(s) ==
    LET idle == [s EXCEPT !.d.cmdact = FALSE]
    IN  IF ~s.d.cmdact THEN s
        ELSE IF s.d.stage # "up" THEN idle
        ELSE IF CanSupply(idle.d) THEN IlRcvBufs(idle)
        ELSE IlSent(idle)

-----------------------------------------------------------------------------
(* Receiving.                                                              *)

\* The block the interrupt is about.
Current(d) == IF d.rnext = 0 THEN 1 ELSE d.rnext

\* il0int(), up to the refill.
Il0Take(s) ==
    LET b    == s.d.chain[Current(s.d)]
        rest == IF s.d.rnext = 0 THEN Content(s.h.mem, b).len ELSE s.d.rcur
    IN  IlRcvBufs([s EXCEPT !.d.rbytes = @ - b.bc, !.d.rbufs = @ - 1,
                            !.d.rcur = rest - Min({rest, b.bc})])

\* The whole handler.
Il0int ==
    LET s    == [d |-> v10, h |-> RintAck(hw)]
        t    == Il0Take(s)
        last == Current(v10)
        packet == SubSeq(v10.chain, 1, last)
    IN  IF v10.chain = <<>>
        THEN v10' = v10 /\ hw' = s.h /\ UNCHANGED got
        ELSE IF t.d.rcur > 0
        THEN /\ v10' = IF last = Len(t.d.chain) THEN [t.d EXCEPT !.rnext = 0, !.panic = TRUE]
                       ELSE [t.d EXCEPT !.rnext = last + 1]
             /\ hw' = t.h /\ UNCHANGED got
        ELSE /\ v10' = [t.d EXCEPT !.rnext = 0,
                                   !.chain = SubSeq(@, last + 1, Len(@))]
             /\ hw' = [t.h EXCEPT !.mem = Free(@, packet)]
             /\ PassUp(hw.mem, packet)

-----------------------------------------------------------------------------
(* The actions.                                                            *)

Result10(s) == v10' = s.d /\ hw' = s.h

Rint10 == hw.rint /\ Il0int /\ UNCHANGED <<putting, begun, ended>>
Cint10 ==
    /\ hw.cint /\ ~hw.rint
    /\ Result10(Il1int([d |-> v10, h |-> CintAck(hw)]))
    /\ UNCHANGED <<putting, begun, ended, got>>

\* ilinit(), which sleeps in ilincmd() between its commands.
IlInit ==
    /\ v10.stage # "up" /\ ~v10.cmdact
    /\ LET give(to, h) == Result10([d |-> [v10 EXCEPT !.stage = to, !.cmdact = TRUE], h |-> h])
       IN  \/ v10.stage = "reset"  /\ give("stat", ResetCommand(hw, TRUE))
           \/ v10.stage = "stat"   /\ give("online", OtherCommand(hw, TRUE))
           \/ v10.stage = "online" /\ give("done", OtherCommand(hw, TRUE))
           \/ v10.stage = "done"   /\ Result10(IlRcvBufs([d |-> [v10 EXCEPT !.stage = "up"], h |-> hw]))
    /\ UNCHANGED <<putting, begun, ended, got>>

\* ilput() of a block, which ends a packet when it is a delimiter.
IlPut(c, delim) ==
    LET p == NextPiece(c)
        d == [v10 EXCEPT !.q[c] = Append(@, [piece |-> p, delim |-> delim]),
                         !.ndelims[c] = IF delim THEN @ + 1 ELSE @]
        s == [d |-> d, h |-> hw]
    IN  /\ v10.stage = "up"
        /\ IF delim
           THEN /\ CanPut(c) /\ Ended(c, p)
                /\ begun' = IF putting[c] = NoPiece THEN begun + 1 ELSE begun
                /\ Result10(IlSendPkt(s))
           ELSE PutOn(c) /\ Result10(s) /\ UNCHANGED ended
        /\ UNCHANGED got
=============================================================================
