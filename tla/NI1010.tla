-------------------------------- MODULE NI1010 --------------------------------
(***************************************************************************)
(* The Interlan NI1010 Ethernet controller as SIMH emulates it:            *)
(* libsimh/patches/pdp11_il.c.                                             *)
(*                                                                         *)
(* hw is the board (struct il_ctx).  A register access of the driver is an *)
(* operator from one hw to the next, because every command completes       *)
(* inside the write to the CSR; what the board does by itself, il_svc(),   *)
(* is an action.                                                           *)
(*                                                                         *)
(*   cie, rie    the enables of the last command                           *)
(*   cint, rint  a command, a receive interrupt is requested               *)
(*   rpend       receive completions not yet reported                      *)
(*   rxq         the buffers the driver has supplied, [id, bc]             *)
(*   rx          the frame in flight and how much of it is handed over;    *)
(*               NoFrame is rxbusy = 0                                     *)
(*   mem         guest memory, as far as the board wrote it                *)
(*   tx, air     the packet LDXMIT accumulates; what went out              *)
(*                                                                         *)
(* Abstractions.                                                           *)
(*  - A frame is an identity and a length, the 4-byte prefix and the CRC   *)
(*    included; a transmit buffer is the piece of a packet it holds.       *)
(*  - CSR bits: no driver waits for CDONE longer than the write takes, the *)
(*    status of a receive command is read by nobody, and DMA to memory     *)
(*    that does not exist is not modelled.                                 *)
(*  - The host's network takes every packet; packets fit IL_TXBUF.         *)
(*  - Loopback, filters, addresses and statistics, which neither driver    *)
(*    changes while it runs.                                               *)
(***************************************************************************)
EXTENDS Integers, Sequences, SequencesExt, FiniteSets, FiniteSetsExt

CONSTANTS
    RxQ,         \* IL_RXQ: the buffers the board can hold
    FrameLens,   \* the lengths of frames that arrive
    MaxFrames    \* bound: the frames that arrive

ASSUME BoardAssumption ==
    /\ RxQ \in Nat \ {0}
    /\ FrameLens \subseteq Nat \ {0} /\ MaxFrames \in Nat

VARIABLES
    hw,       \* the board
    arrived   \* history: how many frames have come

board == <<hw, arrived>>

NoFrame == [frame |-> 0, len |-> 0, off |-> 0]

BoardInit ==
    /\ hw = [cie |-> FALSE, rie |-> FALSE, cint |-> FALSE, rint |-> FALSE, rpend |-> 0,
             rxq |-> <<>>, rx |-> NoFrame, mem |-> <<>>, tx |-> <<>>, air |-> <<>>]
    /\ arrived = 0

-----------------------------------------------------------------------------
(* Interrupts.                                                             *)

\* il_setcint()
SetCint(h) == [h EXCEPT !.cint = @ \/ h.cie]

\* il_setrint(): one interrupt for each completion.
SetRint(h) == IF h.rie THEN [h EXCEPT !.rpend = @ + 1, !.rint = TRUE] ELSE h

\* il_cint_ack()
CintAck(h) == [h EXCEPT !.cint = FALSE]

\* Mutant: the completions that are left wait for the next one.
RintAckOnce(h) ==
    [h EXCEPT !.rpend = IF @ > 0 THEN @ - 1 ELSE 0, !.rint = FALSE]

\* il_rint_ack(): the request stays up while completions are unreported.
RintAck(h) ==
    LET left == IF h.rpend > 0 THEN h.rpend - 1 ELSE 0
    IN  [h EXCEPT !.rpend = left, !.rint = left > 0]

-----------------------------------------------------------------------------
(* Receiving.                                                              *)

\* What is left in the board when buffer b has taken its part of the frame:
\* nothing when the frame is over, or when the size of b says that it is
\* not to be chained.
AfterBuffer(rx, b) ==
    LET off == Min({rx.len, rx.off + b.bc})
    IN  IF off = rx.len \/ b.bc % 8 # 0 THEN NoFrame ELSE [rx EXCEPT !.off = off]

\* il_rxpump(): one buffer.
RxPump(h) ==
    IF h.rx = NoFrame \/ h.rxq = <<>> THEN h
    ELSE LET b     == Head(h.rxq)
             piece == [frame |-> h.rx.frame, len |-> h.rx.len, off |-> h.rx.off,
                       n |-> Min({h.rx.len - h.rx.off, b.bc})]
         IN  SetRint([h EXCEPT !.mem = [i \in DOMAIN @ \cup {b.id} |->
                                            IF i = b.id THEN piece ELSE @[i]],
                               !.rx  = AfterBuffer(@, b),
                               !.rxq = Tail(@)])

\* il_deliver(): without a buffer the frame is dropped.
Deliver(h, f) ==
    IF h.rxq = <<>> THEN h
    ELSE RxPump([h EXCEPT !.rx = [frame |-> f.id, len |-> f.len, off |-> 0]])

-----------------------------------------------------------------------------
(* The commands that the drivers give, each with its enables.              *)

Enable(h, cie, rie) == [h EXCEPT !.cie = cie, !.rie = rie]

\* Mutant: a ring that keeps one entry free.
RcvTooSmall(h, b, cie) ==
    LET e == Enable(h, cie, TRUE)
    IN  SetCint(IF Len(h.rxq) >= RxQ - 1 THEN e
                ELSE RxPump([e EXCEPT !.rxq = Append(@, b)]))

\* ILC_RCV: a full queue refuses the buffer.
RcvCommand(h, b, cie) ==
    LET e == Enable(h, cie, TRUE)
    IN  SetCint(IF Len(h.rxq) >= RxQ THEN e
                ELSE RxPump([e EXCEPT !.rxq = Append(@, b)]))

\* ILC_LDXMIT
LdXmitCommand(h, piece) ==
    SetCint([Enable(h, TRUE, TRUE) EXCEPT !.tx = Append(@, piece)])

\* Mutant: txlen is not reset.
XmitKept(h, pieces) ==
    SetCint([Enable(h, TRUE, TRUE) EXCEPT !.air = Append(@, h.tx \o pieces), !.tx = @ \o pieces])

\* ILC_XMIT with a last piece; pieces is empty when the last buffer is.
XmitCommand(h, pieces) ==
    SetCint([Enable(h, TRUE, TRUE) EXCEPT !.air = Append(@, h.tx \o pieces), !.tx = <<>>])

\* ILC_RESET: the request for a receive interrupt and the frame in flight
\* are not touched.
ResetCommand(h, cie) ==
    SetCint([Enable(h, cie, FALSE) EXCEPT !.rxq = <<>>, !.rpend = 0, !.tx = <<>>])

\* ILC_STAT and ILC_ONLINE change nothing that a frame depends on.
OtherCommand(h, cie) == SetCint(Enable(h, cie, FALSE))

-----------------------------------------------------------------------------
(* il_svc(), the board's own clock: go on with a chain, then take a frame  *)
(* unless one is in flight; sim_ether keeps those that come meanwhile, so  *)
(* that a frame may as well come when it is taken.  The loop there takes   *)
(* more in one call; as nothing the driver can see lies between, that is   *)
(* this action several times.                                              *)

\* Mutant: a frame is taken while one is in flight.
SvcOvertaking ==
    LET h == RxPump(hw)
    IN  \/ h # hw /\ hw' = h /\ UNCHANGED arrived
        \/ /\ arrived < MaxFrames
           /\ arrived' = arrived + 1
           /\ \E l \in FrameLens : hw' = Deliver(h, [id |-> arrived', len |-> l])

Svc ==
    LET h == RxPump(hw)
    IN  \/ /\ h # hw
           /\ hw' = h /\ UNCHANGED arrived
        \/ /\ h.rx = NoFrame /\ arrived < MaxFrames
           /\ arrived' = arrived + 1
           /\ \E l \in FrameLens : hw' = Deliver(h, [id |-> arrived', len |-> l])
=============================================================================
