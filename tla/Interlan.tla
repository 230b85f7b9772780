------------------------------- MODULE Interlan -------------------------------
(***************************************************************************)
(* The emulated NI1010 with the driver of the guest that runs on it, V8's  *)
(* or V10's: one board, two contracts (pdp11_il.c, lines 11-49).           *)
(*                                                                         *)
(* The guest takes an interrupt when its priority lets it, which may be    *)
(* long after the request; until then the board goes on by itself.         *)
(***************************************************************************)
EXTENDS Ill, Ni1010a

VARIABLE guest  \* which system was booted

vars == <<hw, arrived, scarce, turns, putting, begun, ended, got, v8, v10, guest>>

Init ==
    /\ BoardInit /\ StreamsInit /\ IllInit /\ Ni1010aInit
    /\ guest \in {"v8", "v10"}

V8 ==
    /\ guest = "v8" /\ ~v8.panic
    /\ \/ Rint8 \/ Cint8
       \/ \E c \in Chs : IlOpen(c) \/ IlPutData(c) \/ IlPutDelim(c)
    /\ UNCHANGED <<arrived, scarce, turns, v10, guest>>

V10 ==
    /\ guest = "v10" /\ ~v10.panic
    /\ \/ Rint10 \/ Cint10 \/ IlInit
       \/ \E c \in Chs, delim \in BOOLEAN : IlPut(c, delim)
    /\ UNCHANGED <<arrived, scarce, turns, v8, guest>>

Board ==
    /\ Svc
    /\ UNCHANGED <<streams, v8, v10, guest>>

Kernel == Blocks /\ UNCHANGED <<board, v8, v10, guest>>

Next == V8 \/ V10 \/ Board \/ Kernel

Panicked == v8.panic \/ v10.panic

-----------------------------------------------------------------------------
(* SIMH calls il_svc() for ever, and a guest that is not stuck at a high   *)
(* priority takes its interrupts.  Nobody has to send or to put a packet.  *)

Interrupts ==
    \/ guest = "v8" /\ ~v8.panic /\ (Rint8 \/ Cint8) /\ UNCHANGED <<arrived, scarce, turns, v10, guest>>
    \/ guest = "v10" /\ ~v10.panic /\ (Rint10 \/ Cint10) /\ UNCHANGED <<arrived, scarce, turns, v8, guest>>

\* When these can be taken.
SvcDue       == hw.rx # NoFrame /\ hw.rxq # <<>>
InterruptDue == ~Panicked /\ (hw.rint \/ hw.cint)

\* Weak fairness of both; TLC takes too long over their ENABLED, so it is
\* written out.
Fairness ==
    /\ []<>~SvcDue \/ []<><<Svc /\ UNCHANGED <<streams, v8, v10, guest>>>>_vars
    /\ []<>~InterruptDue \/ []<><<Interrupts>>_vars

Spec == Init /\ [][Next]_vars /\ Fairness

-----------------------------------------------------------------------------
(* Properties.                                                             *)

\* The driver's blocks the board may still have to fill or to report.
Out == IF guest = "v8" THEN Supplied(v8)
       ELSE SubSeq(v10.chain, Current(v10), Len(v10.chain))

\* Board and driver agree on the buffers: of the blocks the driver waits
\* for, the first ones are filled and each of them has its interrupt to
\* come, and the others are the board's queue, in the driver's order.
RingAgrees ==
    Panicked \/ /\ hw.rpend <= Len(Out)
                /\ hw.rxq = SubSeq(Out, hw.rpend + 1, Len(Out))

\* What goes up is whole frames: every packet passed up, or dropped for want
\* of room above, is one frame from its first byte to its last, and frames
\* come in the order of their arrival and once.
WholeFrames ==
    /\ \A i \in DOMAIN got : got[i] # 0
    /\ \A i \in 1 .. Len(got) - 1 : got[i] < got[i + 1]

\* What goes out is whole packets: LDXMIT pieces of two packets are not
\* mixed, even with receive commands given between them; no packet goes out
\* twice, and those of one channel keep their order.
WholePackets ==
    /\ \A i \in DOMAIN hw.air : \E e \in ended : hw.air[i] = e.pieces
    /\ \A i, j \in DOMAIN hw.air : \A e, f \in ended :
           i < j /\ hw.air[i] = e.pieces /\ hw.air[j] = f.pieces
               => e # f /\ (e.ch = f.ch => e.pieces[1].pkt < f.pieces[1].pkt)

\* V8's driver never meets an interrupt without a buffer (`ilrint no
\* is->nbp'), nor supplies one while it transmits (`ilsetup active').  V10's,
\* whose panic("il0int") when a chain has no next buffer it calls too
\* draconian itself, does so only while a command has yet to be answered: it
\* never lets the board run out of buffers of its own accord.
PanicsExplained == ~v8.panic /\ (v10.panic => v10.cmdact)

\* Every frame the board has begun to hand over is taken by the driver,
\* without any further traffic to help it along.
FramesReported ==
    <>[](\/ Panicked
         \/ \A f \in 1 .. MaxFrames :
                (hw.rx.frame = f \/ \E i \in DOMAIN hw.mem : hw.mem[i].frame = f)
                    => \E i \in DOMAIN got : got[i] = f)

\* The receive path does not close: once the driver is up, the board has a
\* buffer again and again.
BuffersReturn ==
    (v8.open # {} \/ v10.stage = "up") ~> (Panicked \/ hw.rxq # <<>>)

\* A packet that was put goes out.
PacketsSent ==
    <>[](Panicked \/ \A e \in ended : \E i \in DOMAIN hw.air : hw.air[i] = e.pieces)
=============================================================================
