------------------------------- MODULE Streams --------------------------------
(***************************************************************************)
(* What the two Ethernet drivers take from the stream code of their        *)
(* kernels: blocks to receive into, and a queue above that takes packets.  *)
(*                                                                         *)
(* A block is [id, bc]: its identity while the driver has it, and its size *)
(* in bytes.  A kernel that is short of large blocks hands out small ones  *)
(* instead, which is when frames take many buffers.                        *)
(*                                                                         *)
(* Above each channel is a protocol that puts packets, one block after the *)
(* other.  piece k of packet p is [pkt |-> p, k |-> k].                    *)
(***************************************************************************)
EXTENDS Integers, Sequences, SequencesExt, FiniteSets, FiniteSetsExt

CONSTANTS
    SmallBlock, \* QBSIZE, rbsize[2]: what is handed out for want of a larger block
    LargeBlock, \* rbsize[3], ILRSIZE
    Mtu,        \* ETHERMTU, what V8 asks a receive buffer for
    NChan,      \* NILCHAN: the channels of the board
    MaxPackets, \* bound: the packets that are put
    MaxPieces,  \* bound: the blocks of one packet
    MaxTurns    \* bound: how often the large blocks run out or come back

ASSUME StreamsAssumption ==
    /\ SmallBlock \in Nat /\ LargeBlock \in Nat /\ Mtu \in Nat
    /\ SmallBlock > 16 /\ LargeBlock >= SmallBlock /\ Mtu > SmallBlock
    /\ SmallBlock % 8 = 0 /\ LargeBlock % 8 = 0
    /\ NChan \in Nat \ {0} /\ MaxPackets \in Nat /\ MaxPieces \in Nat \ {0}
    /\ MaxTurns \in Nat

VARIABLES
    scarce,  \* the large blocks have run out
    turns,   \* history: how often that changed
    putting, \* putting[c]: the piece put last of a packet not yet ended
    begun,   \* history: how many packets were begun
    ended,   \* history: the packets that were put to their end
    got      \* history: the packets passed up, dropped packets included

streams == <<scarce, turns, putting, begun, ended, got>>

Chs     == 0 .. NChan - 1
NoPiece == [pkt |-> 0, k |-> 0]

\* allocb(n): V8's classes and their fallback.
AllocSize(n) ==
    IF n <= 4 THEN 4 ELSE IF n <= 16 THEN 16
    ELSE IF n <= SmallBlock \/ scarce THEN SmallBlock ELSE LargeBlock

\* allocb(ILRSIZE) of V10, with MKCHAIN applied: it splits a larger block
\* before it falls back to QBSIZE.
AllocReceive == IF scarce THEN SmallBlock ELSE LargeBlock

\* A block that is not in chain.
Fresh(chain) ==
    CHOOSE i \in 1 .. Len(chain) + 1 : \A k \in DOMAIN chain : chain[k].id # i

\* What is read from a block nothing was received into.
Nothing == [frame |-> 0, len |-> 0, off |-> 0, n |-> 0]

Content(mem, b) == IF b.id \in DOMAIN mem THEN mem[b.id] ELSE Nothing
Free(mem, blocks) ==
    LET ids == {blocks[k].id : k \in DOMAIN blocks}
    IN  [i \in DOMAIN mem \ ids |-> mem[i]]

\* The frame that the blocks hold when each goes on where the one before
\* ended, from the first byte to the last; 0 when they do not.
Assembled(mem, blocks) ==
    LET p(k) == Content(mem, blocks[k])
    IN  IF /\ p(1).off = 0
           /\ \A k \in 2 .. Len(blocks) :
                  p(k).frame = p(1).frame /\ p(k).off = p(k-1).off + p(k-1).n
           /\ p(Len(blocks)).off + p(Len(blocks)).n = p(1).len
        THEN p(1).frame ELSE 0

\* (*nq->qinfo->putp)(nq, bp) for every block.  Where the queue is QFULL or
\* nobody has asked for the type, the packet is dropped instead, which the
\* driver and the board cannot tell apart.
PassUp(mem, blocks) == got' = Append(got, Assembled(mem, blocks))

StreamsInit ==
    /\ scarce \in BOOLEAN /\ turns = 0 /\ got = <<>>
    /\ putting = [c \in Chs |-> NoPiece] /\ begun = 0 /\ ended = {}

\* The rest of the kernel takes or returns the large blocks.
Blocks ==
    /\ turns < MaxTurns /\ turns' = turns + 1
    /\ scarce' = ~scarce
    /\ UNCHANGED <<putting, begun, ended, got>>

\* The protocol on channel c goes on with its packet, or begins one.
NextPiece(c) ==
    IF putting[c] = NoPiece THEN [pkt |-> begun + 1, k |-> 1] ELSE [putting[c] EXCEPT !.k = @ + 1]

CanPut(c) == IF putting[c] = NoPiece THEN begun < MaxPackets ELSE putting[c].k < MaxPieces

PutOn(c) ==
    /\ CanPut(c)
    /\ putting' = [putting EXCEPT ![c] = NextPiece(c)]
    /\ begun' = IF putting[c] = NoPiece THEN begun + 1 ELSE begun

\* The packet of channel c ends after piece p.
Ended(c, p) ==
    /\ ended' = ended \cup {[ch |-> c, pieces |-> [k \in 1 .. p.k |-> [pkt |-> p.pkt, k |-> k]]]}
    /\ putting' = [putting EXCEPT ![c] = NoPiece]
=============================================================================
