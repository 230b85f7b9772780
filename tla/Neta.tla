---------------------------------- MODULE Neta ----------------------------------
(***************************************************************************)
(* The client of netfs in V8's kernel, send() of v8/usr/sys/sys/neta.c, on *)
(* the byte stream of istread() and istwrite(), with the server at its far *)
(* end: netfs/Sources/NetFS/Server.swift.                                  *)
(*                                                                         *)
(* Processes share one connection: one writes its request and reads the    *)
(* reply while the others sleep on i_key.  A wait of thirty seconds is     *)
(* given up, and what was waited for may come later, when the next process *)
(* reads.                                                                  *)
(*                                                                         *)
(* Abstractions.                                                           *)
(*  - A request is its number, its kind and, to tell them apart, an        *)
(*    identity; kinds: "read", the reply of which may bring data; "write", *)
(*    which, as a read does, goes on with the same x; "other".             *)
(*  - A request is in the stream whole or, when istwrite() gave up in its  *)
(*    middle, torn.  A reply is the halves of its header and its data, in  *)
(*    one part: istread() may give up between any two.                     *)
(*  - A header put together from other parts is garbage: any error, any    *)
(*    number, any count.  The server takes garbage for an unknown command. *)
(*  - A reply does not say what the server did.                            *)
(*                                                                         *)
(* Bounds: MaxSends requests, MaxTran for the numbers of other calls.      *)
(***************************************************************************)
EXTENDS Integers, Sequences

CONSTANTS Procs, MaxSends, MaxTran

ASSUME NetaAssumption == MaxSends \in Nat /\ MaxTran \in Nat

VARIABLES
    trannum, \* the count of system calls and of sends
    key,     \* i_key
    pc,      \* pc[p]: "idle"; "ready" to test the key, "asleep" on it;
             \* "write", "read", "data" in send(); "more" between two sends
    x,       \* x[p]: the request of p, [id, tn, cmd]
    rec,     \* what the istread() of a header under way has read
    y,       \* the header, when data is to follow it
    reqs,    \* to the server: [x, whole]
    net,     \* to the client: [of, part]
    closed,  \* the server has closed the connection
    hung,    \* HUNGUP
    sent,    \* history: the requests that were begun
    late,    \* history: a wait was given up
    wrong    \* history: a process has taken a reply that is not its own

conn  == <<reqs, net, closed, hung>>
lock  == <<trannum, key, sent>>
vars  == <<trannum, key, pc, x, rec, y, reqs, net, closed, hung, sent, late, wrong>>

Cmds    == {"read", "write", "other"}
Holding == {"write", "read", "data"}
Request == [id : Nat, tn : Int, cmd : Cmds]
Reply   == [id : Nat, tn : Int, err : BOOLEAN, n : {0, 1}]
Parts   == {"h1", "h2", "data"}

Message == [x : Request, whole : BOOLEAN]
Segment == [of : Reply, part : Parts]
Places  == {"idle", "ready", "asleep", "more"} \cup Holding

NoRequest == [id |-> 0, tn |-> 0, cmd |-> "other"]
NoReply   == [id |-> 0, tn |-> 0, err |-> TRUE, n |-> 0]

TypeOK ==
    /\ trannum \in Nat /\ sent \in Nat
    /\ key \in BOOLEAN /\ closed \in BOOLEAN /\ hung \in BOOLEAN
    /\ late \in BOOLEAN /\ wrong \in BOOLEAN
    /\ pc \in [Procs -> Places]
    /\ x \in [Procs -> Request] /\ y \in Reply
    /\ reqs \in Seq(Message) /\ net \in Seq(Segment)
    /\ rec \in Seq(Segment) /\ Len(rec) <= 1

Init ==
    /\ trannum = 0 /\ sent = 0 /\ key = FALSE
    /\ pc = [p \in Procs |-> "idle"] /\ x = [p \in Procs |-> NoRequest]
    /\ rec = <<>> /\ y = NoReply
    /\ reqs = <<>> /\ net = <<>> /\ closed = FALSE /\ hung = FALSE
    /\ late = FALSE /\ wrong = FALSE

-----------------------------------------------------------------------------
(* A process before and after send().                                      *)

\* Some process enters the kernel.
Syscall ==
    /\ trannum < MaxTran /\ trannum' = trannum + 1
    /\ UNCHANGED <<key, pc, x, rec, y, conn, sent, late, wrong>>

\* x.trannum = trannum, and the call of send().
Call(p, cmd) ==
    /\ pc[p] \in {"idle", "more"} /\ sent < MaxSends
    /\ x' = [x EXCEPT ![p] = [id |-> sent + 1, tn |-> trannum, cmd |-> cmd]]
    /\ sent' = sent + 1 /\ pc' = [pc EXCEPT ![p] = "ready"]
    /\ UNCHANGED <<trannum, key, rec, y, conn, late, wrong>>

\* The loops of naread() and nawrite() send the same x again.
Again(p) ==
    /\ pc[p] = "more" /\ sent < MaxSends
    /\ x' = [x EXCEPT ![p].id = sent + 1]
    /\ sent' = sent + 1 /\ pc' = [pc EXCEPT ![p] = "ready"]
    /\ UNCHANGED <<trannum, key, rec, y, conn, late, wrong>>

-----------------------------------------------------------------------------
(* send().                                                                 *)

\* Mutant: who is woken takes the key without another look at it.
TryLockOnce(p) ==
    /\ pc[p] = "ready"
    /\ pc' = [pc EXCEPT ![p] = "write"] /\ key' = TRUE /\ trannum' = trannum + 1
    /\ UNCHANGED <<x, rec, y, conn, sent, late, wrong>>

\* while(cip->i_un.i_key) sleep
TryLock(p) ==
    /\ pc[p] = "ready"
    /\ IF key THEN pc' = [pc EXCEPT ![p] = "asleep"] /\ UNCHANGED <<trannum, key>>
       ELSE pc' = [pc EXCEPT ![p] = "write"] /\ key' = TRUE /\ trannum' = trannum + 1
    /\ UNCHANGED <<x, rec, y, conn, sent, late, wrong>>

\* The key is given up, everybody who sleeps on it woken, and p, whose
\* locals are gone, is at its next place.
Leave(p, next) ==
    /\ key' = FALSE
    /\ pc' = [q \in Procs |-> IF q = p THEN next
                              ELSE IF pc[q] = "asleep" THEN "ready" ELSE pc[q]]
    /\ x' = [x EXCEPT ![p] = IF next = "more" THEN @ ELSE NoRequest]
    /\ rec' = <<>> /\ y' = NoReply
    /\ UNCHANGED <<trannum, sent>>

\* Mutant: the way out by `bad' wakes nobody.
BadUnwoken(p) ==
    /\ key' = FALSE
    /\ pc' = [pc EXCEPT ![p] = "idle"] /\ x' = [x EXCEPT ![p] = NoRequest]
    /\ rec' = <<>> /\ y' = NoReply
    /\ UNCHANGED <<trannum, sent>>

\* bad: y->errno is not zero when send() returns, and no caller goes on.
Bad(p) == Leave(p, "idle")

\* istwrite(), of the header and of what follows it.
Write(p) ==
    /\ pc[p] = "write"
    /\ \/ /\ ~hung
          /\ reqs' = Append(reqs, [x |-> x[p], whole |-> TRUE])
          /\ pc' = [pc EXCEPT ![p] = "read"]
          /\ UNCHANGED <<lock, x, rec, y, late>>
       \/ /\ ~hung /\ late' = TRUE
          /\ \/ reqs' = Append(reqs, [x |-> x[p], whole |-> FALSE])
             \/ UNCHANGED reqs
          /\ Bad(p)
       \/ hung /\ Bad(p) /\ UNCHANGED <<reqs, late>>
    /\ UNCHANGED <<net, closed, hung, wrong>>

\* if(y->trannum != tn)
Compare(p, r) ==
    \/ /\ r.tn = x[p].tn
       /\ Leave(p, IF x[p].cmd = "other" THEN "idle" ELSE "more")
       /\ wrong' = (wrong \/ r.id # x[p].id)
    \/ /\ r.tn < x[p].tn
       /\ pc' = [pc EXCEPT ![p] = "read"] /\ rec' = <<>> /\ y' = NoReply
       /\ UNCHANGED <<lock, x, wrong>>
    \/ /\ r.tn > x[p].tn
       /\ Bad(p) /\ UNCHANGED wrong

\* Mutant: the data behind a header is not waited for.
HeaderOnly(p, r) ==
    IF r.err THEN Bad(p) /\ UNCHANGED wrong ELSE Compare(p, r)

\* A header r is complete.
Header(p, r) ==
    IF r.err THEN Bad(p) /\ UNCHANGED wrong
    ELSE IF x[p].cmd = "read" /\ r.n > 0
    THEN pc' = [pc EXCEPT ![p] = "data"] /\ y' = r /\ rec' = <<>> /\ UNCHANGED <<lock, x, wrong>>
    ELSE Compare(p, r)

\* What two parts are when they are read as a header.
Garbage(p) == [id : {0}, tn : {x[p].tn + d : d \in {-1, 0, 1}}, err : BOOLEAN, n : {0, 1}]

Headers(p, a, b) ==
    IF a.part = "h1" /\ b.part = "h2" /\ a.of = b.of THEN {a.of} ELSE Garbage(p)

\* istread() of the header.
Read(p) ==
    /\ pc[p] = "read" /\ net # <<>> /\ net' = Tail(net)
    /\ IF rec = <<>>
       THEN rec' = <<Head(net)>> /\ UNCHANGED <<pc, x, y, lock, wrong>>
       ELSE \E r \in Headers(p, rec[1], Head(net)) : Header(p, r)
    /\ UNCHANGED <<reqs, closed, hung, late>>

\* istread() of the data.
Data(p) ==
    /\ pc[p] = "data" /\ net # <<>> /\ net' = Tail(net)
    /\ Compare(p, y)
    /\ UNCHANGED <<reqs, closed, hung, late>>

\* Mutant: as before the timeout, only a hang-up ends a wait.
GiveUpUntimed(p) ==
    /\ pc[p] \in {"read", "data"}
    /\ hung /\ net = <<>> /\ UNCHANGED late
    /\ Bad(p)
    /\ UNCHANGED <<conn, wrong>>

\* istread() without all it wants: TS_TIME, or HUNGUP and the queue empty.
GiveUp(p) ==
    /\ pc[p] \in {"read", "data"}
    /\ \/ ~hung /\ late' = TRUE
       \/ hung /\ net = <<>> /\ UNCHANGED late
    /\ Bad(p)
    /\ UNCHANGED <<conn, wrong>>

-----------------------------------------------------------------------------
(* The server and the connection.                                          *)

\* The parts of a reply.
Part(r, part) == [of |-> r, part |-> part]
Sent(r) == IF r.n = 1 THEN <<Part(r, "h1"), Part(r, "h2"), Part(r, "data")>>
           ELSE <<Part(r, "h1"), Part(r, "h2")>>

\* The replies to request q: an error, or its data, which may be none.
Replies(q) ==
    {r \in [id : {q.id}, tn : {q.tn}, err : BOOLEAN, n : {0, 1}] :
        r.n = 1 => ~r.err /\ q.cmd = "read"}

\* serve(): what the request asks for, and its reply.
Serve ==
    /\ ~hung /\ ~closed /\ reqs # <<>> /\ Head(reqs).whole
    /\ reqs' = Tail(reqs)
    /\ \E r \in Replies(Head(reqs).x) : net' = net \o Sent(r)
    /\ UNCHANGED <<trannum, key, pc, x, rec, y, closed, hung, sent, late, wrong>>

\* readExactly() fills a torn header, or the data behind a whole one, up
\* with the next request; the header after it is no command.
Desynchronised ==
    /\ ~hung /\ ~closed /\ Len(reqs) > 1 /\ ~Head(reqs).whole
    /\ closed' = TRUE
    /\ \/ UNCHANGED net
       \/ /\ Head(reqs).x.cmd # "read"
          /\ \E r \in Replies(Head(reqs).x) : net' = net \o Sent(r)
    /\ UNCHANGED <<trannum, key, pc, x, rec, y, reqs, hung, sent, late, wrong>>

\* M_HANGUP: what has arrived can still be read.
HangUp ==
    /\ ~hung /\ hung' = TRUE /\ reqs' = <<>>
    /\ \E k \in 0 .. Len(net) : net' = SubSeq(net, 1, k)
    /\ UNCHANGED <<trannum, key, pc, x, rec, y, closed, sent, late, wrong>>

-----------------------------------------------------------------------------
Send(p) == TryLock(p) \/ Write(p) \/ Read(p) \/ Data(p) \/ GiveUp(p)

Next ==
    \/ Syscall \/ Serve \/ Desynchronised \/ HangUp
    \/ \E p \in Procs : Send(p) \/ Again(p) \/ \E cmd \in Cmds : Call(p, cmd)

\* A process that can run does, and a wait is thirty seconds at most.
Fairness == \A p \in Procs : WF_vars(Send(p))

Spec == Init /\ [][Next]_vars /\ Fairness

-----------------------------------------------------------------------------
(* Properties.                                                             *)

\* The connection has one user at a time, the one for whom the key is set,
\* and nobody sleeps on a key that is not: a wakeup is never missed.
Serialised ==
    /\ \A p, q \in Procs : pc[p] \in Holding /\ pc[q] \in Holding => p = q
    /\ \A p \in Procs : pc[p] \in Holding \cup {"asleep"} => key

\* As long as no wait has been given up, `one transaction is outstanding at
\* a time': between two of them the stream is empty both ways, whatever the
\* kinds and the answers, and nobody has taken another's reply.
OwnInTime ==
    ~late => /\ ~wrong
             /\ ~key => reqs = <<>> /\ net = <<>>

\* The key is given up again, whatever comes, late or not at all.
KeyGivenUp == key ~> ~key

\* `Discard it and read again ... This is how the client resynchronises
\* after a timeout or a dropped request': nobody ever takes another's reply.
Resynchronised == ~wrong
=============================================================================
