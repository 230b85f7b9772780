------------------------------- MODULE NetaProofs -------------------------------
(***************************************************************************)
(* Theorems about Neta, for any set of processes and any bounds: the key   *)
(* serialises the connection, no wakeup is missed, and as long as no wait  *)
(* was given up every reply that is taken is the process's own.            *)
(***************************************************************************)
EXTENDS Neta, TLAPS, SequenceTheorems

(* The inductive invariant.  Serialised and TypeOK are inductive together; *)
(* OwnInTime needs to know what is in the stream while a process is in     *)
(* send(): its request, or what is left of the reply to it.                *)

\* p waits for a header.
InFlight(p) ==
    \/ /\ reqs = <<[x |-> x[p], whole |-> TRUE]>>
       /\ net = <<>> /\ rec = <<>>
    \/ /\ reqs = <<>> /\ rec = <<>>
       /\ \E r \in Replies(x[p]) :
              \/ net = <<>>
              \/ net = <<Part(r, "h1")>>
              \/ net = <<Part(r, "h1"), Part(r, "h2")>>
              \/ r.n = 1 /\ net = <<Part(r, "h1"), Part(r, "h2"), Part(r, "data")>>
    \/ /\ reqs = <<>>
       /\ \E r \in Replies(x[p]) :
              /\ rec = <<Part(r, "h1")>>
              /\ \/ net = <<>>
                 \/ net = <<Part(r, "h2")>>
                 \/ r.n = 1 /\ net = <<Part(r, "h2"), Part(r, "data")>>

\* p waits for data.
InData(p) ==
    /\ reqs = <<>> /\ rec = <<>> /\ y \in Replies(x[p]) /\ y.n = 1
    /\ net = <<>> \/ net = <<Part(y, "data")>>

Empty == reqs = <<>> /\ net = <<>> /\ rec = <<>>

Alone ==
    /\ ~wrong
    /\ ~key => Empty
    /\ \A p \in Procs :
        /\ pc[p] = "write" => Empty
        /\ pc[p] = "read" => InFlight(p)
        /\ pc[p] = "data" => InData(p)

IInv == TypeOK /\ Serialised /\ (hung => reqs = <<>>) /\ (~late => Alone)

-----------------------------------------------------------------------------
(* Type correctness.                                                       *)

LEMMA ReplyTyped ==
    ASSUME NEW q \in Request, NEW r \in Replies(q)
    PROVE  r \in Reply /\ r.id = q.id /\ r.tn = q.tn /\ (r.n = 1 => ~r.err /\ q.cmd = "read")
  BY DEF Request, Replies, Reply

LEMMA SentTyped ==
    ASSUME NEW r \in Reply
    PROVE  Sent(r) \in Seq(Segment)
  <1>1. \A part \in Parts : Part(r, part) \in Segment
    BY DEF Part, Segment
  <1>2. Part(r, "h1") \in Segment /\ Part(r, "h2") \in Segment /\ Part(r, "data") \in Segment
    BY <1>1 DEF Parts
  <1> QED BY <1>2 DEF Sent

\* What Leave() leaves.
LEMMA LeaveTyped ==
    ASSUME TypeOK, NEW p \in Procs, NEW next \in {"idle", "more"}, Leave(p, next)
    PROVE  /\ trannum' \in Nat /\ sent' \in Nat /\ key' \in BOOLEAN
           /\ pc' \in [Procs -> Places]
           /\ x' \in [Procs -> Request] /\ y' \in Reply
           /\ rec' \in Seq(Segment) /\ Len(rec') <= 1
  <1>1. pc' \in [Procs -> Places]
    BY DEF TypeOK, Leave, Places
  <1>2. NoRequest \in Request /\ NoReply \in Reply
    BY DEF NoRequest, NoReply, Request, Reply, Cmds
  <1>3. x' \in [Procs -> Request]
    BY <1>2 DEF TypeOK, Leave
  <1>4. rec' \in Seq(Segment) /\ Len(rec') <= 1
    BY DEF Leave
  <1>5. trannum' \in Nat /\ sent' \in Nat /\ key' \in BOOLEAN
    BY DEF TypeOK, Leave
  <1>6. y' \in Reply
    BY <1>2 DEF Leave
  <1> QED BY <1>1, <1>3, <1>4, <1>5, <1>6

LEMMA CompareTyped ==
    ASSUME TypeOK, NEW p \in Procs, NEW r \in Reply, Compare(p, r)
    PROVE  /\ trannum' \in Nat /\ sent' \in Nat /\ key' \in BOOLEAN
           /\ pc' \in [Procs -> Places]
           /\ x' \in [Procs -> Request] /\ y' \in Reply /\ wrong' \in BOOLEAN
           /\ rec' \in Seq(Segment) /\ Len(rec') <= 1
  <1>1. CASE Leave(p, "idle") /\ (wrong' = (wrong \/ r.id # x[p].id) \/ UNCHANGED wrong)
    BY <1>1, LeaveTyped DEF TypeOK
  <1>2. CASE Leave(p, "more") /\ wrong' = (wrong \/ r.id # x[p].id)
    BY <1>2, LeaveTyped DEF TypeOK
  <1>3. CASE /\ pc' = [pc EXCEPT ![p] = "read"] /\ rec' = <<>> /\ y' = NoReply
             /\ UNCHANGED <<lock, x, wrong>>
    <2>1. pc' \in [Procs -> Places]
      BY <1>3 DEF TypeOK, Places, Holding
    <2>2. y' \in Reply
      BY <1>3 DEF NoReply, Reply
    <2> QED BY <1>3, <2>1, <2>2 DEF TypeOK, lock
  <1> QED BY <1>1, <1>2, <1>3 DEF Compare, Bad

\* The first of a queue, and the rest.
LEMMA HeadTyped ==
    ASSUME NEW S, NEW s \in Seq(S), s # <<>>
    PROVE  Head(s) \in S /\ Tail(s) \in Seq(S)
  OBVIOUS

LEMMA TypeStep == TypeOK /\ [Next]_vars => TypeOK'
  <1> SUFFICES ASSUME TypeOK, [Next]_vars PROVE TypeOK'
    OBVIOUS
  <1>1. CASE Syscall
    BY <1>1 DEF TypeOK, Syscall, conn
  <1>2. ASSUME NEW p \in Procs, NEW cmd \in Cmds, Call(p, cmd) PROVE TypeOK'
    <2>1. [id |-> sent + 1, tn |-> trannum, cmd |-> cmd] \in Request
      BY DEF TypeOK, Request
    <2>2. x' \in [Procs -> Request] /\ sent' \in Nat
      BY <1>2, <2>1 DEF Call, TypeOK
    <2>3. pc' \in [Procs -> Places]
      BY <1>2 DEF Call, TypeOK, Places
    <2> QED BY <1>2, <2>2, <2>3 DEF TypeOK, Call, conn
  <1>3. ASSUME NEW p \in Procs, Again(p) PROVE TypeOK'
    <2>1. [x[p] EXCEPT !.id = sent + 1] \in Request
      <3>1. x[p] \in Request /\ sent + 1 \in Nat
        BY DEF TypeOK
      <3> QED BY <3>1 DEF Request
    <2>2. x' \in [Procs -> Request] /\ sent' \in Nat
      BY <1>3, <2>1 DEF Again, TypeOK
    <2>3. pc' \in [Procs -> Places]
      BY <1>3 DEF Again, TypeOK, Places
    <2> QED BY <1>3, <2>2, <2>3 DEF TypeOK, Again, conn
  <1>4. ASSUME NEW p \in Procs, TryLock(p) PROVE TypeOK'
    <2>1. pc' \in [Procs -> Places]
      BY <1>4 DEF TryLock, TypeOK, Places, Holding
    <2>2. trannum' \in Nat /\ key' \in BOOLEAN
      <3>1. CASE key
        BY <1>4, <3>1 DEF TryLock, TypeOK
      <3>2. CASE ~key
        BY <1>4, <3>2 DEF TryLock, TypeOK
      <3> QED BY <3>1, <3>2
    <2> QED BY <1>4, <2>1, <2>2 DEF TypeOK, TryLock, conn
  <1>5. ASSUME NEW p \in Procs, Write(p) PROVE TypeOK'
    <2> DEFINE new(w) == Append(reqs, [x |-> x[p], whole |-> w])
    <2>1. \A w \in BOOLEAN : new(w) \in Seq(Message)
      <3>1. \A w \in BOOLEAN : [x |-> x[p], whole |-> w] \in Message
        BY DEF TypeOK, Message
      <3> QED BY <3>1 DEF TypeOK
    <2>2. CASE /\ reqs' = new(TRUE) /\ pc' = [pc EXCEPT ![p] = "read"]
               /\ UNCHANGED <<lock, x, rec, y, late>> /\ UNCHANGED <<net, closed, hung, wrong>>
      <3>1. pc' \in [Procs -> Places]
        BY <2>2 DEF TypeOK, Places, Holding
      <3> QED BY <2>1, <2>2, <3>1 DEF TypeOK, lock
    <2>3. CASE /\ Bad(p) /\ (late' = TRUE \/ UNCHANGED late)
               /\ reqs' = new(FALSE) \/ UNCHANGED reqs
               /\ UNCHANGED <<net, closed, hung, wrong>>
      BY <2>1, <2>3, LeaveTyped DEF TypeOK, Bad
    <2> QED BY <1>5, <2>2, <2>3 DEF Write
  <1>6. ASSUME NEW p \in Procs, Read(p) PROVE TypeOK'
    <2>1. /\ net' \in Seq(Segment) /\ Head(net) \in Segment
          /\ UNCHANGED <<reqs, closed, hung, late>>
      BY <1>6, HeadTyped DEF Read, TypeOK
    <2>2. CASE rec = <<>>
      <3>1. rec' = <<Head(net)>> /\ UNCHANGED <<pc, x, y, lock, wrong>>
        BY <1>6, <2>2 DEF Read
      <3>2. rec' \in Seq(Segment) /\ Len(rec') <= 1
        BY <2>1, <3>1
      <3> QED BY <2>1, <3>1, <3>2 DEF TypeOK, lock
    <2>3. CASE rec # <<>>
      <3>1. PICK r \in Headers(p, rec[1], Head(net)) : Header(p, r)
        BY <1>6, <2>3 DEF Read
      <3>2. r \in Reply
        <4>1. rec[1] \in Segment
          BY <2>3 DEF TypeOK
        <4>2. x[p].tn \in Int
          BY DEF TypeOK, Request
        <4>3. Garbage(p) \subseteq Reply
          BY <4>2 DEF Garbage, Reply
        <4>4. rec[1].of \in Reply
          BY <4>1 DEF Segment
        <4> QED BY <3>1, <4>3, <4>4 DEF Headers
      <3>3. CASE Bad(p) /\ UNCHANGED wrong
        BY <2>1, <3>3, LeaveTyped DEF TypeOK, Bad
      <3>4. CASE pc' = [pc EXCEPT ![p] = "data"] /\ y' = r /\ rec' = <<>> /\ UNCHANGED <<lock, x, wrong>>
        <4>1. pc' \in [Procs -> Places]
          BY <3>4 DEF TypeOK, Places, Holding
        <4> QED BY <2>1, <3>2, <3>4, <4>1 DEF TypeOK, lock
      <3>5. CASE Compare(p, r)
        BY <2>1, <3>2, <3>5, CompareTyped DEF TypeOK
      <3> QED BY <3>1, <3>3, <3>4, <3>5 DEF Header
    <2> QED BY <2>2, <2>3
  <1>7. ASSUME NEW p \in Procs, Data(p) PROVE TypeOK'
    <2>1. net' \in Seq(Segment)
      BY <1>7, HeadTyped DEF Data, TypeOK
    <2> QED BY <1>7, <2>1, CompareTyped DEF Data, TypeOK
  <1>8. ASSUME NEW p \in Procs, GiveUp(p) PROVE TypeOK'
    BY <1>8, LeaveTyped DEF GiveUp, Bad, TypeOK, conn
  <1>9. CASE Serve
    <2>1. PICK r \in Replies(Head(reqs).x) : net' = net \o Sent(r)
      BY <1>9 DEF Serve
    <2>2. Head(reqs).x \in Request /\ reqs' \in Seq(Message)
      BY <1>9, HeadTyped DEF Serve, TypeOK, Message
    <2>3. net' \in Seq(Segment)
      <3>1. Sent(r) \in Seq(Segment)
        BY <2>1, <2>2, ReplyTyped, SentTyped
      <3> QED BY <2>1, <3>1 DEF TypeOK
    <2> QED BY <1>9, <2>2, <2>3 DEF Serve, TypeOK
  <1>10. CASE Desynchronised
    <2>1. Head(reqs).x \in Request
      <3>1. reqs # <<>>
        BY <1>10 DEF Desynchronised, TypeOK
      <3> QED BY <3>1, HeadTyped DEF TypeOK, Message
    <2>2. net' \in Seq(Segment)
      <3>1. CASE UNCHANGED net
        BY <3>1 DEF TypeOK
      <3>2. ASSUME NEW r \in Replies(Head(reqs).x), net' = net \o Sent(r)
            PROVE  net' \in Seq(Segment)
        <4>1. Sent(r) \in Seq(Segment)
          BY <2>1, ReplyTyped, SentTyped
        <4> QED BY <3>2, <4>1 DEF TypeOK
      <3> QED BY <1>10, <3>1, <3>2 DEF Desynchronised
    <2> QED BY <1>10, <2>2 DEF Desynchronised, TypeOK
  <1>11. CASE HangUp
    <2>1. PICK k \in 0 .. Len(net) : net' = SubSeq(net, 1, k)
      BY <1>11 DEF HangUp
    <2>2. net' \in Seq(Segment)
      BY <2>1 DEF TypeOK
    <2> QED BY <1>11, <2>2 DEF HangUp, TypeOK
  <1>12. CASE UNCHANGED vars
    BY <1>12 DEF TypeOK, vars
  <1> QED BY <1>1, <1>2, <1>3, <1>4, <1>5, <1>6, <1>7, <1>8, <1>9, <1>10, <1>11, <1>12
          DEF Next, Send

-----------------------------------------------------------------------------
(* The key.                                                                *)

\* A process in send() that goes on keeps the others out.
LEMMA StaySerial ==
    ASSUME TypeOK, Serialised, NEW p \in Procs, pc[p] \in Holding,
           NEW h \in Holding, pc' = [pc EXCEPT ![p] = h], key' = key
    PROVE  Serialised'
  BY DEF TypeOK, Serialised

\* One that leaves it leaves nobody in it, and nobody asleep.
LEMMA LeaveSerial ==
    ASSUME TypeOK, Serialised, NEW p \in Procs, pc[p] \in Holding,
           NEW next \in {"idle", "more"}, Leave(p, next)
    PROVE  /\ Serialised' /\ ~key'
           /\ \A q \in Procs : pc'[q] \notin Holding
  <1>1. ASSUME NEW q \in Procs PROVE pc'[q] \notin Holding \cup {"asleep"}
    <2>1. CASE q = p
      BY <2>1 DEF Leave, Holding
    <2>2. CASE q # p
      BY <2>2 DEF Leave, Serialised, Holding
    <2> QED BY <2>1, <2>2
  <1> QED BY <1>1 DEF Serialised, Leave

\* One that is not in send() and stays out of it changes nothing for others.
LEMMA OutsideSerial ==
    ASSUME TypeOK, Serialised, NEW p \in Procs, pc' = [pc EXCEPT ![p] = "ready"], key' = key
    PROVE  Serialised'
  BY DEF TypeOK, Serialised, Holding

LEMMA CompareSerial ==
    ASSUME TypeOK, Serialised, NEW p \in Procs, pc[p] \in Holding, NEW r, Compare(p, r)
    PROVE  Serialised'
  <1>1. CASE \E next \in {"idle", "more"} : Leave(p, next)
    BY <1>1, LeaveSerial
  <1>2. CASE pc' = [pc EXCEPT ![p] = "read"] /\ UNCHANGED lock
    BY <1>2, StaySerial DEF lock, Holding
  <1> QED BY <1>1, <1>2 DEF Compare, Bad

LEMMA SerialStep == TypeOK /\ Serialised /\ [Next]_vars => Serialised'
  <1> SUFFICES ASSUME TypeOK, Serialised, [Next]_vars PROVE Serialised'
    OBVIOUS
  <1>1. CASE UNCHANGED <<pc, key>>
    BY <1>1 DEF Serialised
  <1>2. ASSUME NEW p \in Procs, NEW cmd \in Cmds, Call(p, cmd) PROVE Serialised'
    BY <1>2, OutsideSerial DEF Call
  <1>3. ASSUME NEW p \in Procs, Again(p) PROVE Serialised'
    BY <1>3, OutsideSerial DEF Again
  <1>4. ASSUME NEW p \in Procs, TryLock(p) PROVE Serialised'
    <2>1. CASE key
      BY <1>4, <2>1 DEF TryLock, TypeOK, Serialised, Holding
    <2>2. CASE ~key
      BY <1>4, <2>2 DEF TryLock, TypeOK, Serialised, Holding
    <2> QED BY <2>1, <2>2
  <1>5. ASSUME NEW p \in Procs, Write(p) PROVE Serialised'
    <2>1. pc[p] \in Holding
      BY <1>5 DEF Write, Holding
    <2>2. CASE Bad(p)
      BY <2>1, <2>2, LeaveSerial DEF Bad
    <2>3. CASE pc' = [pc EXCEPT ![p] = "read"] /\ UNCHANGED lock
      BY <2>1, <2>3, StaySerial DEF lock, Holding
    <2> QED BY <1>5, <2>2, <2>3 DEF Write
  <1>6. ASSUME NEW p \in Procs, Read(p) PROVE Serialised'
    <2>1. pc[p] \in Holding
      BY <1>6 DEF Read, Holding
    <2>2. CASE UNCHANGED <<pc, lock>>
      BY <2>2, <1>1 DEF lock
    <2>3. ASSUME NEW r, Header(p, r) PROVE Serialised'
      <3>1. CASE Bad(p)
        BY <2>1, <3>1, LeaveSerial DEF Bad
      <3>2. CASE pc' = [pc EXCEPT ![p] = "data"] /\ UNCHANGED lock
        BY <2>1, <3>2, StaySerial DEF lock, Holding
      <3> QED BY <2>1, <2>3, <3>1, <3>2, CompareSerial DEF Header
    <2> QED BY <1>6, <2>2, <2>3 DEF Read
  <1>7. ASSUME NEW p \in Procs, Data(p) PROVE Serialised'
    BY <1>7, CompareSerial DEF Data, Holding
  <1>8. ASSUME NEW p \in Procs, GiveUp(p) PROVE Serialised'
    BY <1>8, LeaveSerial DEF GiveUp, Bad, Holding
  <1>9. CASE Syscall \/ Serve \/ Desynchronised \/ HangUp \/ UNCHANGED vars
    BY <1>9, <1>1 DEF Syscall, Serve, Desynchronised, HangUp, vars
  <1> QED BY <1>2, <1>3, <1>4, <1>5, <1>6, <1>7, <1>8, <1>9 DEF Next, Send

-----------------------------------------------------------------------------
(* The stream while no wait has been given up.                             *)

\* An idle step of the stream and of p's request keeps what p is owed.
LEMMA SameStream ==
    ASSUME NEW p \in Procs, x'[p] = x[p], UNCHANGED <<reqs, net, rec, y>>
    PROVE  (InFlight(p) => InFlight(p)') /\ (InData(p) => InData(p)') /\ (Empty => Empty')
  BY DEF InFlight, InData, Empty, Replies, Part

\* When a process leaves send() and the stream is empty, all is well.
LEMMA LeaveAlone ==
    ASSUME TypeOK, Serialised, ~wrong', NEW p \in Procs, pc[p] \in Holding,
           NEW next \in {"idle", "more"}, Leave(p, next), reqs' = <<>>, net' = <<>>
    PROVE  Alone'
  <1>1. Empty'
    BY DEF Empty, Leave
  <1>2. \A q \in Procs : pc'[q] \notin Holding
    BY LeaveSerial
  <1> QED BY <1>1, <1>2 DEF Alone, Holding

\* When one goes on in it, the others are out of it.
LEMMA StayAlone ==
    ASSUME TypeOK, Serialised, ~wrong', NEW p \in Procs, pc[p] \in Holding,
           NEW h \in Holding, pc' = [pc EXCEPT ![p] = h], key' = key,
           h = "write" => Empty', h = "read" => InFlight(p)', h = "data" => InData(p)'
    PROVE  Alone'
  <1>1. key'
    BY DEF Serialised
  <1>2. ASSUME NEW q \in Procs, q # p PROVE pc'[q] \notin Holding
    BY <1>2 DEF Serialised, TypeOK
  <1>3. pc'[p] = h
    BY DEF TypeOK
  <1> QED BY <1>1, <1>2, <1>3 DEF Alone, Holding

\* The comparison of a process with its own reply, the last in the stream.
LEMMA CompareAlone ==
    ASSUME TypeOK, Serialised, ~wrong, NEW p \in Procs, pc[p] \in Holding,
           NEW r \in Replies(x[p]), Compare(p, r), reqs' = <<>>, net' = <<>>
    PROVE  Alone'
  <1>1. x[p].tn \in Int /\ x[p] \in Request
    BY DEF TypeOK, Request
  <1>2. r.tn = x[p].tn /\ r.id = x[p].id
    BY <1>1, ReplyTyped
  <1>3. /\ \E next \in {"idle", "more"} : Leave(p, next)
        /\ wrong' = (wrong \/ r.id # x[p].id)
    BY <1>1, <1>2 DEF Compare
  <1>4. ~wrong'
    BY <1>2, <1>3
  <1> QED BY <1>3, <1>4, LeaveAlone

LEMMA AloneRead ==
    ASSUME TypeOK, Serialised, Alone, NEW p \in Procs, Read(p)
    PROVE  Alone'
  <1>1. pc[p] \in Holding /\ InFlight(p) /\ net # <<>> /\ net' = Tail(net) /\ reqs' = reqs
    BY DEF Read, Holding, Alone
  <1>2. reqs = <<>> /\ reqs' = <<>> /\ ~wrong
    BY <1>1 DEF InFlight, Alone
  <1>3. CASE rec = <<>>
    <2>1. rec' = <<Head(net)>> /\ UNCHANGED <<pc, x, y, lock, wrong>>
      BY <1>3 DEF Read
    <2>2. PICK r \in Replies(x[p]) :
              \/ net = <<Part(r, "h1")>>
              \/ net = <<Part(r, "h1"), Part(r, "h2")>>
              \/ r.n = 1 /\ net = <<Part(r, "h1"), Part(r, "h2"), Part(r, "data")>>
      BY <1>1, <1>2, <1>3 DEF InFlight
    <2>3. /\ rec' = <<Part(r, "h1")>>
          /\ \/ net' = <<>>
             \/ net' = <<Part(r, "h2")>>
             \/ r.n = 1 /\ net' = <<Part(r, "h2"), Part(r, "data")>>
      <3> DEFINE a == Part(r, "h1")
                 b == Part(r, "h2")
                 c == Part(r, "data")
      <3>1. CASE net = <<a>>
        <4>1. Head(net) = a /\ Tail(net) = <<>>
          BY <3>1
        <4> QED BY <1>1, <2>1, <4>1
      <3>2. CASE net = <<a, b>>
        <4>1. Head(net) = a /\ Tail(net) = <<b>>
          BY <3>2
        <4> QED BY <1>1, <2>1, <4>1
      <3>3. CASE r.n = 1 /\ net = <<a, b, c>>
        <4>1. Head(net) = a /\ Tail(net) = <<b, c>>
          BY <3>3
        <4> QED BY <1>1, <2>1, <3>3, <4>1
      <3> QED BY <2>2, <3>1, <3>2, <3>3
    <2>4. r \in Replies(x'[p])
      BY <2>1, <2>2
    <2>5. InFlight(p)'
      BY <1>2, <2>3, <2>4 DEF InFlight, Replies, Part
    <2>6. pc' = [pc EXCEPT ![p] = "read"] /\ key' = key /\ ~wrong'
      BY <1>2, <2>1 DEF lock, Read, TypeOK
    <2> QED BY <1>1, <2>5, <2>6, StayAlone DEF Holding
  <1>4. CASE rec # <<>>
    <2>1. PICK r \in Replies(x[p]) :
              /\ rec = <<Part(r, "h1")>>
              /\ \/ net = <<Part(r, "h2")>>
                 \/ r.n = 1 /\ net = <<Part(r, "h2"), Part(r, "data")>>
      BY <1>1, <1>4 DEF InFlight
    <2>2. rec[1] = Part(r, "h1") /\ Head(net) = Part(r, "h2")
      BY <2>1
    <2>3. Headers(p, rec[1], Head(net)) = {r}
      BY <2>2 DEF Headers, Part
    <2>4. Header(p, r)
      BY <1>4, <2>3 DEF Read
    <2>5. net' = <<>> \/ (r.n = 1 /\ net' = <<Part(r, "data")>>)
      <3> DEFINE b == Part(r, "h2")
                 c == Part(r, "data")
      <3>1. CASE net = <<b>>
        <4>1. Tail(net) = <<>>
          BY <3>1
        <4> QED BY <1>1, <4>1
      <3>2. CASE r.n = 1 /\ net = <<b, c>>
        <4>1. Tail(net) = <<c>>
          BY <3>2
        <4> QED BY <1>1, <3>2, <4>1
      <3> QED BY <2>1, <3>1, <3>2
    <2>6. /\ x[p] \in Request /\ r.n \in {0, 1}
          /\ r.n = 1 => ~r.err /\ x[p].cmd = "read"
      BY ReplyTyped DEF TypeOK, Replies
    <2>7. CASE r.err
      <3>1. Bad(p) /\ UNCHANGED wrong
        BY <2>4, <2>7 DEF Header
      <3>2. net' = <<>>
        BY <2>5, <2>6, <2>7
      <3> QED BY <1>1, <1>2, <3>1, <3>2, LeaveAlone DEF Bad
    <2>8. CASE ~r.err /\ r.n = 1
      <3>1. /\ pc' = [pc EXCEPT ![p] = "data"] /\ y' = r /\ rec' = <<>>
            /\ UNCHANGED <<lock, x, wrong>>
        BY <2>4, <2>6, <2>8 DEF Header
      <3>2. r \in Replies(x'[p])
        BY <3>1
      <3>3. net' = <<>> \/ net' = <<Part(y', "data")>>
        BY <2>5, <3>1
      <3>4. InData(p)'
        BY <1>2, <2>8, <3>1, <3>2, <3>3 DEF InData, Replies, Part
      <3> QED BY <1>1, <1>2, <3>1, <3>4, StayAlone DEF lock, Holding
    <2>9. CASE ~r.err /\ r.n = 0
      <3>1. Compare(p, r)
        BY <2>4, <2>9 DEF Header
      <3>2. net' = <<>>
        BY <2>5, <2>9
      <3> QED BY <1>1, <1>2, <3>1, <3>2, CompareAlone
    <2> QED BY <2>6, <2>7, <2>8, <2>9
  <1> QED BY <1>3, <1>4

LEMMA AloneWrite ==
    ASSUME TypeOK, Serialised, Alone, ~late', NEW p \in Procs, Write(p)
    PROVE  Alone'
  <1>1. pc[p] \in Holding /\ Empty /\ net' = net /\ wrong' = wrong /\ ~wrong
    BY DEF Write, Holding, Alone
  <1>2. CASE /\ reqs' = Append(reqs, [x |-> x[p], whole |-> TRUE])
             /\ pc' = [pc EXCEPT ![p] = "read"]
             /\ UNCHANGED <<lock, x, rec, y, late>>
    <2>1. reqs' = <<[x |-> x[p], whole |-> TRUE]>>
      BY <1>1, <1>2 DEF Empty
    <2>2. InFlight(p)'
      BY <1>1, <1>2, <2>1 DEF InFlight, Empty
    <2> QED BY <1>1, <1>2, <2>2, StayAlone DEF lock, Holding
  <1>3. CASE hung /\ Bad(p) /\ UNCHANGED <<reqs, late>>
    BY <1>1, <1>3, LeaveAlone DEF Bad, Empty
  <1> QED BY <1>2, <1>3 DEF Write

\* A shorter sequence that agrees with s is a prefix of it.
LEMMA FirstOf ==
    ASSUME NEW S, NEW s \in Seq(S), NEW t \in Seq(S), Len(t) <= Len(s),
           \A i \in 1 .. Len(t) : t[i] = s[i]
    PROVE  SubSeq(s, 1, Len(t)) = t
  <1> DEFINE u == SubSeq(s, 1, Len(t))
             n == Len(t)
  <1>1. n \in Nat /\ Len(s) \in Nat /\ n \in Int /\ 1 \in Int
    BY LenProperties
  <1>2. \A i \in 1 .. n : s[i] \in S
    BY <1>1, ElementOfSeq
  <1>3. /\ u \in Seq(S) /\ Len(u) = (IF 1 <= n THEN n - 1 + 1 ELSE 0)
        /\ \A i \in 1 .. n - 1 + 1 : u[i] = s[1 + i - 1]
    BY <1>1, <1>2, SubSeqProperties
  <1>4. Len(u) = n /\ \A i \in 1 .. n : u[i] = s[i]
    BY <1>1, <1>3
  <1> QED BY <1>3, <1>4, SeqEqual

\* What is in the stream for a process is cut short.
LEMMA CutShort ==
    ASSUME NEW S, NEW s \in Seq(S), NEW k \in 0 .. Len(s),
           NEW a, NEW b, NEW c
    PROVE  /\ s = <<>> => SubSeq(s, 1, k) = <<>>
           /\ s = <<a>> => SubSeq(s, 1, k) \in {<<>>, <<a>>}
           /\ s = <<a, b>> => SubSeq(s, 1, k) \in {<<>>, <<a>>, <<a, b>>}
           /\ s = <<a, b, c>> => SubSeq(s, 1, k) \in {<<>>, <<a>>, <<a, b>>, <<a, b, c>>}
  <1>1. k = 0 => SubSeq(s, 1, k) = <<>>
    BY SubSeqEmpty
  <1>2. ASSUME s # <<>>, s[1] = a, k = 1 PROVE SubSeq(s, 1, k) = <<a>>
    <2>1. <<a>> \in Seq(S)
      BY <1>2
    <2>2. Len(<<a>>) = 1 /\ (\A i \in 1 .. 1 : <<a>>[i] = s[i]) /\ 1 <= Len(s)
      BY <1>2
    <2> QED BY <1>2, <2>1, <2>2, FirstOf
  <1>3. ASSUME Len(s) >= 2, s[1] = a, s[2] = b, k = 2 PROVE SubSeq(s, 1, k) = <<a, b>>
    <2>1. <<a, b>> \in Seq(S)
      BY <1>3
    <2>2. Len(<<a, b>>) = 2 /\ \A i \in 1 .. 2 : <<a, b>>[i] = s[i]
      BY <1>3
    <2> QED BY <1>3, <2>1, <2>2, FirstOf
  <1>4. k = Len(s) => SubSeq(s, 1, k) = s
    BY SubSeqFull
  <1>5. ASSUME s = <<>> PROVE SubSeq(s, 1, k) = <<>>
    BY <1>1, <1>5
  <1>6. ASSUME s = <<a>> PROVE SubSeq(s, 1, k) \in {<<>>, <<a>>}
    <2>1. k = 0 \/ k = Len(s)
      BY <1>6
    <2> QED BY <1>1, <1>4, <1>6, <2>1
  <1>7. ASSUME s = <<a, b>> PROVE SubSeq(s, 1, k) \in {<<>>, <<a>>, <<a, b>>}
    <2>1. s # <<>> /\ s[1] = a /\ (k = 0 \/ k = 1 \/ k = Len(s))
      BY <1>7
    <2> QED BY <1>1, <1>2, <1>4, <1>7, <2>1
  <1>8. ASSUME s = <<a, b, c>>
        PROVE  SubSeq(s, 1, k) \in {<<>>, <<a>>, <<a, b>>, <<a, b, c>>}
    <2>1. /\ s # <<>> /\ Len(s) >= 2 /\ s[1] = a /\ s[2] = b
          /\ k = 0 \/ k = 1 \/ k = 2 \/ k = Len(s)
      BY <1>8
    <2> QED BY <1>1, <1>2, <1>3, <1>4, <1>8, <2>1
  <1> QED BY <1>5, <1>6, <1>7, <1>8

LEMMA AloneHangUp ==
    ASSUME TypeOK, Serialised, Alone, HangUp
    PROVE  Alone'
  <1>1. reqs' = <<>> /\ UNCHANGED <<key, pc, x, rec, y, wrong>>
    BY DEF HangUp
  <1>2. PICK k \in 0 .. Len(net) : net' = SubSeq(net, 1, k)
    BY DEF HangUp
  <1>3. Empty => Empty'
    BY <1>1, <1>2, CutShort DEF Empty, TypeOK
  <1>4. ASSUME NEW p \in Procs, InFlight(p) PROVE InFlight(p)'
    <2>1. UNCHANGED x /\ rec' = rec
      BY <1>1
    <2>2. CASE reqs # <<>>
      <3>1. net' = <<>> /\ rec' = <<>>
        BY <1>2, <1>4, <2>1, <2>2, CutShort DEF InFlight, TypeOK
      <3>2. [id |-> x[p].id, tn |-> x[p].tn, err |-> TRUE, n |-> 0] \in Replies(x'[p])
        BY <2>1 DEF Replies
      <3> QED BY <1>1, <3>1, <3>2 DEF InFlight
    <2>3. CASE reqs = <<>> /\ rec = <<>>
      <3>1. PICK r \in Replies(x[p]) :
                \/ net = <<>>
                \/ net = <<Part(r, "h1")>>
                \/ net = <<Part(r, "h1"), Part(r, "h2")>>
                \/ r.n = 1 /\ net = <<Part(r, "h1"), Part(r, "h2"), Part(r, "data")>>
        BY <1>4, <2>3 DEF InFlight
      <3>2. \/ net' = <<>>
            \/ net' = <<Part(r, "h1")>>
            \/ net' = <<Part(r, "h1"), Part(r, "h2")>>
            \/ r.n = 1 /\ net' = <<Part(r, "h1"), Part(r, "h2"), Part(r, "data")>>
        BY <1>2, <3>1, CutShort DEF TypeOK
      <3>3. r \in Replies(x'[p])
        BY <2>1, <3>1
      <3> QED BY <1>1, <2>1, <2>3, <3>2, <3>3 DEF InFlight, Part
    <2>4. CASE reqs = <<>> /\ rec # <<>>
      <3>1. PICK r \in Replies(x[p]) :
                /\ rec = <<Part(r, "h1")>>
                /\ \/ net = <<>>
                   \/ net = <<Part(r, "h2")>>
                   \/ r.n = 1 /\ net = <<Part(r, "h2"), Part(r, "data")>>
        BY <1>4, <2>4 DEF InFlight
      <3>2. \/ net' = <<>>
            \/ net' = <<Part(r, "h2")>>
            \/ r.n = 1 /\ net' = <<Part(r, "h2"), Part(r, "data")>>
        BY <1>2, <3>1, CutShort DEF TypeOK
      <3>3. r \in Replies(x'[p]) /\ rec' = <<Part(r, "h1")>>
        BY <2>1, <3>1
      <3> QED BY <1>1, <3>2, <3>3 DEF InFlight, Part
    <2> QED BY <2>2, <2>3, <2>4
  <1>5. ASSUME NEW p \in Procs, InData(p) PROVE InData(p)'
    <2>1. net' = <<>> \/ net' = <<Part(y, "data")>>
      BY <1>2, <1>5, CutShort DEF InData, TypeOK
    <2> QED BY <1>1, <1>5, <2>1 DEF InData, Replies, Part
  <1> QED BY <1>1, <1>3, <1>4, <1>5 DEF Alone

LEMMA AloneServe ==
    ASSUME TypeOK, Serialised, Alone, Serve
    PROVE  Alone'
  <1>1. /\ reqs # <<>> /\ reqs' = Tail(reqs)
        /\ UNCHANGED <<key, pc, x, rec, y, wrong>>
    BY DEF Serve
  <1>2. PICK r \in Replies(Head(reqs).x) : net' = net \o Sent(r)
    BY DEF Serve
  <1>3. ~Empty /\ \A p \in Procs : ~InData(p)
    BY <1>1 DEF Empty, InData
  <1>4. ASSUME NEW p \in Procs, InFlight(p) PROVE InFlight(p)'
    <2>1. reqs = <<[x |-> x[p], whole |-> TRUE]>> /\ net = <<>> /\ rec = <<>>
      BY <1>1, <1>4 DEF InFlight
    <2>2. reqs' = <<>> /\ Head(reqs).x = x[p]
      BY <1>1, <2>1
    <2>3. r \in Replies(x[p]) /\ r \in Replies(x'[p]) /\ r.n \in {0, 1}
      BY <1>1, <1>2, <2>2 DEF Replies
    <2>4. net' = Sent(r)
      <3>1. x[p] \in Request
        BY DEF TypeOK
      <3>2. Sent(r) \in Seq(Segment)
        BY <2>3, <3>1, ReplyTyped, SentTyped
      <3> QED BY <1>2, <2>1, <3>2
    <2>5. \/ net' = <<Part(r, "h1"), Part(r, "h2")>>
          \/ r.n = 1 /\ net' = <<Part(r, "h1"), Part(r, "h2"), Part(r, "data")>>
      BY <2>3, <2>4 DEF Sent
    <2> QED BY <1>1, <2>1, <2>2, <2>3, <2>5 DEF InFlight, Part
  <1> QED BY <1>1, <1>3, <1>4 DEF Alone

LEMMA AloneStep ==
    ASSUME TypeOK, Serialised, hung => reqs = <<>>, Alone, [Next]_vars, ~late'
    PROVE  Alone'
  <1>1. ASSUME UNCHANGED <<key, pc, x, reqs, net, rec, y, wrong>> PROVE Alone'
    <2>1. Empty => Empty'
      BY <1>1 DEF Empty
    <2>2. ASSUME NEW p \in Procs
          PROVE  (InFlight(p) => InFlight(p)') /\ (InData(p) => InData(p)')
      BY <1>1, SameStream
    <2> QED BY <1>1, <2>1, <2>2 DEF Alone
  <1>2. ASSUME NEW p \in Procs, pc[p] \notin Holding, pc'[p] \notin Holding,
               \A q \in Procs : q # p => pc'[q] = pc[q] /\ x'[q] = x[q],
               UNCHANGED <<key, reqs, net, rec, y, wrong>>
        PROVE  Alone'
    <2>1. Empty => Empty'
      BY <1>2 DEF Empty
    <2>2. ASSUME NEW q \in Procs, q # p
          PROVE  (InFlight(q) => InFlight(q)') /\ (InData(q) => InData(q)')
      BY <1>2, <2>2, SameStream
    <2> QED BY <1>2, <2>1, <2>2 DEF Alone, Holding
  <1>3. ASSUME NEW p \in Procs, NEW cmd \in Cmds, Call(p, cmd) PROVE Alone'
    BY <1>2, <1>3 DEF Call, TypeOK, conn, Holding
  <1>4. ASSUME NEW p \in Procs, Again(p) PROVE Alone'
    BY <1>2, <1>4 DEF Again, TypeOK, conn, Holding
  <1>5. ASSUME NEW p \in Procs, TryLock(p) PROVE Alone'
    <2>1. UNCHANGED <<x, reqs, net, rec, y, wrong>> /\ pc[p] = "ready"
      BY <1>5 DEF TryLock, conn
    <2>2. CASE key
      BY <1>2, <1>5, <2>1, <2>2 DEF TryLock, TypeOK, Holding
    <2>3. CASE ~key
      <3>1. Empty /\ Empty' /\ \A q \in Procs : pc[q] \notin Holding
        BY <2>1, <2>3, SameStream DEF Alone, Serialised, Empty
      <3>2. key' /\ pc'[p] = "write" /\ \A q \in Procs : q # p => pc'[q] = pc[q]
        BY <1>5, <2>3 DEF TryLock, TypeOK
      <3> QED BY <2>1, <3>1, <3>2 DEF Alone, Holding
    <2> QED BY <2>2, <2>3
  <1>6. ASSUME NEW p \in Procs, Data(p) PROVE Alone'
    <2>1. pc[p] \in Holding /\ InData(p) /\ net # <<>> /\ net' = Tail(net) /\ ~wrong
      BY <1>6 DEF Data, Holding, Alone
    <2>2. net = <<Part(y, "data")>> /\ y \in Replies(x[p]) /\ reqs' = <<>>
      BY <1>6, <2>1 DEF InData, Data
    <2>3. net' = <<>>
      BY <2>1, <2>2
    <2> QED BY <1>6, <2>1, <2>2, <2>3, CompareAlone DEF Data
  <1>7. ASSUME NEW p \in Procs, GiveUp(p) PROVE Alone'
    <2>1. pc[p] \in Holding /\ reqs' = <<>> /\ net' = <<>> /\ Bad(p) /\ ~wrong'
      BY <1>7 DEF GiveUp, Holding, Alone, conn
    <2> QED BY <2>1, LeaveAlone DEF Bad
  <1>8. CASE Desynchronised
    <2>1. Len(reqs) > 1 /\ UNCHANGED <<key, pc, x, rec, y, reqs, wrong>>
      BY <1>8 DEF Desynchronised
    <2>2. ~Empty /\ \A p \in Procs : ~InFlight(p) /\ ~InData(p)
      <3>1. ASSUME NEW m, reqs = <<m>> PROVE FALSE
        <4>1. Len(<<m>>) = 1
          OBVIOUS
        <4> QED BY <2>1, <3>1, <4>1
      <3>2. reqs # <<>>
        BY <2>1
      <3> QED BY <3>1, <3>2 DEF Empty, InFlight, InData
    <2> QED BY <2>1, <2>2 DEF Alone
  <1>9. CASE Syscall \/ UNCHANGED vars
    BY <1>1, <1>9 DEF Syscall, vars, conn
  <1> QED BY <1>3, <1>4, <1>5, <1>6, <1>7, <1>8, <1>9,
             AloneRead, AloneWrite, AloneServe, AloneHangUp DEF Next, Send

-----------------------------------------------------------------------------
(* The theorems.                                                           *)

LEMMA LateStays == ASSUME [Next]_vars, late PROVE late'
  <1>1. ASSUME NEW p \in Procs, Send(p) PROVE late'
    BY <1>1 DEF Send, TryLock, Write, Read, Data, GiveUp
  <1> QED BY <1>1 DEF Next, vars, Syscall, Serve, Desynchronised, HangUp, Again, Call

LEMMA HungStep ==
    ASSUME TypeOK, hung => reqs = <<>>, [Next]_vars
    PROVE  (hung => reqs = <<>>)'
  <1>1. ASSUME NEW p \in Procs, Send(p) PROVE (hung => reqs = <<>>)'
    BY <1>1 DEF Send, TryLock, Write, Read, Data, GiveUp, conn
  <1> QED BY <1>1 DEF Next, vars, Syscall, Serve, Desynchronised, HangUp, Again, Call, conn

LEMMA InitIInv == Init => IInv
  <1> SUFFICES ASSUME Init PROVE IInv
    OBVIOUS
  <1>1. NoRequest \in Request /\ NoReply \in Reply
    BY DEF NoRequest, NoReply, Request, Reply, Cmds
  <1>2. pc \in [Procs -> Places]
    BY DEF Init, Places
  <1>3. TypeOK
    <2>1. x \in [Procs -> Request] /\ y \in Reply
      BY <1>1 DEF Init
    <2>2. /\ reqs \in Seq(Message) /\ net \in Seq(Segment)
          /\ rec \in Seq(Segment) /\ Len(rec) <= 1
      BY DEF Init
    <2> QED BY <1>2, <2>1, <2>2 DEF Init, TypeOK
  <1> QED BY <1>3 DEF Init, IInv, Serialised, Alone, Empty, Holding

LEMMA StepIInv == IInv /\ [Next]_vars => IInv'
  <1> SUFFICES ASSUME IInv, [Next]_vars PROVE IInv'
    OBVIOUS
  <1>1. TypeOK' /\ Serialised'
    BY TypeStep, SerialStep DEF IInv
  <1>2. (hung => reqs = <<>>)'
    BY HungStep DEF IInv
  <1>3. ASSUME ~late' PROVE Alone'
    BY <1>3, LateStays, AloneStep DEF IInv
  <1> QED BY <1>1, <1>2, <1>3 DEF IInv

\* The inductive invariant holds in every state of send() and the server.
LEMMA Invariant == Spec => []IInv
  BY InitIInv, StepIInv, PTL DEF Spec

\* Every variable keeps its type, whatever is garbled, torn or late: no
\* number, count or place outside those the code distinguishes comes up.
THEOREM TypeCorrect == Spec => []TypeOK
  <1>1. IInv => TypeOK
    BY DEF IInv
  <1> QED BY <1>1, Invariant, PTL

\* send() has one process at a time between the test of i_key and the
\* wakeup(), and nobody sleeps on a key that is free.
THEOREM KeySerialises == Spec => []Serialised
  <1>1. IInv => Serialised
    BY DEF IInv
  <1> QED BY <1>1, Invariant, PTL

\* Until a wait is given up every reply send() takes answers its request,
\* and the stream is empty when the key is free, hang-ups included.
THEOREM RepliesInTime == Spec => []OwnInTime
  <1>1. IInv => OwnInTime
    BY DEF IInv, OwnInTime, Alone, Empty
  <1> QED BY <1>1, Invariant, PTL
=============================================================================
