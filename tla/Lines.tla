-------------------------------- MODULE Lines ---------------------------------
(***************************************************************************)
(* The sessions of app/ipnx/Session.swift on the lines of module DzLine:   *)
(* tabs that are opened and closed over a dial in flight, and              *)
(* onSpareLine(), which borrows a line no tab is running on to become root *)
(* and type commands.                                                      *)
(*                                                                         *)
(* Simplifications:                                                        *)
(*  - a wait of ConsoleLink may time out at any moment while it is pending *)
(*    (no clock), and its match buffer is the set of patterns it holds;    *)
(*  - the machine comes up once and SIMH lives on;                         *)
(*  - wakeFarEnd()'s CR, which only makes the far end speak, is left out.  *)
(***************************************************************************)
EXTENDS DzLine, FiniteSets

CONSTANTS
    NLine,     \* the lines tty02.. that onSpareLine() chooses from
    Borrowers, \* mountShares() and unmountShares() calls in flight together
    NCmd,      \* the commands of a borrow: one per share
    MaxGreets, \* attempts at a `login:'
    MaxDials,  \* bound: the dials of one tab in flight together
    MaxUnread  \* bound: what is unread on a line when a borrow of it begins

ASSUME LinesAssumption ==
    /\ NLine \in Nat \ {0} /\ NCmd \in Nat \ {0} /\ MaxGreets \in Nat \ {0}
    /\ MaxDials \in Nat \ {0} /\ MaxUnread \in Nat /\ Users = Borrowers \cup {"tab"}
    /\ Borrowers \cap {"tab", "leak", NoUser} = {}

VARIABLES
    up,      \* machine.phase = .up
    opened,  \* SessionStore.opened
    tab,     \* tab[l]: state and conn of the session and its link, and how many
             \* of its tasks are about to call connect() and inside it
    bw,      \* bw[b]: the borrow that is under way
    clashed, \* history: lines on which a tab or a borrow met another borrow
    early,   \* history: lines whose stop() found a dial in flight
    twice    \* history: lines with two dials in flight together

vars == <<dz, up, opened, tab, bw, clashed, early, twice>>

LineNos == 1 .. NLine
Conns   == {"none", "held", "refused"}
Off     == [pc |-> "off", l |-> 1, conn |-> "none", buf |-> {}, got |-> "yes", n |-> 0, ran |-> 0]

\* A closed tab has a state of its own for as long as a dial of it is in flight.
TypeOK ==
    /\ DzTyped(LineNos)
    /\ up \in BOOLEAN /\ opened \subseteq LineNos
    /\ tab \in [LineNos -> [st : {"idle", "connecting", "up", "failed"}, conn : Conns,
                            tasks : 0 .. MaxDials, dials : 0 .. MaxDials]]
    /\ bw \in [Borrowers -> [pc : {"off", "dial", "greet", "root", "work", "exit"},
                             l : LineNos, conn : Conns, buf : SUBSET {"login:", "#"},
                             got : {"wait", "yes", "no"}, n : Nat, ran : Nat]]
    /\ clashed \subseteq LineNos /\ early \subseteq LineNos /\ twice \subseteq LineNos

Init ==
    /\ dz = [l \in LineNos |-> IdleLine] /\ up = FALSE /\ opened = {}
    /\ tab = [l \in LineNos |-> [st |-> "idle", conn |-> "none", tasks |-> 0, dials |-> 0]]
    /\ bw = [b \in Borrowers |-> Off]
    /\ clashed = {} /\ early = {} /\ twice = {}

Dialling(l)  == tab[l].tasks + tab[l].dials > 0
On(l)        == {b \in Borrowers : bw[b].pc # "off" /\ bw[b].l = l}
IsRunning(l) == tab[l].st \in {"up", "connecting"}

-----------------------------------------------------------------------------
\* Session.start() for every line of ls, past its guard where it is idle.
Start(ls) ==
    LET go == {l \in ls : tab[l].st = "idle"}
    IN  /\ \A l \in go : tab[l].tasks + tab[l].dials < MaxDials
        /\ tab' = [l \in LineNos |-> IF l \in go
                       THEN [tab[l] EXCEPT !.st = "connecting", !.tasks = @ + 1] ELSE tab[l]]
        /\ clashed' = clashed \cup {l \in go : On(l) # {}}
        /\ twice' = twice \cup {l \in go : Dialling(l)}

MachineUp ==
    /\ ~up /\ up' = TRUE
    /\ UNCHANGED <<dz, opened, tab, bw, clashed, early, twice>>

\* machineIsUp(), from the handler of any window, at this or a later .up.
MachineIsUp ==
    /\ up /\ Start(opened)
    /\ UNCHANGED <<dz, up, opened, bw, early>>

\* SessionStore.open().
Open(l) ==
    /\ opened' = opened \cup {l}
    /\ Start(IF up THEN {l} ELSE {})
    /\ UNCHANGED <<dz, up, bw, early>>

\* The task of start() calls connect(): a link that has a connection is done.
Enter(l) ==
    /\ tab[l].tasks > 0
    /\ \/ tab[l].conn # "none" /\ tab' = [tab EXCEPT ![l].tasks = @ - 1, ![l].st = "up"]
       \/ tab[l].conn = "none" /\ tab' = [tab EXCEPT ![l].tasks = @ - 1, ![l].dials = @ + 1]
    /\ UNCHANGED <<dz, up, opened, bw, clashed, early, twice>>

\* dial() returned a connection, which SIMH serves if it is the first on the
\* line.  The connection that the link may already have is not cancelled.
Dialled(l) ==
    /\ tab[l].dials > 0
    /\ tab' = [tab EXCEPT ![l].dials = @ - 1, ![l].st = "up",
                          ![l].conn = IF dz[l].held = NoUser THEN "held" ELSE "refused"]
    /\ dz' = [dz EXCEPT ![l] = IF @.held = NoUser THEN Accept(@, "tab")
                               ELSE IF tab[l].conn = "held" THEN [@ EXCEPT !.held = "leak"] ELSE @]
    /\ UNCHANGED <<up, opened, bw, clashed, early, twice>>

\* Sixty attempts have found no listener.
NotDialled(l) ==
    /\ tab[l].dials > 0
    /\ tab' = [tab EXCEPT ![l].dials = @ - 1, ![l].st = "failed"]
    /\ UNCHANGED <<dz, up, opened, bw, clashed, early, twice>>

\* SessionStore.close() with Session.stop().
Close(l) ==
    /\ l \in opened /\ opened' = opened \ {l}
    /\ dz' = [dz EXCEPT ![l] = IF tab[l].conn = "held" THEN Drop(@) ELSE @]
    /\ tab' = [tab EXCEPT ![l].st = "idle", ![l].conn = "none"]
    /\ early' = early \cup (IF Dialling(l) THEN {l} ELSE {})
    /\ UNCHANGED <<up, bw, clashed, twice>>

\* A connection that its link has forgotten may end once something arrives.
LeakEnds(l) ==
    /\ dz[l].held = "leak" /\ dz' = [dz EXCEPT ![l] = Drop(@)]
    /\ UNCHANGED <<up, opened, tab, bw, clashed, early, twice>>

UserLogs(l) ==
    /\ dz[l].held = "tab"
    /\ \/ dz[l].proc = "getty" /\ dz' = [dz EXCEPT ![l] = LogsIn(@)]
       \/ dz[l].proc \in {"root", "user"} /\ dz' = [dz EXCEPT ![l] = LogsOut(@)]
    /\ UNCHANGED <<up, opened, tab, bw, clashed, early, twice>>

-----------------------------------------------------------------------------
\* ConsoleLink.send() of a borrow: nothing unless SIMH has its connection.
Sent(r, what) == IF r.conn = "held" THEN [dz EXCEPT ![r.l] = Type(@, what)] ELSE dz

\* waitFor() on entry: a buffer that has the pattern is emptied at once.
Await(r, pc, pat, n) ==
    IF pat \in r.buf THEN [r EXCEPT !.pc = pc, !.n = n, !.buf = {}, !.got = "yes"]
    ELSE [r EXCEPT !.pc = pc, !.n = n, !.got = "wait"]

Pattern(pc) == IF pc \in {"greet", "exit"} THEN "login:" ELSE "#"

\* Mutant: a match takes what it matched out of the buffer and no more.
RestKept(b, l, out) ==
    IF out = "" \/ dz[l].held # b THEN bw[b]
    ELSE IF bw[b].got = "wait" /\ out = Pattern(bw[b].pc)
         THEN [bw[b] EXCEPT !.got = "yes"]
         ELSE [bw[b] EXCEPT !.buf = @ \cup {out}]

\* consume(): the output of line l reaches the borrow that holds it.
Heard(b, l, out) ==
    IF out = "" \/ dz[l].held # b THEN bw[b]
    ELSE IF bw[b].got = "wait" /\ out = Pattern(bw[b].pc)
         THEN [bw[b] EXCEPT !.got = "yes", !.buf = {}]
         ELSE [bw[b] EXCEPT !.buf = @ \cup {out}]

\* Mutant: only the tabs that are up are left alone.
SpareUnlessUp == {l \in LineNos : tab[l].st # "up"}

\* onSpareLine() chooses the first line whose session is not running.
Spare == {l \in LineNos : ~IsRunning(l)}

Borrow(b) ==
    /\ up /\ bw[b].pc = "off"
    /\ \E l \in Spare :
           /\ \A j \in Spare : l <= j
           /\ Len(dz[l].typed) <= MaxUnread
           /\ bw' = [bw EXCEPT ![b] = [Off EXCEPT !.pc = "dial", !.l = l, !.got = "wait"]]
           /\ clashed' = clashed \cup (IF On(l) # {} THEN {l} ELSE {})
    /\ UNCHANGED <<dz, up, opened, tab, early, twice>>

\* The dial has succeeded and the line has settled: the first CR.
BorrowDialled(b) ==
    LET r      == bw[b]
        served == dz[r.l].held = NoUser
        conn   == [r EXCEPT !.conn = IF served THEN "held" ELSE "refused"]
    IN  /\ r.pc = "dial"
        /\ dz' = IF served THEN [dz EXCEPT ![r.l] = Type(Accept(@, b), "cr")] ELSE dz
        /\ bw' = [bw EXCEPT ![b] = Await(conn, "greet", "login:", 1)]
        /\ UNCHANGED <<up, opened, tab, clashed, early, twice>>

\* The borrow returns, and its link is closed on the way out.
BorrowEnds(b) ==
    /\ bw' = [bw EXCEPT ![b] = Off]
    /\ dz' = IF bw[b].conn = "held" THEN [dz EXCEPT ![bw[b].l] = Drop(@)] ELSE dz

NoDial(b) ==
    /\ bw[b].pc = "dial" /\ BorrowEnds(b)
    /\ UNCHANGED <<up, opened, tab, clashed, early, twice>>

Timeout(b) ==
    /\ bw[b].pc # "dial" /\ bw[b].got = "wait"
    /\ bw' = [bw EXCEPT ![b].got = "no"]
    /\ UNCHANGED <<dz, up, opened, tab, clashed, early, twice>>

\* The next send and the wait for its answer.
Says(b, what, pc, n) ==
    /\ dz' = Sent(bw[b], what)
    /\ bw' = [bw EXCEPT ![b] = Await(bw[b], pc, Pattern(pc), n)]

\* A wait has come back, answered or not.
Resumed(b) ==
    LET r == bw[b]
    IN  /\ r.pc \notin {"off", "dial"} /\ r.got # "wait"
        /\ \/ r.pc = "greet" /\ r.got = "yes" /\ Says(b, "root", "root", 0)
           \/ r.pc = "greet" /\ r.got = "no" /\ r.n < MaxGreets /\ Says(b, "cr", "greet", r.n + 1)
           \/ r.pc = "greet" /\ r.got = "no" /\ r.n = MaxGreets /\ BorrowEnds(b)
           \/ r.pc = "root" /\ r.got = "yes" /\ Says(b, "cmd", "work", 1)
           \/ r.pc = "root" /\ r.got = "no" /\ BorrowEnds(b)
           \/ r.pc = "work" /\ r.n < NCmd /\ Says(b, "cmd", "work", r.n + 1)
           \/ r.pc = "work" /\ r.n = NCmd /\ Says(b, "exit", "exit", 0)
           \/ r.pc = "exit" /\ BorrowEnds(b)
        /\ UNCHANGED <<up, opened, tab, clashed, early, twice>>

-----------------------------------------------------------------------------
\* The guest's process on line l, and what is heard of it.
Guest(l) ==
    \E s \in GuestSteps(dz[l]) :
        /\ dz' = [dz EXCEPT ![l] = s.d]
        /\ bw' = [b \in Borrowers |->
                     IF s.ran = b THEN [Heard(b, l, s.out) EXCEPT !.ran = @ + 1]
                     ELSE Heard(b, l, s.out)]
        /\ UNCHANGED <<up, opened, tab, clashed, early, twice>>

Scan ==
    /\ dz' = [l \in LineNos |-> Scanned(dz[l])]
    /\ UNCHANGED <<up, opened, tab, bw, clashed, early, twice>>

Borrowing(b) == BorrowDialled(b) \/ NoDial(b) \/ Timeout(b) \/ Resumed(b)

Next ==
    \/ MachineUp \/ MachineIsUp \/ Scan
    \/ \E l \in LineNos : \/ Open(l) \/ Close(l) \/ UserLogs(l)
                          \/ Enter(l) \/ Dialled(l) \/ NotDialled(l) \/ LeakEnds(l)
                          \/ Guest(l)
    \/ \E b \in Borrowers : Borrow(b) \/ Borrowing(b)

\* Dials, timers and tasks come back, the driver scans, and init reaps.  Nothing
\* is assumed of the commands that a borrow types.
Fairness ==
    /\ WF_vars(Scan)
    /\ \A l \in LineNos : /\ WF_vars(dz[l].proc = "none" /\ Guest(l))
                          /\ WF_vars(Enter(l)) /\ WF_vars(Dialled(l) \/ NotDialled(l))
    /\ \A b \in Borrowers : WF_vars(Borrowing(b))

Spec == Init /\ [][Next]_vars /\ Fairness

-----------------------------------------------------------------------------
Known(l) == l \in clashed \cup early \cup twice

\* Every connection SIMH serves is that of an open tab or of a borrow at work,
\* and nobody holds a dead one: a closed tab has hung up unless stop() came
\* during its dial, and a tab or a borrow is only refused after one of the
\* three events (a second borrow on the line, or a tab opened on a borrowed
\* line; a stop during a dial; a second dial over the first).
LinesAccounted ==
    /\ \A l \in LineNos :
           /\ dz[l].held = "tab" <=> tab[l].conn = "held"
           /\ dz[l].held = "leak" => l \in twice
           /\ dz[l].held \in Borrowers => dz[l].held \in On(l)
           /\ l \notin opened /\ ~Dialling(l) /\ tab[l].conn # "none" => l \in early
           /\ tab[l].conn = "refused" => Known(l)
    /\ \A b \in Borrowers : bw[b].conn = "refused" => Known(bw[b].l)

\* A connection never comes upon a shell that an earlier one has left, a
\* borrow's root shell least of all, unless it took the line between two looks
\* of the driver at the carrier.
NoShellInherited ==
    \A l \in LineNos : dz[l].held # NoUser /\ dz[l].proc \in Shells => dz[l].own \/ dz[l].quick

\* A borrow that sees `login:' after its exit has had all its commands executed:
\* no late prompt, `#' in a fortune or login of its greeting passes for the end.
LoggedOutMeansDone ==
    \A b \in Borrowers : bw[b].pc = "exit" /\ bw[b].got = "yes" => bw[b].ran = NCmd

\* Every borrow ends, whatever the line does, and a line that nobody holds has
\* its getty waiting again.
LinesReturn ==
    /\ \A b \in Borrowers : bw[b].pc # "off" ~> bw[b].pc = "off"
    /\ \A l \in LineNos : dz[l].held = NoUser ~> (dz[l].proc = "opening" \/ dz[l].held # NoUser)
=============================================================================
