------------------------------- MODULE DzLine ---------------------------------
(***************************************************************************)
(* One terminal line of the guest: SIMH's DZ line with its own listen      *)
(* port, V8's dz driver above it, and what init keeps on it.               *)
(*                                                                         *)
(* SIMH serves one connection per line and refuses a second (external).    *)
(* The driver learns of a connection only by looking: dzscan() every two   *)
(* seconds, and once in dzopen().                                          *)
(*                                                                         *)
(* Simplifications: what is typed arrives at once and whole; a process     *)
(* dies of SIGHUP at once; DTR is up unless nobody has the line open.      *)
(***************************************************************************)
EXTENDS Integers, Sequences

CONSTANT Users    \* who may be connected to a line

VARIABLE dz    \* dz[l], a record: see DzTyped

NoUser == "nobody"

Input == [what : {"cr", "root", "cmd", "exit"}, by : Users \cup {NoUser}]

\* The fields of a line:
\*   held   who SIMH has connected
\*   carr   CARR_ON: the driver has seen that connection, or one before it
\*   proc   "none" init is to fork, "opening" getty sleeps in dzopen(), "getty",
\*          "profile" and "root" the shell of a borrower, "user" somebody's shell
\*   typed  what waits on the stream for proc
\*   own    history: the shell was asked for over the connection that has it
\*   quick  history: a connection took the line over before the driver missed
\*          the one before
DzTyped(Lines) ==
    dz \in [Lines -> [held  : Users \cup {NoUser, "leak"},
                      carr  : BOOLEAN,
                      proc  : {"none", "opening", "getty", "profile", "root", "user"},
                      typed : Seq(Input), own : BOOLEAN, quick : BOOLEAN]]

\* Before anybody has dialled.
IdleLine == [held |-> NoUser, carr |-> FALSE, proc |-> "opening", typed |-> <<>>,
             own |-> FALSE, quick |-> FALSE]

Shells    == {"profile", "root", "user"}
IsOpen(d) == d.proc \in Shells \cup {"getty"}

\* SIMH accepts a connection on the port of a line that has none.
Accept(d, who) == [d EXCEPT !.held = who, !.quick = d.carr /\ IsOpen(d)]

\* The holder goes: what it typed is still there, and nobody's.
Drop(d) ==
    [d EXCEPT !.held = NoUser, !.own = FALSE,
              !.typed = [i \in DOMAIN d.typed |-> [d.typed[i] EXCEPT !.by = NoUser]]]

\* A character that finds no stream is thrown away by dzrint().
Type(d, what) ==
    IF IsOpen(d) THEN [d EXCEPT !.typed = Append(@, [what |-> what, by |-> d.held])] ELSE d

\* The last close, by exit or by SIGHUP: the stream goes with its contents.
Closed(d) == [d EXCEPT !.proc = "none", !.typed = <<>>, !.carr = FALSE,
                       !.own = FALSE, !.quick = FALSE]

\* Mutant: the loss of carrier is noted and nobody is told.
ScanForgets(d) == [d EXCEPT !.carr = d.held # NoUser]

\* Mutant: a getty at its prompt does not count as having the line open.
ScanSparesGetty(d) ==
    IF d.held # NoUser THEN [d EXCEPT !.carr = TRUE]
    ELSE IF d.carr /\ d.proc \in Shells THEN Closed(d)
    ELSE [d EXCEPT !.carr = FALSE]

\* dzscan(): carrier is seen, or is lost and hangs up whoever has the line open.
Scanned(d) ==
    IF d.held # NoUser THEN [d EXCEPT !.carr = TRUE]
    ELSE IF d.carr /\ IsOpen(d) THEN Closed(d)
    ELSE [d EXCEPT !.carr = FALSE]

\* dfork(): init has reaped what was on the line.
Forked(d) == IF d.proc = "none" THEN {[d EXCEPT !.proc = "opening"]} ELSE {}

\* dzopen() looks by itself, then sleeps until a scan wakes it.
Opened(d) ==
    IF d.proc = "opening" /\ (d.held # NoUser \/ d.carr)
    THEN {[d EXCEPT !.proc = "getty", !.carr = TRUE]} ELSE {}

\* What the process on the line does with the next input.  out is what the
\* holder can recognise of the answer, ran who had the command executed.
Does(d, out, ran) == [d |-> d, out |-> out, ran |-> ran]

\* getty: an empty name brings its banner again, root a shell that runs
\* /.profile, whose fortune may have a `#' in it.
GettyReads(d) ==
    LET rest == [d EXCEPT !.typed = Tail(@)]
        log  == [rest EXCEPT !.proc = "profile", !.own = Head(d.typed).by # NoUser]
    IN  IF Head(d.typed).what = "root"
        THEN {Does(log, o, NoUser) : o \in {"", "#"}}
        ELSE {Does(rest, "login:", NoUser)}

RootReads(d) ==
    LET rest == [d EXCEPT !.typed = Tail(@)]
    IN  CASE Head(d.typed).what = "exit" -> {Does(Closed(d), "", NoUser)}
          [] Head(d.typed).what = "cmd"  -> {Does(rest, "#", Head(d.typed).by)}
          [] OTHER                       -> {Does(rest, "#", NoUser)}

\* A shell of the user's: the app's own commands never reach it.
UserReads(d) == {Does([d EXCEPT !.typed = Tail(@)], "", NoUser)}

\* Every step that the guest takes on a line of its own accord.
GuestSteps(d) ==
       {Does(e, "", NoUser) : e \in Forked(d)}
  \cup {Does(e, "login:", NoUser) : e \in Opened(d)}
  \cup IF d.proc = "profile" THEN {Does([d EXCEPT !.proc = "root"], "#", NoUser)} ELSE {}
  \cup IF d.typed = <<>> THEN {}
       ELSE CASE d.proc = "getty" -> GettyReads(d)
              [] d.proc = "root"  -> RootReads(d)
              [] d.proc = "user"  -> UserReads(d)
              [] OTHER            -> {}

\* The user logs in over the connection that has the line, or out of it.
LogsIn(d)  == [d EXCEPT !.proc = "user", !.typed = <<>>, !.own = TRUE]
LogsOut(d) == Closed(d)
=============================================================================
