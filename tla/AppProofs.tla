------------------------------- MODULE AppProofs ------------------------------
(***************************************************************************)
(* Theorems about AppLifecycle and about Terminal5620, the two parts of    *)
(* the app that several tasks and threads enter.  For any number of calls  *)
(* in flight and of windows, the Mac's quit is not answered into a         *)
(* handshake, and an app in front is not left with a paused machine, but   *)
(* for the named cases.  For any number of threads and of clicks, two      *)
(* threads never step the one dmd_core, and what the user has set up is    *)
(* kept, as long as no thread is started while a restart() is asleep.      *)
(***************************************************************************)
EXTENDS AppLifecycle, Terminal5620, TLAPS

Quitting == {"quitDrop", "quitPause"}

\* A slot's call on the machine is its job's.
JobsMatch ==
    \A s \in Slots : /\ op[s] = "bg" => job[s] \in {"pause", "quitPause"}
                     /\ op[s] = "fg" => job[s] = "resume"

\* Which jobs the two platforms have, and that one job has the quit.
Platform ==
    /\ mac => (\A s \in Slots : job[s] # "drop") /\ scene = "active"
    /\ mac => \A w \in Windows : seen[w] = "active"
    /\ ~mac => quit = "no"
    /\ \A s \in Slots : job[s] \in Quitting => quit = "later"
    /\ quit = "later" => \E s \in Slots : job[s] \in Quitting
    /\ \A s, t \in Slots : job[s] \in Quitting /\ job[t] \in Quitting => s = t

\* One call is in flight, and says so in the phase until simhExited().
OneCall ==
    /\ \A s, t \in Slots : op[s] # "off" /\ op[t] # "off" => s = t
    /\ \A s \in Slots : op[s] # "off" /\ live => phase # "up"

\* From the deferral of the quit on, no call but the quit's own is in flight.
OnlyQuit ==
    /\ quit = "later" => \A s \in Slots : op[s] # "off" => job[s] \in Quitting
    /\ quit = "replied" => \A s \in Slots : op[s] = "off"

\* A window's handler has been told that the app is in front, or there is no
\* window that could be told.
Fronted == Windows = {} \/ (scene = "active" /\ \E w \in Windows : seen[w] = "active")

\* Then nobody suspends, and a paused machine is being resumed.
Awake ==
    /\ \A s \in Slots : job[s] \in {"off", "resume"}
    /\ phase = "paused" /\ live => \E s \in Slots : op[s] = "fg"

Alone == twice \/ (OneCall /\ OnlyQuit)
Front == mac \/ overtaken \/ ~Fronted \/ Awake

IInv == TypeOK /\ JobsMatch /\ Platform /\ Alone /\ Front

-----------------------------------------------------------------------------
LEMMA Initially == Init => IInv
<1> SUFFICES ASSUME Init
             PROVE  IInv
  OBVIOUS
<1>1. /\ phase = "up" /\ live = TRUE /\ trapped = FALSE /\ quit = "no"
      /\ op = [s \in Slots |-> "off"] /\ job = [s \in Slots |-> "off"]
      /\ scene = "active" /\ seen = [w \in Windows |-> "active"]
      /\ shares = TRUE /\ mac \in BOOLEAN /\ twice = FALSE /\ overtaken = FALSE
  BY DEF Init, P!Init
<1>2. op \in [Slots -> {"off", "bg", "fg"}]
  BY <1>1
<1>3. job \in [Slots -> {"off", "pause", "resume", "quitPause"} \cup Drops]
  BY <1>1
<1>4. seen \in [Windows -> Scenes]
  BY <1>1 DEF Scenes
<1>5. TypeOK
  BY <1>1, <1>2, <1>3, <1>4 DEF TypeOK, P!TypeOK, Scenes
<1>6. JobsMatch /\ Platform /\ OneCall /\ OnlyQuit /\ Awake
  BY <1>1 DEF JobsMatch, Platform, Quitting, OneCall, OnlyQuit, Awake
<1> QED
  BY <1>1, <1>5, <1>6 DEF IInv, Alone, Front

-----------------------------------------------------------------------------
(* What a job does to the slots.                                           *)

\* Slot s gets job j; the others keep theirs.
Given(s, j) == job'[s] = j /\ \A t \in Slots \ {s} : job'[t] = job[t]

LEMMA Becomes ==
  ASSUME TypeOK, NEW s \in Slots,
         NEW j \in {"off", "pause", "resume", "quitPause"} \cup Drops,
         Take(s, j) \/ Become(s, j)
  PROVE  /\ job' \in [Slots -> {"off", "pause", "resume", "quitPause"} \cup Drops]
         /\ Given(s, j)
BY DEF TypeOK, Take, Become, Given

\* A call ends: the phase is paused or up.
LEMMA CallEnded ==
  ASSUME TypeOK, NEW s \in Slots, P!Ends(s)
  PROVE  /\ P!TypeOK' /\ op'[s] = "off" /\ \A t \in Slots \ {s} : op'[t] = op[t]
         /\ op[s] # "off" /\ live' = live
         /\ \/ op[s] = "bg" /\ phase' \in {"paused", "up"}
            \/ op[s] = "fg" /\ phase' = "up"
<1>1. /\ op \in [Slots -> {"off", "bg", "fg"}] /\ live \in BOOLEAN /\ trapped \in BOOLEAN
  BY DEF TypeOK, P!TypeOK
<1>2. /\ op' = [op EXCEPT ![s] = "off"] /\ live' = live /\ trapped' = trapped
      /\ \/ op[s] = "bg" /\ phase' \in {"paused", "up"}
         \/ op[s] = "fg" /\ phase' = "up"
  BY DEF P!Ends, P!BackgroundEnds, P!ForegroundEnds
<1>3. /\ op' \in [Slots -> {"off", "bg", "fg"}]
      /\ op'[s] = "off" /\ \A t \in Slots \ {s} : op'[t] = op[t]
  BY <1>1, <1>2
<1>4. phase' \in {"up", "pausing", "paused", "failed"}
  BY <1>2
<1>5. P!TypeOK'
  BY <1>1, <1>2, <1>3, <1>4 DEF P!TypeOK
<1> QED
  BY <1>2, <1>3, <1>5

Jobs == {"off", "pause", "resume", "quitPause"} \cup Drops

\* What the type invariant says, one variable at a time.
LEMMA Types ==
  TypeOK <=> /\ phase \in {"up", "pausing", "paused", "failed"}
             /\ op \in [Slots -> {"off", "bg", "fg"}]
             /\ live \in BOOLEAN /\ trapped \in BOOLEAN
             /\ job \in [Slots -> Jobs]
             /\ scene \in Scenes /\ seen \in [Windows -> Scenes]
             /\ shares \in BOOLEAN /\ quit \in {"no", "later", "replied", "now"}
             /\ mac \in BOOLEAN /\ twice \in BOOLEAN /\ overtaken \in BOOLEAN
BY DEF TypeOK, P!TypeOK, Jobs

\* A slot whose job has no call in flight has none.
LEMMA NoCall ==
  ASSUME IInv, NEW s \in Slots, job[s] \in {"off"} \cup Drops
  PROVE  op[s] = "off"
<1>1. op[s] \in {"off", "bg", "fg"}
  BY DEF IInv, TypeOK, P!TypeOK
<1> QED
  BY <1>1 DEF IInv, JobsMatch, Drops

\* A machine that can be suspended has no call in flight.
LEMMA Free ==
  ASSUME IInv, ~twice, P!CanSuspend
  PROVE  \A s \in Slots : op[s] = "off"
BY DEF IInv, Alone, OneCall, P!CanSuspend

-----------------------------------------------------------------------------
(* The steps.                                                              *)

LEMMA SceneKeeps ==
  ASSUME IInv, SceneChanges
  PROVE  IInv'
<1>1. /\ scene' \in Scenes /\ scene' # scene /\ ~mac
      /\ \A w \in Windows : seen[w] = scene
      /\ phase' = phase /\ op' = op /\ live' = live /\ trapped' = trapped
      /\ job' = job /\ seen' = seen /\ shares' = shares /\ quit' = quit
      /\ mac' = mac /\ twice' = twice /\ overtaken' = overtaken
  BY DEF SceneChanges, machine, history
<1>2. TypeOK'
  BY <1>1 DEF IInv, TypeOK, P!TypeOK
<1>3. JobsMatch' /\ Platform'
  BY <1>1 DEF IInv, JobsMatch, Platform, Quitting
<1>4. Alone'
  BY <1>1 DEF IInv, Alone, OneCall, OnlyQuit, Quitting
<1>5. Front'
  <2>1. Fronted' => Windows = {}
    BY <1>1 DEF Fronted
  <2>2. Windows = {} => overtaken \/ Awake
    BY <1>1 DEF IInv, Front, Fronted
  <2> QED
    BY <1>1, <2>1, <2>2 DEF Front, Awake
<1> QED
  BY <1>2, <1>3, <1>4, <1>5 DEF IInv

LEMMA OnBackgroundKeeps ==
  ASSUME IInv, NEW w \in Windows, OnBackground(w)
  PROVE  IInv'
<1>1. /\ scene = "background" /\ seen' = [seen EXCEPT ![w] = scene]
      /\ phase' = phase /\ op' = op /\ live' = live /\ trapped' = trapped
      /\ scene' = scene /\ shares' = shares /\ quit' = quit
      /\ mac' = mac /\ twice' = twice /\ overtaken' = overtaken
  BY DEF OnBackground, machine, history
<1>2. ~mac
  BY <1>1 DEF IInv, Platform
<1>3. PICK s \in Slots : Take(s, "drop")
  BY DEF OnBackground
<1>4. job' \in [Slots -> Jobs] /\ Given(s, "drop") /\ job[s] = "off"
  BY <1>3, Becomes DEF IInv, Drops, Jobs, Take
<1>5. op[s] = "off"
  BY <1>4, NoCall
<1>6. TypeOK'
  <2>1. seen' \in [Windows -> Scenes]
    BY <1>1, Types DEF IInv
  <2> QED
    BY <1>1, <1>4, <2>1, Types DEF IInv, TypeOK, P!TypeOK, Jobs
<1>7. JobsMatch'
  BY <1>1, <1>4, <1>5 DEF IInv, JobsMatch, Given
<1>8. Platform'
  BY <1>1, <1>2, <1>4 DEF IInv, Platform, Quitting, Given
<1>9. Alone'
  BY <1>1, <1>2, <1>4 DEF IInv, Alone, OneCall, OnlyQuit, Quitting, Given, Platform
<1>10. Front'
  BY <1>1 DEF Front, Fronted
<1> QED
  BY <1>6, <1>7, <1>8, <1>9, <1>10 DEF IInv

\* foreground() past its guard, from a handler or from the menu.
LEMMA Resumes ==
  ASSUME IInv, Resume, quit = "no", UNCHANGED <<scene, shares, quit>>,
         seen' \in [Windows -> Scenes], mac => seen' = seen, overtaken' \in BOOLEAN,
         mac \/ overtaken' \/ \A s \in Slots : job[s] = "off"
  PROVE  IInv'
<1>1. PICK s \in Slots : P!Foreground(s) /\ Take(s, "resume")
  BY DEF Resume
<1>2. /\ op[s] = "off" /\ phase = "paused" /\ op' = [op EXCEPT ![s] = "fg"]
      /\ phase' = phase /\ live' = live /\ trapped' = trapped
      /\ mac' = mac /\ twice' = (twice \/ P!InFlight # {})
      /\ scene' = scene /\ shares' = shares /\ quit' = quit
  BY <1>1 DEF Resume, P!Foreground
<1>3. job' \in [Slots -> Jobs] /\ Given(s, "resume") /\ job[s] = "off"
  BY <1>1, Becomes DEF IInv, Jobs, Take
<1>4. /\ op' \in [Slots -> {"off", "bg", "fg"}]
      /\ op'[s] = "fg" /\ \A t \in Slots \ {s} : op'[t] = op[t]
  BY <1>2, Types DEF IInv
<1>5. twice' \in BOOLEAN /\ (~twice' => ~twice /\ \A t \in Slots : op[t] = "off")
  BY <1>2 DEF P!InFlight
<1>6. TypeOK'
  BY <1>2, <1>3, <1>4, <1>5, Types DEF IInv, TypeOK, P!TypeOK, Jobs
<1>7. JobsMatch'
  BY <1>3, <1>4 DEF IInv, JobsMatch, Given
<1>8. Platform'
  BY <1>2, <1>3 DEF IInv, Platform, Quitting, Given
<1>9. Alone'
  BY <1>2, <1>4, <1>5 DEF Alone, OneCall, OnlyQuit
<1>10. Front'
  <2>1. (\A t \in Slots : job[t] = "off") => Awake'
    BY <1>3, <1>4 DEF Awake, Given
  <2> QED
    BY <1>2, <2>1 DEF Front
<1> QED
  BY <1>6, <1>7, <1>8, <1>9, <1>10 DEF IInv

LEMMA OnActiveKeeps ==
  ASSUME IInv, NEW w \in Windows, OnActive(w)
  PROVE  IInv'
<1>1. /\ scene = "active" /\ seen[w] # scene /\ seen' = [seen EXCEPT ![w] = scene]
      /\ overtaken' = (overtaken \/ \E s \in Slots : job[s] # "off")
      /\ scene' = scene /\ shares' = shares /\ quit' = quit
      /\ \/ phase = "paused" /\ Resume
         \/ phase # "paused" /\ UNCHANGED <<machine, job, mac, twice>>
  BY DEF OnActive
<1>2. ~mac /\ quit = "no"
  BY <1>1 DEF IInv, Platform
<1>3. seen' \in [Windows -> Scenes] /\ overtaken' \in BOOLEAN
  BY <1>1, Types DEF IInv
<1>4. overtaken' \/ \A s \in Slots : job[s] = "off"
  BY <1>1
<1>5. CASE phase = "paused" /\ Resume
  BY <1>1, <1>2, <1>3, <1>4, <1>5, Resumes
<1>6. CASE phase # "paused" /\ UNCHANGED <<machine, job, mac, twice>>
  <2>1. /\ phase' = phase /\ op' = op /\ live' = live /\ trapped' = trapped
        /\ job' = job /\ mac' = mac /\ twice' = twice
    BY <1>6 DEF machine
  <2>2. TypeOK'
    BY <1>1, <1>3, <2>1, Types DEF IInv, TypeOK, P!TypeOK, Jobs
  <2>3. JobsMatch' /\ Platform'
    BY <1>1, <1>2, <2>1 DEF IInv, JobsMatch, Platform, Quitting
  <2>4. Alone'
    BY <1>1, <2>1 DEF IInv, Alone, OneCall, OnlyQuit, Quitting
  <2>5. Front'
    <3>1. overtaken' \/ Awake'
      BY <1>4, <1>6, <2>1 DEF Awake
    <3> QED
      BY <3>1 DEF Front
  <2> QED
    BY <2>2, <2>3, <2>4, <2>5 DEF IInv
<1> QED
  BY <1>1, <1>5, <1>6

\* background() past its guard: no other call is in flight.
LEMMA Suspends ==
  ASSUME IInv, NEW s \in Slots, P!Background(s), op[s] = "off"
  PROVE  /\ P!TypeOK' /\ op'[s] = "bg" /\ \A t \in Slots \ {s} : op'[t] = op[t]
         /\ live' = live /\ phase' = "pausing"
         /\ ~twice => OneCall' /\ \A t \in Slots \ {s} : op'[t] = "off"
<1>1. /\ P!CanSuspend /\ phase' = "pausing" /\ op' = [op EXCEPT ![s] = "bg"]
      /\ live' = live /\ trapped' = trapped
  BY DEF P!Background
<1>2. /\ op' \in [Slots -> {"off", "bg", "fg"}]
      /\ op'[s] = "bg" /\ \A t \in Slots \ {s} : op'[t] = op[t]
  BY <1>1, Types DEF IInv
<1>3. P!TypeOK'
  BY <1>1, <1>2, Types DEF IInv, P!TypeOK
<1>4. ~twice => OneCall' /\ \A t \in Slots \ {s} : op'[t] = "off"
  BY <1>1, <1>2, Free DEF OneCall
<1> QED
  BY <1>1, <1>2, <1>3, <1>4

LEMMA MenuKeeps ==
  ASSUME IInv, SuspendMenu \/ ResumeMenu
  PROVE  IInv'
<1>1. /\ mac /\ quit = "no" /\ scene' = scene /\ seen' = seen /\ shares' = shares
      /\ quit' = quit
  BY DEF SuspendMenu, ResumeMenu, MenuFrame
<1>2. CASE ResumeMenu
  <2>1. Resume /\ overtaken' = overtaken
    BY <1>2 DEF ResumeMenu
  <2>2. seen \in [Windows -> Scenes] /\ overtaken \in BOOLEAN
    BY Types DEF IInv
  <2> QED
    BY <1>1, <2>1, <2>2, Resumes
<1>3. CASE SuspendMenu
  <2>1. PICK s \in Slots : P!Background(s) /\ Take(s, "pause")
    BY <1>3 DEF SuspendMenu
  <2>2. mac' = mac /\ twice' = twice /\ overtaken' = overtaken
    BY <1>3 DEF SuspendMenu, history
  <2>3. job' \in [Slots -> Jobs] /\ Given(s, "pause") /\ op[s] = "off"
    BY <2>1, Becomes DEF IInv, Jobs, Take, P!Background
  <2>4. /\ P!TypeOK' /\ op'[s] = "bg" /\ \A t \in Slots \ {s} : op'[t] = op[t]
        /\ ~twice => OneCall'
    BY <2>1, <2>3, Suspends
  <2>5. TypeOK'
    BY <1>1, <2>2, <2>3, <2>4 DEF IInv, TypeOK, Jobs
  <2>6. JobsMatch'
    BY <2>3, <2>4 DEF IInv, JobsMatch, Given
  <2>7. Platform'
    BY <1>1, <2>2, <2>3 DEF IInv, Platform, Quitting, Given
  <2>8. Alone'
    BY <1>1, <2>2, <2>4 DEF Alone, OnlyQuit
  <2>9. Front'
    BY <1>1, <2>2 DEF Front
  <2> QED
    BY <2>5, <2>6, <2>7, <2>8, <2>9 DEF IInv
<1> QED
  BY <1>2, <1>3

LEMMA QuitKeeps ==
  ASSUME IInv, Quit
  PROVE  IInv'
<1>1. /\ mac /\ quit = "no" /\ scene' = scene /\ seen' = seen /\ shares' = shares
      /\ phase' = phase /\ op' = op /\ live' = live /\ trapped' = trapped
      /\ mac' = mac /\ twice' = twice /\ overtaken' = overtaken
  BY DEF Quit, MenuFrame, machine, history
<1>2. Front'
  BY <1>1 DEF Front
<1>3. \A s \in Slots : job[s] \notin Quitting
  BY <1>1 DEF IInv, Platform
<1>4. ASSUME CanSuspend, quit' = "later", NEW s \in Slots, Take(s, "quitDrop")
      PROVE  IInv'
  <2>1. job' \in [Slots -> Jobs] /\ Given(s, "quitDrop") /\ job[s] = "off"
    BY <1>4, Becomes DEF IInv, Drops, Jobs, Take
  <2>2. op[s] = "off"
    BY <2>1, NoCall
  <2>3. TypeOK'
    BY <1>1, <1>4, <2>1 DEF IInv, TypeOK, P!TypeOK, Jobs
  <2>4. JobsMatch'
    BY <1>1, <2>1, <2>2 DEF IInv, JobsMatch, Given
  <2>5. Platform'
    BY <1>1, <1>3, <1>4, <2>1 DEF IInv, Platform, Quitting, Given
  <2>6. Alone'
    BY <1>1, <1>4, Free DEF IInv, Alone, OneCall, OnlyQuit, CanSuspend
  <2> QED
    BY <1>2, <2>3, <2>4, <2>5, <2>6 DEF IInv
<1>5. ASSUME quit' = "now", job' = job
      PROVE  IInv'
  <2>1. TypeOK'
    BY <1>1, <1>5 DEF IInv, TypeOK, P!TypeOK
  <2>2. JobsMatch' /\ Platform'
    BY <1>1, <1>3, <1>5 DEF IInv, JobsMatch, Platform, Quitting
  <2>3. Alone'
    BY <1>1, <1>5 DEF IInv, Alone, OneCall, OnlyQuit
  <2> QED
    BY <1>2, <2>1, <2>2, <2>3 DEF IInv
<1> QED
  BY <1>4, <1>5 DEF Quit

LEMMA CallBackgroundKeeps ==
  ASSUME IInv, NEW s \in Slots, CallBackground(s)
  PROVE  IInv'
<1>1. /\ job[s] \in Drops /\ quit \notin {"replied", "now"}
      /\ scene' = scene /\ seen' = seen /\ shares' = shares
      /\ mac' = mac /\ twice' = twice /\ overtaken' = overtaken
  BY DEF CallBackground, Running, history
<1>2. op[s] = "off"
  BY <1>1, NoCall
<1>3. Front'
  <2>1. ~Awake
    BY <1>1 DEF Awake, Drops
  <2> QED
    BY <1>1, <2>1 DEF IInv, Front, Fronted
<1>4. job[s] = "drop" => ~mac /\ quit = "no"
  BY DEF IInv, Platform
<1>5. job[s] \in {"drop", "quitDrop"}
  BY <1>1 DEF Drops
<1>6. ASSUME P!Background(s), quit' = quit,
             Become(s, IF job[s] = "drop" THEN "pause" ELSE "quitPause")
      PROVE  IInv'
  <2> DEFINE j == IF job[s] = "drop" THEN "pause" ELSE "quitPause"
  <2>1. j \in {"pause", "quitPause"} /\ (j = "pause" <=> job[s] = "drop")
    OBVIOUS
  <2>2. Become(s, j)
    BY <1>6
  <2> HIDE DEF j
  <2>3. job' \in [Slots -> Jobs] /\ Given(s, j)
    BY <2>1, <2>2, Becomes DEF IInv, Jobs
  <2>4. /\ P!TypeOK' /\ op'[s] = "bg" /\ \A t \in Slots \ {s} : op'[t] = op[t]
        /\ ~twice => OneCall' /\ \A t \in Slots \ {s} : op'[t] = "off"
    BY <1>2, <1>6, Suspends
  <2>5. TypeOK'
    BY <1>1, <1>6, <2>3, <2>4 DEF IInv, TypeOK, Jobs
  <2>6. JobsMatch'
    BY <2>1, <2>3, <2>4 DEF IInv, JobsMatch, Given
  <2>7. Platform'
    <3>1. job'[s] \in Quitting <=> job[s] \in Quitting
      BY <1>5, <2>1, <2>3 DEF Given, Quitting
    <3>2. \A t \in Slots : job'[t] \in Quitting <=> job[t] \in Quitting
      BY <2>3, <3>1 DEF Given
    <3>3. \A t \in Slots : job'[t] = "drop" => job[t] = "drop"
      BY <2>1, <2>3 DEF Given
    <3> QED
      BY <1>1, <1>6, <3>2, <3>3 DEF IInv, Platform
  <2>8. Alone'
    <3>1. quit = "later" => job'[s] \in Quitting
      BY <1>4, <1>5, <2>1, <2>3 DEF Given, Quitting
    <3> QED
      BY <1>1, <1>6, <2>4, <3>1 DEF Alone, OnlyQuit
  <2> QED
    BY <1>3, <2>5, <2>6, <2>7, <2>8 DEF IInv
<1>7. ASSUME UNCHANGED machine, Returned(s)
      PROVE  IInv'
  <2>1. /\ phase' = phase /\ op' = op /\ live' = live /\ trapped' = trapped
        /\ Become(s, "off")
        /\ quit' = IF job[s] \in Quitting THEN "replied" ELSE quit
    BY <1>7 DEF machine, Returned, Quitting
  <2>2. job' \in [Slots -> Jobs] /\ Given(s, "off")
    BY <2>1, Becomes DEF IInv, Jobs
  <2>3. TypeOK'
    BY <1>1, <2>1, <2>2 DEF IInv, TypeOK, P!TypeOK, Jobs
  <2>4. JobsMatch'
    BY <1>2, <2>1, <2>2 DEF IInv, JobsMatch, Given
  <2>5. Platform'
    BY <1>1, <1>4, <1>5, <2>1, <2>2 DEF IInv, Platform, Given, Quitting
  <2>6. Alone'
    <3>1. CASE job[s] = "drop"
      BY <1>1, <1>4, <2>1, <3>1 DEF IInv, Alone, OneCall, OnlyQuit, Quitting
    <3>2. CASE job[s] = "quitDrop"
      <4>1. quit' = "replied" /\ quit = "later"
        BY <2>1, <3>2 DEF IInv, Platform, Quitting
      <4>2. ~twice => \A t \in Slots : op[t] = "off"
        BY <1>2, <3>2, <4>1 DEF IInv, Alone, OnlyQuit, Platform, Quitting
      <4> QED
        BY <1>1, <2>1, <4>1, <4>2 DEF Alone, OneCall, OnlyQuit
    <3> QED
      BY <1>5, <3>1, <3>2
  <2> QED
    BY <1>3, <2>3, <2>4, <2>5, <2>6 DEF IInv
<1> QED
  BY <1>6, <1>7 DEF CallBackground

LEMMA CallEndsKeeps ==
  ASSUME IInv, NEW s \in Slots, CallEnds(s)
  PROVE  IInv'
<1>1. /\ quit \notin {"replied", "now"} /\ P!Ends(s) /\ Become(s, "off")
      /\ quit' = IF job[s] \in Quitting THEN "replied" ELSE quit
      /\ scene' = scene /\ seen' = seen /\ shares' = shares
      /\ mac' = mac /\ twice' = twice /\ overtaken' = overtaken
  BY DEF CallEnds, Running, history, Returned, Quitting
<1>2. job' \in [Slots -> Jobs] /\ Given(s, "off")
  BY <1>1, Becomes DEF IInv, Jobs
<1>3. /\ P!TypeOK' /\ op'[s] = "off" /\ \A t \in Slots \ {s} : op'[t] = op[t]
      /\ op[s] # "off" /\ live' = live
      /\ \/ op[s] = "bg" /\ phase' \in {"paused", "up"}
         \/ op[s] = "fg" /\ phase' = "up"
  BY <1>1, CallEnded DEF IInv
<1>4. TypeOK'
  BY <1>1, <1>2, <1>3 DEF IInv, TypeOK, Jobs
<1>5. JobsMatch'
  BY <1>2, <1>3 DEF IInv, JobsMatch, Given
<1>6. Platform'
  BY <1>1, <1>2 DEF IInv, Platform, Given, Quitting
<1>7. Alone'
  <2>1. ~twice => \A t \in Slots : op'[t] = "off"
    BY <1>3 DEF IInv, Alone, OneCall
  <2> QED
    BY <1>1, <2>1 DEF Alone, OneCall, OnlyQuit
<1>8. Front'
  <2>1. Awake => Awake'
    <3> SUFFICES ASSUME Awake
                 PROVE  Awake'
      OBVIOUS
    <3>1. op[s] = "fg"
      BY <1>3 DEF IInv, JobsMatch, Awake
    <3>2. phase' = "up"
      BY <1>3, <3>1
    <3> QED
      BY <1>2, <3>2 DEF Awake, Given
  <2> QED
    BY <1>1, <2>1 DEF IInv, Front, Fronted
<1> QED
  BY <1>4, <1>5, <1>6, <1>7, <1>8 DEF IInv

LEMMA OthersKeep ==
  ASSUME IInv, Unmount \/ SimhExited \/ (\E s \in Slots : Trap(s)) \/ UNCHANGED vars
  PROVE  IInv'
<1>1. /\ job' = job /\ op' = op /\ scene' = scene /\ seen' = seen /\ quit' = quit
      /\ mac' = mac /\ twice' = twice /\ overtaken' = overtaken
      /\ \/ phase' = phase /\ live' = live
         \/ phase' = "failed" /\ live' = FALSE
  BY DEF Unmount, SimhExited, Trap, P!Fail, P!Trap, vars, machine, app, history
<1>2. trapped' \in BOOLEAN /\ shares' \in BOOLEAN
  BY DEF Unmount, SimhExited, Trap, P!Fail, P!Trap, vars, machine, app, history,
         IInv, TypeOK, P!TypeOK
<1>3. TypeOK'
  <2>1. phase' \in {"up", "pausing", "paused", "failed"} /\ live' \in BOOLEAN
    BY <1>1, Types DEF IInv
  <2> QED
    BY <1>1, <1>2, <2>1 DEF IInv, TypeOK, P!TypeOK
<1>4. JobsMatch' /\ Platform'
  BY <1>1 DEF IInv, JobsMatch, Platform, Quitting
<1>5. Alone'
  BY <1>1 DEF IInv, Alone, OneCall, OnlyQuit, Quitting
<1>6. Front'
  BY <1>1 DEF IInv, Front, Fronted, Awake
<1> QED
  BY <1>3, <1>4, <1>5, <1>6 DEF IInv

-----------------------------------------------------------------------------
(* The specification.                                                      *)

LEMMA Invariance == Spec => []IInv
<1>1. Init => IInv
  BY Initially
<1>2. IInv /\ [Next]_vars => IInv'
  BY SceneKeeps, OnBackgroundKeeps, OnActiveKeeps, MenuKeeps, QuitKeeps, CallBackgroundKeeps,
     CallEndsKeeps, OthersKeep DEF Next, Task
<1> QED
  BY <1>1, <1>2, PTL DEF Spec

\* The machine's phase, the callers' tasks and the answer to the quit keep
\* their types, for any number of calls and of windows.
THEOREM TypeCorrect == Spec => []TypeOK
<1>1. IInv => TypeOK
  BY DEF IInv
<1> QED
  BY <1>1, Invariance, PTL

\* applicationShouldTerminate()'s reply is not sent while a call is in flight,
\* unless a second resume was asked for.
THEOREM QuitIsSettled == Spec => []QuitSettled
<1>1. IInv => QuitSettled
  BY DEF IInv, Alone, OnlyQuit, QuitSettled
<1> QED
  BY <1>1, Invariance, PTL

\* An app in front whose handlers have run is not left with a paused machine,
\* unless it came back before one of its own tasks had ended.
THEOREM NotLeftPaused == Spec => []ActiveUnlessOvertaken
<1>1. IInv => ActiveUnlessOvertaken
  <2> SUFFICES ASSUME IInv, ~mac, scene = "active", \A w \in Windows : seen[w] = scene,
                      live, \A s \in Slots : job[s] = "off", ~overtaken
               PROVE  phase # "paused"
    BY DEF ActiveUnlessOvertaken
  <2>1. Fronted
    BY DEF Fronted
  <2>2. Awake
    BY <2>1 DEF IInv, Front
  <2>3. \A s \in Slots : op[s] = "off"
    BY NoCall
  <2> QED
    BY <2>2, <2>3 DEF Awake
<1> QED
  BY <1>1, Invariance, PTL

-----------------------------------------------------------------------------
(* The terminal.                                                           *)

\* The flag is up while a restart() is asleep, and while a terminal that has
\* been on is off.
FlagUp ==
    /\ timers > 0 => stopFlag
    /\ state = "idle" => stopFlag \/ \A t \in Threads : th[t] = "none"

\* Only threads that dial a port nobody listens on pile up.
OneThread ==
    \A t, u \in Live : t = u \/ (~listens /\ th[t] # "loop" /\ th[u] # "loop")

\* What is only in the core is in the hands of a thread that will save it, and
\* a thread that is about to power the core on finds it in the file.
Safe ==
    /\ file => core
    /\ set => file \/ (core /\ \E t \in Threads : th[t] \in {"loop", "exit"})
    /\ set => file \/ \A t \in Threads : th[t] # "new"

TerminalInv == TerminalTypeOK /\ (crossed \/ (FlagUp /\ OneThread /\ Safe))

-----------------------------------------------------------------------------
LEMMA TerminalStarts == TerminalInit => TerminalInv
<1> SUFFICES ASSUME TerminalInit
             PROVE  TerminalTypeOK /\ FlagUp /\ OneThread /\ Safe
  BY DEF TerminalInv
<1>1. TerminalTypeOK
  <2>1. 0 \in 0 .. Clicks
    BY ClicksAssumption
  <2>2. th \in [Threads -> {"none", "new", "dial", "loop", "exit", "gone"}]
    BY DEF TerminalInit
  <2> QED
    BY <2>1, <2>2, Zenon DEF TerminalInit, TerminalTypeOK
<1>2. \A t \in Threads : th[t] = "none"
  BY DEF TerminalInit
<1>3. FlagUp /\ OneThread
  BY <1>2 DEF TerminalInit, FlagUp, OneThread, Live
<1>4. Safe
  BY DEF TerminalInit, Safe
<1> QED
  BY <1>1, <1>3, <1>4

LEMMA TerminalTyped == TerminalTypeOK /\ [TerminalNext]_terminal => TerminalTypeOK'
<1> SUFFICES ASSUME TerminalTypeOK, [TerminalNext]_terminal
             PROVE  TerminalTypeOK'
  OBVIOUS
<1> USE ClicksAssumption DEF TerminalTypeOK
<1>1. CASE Start
  BY <1>1 DEF Start, Started, MainFrame
<1>2. CASE Stop
  BY <1>2 DEF Stop, MainFrame
<1>3. CASE Restart
  BY <1>3 DEF Restart, MainFrame
<1>4. CASE RestartFires
  <2>1. timers' \in 0 .. Clicks
    BY <1>4 DEF RestartFires
  <2>2. crossed' \in BOOLEAN
    BY <1>4 DEF RestartFires, Started
  <2>3. /\ state' = "running" /\ stopFlag' = FALSE
        /\ th' \in [Threads -> {"none", "new", "dial", "loop", "exit", "gone"}]
        /\ line' = line /\ listens' = listens /\ core' = core /\ file' = file /\ set' = set
    BY <1>4 DEF RestartFires, Started, MainFrame
  <2> QED
    BY <2>1, <2>2, <2>3
<1>5. ASSUME NEW t \in Threads, Thread(t) \/ Setup(t) \/ PeriodicSave(t)
      PROVE  TerminalTypeOK'
  BY <1>5 DEF Thread, PowerOn, Dial, LeaveLoop, Exit, Setup, PeriodicSave, Goto, ThreadFrame
<1>6. CASE LineCloses \/ SimhDies
  BY <1>6 DEF LineCloses, SimhDies
<1>7. CASE UNCHANGED terminal
  BY <1>7 DEF terminal
<1> QED
  BY <1>1, <1>2, <1>3, <1>4, <1>5, <1>6, <1>7 DEF TerminalNext

\* A thread is only started, with the flag up, over threads that dial a dead
\* port: the others have tested the flag and are gone.
LEMMA StartedAlone ==
  ASSUME TerminalTypeOK, Settled, Started, MainFrame, FlagUp, OneThread, Safe,
         state = "idle" \/ timers > 0, timers' = 0
  PROVE  FlagUp' /\ OneThread' /\ Safe'
<1>1. \A t \in Threads : th[t] \in {"none", "dial", "gone"} /\ (th[t] = "dial" => ~listens)
  BY DEF Settled, FlagUp, TerminalTypeOK
<1>2. PICK n \in Threads : th[n] = "none" /\ th' = [th EXCEPT ![n] = "new"]
  BY DEF Started
<1>3. th'[n] = "new" /\ \A t \in Threads \ {n} : th'[t] = th[t]
  BY <1>2 DEF TerminalTypeOK
<1>4. UNCHANGED <<listens, core, file, set>> /\ state' = "running" /\ timers' = 0
  BY DEF MainFrame, Started
<1>5. FlagUp'
  BY <1>4 DEF FlagUp
<1>6. OneThread'
  BY <1>1, <1>3, <1>4 DEF OneThread, Live
<1>7. Safe'
  BY <1>1, <1>4 DEF Safe
<1> QED
  BY <1>5, <1>6, <1>7

LEMMA TerminalInductive == TerminalInv /\ [TerminalNext]_terminal => TerminalInv'
<1> SUFFICES ASSUME TerminalInv, [TerminalNext]_terminal
             PROVE  TerminalInv'
  OBVIOUS
<1>1. TerminalTypeOK /\ TerminalTypeOK'
  BY TerminalTyped DEF TerminalInv
<1>2. crossed => crossed'
  BY DEF TerminalNext, terminal, Start, Started, Stop, Restart, RestartFires, MainFrame, Thread, PowerOn,
         Dial, LeaveLoop, Exit, Setup, PeriodicSave, ThreadFrame, LineCloses, SimhDies
<1> SUFFICES ASSUME ~crossed, ~crossed'
             PROVE  FlagUp' /\ OneThread' /\ Safe'
  BY <1>1, <1>2 DEF TerminalInv
<1>3. FlagUp /\ OneThread /\ Safe
  BY DEF TerminalInv
<1>4. CASE Start
  <2>1. timers' = 0
    <3>1. ~(timers' > 0)
      BY <1>4 DEF Start, Started
    <3>2. timers' \in 0 .. Clicks
      BY <1>1 DEF TerminalTypeOK
    <3> QED
      BY <3>1, <3>2, ClicksAssumption
  <2> QED
    BY <1>1, <1>3, <1>4, <2>1, StartedAlone DEF Start
<1>5. CASE RestartFires
  <2>1. timers' = 0
    <3>1. ~(timers' > 0)
      BY <1>5 DEF RestartFires, Started
    <3>2. timers' \in 0 .. Clicks
      BY <1>1 DEF TerminalTypeOK
    <3> QED
      BY <3>1, <3>2, ClicksAssumption
  <2> QED
    BY <1>1, <1>3, <1>5, <2>1, StartedAlone DEF RestartFires
<1>6. CASE Stop \/ Restart
  BY <1>1, <1>3, <1>6 DEF Stop, Restart, MainFrame, FlagUp, OneThread, Safe, Live, TerminalTypeOK
<1>7. ASSUME NEW t \in Threads, PowerOn(t)
      PROVE  FlagUp' /\ OneThread' /\ Safe'
  <2>1. /\ th[t] = "new" /\ th'[t] = "dial" /\ \A u \in Threads \ {t} : th'[u] = th[u]
        /\ core' = file /\ UNCHANGED <<state, timers, set, stopFlag, listens, file>>
    BY <1>1, <1>7 DEF PowerOn, Goto, ThreadFrame, TerminalTypeOK
  <2>2. FlagUp'
    BY <1>3, <2>1 DEF FlagUp
  <2>3. OneThread'
    BY <1>3, <2>1 DEF OneThread, Live
  <2>4. Safe'
    BY <1>3, <2>1 DEF Safe
  <2> QED
    BY <2>2, <2>3, <2>4
<1>8. ASSUME NEW t \in Threads, Dial(t)
      PROVE  FlagUp' /\ OneThread' /\ Safe'
  <2>1. /\ th[t] = "dial" /\ \A u \in Threads \ {t} : th'[u] = th[u]
        /\ (th'[t] = "loop" /\ listens) \/ th'[t] = "exit"
        /\ UNCHANGED <<state, timers, set, stopFlag, listens, core, file>>
    BY <1>1, <1>8 DEF Dial, Goto, ThreadFrame, TerminalTypeOK
  <2>2. FlagUp'
    BY <1>3, <2>1 DEF FlagUp
  <2>3. OneThread'
    BY <1>3, <2>1 DEF OneThread, Live
  <2>4. Safe'
    BY <1>3, <2>1 DEF Safe
  <2> QED
    BY <2>2, <2>3, <2>4
<1>9. ASSUME NEW t \in Threads, LeaveLoop(t)
      PROVE  FlagUp' /\ OneThread' /\ Safe'
  <2>1. /\ th[t] = "loop" /\ th'[t] = "exit" /\ \A u \in Threads \ {t} : th'[u] = th[u]
        /\ UNCHANGED <<state, timers, set, stopFlag, listens, core, file>>
    BY <1>1, <1>9 DEF LeaveLoop, Goto, ThreadFrame, TerminalTypeOK
  <2>2. FlagUp'
    BY <1>3, <2>1 DEF FlagUp
  <2>3. OneThread'
    BY <1>3, <2>1 DEF OneThread, Live
  <2>4. Safe'
    BY <1>3, <2>1 DEF Safe
  <2> QED
    BY <2>2, <2>3, <2>4
<1>10. ASSUME NEW t \in Threads, Exit(t)
       PROVE  FlagUp' /\ OneThread' /\ Safe'
  <2>1. /\ th[t] = "exit" /\ th'[t] = "gone" /\ \A u \in Threads \ {t} : th'[u] = th[u]
        /\ file' = core /\ UNCHANGED <<state, timers, set, stopFlag, listens, core>>
    BY <1>1, <1>10 DEF Exit, Goto, ThreadFrame, TerminalTypeOK
  <2>2. FlagUp'
    BY <1>3, <2>1 DEF FlagUp
  <2>3. OneThread'
    BY <1>3, <2>1 DEF OneThread, Live
  <2>4. Safe'
    BY <1>3, <2>1 DEF Safe
  <2> QED
    BY <2>2, <2>3, <2>4
<1>11. ASSUME NEW t \in Threads, Setup(t) \/ PeriodicSave(t)
       PROVE  FlagUp' /\ OneThread' /\ Safe'
  <2>1. /\ th[t] = "loop" /\ UNCHANGED <<state, timers, stopFlag, th, listens>>
        /\ \/ core' = TRUE /\ set' = TRUE /\ file' = file
           \/ file' = core /\ core' = core /\ set' = set
    BY <1>11 DEF Setup, PeriodicSave, ThreadFrame
  <2>2. FlagUp' /\ OneThread'
    BY <1>3, <2>1 DEF FlagUp, OneThread, Live
  <2>3. ASSUME file' = core, core' = core, set' = set
        PROVE  Safe'
    <3>1. th' = th
      BY <2>1
    <3> QED
      BY <1>3, <2>3, <3>1, Zenon DEF Safe
  <2>4. ASSUME core' = TRUE, set' = TRUE, file' = file
        PROVE  Safe'
    <3>1. \A u \in Threads : th[u] # "new"
      BY <1>3, <2>1 DEF OneThread, Live
    <3> QED
      <4>1. th' = th /\ th[t] \in {"loop", "exit"}
        BY <2>1
      <4> QED
        BY <2>4, <3>1, <4>1 DEF Safe
  <2> QED
    BY <2>1, <2>2, <2>3, <2>4
<1>12. CASE LineCloses \/ SimhDies
  BY <1>3, <1>12 DEF LineCloses, SimhDies, FlagUp, OneThread, Safe, Live
<1>13. CASE UNCHANGED terminal
  BY <1>3, <1>13 DEF terminal, FlagUp, OneThread, Safe, Live
<1> QED
  BY <1>4, <1>5, <1>6, <1>7, <1>8, <1>9, <1>10, <1>11, <1>12, <1>13 DEF TerminalNext, Thread

LEMMA TerminalInvariance == TerminalSpec => []TerminalInv
<1>1. TerminalInit => TerminalInv
  BY TerminalStarts
<1>2. TerminalInv /\ [TerminalNext]_terminal => TerminalInv'
  BY TerminalInductive
<1> QED
  BY <1>1, <1>2, PTL DEF TerminalSpec

\* Terminal5620 is only ever idle or running, and its threads go through
\* threadMain() in order, for any number of them.
THEOREM TerminalTypeCorrect == TerminalSpec => []TerminalTypeOK
<1>1. TerminalInv => TerminalTypeOK
  BY DEF TerminalInv
<1> QED
  BY <1>1, TerminalInvariance, PTL

\* Two threads never step the process's one dmd_core, unless start() found a
\* restart() asleep.
THEOREM OneDmd == TerminalSpec => []OneDmdUncrossed
<1>1. TerminalInv => OneDmdUncrossed
  BY DEF TerminalInv, OneDmdUncrossed, OneThread, Active, Live
<1> QED
  BY <1>1, TerminalInvariance, PTL

\* The setting made in the terminal is in the NVRAM file or in the core of a
\* thread that will write it there, under the same condition.
THEOREM SettingsAreKept == TerminalSpec => []SettingsKept
<1>1. TerminalInv => SettingsKept
  BY DEF TerminalInv, SettingsKept, Safe, Live
<1> QED
  BY <1>1, TerminalInvariance, PTL
=============================================================================
