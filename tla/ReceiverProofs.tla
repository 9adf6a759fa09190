-------------------------- MODULE ReceiverProofs ---------------------------
(***************************************************************************)
(* What Receiver promises, for every set of trackers and every chunk they  *)
(* may send: TcpServer and Application keep their books of the sessions    *)
(* alike, _authorizedSession points at a session that is there and logged  *)
(* in, and the log of the tracker ends in "connect" exactly while one is.  *)
(*                                                                         *)
(* Booked is what holds at every moment, even between two statements of a  *)
(* command; Known and BeingRead are broken while a handler runs and hold   *)
(* again when it returns.  A chunk is any sequence of commands, each of    *)
(* which may close any session, so processData is a loop whose every turn  *)
(* keeps Served (ProcessCommandServes), and LoopTheorems makes of it that  *)
(* the loop does (ProcessDataServes).                                      *)
(***************************************************************************)
EXTENDS Receiver, LoopTheorems, TLAPS

----------------------------------------------------------------------------
(* The invariant *)

SessionStates ==
    [active : BOOLEAN, open : BOOLEAN, read : IoStates, write : IoStates, queue : Nat]

Worlds ==
    [sessions : [Sessions -> SessionStates], members : SUBSET Sessions,
     devices : [Sessions -> Imeis], authorized : Sessions \union {NoSession},
     event : {"none", "connect", "disconnect"}]

\* A session, and what TcpServer and Application keep for it.
Fits(w, t) ==
    /\ w.sessions[t].active <=> t \in w.members
    /\ w.sessions[t].active <=> w.devices[t] # "absent"
    /\ w.sessions[t].active <=> w.sessions[t].open
    /\ w.sessions[t].write # "idle" => w.sessions[t].queue > 0

\* The session that is authorized has logged in.
Known(w, t) == w.authorized = t => w.devices[t] \in {"own", "other"}

\* Not while a handler of its read runs.
BeingRead(w, t) == w.sessions[t].active => w.sessions[t].read # "idle"

\* What holds in the middle of a command, too.
Booked(w) ==
    /\ w \in Worlds
    /\ \A t \in Sessions : Fits(w, t)
    /\ \A t \in Sessions : w.authorized = t => w.devices[t] # "absent"
    /\ w.event = "connect" <=> w.authorized # NoSession

\* What holds between two commands that session s has sent.
Served(w, s) ==
    /\ Booked(w)
    /\ \A t \in Sessions : Known(w, t)
    /\ \A t \in Sessions \ {s} : BeingRead(w, t)

Sound(w) ==
    /\ Booked(w)
    /\ \A t \in Sessions : Known(w, t) /\ BeingRead(w, t)

\* Nobody has connected before the server listens.
Untouched ==
    /\ sessions = [s \in Sessions |-> NewSession]
    /\ devices = [s \in Sessions |-> "absent"]
    /\ authorized = NoSession

IInv ==
    /\ acceptor \in {"closed", "open", "listening"}
    /\ portTaken \in BOOLEAN /\ rebinding \in BOOLEAN
    /\ Sound(World)
    /\ Listening => ~rebinding
    /\ ~Listening => Untouched

----------------------------------------------------------------------------
(* The methods *)

\* An operation of session s has made v of w, and left the other sessions alone.
Only(w, v, s) ==
    /\ v \in Worlds
    /\ \A t \in Sessions \ {s} :
          /\ v.sessions[t] = w.sessions[t] /\ v.devices[t] = w.devices[t]
          /\ t \in v.members <=> t \in w.members

\* A session's state is set.
WithSession(w, s, x) == [w EXCEPT !.sessions[s] = x]

LEMMA SessionSet ==
    ASSUME NEW w \in Worlds, NEW s \in Sessions, NEW x \in SessionStates
    PROVE  /\ Only(w, WithSession(w, s, x), s) /\ WithSession(w, s, x).sessions[s] = x
           /\ WithSession(w, s, x).members = w.members
           /\ WithSession(w, s, x).devices = w.devices
           /\ WithSession(w, s, x).authorized = w.authorized
           /\ WithSession(w, s, x).event = w.event
BY DEF Worlds, Only, WithSession

\* The fields of a world.
LEMMA Fields ==
    ASSUME NEW w \in Worlds, NEW s \in Sessions
    PROVE  /\ w.sessions \in [Sessions -> SessionStates] /\ w.sessions[s] \in SessionStates
           /\ w.sessions[s].active \in BOOLEAN /\ w.sessions[s].open \in BOOLEAN
           /\ w.sessions[s].read \in IoStates /\ w.sessions[s].write \in IoStates
           /\ w.sessions[s].queue \in Nat
           /\ w.members \subseteq Sessions /\ w.devices \in [Sessions -> Imeis]
           /\ w.authorized \in Sessions \union {NoSession}
           /\ w.event \in {"none", "connect", "disconnect"}
BY DEF Worlds, SessionStates

\* Booked is a matter of the session an operation is about.
LEMMA BookedAgain ==
    ASSUME NEW w, Booked(w), NEW s \in Sessions, NEW v, Only(w, v, s), Fits(v, s),
           v.authorized = s => v.devices[s] # "absent",
           v.event = "connect" <=> v.authorized # NoSession,
           v.authorized \in {w.authorized, s, NoSession}
    PROVE  Booked(v)
<1>1. ASSUME NEW t \in Sessions PROVE Fits(v, t) /\ (v.authorized = t => v.devices[t] # "absent")
  <2>1. CASE t = s
    BY <2>1
  <2>2. CASE t # s
    <3>1. /\ v.sessions[t] = w.sessions[t] /\ v.devices[t] = w.devices[t]
          /\ t \in v.members <=> t \in w.members
      BY <2>2 DEF Only
    <3>2. v.authorized = t => w.authorized = t
      BY <2>2, SessionsAssumption
    <3> QED
      BY <3>1, <3>2 DEF Booked, Fits
  <2> QED
    BY <2>1, <2>2
<1> QED
  BY <1>1 DEF Booked, Only

\* send() queues, and starts to write what is first in the queue.
LEMMA SendFields ==
    ASSUME NEW w, Booked(w), NEW s \in Sessions
    PROVE  /\ Booked(Send(w, s)) /\ Only(w, Send(w, s), s)
           /\ Send(w, s).devices = w.devices /\ Send(w, s).authorized = w.authorized
           /\ Send(w, s).sessions[s].read = w.sessions[s].read
           /\ Send(w, s).sessions[s].active = w.sessions[s].active
<1> DEFINE session == w.sessions[s]
           first == IF session.queue = 0 THEN FirstState(session) ELSE session.write
           x == [session EXCEPT !.queue = @ + 1, !.write = first]
           v == Send(w, s)
<1>1. w \in Worlds /\ session \in SessionStates
  BY Fields DEF Booked
<1>2. CASE ~session.open
  BY <1>1, <1>2 DEF Send, Only
<1>3. CASE session.open
  <2>1. v = WithSession(w, s, x)
    BY <1>1, <1>3 DEF Send, WithSession, Worlds, SessionStates
  <2>2. /\ x \in SessionStates /\ x.read = session.read /\ x.active = session.active
        /\ x.open = session.open /\ x.queue > 0
    <3>1. first \in IoStates
      BY <1>1 DEF SessionStates, FirstState, IoStates
    <3>2. session.queue \in Nat /\ session.queue + 1 \in Nat /\ session.queue + 1 > 0
      BY <1>1 DEF SessionStates
    <3> HIDE DEF first
    <3> QED
      BY <1>1, <3>1, <3>2 DEF SessionStates
  <2> HIDE DEF v, x
  <2>3. /\ Only(w, v, s) /\ v.sessions[s] = x
        /\ v.members = w.members /\ v.devices = w.devices
        /\ v.authorized = w.authorized /\ v.event = w.event
    BY <1>1, <2>1, <2>2, SessionSet
  <2>4. Fits(v, s)
    BY <2>2, <2>3 DEF Booked, Fits
  <2>5. Booked(v)
    BY <2>3, <2>4, BookedAgain DEF Booked
  <2> QED
    BY <2>2, <2>3, <2>5 DEF v
<1> QED
  BY <1>2, <1>3

\* close() leaves nothing of the session in the books.
LEMMA CloseFields ==
    ASSUME NEW w, Booked(w), NEW s \in Sessions
    PROVE  /\ Booked(Close(w, s)) /\ Only(w, Close(w, s), s)
           /\ ~Close(w, s).sessions[s].active /\ Close(w, s).authorized # s
           /\ Close(w, s).devices[s] = "absent"
           /\ Close(w, s).authorized \in {w.authorized, NoSession}
<1> DEFINE d == SessionDisconnect(w, s)
           session == w.sessions[s]
           x == Closed(session)
           v == Close(w, s)
<1>1. w \in Worlds /\ session \in SessionStates /\ Fits(w, s) /\ NoSession # s
  BY Fields, SessionsAssumption DEF Booked
<1>2. /\ d \in Worlds /\ d.sessions = w.sessions /\ d.members = w.members
      /\ d.devices[s] = "absent" /\ \A t \in Sessions \ {s} : d.devices[t] = w.devices[t]
      /\ d.authorized = IF w.authorized = s THEN NoSession ELSE w.authorized
      /\ d.event = IF w.authorized = s THEN "disconnect" ELSE w.event
  <2>1. w.authorized = s => w.devices[s] # "absent"
    BY DEF Booked
  <2>2. session.active <=> w.devices[s] # "absent"
    BY <1>1 DEF Fits
  <2>3. d = IF w.devices[s] = "absent" THEN w
            ELSE IF w.authorized = s
            THEN [w EXCEPT !.devices[s] = "absent", !.authorized = NoSession,
                           !.event = "disconnect"]
            ELSE [w EXCEPT !.devices[s] = "absent"]
    BY <2>2 DEF SessionDisconnect, EraseDevice
  <2> HIDE DEF d
  <2> QED
    BY <1>1, <2>1, <2>3 DEF Worlds, Imeis
<1> HIDE DEF d
<1>3. /\ v = [d EXCEPT !.members = @ \ {s}, !.sessions[s] = x]
  <2>1. v = Cleanup(d, s)
    BY DEF Close, d
  <2> QED
    BY <1>2, <2>1 DEF Cleanup
<1>4. /\ x \in SessionStates /\ ~x.active /\ ~x.open /\ x.queue = session.queue
      /\ x.write # "idle" => session.write # "idle"
  BY <1>1 DEF SessionStates, Closed, Broken, IoStates
<1> HIDE DEF v, x
<1>5. /\ v \in Worlds /\ v.sessions[s] = x /\ s \notin v.members
      /\ v.devices = d.devices /\ v.authorized = d.authorized /\ v.event = d.event
      /\ \A t \in Sessions \ {s} : v.sessions[t] = d.sessions[t]
                                   /\ (t \in v.members <=> t \in d.members)
  BY <1>2, <1>3, <1>4 DEF Worlds
<1>6. Only(w, v, s)
  BY <1>2, <1>5 DEF Only
<1>7. Fits(v, s)
  BY <1>1, <1>2, <1>4, <1>5 DEF Fits
<1>8. /\ v.authorized # s /\ v.authorized \in {w.authorized, NoSession}
      /\ v.event = "connect" <=> v.authorized # NoSession
  BY <1>1, <1>2, <1>5 DEF Booked
<1>9. Booked(v)
  BY <1>6, <1>7, <1>8, BookedAgain
<1> QED
  BY <1>2, <1>4, <1>5, <1>6, <1>8, <1>9 DEF v

----------------------------------------------------------------------------
(* Device::processData *)

\* commandLogon: the session whose Device has the imei of the settings takes over.
LEMMA LogonFields ==
    ASSUME NEW w, Booked(w), NEW s \in Sessions, w.devices[s] # "absent",
           NEW imei \in {"own", "other", "none"}
    PROVE  /\ Booked(Logon(w, s, imei)) /\ Only(w, Logon(w, s, imei), s)
           /\ Logon(w, s, imei).devices[s] = imei
           /\ Logon(w, s, imei).sessions[s].read = w.sessions[s].read
           /\ Logon(w, s, imei).authorized = IF imei = "own" THEN s ELSE w.authorized
<1> DEFINE known == [w EXCEPT !.devices[s] = imei]
           taken == [known EXCEPT !.authorized = s, !.event = "connect"]
           before == IF imei = "own" THEN taken ELSE known
           v == Logon(w, s, imei)
<1>1. w \in Worlds /\ NoSession # s /\ Fits(w, s)
  BY SessionsAssumption DEF Booked
<1>2. /\ known \in Worlds /\ known.devices[s] = imei
      /\ known.sessions = w.sessions /\ known.members = w.members
      /\ known.authorized = w.authorized /\ known.event = w.event
      /\ \A t \in Sessions \ {s} : known.devices[t] = w.devices[t]
  BY <1>1 DEF Worlds, Imeis
<1> HIDE DEF known
<1>3. /\ taken \in Worlds /\ taken.devices = known.devices
      /\ taken.sessions = known.sessions /\ taken.members = known.members
      /\ taken.authorized = s /\ taken.event = "connect"
  BY <1>2 DEF Worlds
<1> HIDE DEF taken
<1>4. /\ before \in Worlds /\ before.devices[s] = imei
      /\ before.sessions = w.sessions /\ before.members = w.members
      /\ \A t \in Sessions \ {s} : before.devices[t] = w.devices[t]
      /\ before.authorized = (IF imei = "own" THEN s ELSE w.authorized)
      /\ before.event = (IF imei = "own" THEN "connect" ELSE w.event)
  BY <1>2, <1>3
<1>5. v = IF imei = "own" THEN Send(before, s) ELSE before
  BY DEF Logon, known, taken
<1> HIDE DEF before, v
<1>6. Only(w, before, s)
  BY <1>4 DEF Only
<1>7. Booked(before)
  <2>1. Fits(before, s)
    BY <1>1, <1>4 DEF Fits
  <2>2. before.event = "connect" <=> before.authorized # NoSession
    BY <1>1, <1>4 DEF Booked
  <2>3. before.authorized \in {w.authorized, s, NoSession} /\ before.devices[s] # "absent"
    BY <1>4
  <2> QED
    BY <1>6, <2>1, <2>2, <2>3, BookedAgain
<1>8. CASE imei = "own"
  <2>1. /\ Booked(v) /\ Only(before, v, s) /\ v.devices = before.devices
        /\ v.authorized = before.authorized /\ v.sessions[s].read = before.sessions[s].read
    BY <1>5, <1>7, <1>8, SendFields
  <2>2. Only(w, v, s)
    BY <1>6, <2>1 DEF Only
  <2> QED
    BY <1>4, <1>8, <2>1, <2>2 DEF v
<1>9. CASE imei # "own"
  BY <1>4, <1>5, <1>6, <1>7, <1>9 DEF v
<1> QED
  BY <1>8, <1>9

LEMMA AfterCommandFields ==
    ASSUME NEW w, Booked(w), NEW s \in Sessions, w.devices[s] # "absent", NEW command \in Commands
    PROVE  /\ Booked(AfterCommand(w, s, command)) /\ Only(w, AfterCommand(w, s, command), s)
           /\ AfterCommand(w, s, command).devices[s] # "absent"
           /\ AfterCommand(w, s, command).sessions[s].read = w.sessions[s].read
           /\ AfterCommand(w, s, command).authorized \in {w.authorized, s}
<1> DEFINE v == AfterCommand(w, s, command)
<1>1. CASE command \in {"login", "loginOther", "loginBad"}
  <2>1. PICK imei \in {"own", "other", "none"} : v = Logon(w, s, imei)
    BY <1>1 DEF AfterCommand
  <2> HIDE DEF v
  <2>2. /\ Booked(v) /\ Only(w, v, s) /\ v.devices[s] = imei
        /\ v.sessions[s].read = w.sessions[s].read
        /\ v.authorized = IF imei = "own" THEN s ELSE w.authorized
    BY <2>1, LogonFields
  <2> QED
    BY <2>2 DEF v
<1>2. CASE command = "heartbeat" /\ w.authorized = s
  <2>1. v = Send(w, s)
    BY <1>2 DEF AfterCommand
  <2> QED
    BY <2>1, SendFields
<1>3. CASE ~(command \in {"login", "loginOther", "loginBad"})
           /\ ~(command = "heartbeat" /\ w.authorized = s)
  <2>1. v = w
    BY <1>3 DEF AfterCommand
  <2> QED
    BY <2>1 DEF Only, Booked
<1> QED
  BY <1>1, <1>2, <1>3

\* A command is obeyed, or its session is closed.
LEMMA ProcessCommandServes ==
    ASSUME NEW s \in Sessions, NEW w, Served(w, s), w.devices[s] # "absent", NEW command \in Commands
    PROVE  Served(ProcessCommand(w, s, command), s)
<1> DEFINE after == AfterCommand(w, s, command)
           v == ProcessCommand(w, s, command)
<1>1. /\ Booked(after) /\ Only(w, after, s) /\ after.devices[s] # "absent"
      /\ after.authorized \in {w.authorized, s}
  BY AfterCommandFields DEF Served
<1>2. v = IF Rejected(after, s, command) THEN Close(after, s) ELSE after
  BY DEF ProcessCommand
<1> HIDE DEF after, v
<1>3. \A t \in Sessions \ {s} : Known(after, t) /\ BeingRead(after, t)
  BY <1>1 DEF Served, Only, Known, BeingRead
<1>4. CASE Rejected(after, s, command)
  <2>1. /\ Booked(v) /\ Only(after, v, s) /\ v.authorized # s
        /\ v.authorized \in {after.authorized, NoSession}
    BY <1>1, <1>2, <1>4, CloseFields
  <2>2. \A t \in Sessions \ {s} : Known(v, t) /\ BeingRead(v, t)
    BY <1>3, <2>1, SessionsAssumption DEF Only, Known, BeingRead
  <2>3. Known(v, s)
    BY <2>1 DEF Known
  <2>4. Served(v, s)
    BY <2>1, <2>2, <2>3 DEF Served
  <2> QED
    BY <2>4 DEF v
<1>5. CASE ~Rejected(after, s, command)
  <2>1. after.devices[s] \in {"own", "other"}
    <3>1. after.devices[s] \in Imeis
      BY <1>1, Fields DEF Booked
    <3> QED
      BY <1>1, <1>5, <3>1 DEF Rejected, Imeis
  <2>2. Served(v, s)
    BY <1>1, <1>2, <1>3, <1>5, <2>1 DEF Served, Known
  <2> QED
    BY <2>2 DEF v
<1> QED
  BY <1>4, <1>5

\* A turn of the loop, all turns as ProcessData defines them, and what these
\* should be.
Turned(v, s, command) ==
    IF v.devices[s] = "absent" THEN v ELSE ProcessCommand(v, s, command)

Turns(w, s, chunk) ==
    LET after[turn \in 0 .. Len(chunk)] ==
            IF turn = 0 THEN w
            ELSE LET v == after[turn - 1]
                 IN  IF v.devices[s] = "absent" THEN v ELSE ProcessCommand(v, s, chunk[turn])
    IN  after

AreTurns(f, w, s, chunk) ==
    f[0] = w /\ \A i \in 1 .. Len(chunk) : f[i] = Turned(f[i - 1], s, chunk[i])

LEMMA TurnsOfProcessData ==
    ASSUME NEW s, NEW chunk, Len(chunk) \in Nat, NEW W, NEW w \in W,
           \A v \in W : \A i \in 1 .. Len(chunk) : Turned(v, s, chunk[i]) \in W
    PROVE  AreTurns(Turns(w, s, chunk), w, s, chunk)
<1> DEFINE n == Len(chunk)
           turns == [i \in 1 .. n |-> [v \in W |-> Turned(v, s, chunk[i])]]
           run == Turns(w, s, chunk)
<1> HIDE DEF n
<1>0. n \in Nat
  BY DEF n
<1>1. PICK f \in [0 .. n -> W] : IsRun(f, n, w, turns)
  <2>1. turns \in [1 .. n -> [W -> W]]
    BY DEF n
  <2> HIDE DEF turns, run
  <2> QED
    BY <1>0, <2>1, TurnsExist
<1>2. f = [i \in 0 .. n |-> IF i = 0 THEN w
                            ELSE LET v == f[i - 1]
                                 IN  IF v.devices[s] = "absent" THEN v
                                     ELSE ProcessCommand(v, s, chunk[i])]
  <2>1. ASSUME NEW i \in 0 .. n, i # 0
        PROVE  f[i] = Turned(f[i - 1], s, chunk[i])
    <3>1. i \in 1 .. n /\ i - 1 \in 0 .. n
      BY <1>0, <2>1
    <3> QED
      BY <1>1, <3>1 DEF IsRun
  <2>2. \A i \in 0 .. n : f[i] = IF i = 0 THEN w ELSE Turned(f[i - 1], s, chunk[i])
    <3> HIDE DEF turns
    <3> QED
      BY <1>1, <2>1 DEF IsRun
  <2> HIDE DEF turns
  <2> QED
    BY <2>2 DEF Turned
<1> HIDE DEF turns
<1>3. run = [i \in 0 .. n |-> IF i = 0 THEN w
                              ELSE LET v == run[i - 1]
                                   IN  IF v.devices[s] = "absent" THEN v
                                       ELSE ProcessCommand(v, s, chunk[i])]
  BY <1>2, Zenon DEF Turns, n
<1> HIDE DEF run
<1>4. \A i \in 0 .. n : run[i] = IF i = 0 THEN w ELSE Turned(run[i - 1], s, chunk[i])
  BY <1>3 DEF Turned
<1>5. 0 \in 0 .. n /\ \A i \in 1 .. n : i \in 0 .. n /\ i # 0
  BY <1>0
<1>6. AreTurns(run, w, s, chunk)
  BY <1>4, <1>5 DEF AreTurns, n
<1> QED
  BY <1>6 DEF run

LEMMA ProcessDataServes ==
    ASSUME NEW s \in Sessions, NEW w, Served(w, s), NEW chunk \in Chunks
    PROVE  Served(ProcessData(w, s, chunk), s)
<1> DEFINE W == {v \in Worlds : Served(v, s)}
           run == Turns(w, s, chunk)
           n == Len(chunk)
<1>1. n \in Nat /\ \A i \in 1 .. n : chunk[i] \in Commands
  <2>1. PICK m \in 0 .. MaxChunk : chunk \in [1 .. m -> Commands]
    BY DEF Chunks
  <2>2. m \in Nat
    BY BoundsAssumption
  <2>3. chunk \in Seq(Commands) /\ n = m
    BY <2>1, <2>2
  <2> QED
    BY <2>1, <2>2, <2>3
<1>2. w \in W
  BY DEF Served, Booked
<1>3. \A v \in W : \A i \in 1 .. n : Turned(v, s, chunk[i]) \in W
  <2> TAKE v \in W
  <2> TAKE i \in 1 .. n
  <2> HIDE DEF n
  <2>1. Served(Turned(v, s, chunk[i]), s)
    BY <1>1, ProcessCommandServes DEF Turned
  <2> QED
    BY <2>1 DEF Served, Booked
<1>4. ProcessData(w, s, chunk) = run[n]
  BY DEF ProcessData, Turns
<1>5. run[0] = w /\ \A i \in 1 .. n : run[i] = Turned(run[i - 1], s, chunk[i])
  <2> HIDE DEF W
  <2>1. AreTurns(Turns(w, s, chunk), w, s, chunk)
    BY <1>1, <1>2, <1>3, TurnsOfProcessData
  <2> QED
    BY <2>1 DEF AreTurns
<1> HIDE DEF run, n
<1> DEFINE S == {i \in 0 .. n : run[i] \in W}
<1>6. 0 \in S
  BY <1>1, <1>2, <1>5
<1>7. ASSUME NEW i \in 1 .. n, i - 1 \in S
      PROVE  i \in S
  <2> HIDE DEF W
  <2>1. run[i] \in W
    BY <1>3, <1>5, <1>7
  <2> QED
    BY <1>1, <2>1
<1>8. n \in S
  <2> HIDE DEF S
  <2>1. \A i \in 0 .. n : i \in S
    BY <1>1, <1>6, <1>7, TurnsInduction
  <2> QED
    BY <1>1, <2>1
<1> QED
  BY <1>4, <1>8

----------------------------------------------------------------------------
(* The handlers *)

LEMMA WorldIs ==
    /\ World.sessions = sessions /\ World.members = members /\ World.devices = devices
    /\ World.authorized = authorized /\ World.event = event
BY DEF World

LEMMA BecomeIs ==
    ASSUME NEW w \in Worlds, Become(w)
    PROVE  World' = w
BY DEF Worlds, Become, World

LEMMA SoundIs ==
    ASSUME NEW w, Booked(w), \A t \in Sessions : Known(w, t), NEW s \in Sessions,
           NEW v, Only(w, v, s), Fits(v, s), v.authorized = w.authorized, v.event = w.event,
           v.devices = w.devices,
           \A t \in Sessions \ {s} : BeingRead(w, t), BeingRead(v, s)
    PROVE  Sound(v)
<1>1. Booked(v)
  <2>1. v.authorized = s => v.devices[s] # "absent"
    BY DEF Booked
  <2>2. v.event = "connect" <=> v.authorized # NoSession
    BY DEF Booked
  <2> QED
    BY <2>1, <2>2, BookedAgain
<1>2. \A t \in Sessions : Known(v, t)
  BY DEF Known
<1>3. \A t \in Sessions : BeingRead(v, t)
  BY DEF Only, BeingRead
<1> QED
  BY <1>1, <1>2, <1>3 DEF Sound

\* The next read is started, after all a read brought has been served.
LEMMA ReadSound ==
    ASSUME NEW s \in Sessions, NEW w, Served(w, s)
    PROVE  Sound(Read(w, s)) /\ Read(w, s) \in Worlds
<1> DEFINE session == w.sessions[s]
           x == [session EXCEPT !.read = FirstState(session)]
           v == Read(w, s)
<1>1. w \in Worlds /\ session \in SessionStates /\ Fits(w, s)
  BY Fields DEF Served, Booked
<1>2. v = WithSession(w, s, x)
  BY <1>1 DEF Read, WithSession, Worlds, SessionStates
<1>3. /\ x \in SessionStates /\ x.active = session.active /\ x.open = session.open
      /\ x.write = session.write /\ x.queue = session.queue /\ x.read # "idle"
  BY <1>1 DEF SessionStates, FirstState, IoStates
<1> HIDE DEF v, x
<1>4. /\ Only(w, v, s) /\ v.sessions[s] = x
      /\ v.members = w.members /\ v.devices = w.devices
      /\ v.authorized = w.authorized /\ v.event = w.event
  BY <1>1, <1>2, <1>3, SessionSet
<1>5. Fits(v, s) /\ BeingRead(v, s)
  BY <1>1, <1>3, <1>4 DEF Fits, BeingRead
<1>6. Sound(v)
  BY <1>4, <1>5, SoundIs DEF Served
<1> QED
  BY <1>4, <1>6 DEF Only, v

\* A session that is closed goes when its last handler has run.
LEMMA SettleSound ==
    ASSUME NEW s \in Sessions, NEW w, Sound(w)
    PROVE  Sound(Settle(w, s)) /\ Settle(w, s) \in Worlds
<1> DEFINE session == w.sessions[s]
           v == Settle(w, s)
<1>1. w \in Worlds /\ Fits(w, s) /\ Booked(w)
  BY DEF Sound, Booked
<1>2. CASE ~session.active /\ session.read = "idle" /\ session.write = "idle"
  <2>1. v = WithSession(w, s, NewSession)
    BY <1>2 DEF Settle, WithSession
  <2>2. NewSession \in SessionStates
    BY DEF NewSession, SessionStates, IoStates
  <2> HIDE DEF v
  <2>3. /\ Only(w, v, s) /\ v.sessions[s] = NewSession
        /\ v.members = w.members /\ v.devices = w.devices
        /\ v.authorized = w.authorized /\ v.event = w.event
    BY <1>1, <2>1, <2>2, SessionSet
  <2>4. Fits(v, s) /\ BeingRead(v, s)
    BY <1>1, <1>2, <2>3 DEF Fits, BeingRead, NewSession
  <2>5. Sound(v)
    BY <1>1, <2>3, <2>4, SoundIs DEF Sound
  <2> QED
    BY <2>3, <2>5 DEF Only, v
<1>3. CASE ~(~session.active /\ session.read = "idle" /\ session.write = "idle")
  BY <1>1, <1>3 DEF Settle
<1> QED
  BY <1>2, <1>3

\* A handler has begun to run.
LEMMA TakenServed ==
    ASSUME Sound(World), NEW s \in Sessions, NEW kind \in {"read", "write"}
    PROVE  /\ Served(Taken(s, kind), s) /\ Taken(s, kind).devices = devices
           /\ kind = "write" =>
                /\ Taken(s, kind).sessions[s].queue = sessions[s].queue
                /\ Sound(Taken(s, kind))
<1> DEFINE session == sessions[s]
           x == [session EXCEPT ![kind] = "idle"]
           v == Taken(s, kind)
<1>1. World \in Worlds /\ session \in SessionStates /\ Fits(World, s) /\ Booked(World)
  BY Fields, WorldIs DEF Sound, Booked
<1>2. v = WithSession(World, s, x)
  BY DEF Taken, World, WithSession
<1>3. /\ x \in SessionStates /\ x.active = session.active /\ x.open = session.open
      /\ x.queue = session.queue /\ (x.write # "idle" => session.write # "idle")
      /\ kind = "write" => x.read = session.read
  <2>1. CASE kind = "read"
    BY <1>1, <2>1 DEF SessionStates, IoStates
  <2>2. CASE kind = "write"
    BY <1>1, <2>2 DEF SessionStates, IoStates
  <2> QED
    BY <2>1, <2>2
<1> HIDE DEF v, x
<1>4. /\ Only(World, v, s) /\ v.sessions[s] = x
      /\ v.members = World.members /\ v.devices = World.devices
      /\ v.authorized = World.authorized /\ v.event = World.event
  BY <1>1, <1>2, <1>3, SessionSet
<1>5. Fits(v, s)
  BY <1>1, <1>3, <1>4, WorldIs DEF Fits
<1>6. Booked(v)
  <2>1. v.authorized = s => v.devices[s] # "absent"
    BY <1>1, <1>4 DEF Booked
  <2>2. v.event = "connect" <=> v.authorized # NoSession
    BY <1>1, <1>4 DEF Booked
  <2> QED
    BY <1>1, <1>4, <1>5, <2>1, <2>2, BookedAgain
<1>7. Served(v, s)
  <2>1. \A t \in Sessions : Known(v, t)
    BY <1>4 DEF Sound, Known
  <2>2. \A t \in Sessions \ {s} : BeingRead(v, t)
    BY <1>4 DEF Sound, BeingRead, Only
  <2> QED
    BY <1>6, <2>1, <2>2 DEF Served
<1>8. ASSUME kind = "write" PROVE Sound(v)
  <2>1. BeingRead(v, s)
    BY <1>3, <1>4, <1>8, WorldIs DEF Sound, BeingRead
  <2> QED
    BY <1>7, <2>1 DEF Served, Sound
<1> QED
  BY <1>3, <1>4, <1>7, <1>8, WorldIs DEF v

LEMMA FailedSound ==
    ASSUME Sound(World), NEW s \in Sessions, NEW kind \in {"read", "write"}, Failed(s, kind)
    PROVE  Sound(World')
<1> DEFINE w == Taken(s, kind)
           c == Close(w, s)
<1>1. Served(w, s)
  BY TakenServed
<1> HIDE DEF w
<1>2. /\ Booked(c) /\ Only(w, c, s) /\ ~c.sessions[s].active /\ c.authorized # s
      /\ c.authorized \in {w.authorized, NoSession}
  BY <1>1, CloseFields DEF Served
<1> HIDE DEF c
<1>3. Sound(c)
  <2>1. \A t \in Sessions : Known(c, t)
    BY <1>1, <1>2, SessionsAssumption DEF Served, Known, Only
  <2>2. \A t \in Sessions : BeingRead(c, t)
    BY <1>1, <1>2 DEF Served, BeingRead, Only
  <2> QED
    BY <1>2, <2>1, <2>2 DEF Sound
<1>4. Become(Settle(c, s))
  BY DEF Failed, w, c
<1> QED
  BY <1>3, <1>4, SettleSound, BecomeIs

LEMMA HandleReadSound ==
    ASSUME Sound(World), NEW s \in Sessions, HandleRead(s)
    PROVE  Sound(World')
<1>1. CASE Failed(s, "read")
  BY <1>1, FailedSound
<1>2. CASE \E chunk \in Chunks : Become(Read(ProcessData(Taken(s, "read"), s, chunk), s))
  <2>1. PICK chunk \in Chunks : Become(Read(ProcessData(Taken(s, "read"), s, chunk), s))
    BY <1>2
  <2>2. Served(Taken(s, "read"), s)
    BY TakenServed
  <2>3. Served(ProcessData(Taken(s, "read"), s, chunk), s)
    BY <2>2, ProcessDataServes
  <2> QED
    BY <2>1, <2>3, ReadSound, BecomeIs
<1> QED
  BY <1>1, <1>2 DEF HandleRead

LEMMA HandleWriteSound ==
    ASSUME Sound(World), NEW s \in Sessions, HandleWrite(s)
    PROVE  Sound(World')
<1> DEFINE w == Taken(s, "write")
           session == w.sessions[s]
           rest == session.queue - 1
           next == IF rest = 0 THEN "idle" ELSE FirstState(session)
           x == [session EXCEPT !.queue = rest, !.write = next]
           v == Pop(w, s)
<1>1. CASE Failed(s, "write")
  BY <1>1, FailedSound
<1>2. CASE sessions[s].write = "ok" /\ Become(Settle(v, s))
  <2>1. Sound(w) /\ session.queue = sessions[s].queue
    BY TakenServed
  <2>2. sessions[s].queue > 0
    BY <1>2, WorldIs DEF Sound, Booked, Fits
  <2> HIDE DEF w
  <2>3. w \in Worlds /\ session \in SessionStates /\ Fits(w, s) /\ Booked(w)
    BY <2>1, Fields DEF Sound, Booked
  <2>4. v = WithSession(w, s, x)
    BY <2>3 DEF Pop, WithSession, Worlds, SessionStates
  <2>5. rest \in Nat /\ (rest # 0 => rest > 0)
    BY <2>1, <2>2, <2>3 DEF SessionStates
  <2>6. next \in IoStates /\ (next # "idle" => rest # 0)
    BY DEF FirstState, IoStates
  <2> HIDE DEF rest, next
  <2>7. /\ x \in SessionStates /\ x.active = session.active /\ x.open = session.open
        /\ x.read = session.read /\ x.queue = rest /\ x.write = next
    BY <2>3, <2>5, <2>6 DEF SessionStates
  <2> HIDE DEF v, x
  <2>8. /\ Only(w, v, s) /\ v.sessions[s] = x
        /\ v.members = w.members /\ v.devices = w.devices
        /\ v.authorized = w.authorized /\ v.event = w.event
    BY <2>3, <2>4, <2>7, SessionSet
  <2>9. Fits(v, s) /\ BeingRead(v, s)
    BY <2>1, <2>3, <2>5, <2>6, <2>7, <2>8 DEF Fits, BeingRead, Sound
  <2>10. Sound(v)
    BY <2>1, <2>3, <2>8, <2>9, SoundIs DEF Sound
  <2> QED
    BY <1>2, <2>10, SettleSound, BecomeIs
<1> QED
  BY <1>1, <1>2 DEF HandleWrite

LEMMA CompletionSound ==
    ASSUME Sound(World), NEW s \in Sessions, NEW kind \in {"read", "write"}, Completion(s, kind)
    PROVE  Sound(World')
<1> DEFINE session == sessions[s]
<1>1. PICK result \in {"ok", "failed"} : sessions' = [sessions EXCEPT ![s][kind] = result]
  BY DEF Completion
<1> DEFINE x == [session EXCEPT ![kind] = result]
           v == WithSession(World, s, x)
<1>2. World \in Worlds /\ session \in SessionStates /\ Fits(World, s) /\ Booked(World)
      /\ session[kind] = "started"
  BY Fields, WorldIs DEF Sound, Booked, Completion
<1>3. World' = v
  BY <1>1 DEF World, Completion, WithSession
<1>4. /\ x \in SessionStates /\ x.active = session.active /\ x.open = session.open
      /\ x.queue = session.queue /\ (x.write # "idle" => session.write # "idle")
      /\ session.read # "idle" => x.read # "idle"
  <2>1. CASE kind = "read"
    BY <1>2, <2>1 DEF SessionStates, IoStates
  <2>2. CASE kind = "write"
    BY <1>2, <2>2 DEF SessionStates, IoStates
  <2> QED
    BY <2>1, <2>2
<1> HIDE DEF x
<1>5. /\ Only(World, v, s) /\ v.sessions[s] = x
      /\ v.members = World.members /\ v.devices = World.devices
      /\ v.authorized = World.authorized /\ v.event = World.event
  BY <1>2, <1>4, SessionSet
<1> HIDE DEF v
<1>6. Fits(v, s) /\ BeingRead(v, s)
  BY <1>2, <1>4, <1>5, WorldIs DEF Fits, BeingRead, Sound
<1>7. Sound(v)
  BY <1>2, <1>5, <1>6, SoundIs DEF Sound
<1> QED
  BY <1>3, <1>7

LEMMA HandleAcceptSound ==
    ASSUME Sound(World), NEW s \in Sessions, HandleAccept(s)
    PROVE  Sound(World')
<1> DEFINE x == [NewSession EXCEPT !.active = TRUE, !.open = TRUE, !.read = "started"]
           v == World'
<1>1. /\ World \in Worlds /\ sessions[s] = NewSession /\ Fits(World, s) /\ Booked(World)
      /\ sessions \in [Sessions -> SessionStates] /\ members \subseteq Sessions
      /\ devices \in [Sessions -> Imeis]
  BY Fields, WorldIs DEF Sound, Booked, HandleAccept
<1>2. /\ sessions' = [sessions EXCEPT ![s] = x] /\ members' = members \union {s}
      /\ devices' = [devices EXCEPT ![s] = "none"] /\ UNCHANGED <<authorized, event>>
  BY <1>1 DEF HandleAccept
<1>3. /\ x \in SessionStates /\ x.active /\ x.open /\ x.read # "idle"
      /\ x.write = "idle"
  BY DEF NewSession, SessionStates, IoStates
<1>4. devices[s] = "absent" /\ authorized # s
  BY <1>1, WorldIs DEF Fits, NewSession, Booked
<1> HIDE DEF x
<1>5. /\ v.sessions = sessions' /\ v.members = members' /\ v.devices = devices'
      /\ v.authorized = authorized /\ v.event = event /\ v \in Worlds
  BY <1>1, <1>2, <1>3 DEF World, Worlds, Imeis
<1> HIDE DEF v
<1>6. Only(World, v, s)
  BY <1>1, <1>2, <1>5, WorldIs DEF Only
<1>7. Fits(v, s) /\ BeingRead(v, s) /\ v.devices[s] = "none" /\ v.authorized # s
  BY <1>1, <1>2, <1>3, <1>4, <1>5 DEF Fits, BeingRead
<1>8. Booked(v)
  <2>1. v.event = "connect" <=> v.authorized # NoSession
    BY <1>1, <1>5, WorldIs DEF Booked
  <2>2. v.authorized \in {World.authorized, s, NoSession}
    BY <1>5, WorldIs
  <2> QED
    BY <1>1, <1>6, <1>7, <2>1, <2>2, BookedAgain
<1>9. \A t \in Sessions : Known(v, t) /\ BeingRead(v, t)
  BY <1>5, <1>6, <1>7, WorldIs DEF Sound, Known, BeingRead, Only
<1>10. Sound(v)
  BY <1>8, <1>9 DEF Sound
<1> QED
  BY <1>10 DEF v

LEMMA ServerCommandSound ==
    ASSUME Sound(World), ServerCommand
    PROVE  Sound(World')
<1> DEFINE s == authorized
           v == Send(World, s)
<1>1. s \in Sessions /\ Become(v)
  <2>1. authorized \in Sessions \union {NoSession}
    BY WorldIs DEF Sound, Booked, Worlds
  <2> QED
    BY <2>1 DEF ServerCommand
<1> HIDE DEF s, v
<1>2. /\ Booked(v) /\ Only(World, v, s) /\ v.devices = World.devices
      /\ v.authorized = World.authorized
      /\ v.sessions[s].read = World.sessions[s].read
      /\ v.sessions[s].active = World.sessions[s].active
  BY <1>1, SendFields DEF Sound, v
<1>3. \A t \in Sessions : Known(v, t) /\ BeingRead(v, t)
  BY <1>2 DEF Sound, Known, BeingRead, Only
<1>4. Sound(v) /\ v \in Worlds
  BY <1>2, <1>3 DEF Sound, Only
<1> QED
  BY <1>1, <1>4, BecomeIs

\* The receiver is started only as long as it does not listen.
LEMMA StartReceiverKeeps ==
    ASSUME IInv, StartReceiver
    PROVE  IInv'
<1>1. acceptor \in {"closed", "open"} /\ Untouched
  BY DEF IInv, StartReceiver, Listening
<1>2. CASE acceptor = "closed" /\ ~portTaken /\ acceptor' = "listening" /\ rebinding' = FALSE
           /\ UNCHANGED trackerVars
  <2>1. World' = World
    BY <1>2 DEF World, trackerVars
  <2> QED
    BY <1>2, <2>1 DEF IInv, Listening, StartReceiver
<1>3. CASE ServerError /\ acceptor' = "open"
  <2>1. UNCHANGED <<sessions, members, devices, authorized, event>> /\ rebinding' \in BOOLEAN
    BY <1>1, <1>3 DEF ServerError, Untouched
  <2>2. World' = World /\ Untouched'
    BY <1>1, <2>1 DEF World, Untouched
  <2> QED
    BY <1>3, <2>1, <2>2 DEF IInv, Listening, StartReceiver
<1> QED
  <2>1. CASE acceptor = "closed"
    BY <1>2, <1>3, <2>1, Zenon DEF StartReceiver, Listen
  <2>2. CASE acceptor = "open" /\ ServerError /\ acceptor' = acceptor
    BY <1>3, <2>2
  <2> QED
    BY <1>1, <2>1, <2>2 DEF StartReceiver, Listen

\* The sessions act only while the server listens.
LEMMA StaysListening ==
    ASSUME IInv, Listening, Sound(World'), UNCHANGED serverVars
    PROVE  IInv'
<1>1. /\ acceptor' \in {"closed", "open", "listening"}
      /\ portTaken' \in BOOLEAN /\ rebinding' \in BOOLEAN
      /\ acceptor' = "listening" /\ ~rebinding'
  BY DEF IInv, Listening, serverVars
<1> QED
  BY <1>1 DEF IInv, Listening, serverVars

LEMMA StepKeeps ==
    IInv /\ [Next]_vars => IInv'
<1> SUFFICES ASSUME IInv, [Next]_vars PROVE IInv'
  OBVIOUS
<1>1. CASE StartReceiver
  BY <1>1, StartReceiverKeeps
<1>2. CASE PortFreed \/ UNCHANGED vars
  <2>1. UNCHANGED <<acceptor, rebinding, sessions, members, devices, authorized, event>>
        /\ portTaken' \in BOOLEAN
    BY <1>2 DEF PortFreed, vars, serverVars, trackerVars, IInv
  <2>2. World' = World
    BY <2>1 DEF World
  <2> QED
    BY <2>1, <2>2 DEF IInv, Listening, Untouched
<1>3. Sound(World) /\ \A s \in Sessions : sessions[s] # NewSession => Listening
  BY DEF IInv, Untouched
<1>4. CASE ServerCommand
  <2>1. Listening /\ UNCHANGED serverVars
    BY <1>4 DEF ServerCommand, IInv, Untouched
  <2>2. Sound(World')
    BY <1>3, <1>4, ServerCommandSound
  <2> QED
    BY <2>1, <2>2, StaysListening
<1>5. ASSUME NEW s \in Sessions, HandleAccept(s) PROVE IInv'
  <2>1. Listening /\ UNCHANGED serverVars
    BY <1>5 DEF HandleAccept
  <2>2. Sound(World')
    BY <1>3, <1>5, HandleAcceptSound
  <2> QED
    BY <2>1, <2>2, StaysListening
<1>6. ASSUME NEW s \in Sessions, NEW kind \in {"read", "write"}, Completion(s, kind)
      PROVE  IInv'
  <2>1. sessions[s] # NewSession /\ UNCHANGED serverVars
    BY <1>6 DEF Completion, NewSession
  <2>2. Sound(World')
    BY <1>3, <1>6, CompletionSound
  <2> QED
    BY <1>3, <2>1, <2>2, StaysListening
<1>7. ASSUME NEW s \in Sessions, HandleRead(s) PROVE IInv'
  <2>1. sessions[s] # NewSession /\ UNCHANGED serverVars
    BY <1>7 DEF HandleRead, Failed, NewSession
  <2>2. Sound(World')
    BY <1>3, <1>7, HandleReadSound
  <2> QED
    BY <1>3, <2>1, <2>2, StaysListening
<1>8. ASSUME NEW s \in Sessions, HandleWrite(s) PROVE IInv'
  <2>1. sessions[s] # NewSession /\ UNCHANGED serverVars
    BY <1>8 DEF HandleWrite, Failed, NewSession
  <2>2. Sound(World')
    BY <1>3, <1>8, HandleWriteSound
  <2> QED
    BY <1>3, <2>1, <2>2, StaysListening
<1> QED
  BY <1>1, <1>2, <1>4, <1>5, <1>6, <1>7, <1>8 DEF Next

LEMMA InitKeeps ==
    Init => IInv
<1> SUFFICES ASSUME Init PROVE IInv
  OBVIOUS
<1>1. NewSession \in SessionStates
  BY DEF NewSession, SessionStates, IoStates
<1>2. World \in Worlds
  BY <1>1 DEF Init, World, Worlds, Imeis
<1>3. \A t \in Sessions : Fits(World, t) /\ Known(World, t) /\ BeingRead(World, t)
  BY WorldIs, SessionsAssumption DEF Init, Fits, Known, BeingRead, NewSession
<1>4. \A t \in Sessions : World.authorized # t
  BY WorldIs, SessionsAssumption DEF Init
<1>5. Sound(World)
  BY <1>2, <1>3, <1>4, WorldIs DEF Init, Sound, Booked
<1> QED
  BY <1>5 DEF Init, IInv, Listening, Untouched

\* Every behaviour keeps the invariant.
THEOREM Invariance == Spec => []IInv
BY InitKeeps, StepKeeps, PTL DEF Spec

\* The variables of the receiver keep their types: no more messages are taken
\* from _writeQueue than are in it.
THEOREM TypeCorrect == Spec => []TypeOK
<1>1. IInv => TypeOK
  BY WorldIs DEF IInv, Sound, Booked, Worlds, SessionStates, TypeOK
<1> QED
  BY <1>1, Invariance, PTL

\* _authorizedSession never dangles.
THEOREM PointerIsLive == Spec => []AuthorizedIsLive
<1>1. IInv => AuthorizedIsLive
  <2> SUFFICES ASSUME IInv, authorized # NoSession PROVE AuthorizedIsLive
    BY DEF AuthorizedIsLive
  <2>1. authorized \in Sessions
    BY WorldIs DEF IInv, Sound, Booked, Worlds
  <2> QED
    BY <2>1, WorldIs DEF IInv, Sound, Booked, Fits, Known, AuthorizedIsLive
<1> QED
  BY <1>1, Invariance, PTL

\* TcpServer and Application keep their books alike.
THEOREM BooksStayAlike == Spec => []BooksAgree
<1>1. IInv => BooksAgree
  BY WorldIs DEF IInv, Sound, Booked, Fits, BeingRead, BooksAgree
<1> QED
  BY <1>1, Invariance, PTL

\* The log of the tracker ends in "connect" exactly while one is authorized.
THEOREM LogIsTrue == Spec => []LastEventTells
<1>1. IInv => LastEventTells
  BY WorldIs DEF IInv, Sound, Booked, LastEventTells
<1> QED
  BY <1>1, Invariance, PTL
=============================================================================
