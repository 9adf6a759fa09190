------------------------------ MODULE Receiver ------------------------------
(***************************************************************************)
(* The receiver: TcpServer accepts trackers, a TcpSession serves each, and *)
(* Application keeps a Device per session (ApplicationReceiver.cpp).  At   *)
(* most one session is authorized, the last that logged in with the imei   *)
(* of the settings; Device::_authorizedSession points to it.               *)
(*                                                                         *)
(* What a tracker sends is read in chunks of whole commands; the unfinished *)
(* rest in Device::_buffer matters only when it grows past its limit.  The *)
(* receiver is enabled and its host is an address, so resolve() succeeds.  *)
(* Data of the authorized session goes on to the transmitter, and commands *)
(* of the server come back from it: see Transmitter.                       *)
(***************************************************************************)
EXTENDS Integers, Sequences, FiniteSets

CONSTANTS
    Sessions,       \* identities of TcpSession objects, reused when one is destroyed
    NoSession,      \* a null pointer
    RebindDelay,    \* receiver.rebind_delay, in milliseconds
    MaxQueue,       \* bound of the model: messages in _writeQueue
    MaxChunk        \* bound of the model: commands in one read

ASSUME SessionsAssumption == IsFiniteSet(Sessions) /\ NoSession \notin Sessions
ASSUME RebindDelayAssumption == RebindDelay \in Nat
ASSUME BoundsAssumption == MaxQueue \in Nat \ {0} /\ MaxChunk \in Nat \ {0}

VARIABLES
    acceptor,       \* TcpServer::_acceptor: closed, open, or listening
    portTaken,      \* whether another program listens on the port
    rebinding,      \* _receiverTimer is waited for
    sessions,       \* every TcpSession
    members,        \* TcpServer::_sessions
    devices,        \* _devices: the imei of a session's Device, or "absent"
    authorized,     \* Device::_authorizedSession
    event           \* the last connect or disconnect given to handleTrackerEvent

serverVars == <<acceptor, portTaken, rebinding>>
trackerVars == <<sessions, members, devices, authorized, event>>
vars == <<serverVars, trackerVars>>

\* A tracker's imei is the one of the settings or another; a Device has none
\* before the login.
Imeis == {"absent", "none", "own", "other"}

IoStates == {"idle", "started", "ok", "failed"}

Commands == {"login", "loginOther", "loginBad", "heartbeat", "heartbeatBad", "data", "tooLong"}

\* Of _writeQueue the length: LOAD, ON and commands are written alike.
NewSession ==
    [active |-> FALSE, open |-> FALSE, read |-> "idle", write |-> "idle", queue |-> 0]

Init ==
    /\ acceptor = "closed"
    /\ portTaken \in BOOLEAN
    /\ rebinding = TRUE
    /\ sessions = [s \in Sessions |-> NewSession]
    /\ members = {}
    /\ devices = [s \in Sessions |-> "absent"]
    /\ authorized = NoSession
    /\ event = "none"

----------------------------------------------------------------------------
(* The methods call one another, so they are operators on a record of what  *)
(* they change; an action ends by giving the variables its fields.          *)

World ==
    [sessions |-> sessions, members |-> members, devices |-> devices,
     authorized |-> authorized, event |-> event]

Become(w) ==
    /\ sessions' = w.sessions
    /\ members' = w.members
    /\ devices' = w.devices
    /\ authorized' = w.authorized
    /\ event' = w.event

\* An operation on a closed socket fails, a started one when it is closed.
FirstState(session) == IF session.open THEN "started" ELSE "failed"

Broken(state) == IF state = "started" THEN "failed" ELSE state

\* Mutants: the pointer is left dangling, and every Device reports the end.
EraseDevice_KeepsPointer(w, s) == [w EXCEPT !.devices[s] = "absent"]
EraseDevice_AlwaysTells(w, s) ==
    IF w.devices[s] = "absent" THEN w
    ELSE [w EXCEPT !.devices[s] = "absent", !.event = "disconnect",
                   !.authorized = IF @ = s THEN NoSession ELSE @]

\* ~Device, when _devices lets go of it.
EraseDevice(w, s) ==
    IF w.devices[s] = "absent" THEN w
    ELSE IF w.authorized = s
    THEN [w EXCEPT !.devices[s] = "absent", !.authorized = NoSession, !.event = "disconnect"]
    ELSE [w EXCEPT !.devices[s] = "absent"]

\* handleTcpSessionDisconnect
SessionDisconnect(w, s) == IF w.sessions[s].active THEN EraseDevice(w, s) ELSE w

\* A session once its socket is closed.
Closed(session) ==
    [session EXCEPT !.active = FALSE, !.open = FALSE, !.read = Broken(@), !.write = Broken(@)]

\* Mutant: the socket stays open.
Cleanup_NoClose(w, s) ==
    [w EXCEPT !.members = @ \ {s}, !.sessions[s].active = FALSE]

Cleanup(w, s) == [w EXCEPT !.members = @ \ {s}, !.sessions[s] = Closed(@)]

\* Mutant: the handler is told when the session is no longer active.
Close_CleanupFirst(w, s) == SessionDisconnect(Cleanup(w, s), s)

\* TcpSession::close, and what a failed read or write does.
Close(w, s) == Cleanup(SessionDisconnect(w, s), s)

Send(w, s) ==
    LET session == w.sessions[s]
    IN  IF ~session.open THEN w
        ELSE [w EXCEPT !.sessions[s].queue = @ + 1,
                       !.sessions[s].write =
                           IF session.queue = 0 THEN FirstState(session) ELSE @]

\* The last handler that held a closed session is gone, and so is the session.
Settle(w, s) ==
    LET session == w.sessions[s]
    IN  IF ~session.active /\ session.read = "idle" /\ session.write = "idle"
        THEN [w EXCEPT !.sessions[s] = NewSession] ELSE w

----------------------------------------------------------------------------
(* Device::processData: one command.  The result is the world, and whether  *)
(* the loop has returned.                                                   *)

Logon(w, s, imei) ==
    LET known == [w EXCEPT !.devices[s] = imei]
    IN  IF imei = "own"
        THEN Send([known EXCEPT !.authorized = s, !.event = "connect"], s)
        ELSE known

\* Command, and the imei the Device has after it; a bad login clears it.
AfterCommand(w, s, command) ==
    CASE command = "login"      -> Logon(w, s, "own")
      [] command = "loginOther" -> Logon(w, s, "other")
      [] command = "loginBad"   -> Logon(w, s, "none")
      [] command = "heartbeat" /\ w.authorized = s -> Send(w, s)
      [] OTHER -> w

\* A heartbeat names the imei of the last login, or it is a bad one.
Rejected(w, s, command) ==
    \/ command \in {"loginBad", "tooLong"}
    \/ command = "heartbeatBad"
    \/ w.devices[s] = "none"
    \/ w.authorized # s

ProcessCommand(w, s, command) ==
    LET after == AfterCommand(w, s, command)
    IN  IF Rejected(after, s, command) THEN Close(after, s) ELSE after

\* The loop returns once the session is closed and its Device is gone.
ProcessData(w, s, chunk) ==
    LET after[turn \in 0 .. Len(chunk)] ==
            IF turn = 0 THEN w
            ELSE LET v == after[turn - 1]
                 IN  IF v.devices[s] = "absent" THEN v ELSE ProcessCommand(v, s, chunk[turn])
    IN  after[Len(chunk)]

\* What one read may bring; only the last command may be unfinished.
Chunks ==
    {chunk \in UNION {[1 .. n -> Commands] : n \in 0 .. MaxChunk} :
        \A i \in DOMAIN chunk : chunk[i] = "tooLong" => i = Len(chunk)}

----------------------------------------------------------------------------
(* TcpServer *)

Listening == acceptor = "listening"

\* handleTcpServerError: _devices.clear(), and the timer is armed.
ServerError ==
    /\ devices' = [s \in Sessions |-> "absent"]
    /\ authorized' = IF authorized # NoSession /\ devices[authorized] # "absent"
                     THEN NoSession ELSE authorized
    /\ event' = IF authorized' # authorized THEN "disconnect" ELSE event
    /\ rebinding' = (RebindDelay > 0)
    /\ UNCHANGED <<sessions, members>>

\* listen(): open() is an error unless the acceptor is closed, and an acceptor
\* that could not bind or listen stays open.
Listen ==
    \/ /\ acceptor = "closed" /\ ~portTaken
       /\ acceptor' = "listening"
       /\ rebinding' = FALSE
       /\ UNCHANGED trackerVars
    \/ /\ acceptor = "closed" /\ portTaken
       /\ acceptor' = "open"
       /\ ServerError
    \/ /\ acceptor # "closed"
       /\ UNCHANGED acceptor
       /\ ServerError

\* startReceiver, from Application::main and from handleReceiverTimer.
StartReceiver ==
    /\ rebinding
    /\ Listen
    /\ UNCHANGED portTaken

PortFreed ==
    /\ portTaken
    /\ portTaken' = FALSE
    /\ UNCHANGED <<acceptor, rebinding, trackerVars>>

\* handleAccept: TcpSession::start, handleTcpSessionConnect, read().
HandleAccept(s) ==
    /\ Listening
    /\ sessions[s] = NewSession
    /\ sessions' = [sessions EXCEPT ![s] = [@ EXCEPT !.active = TRUE, !.open = TRUE,
                                                     !.read = "started"]]
    /\ members' = members \union {s}
    /\ devices' = [devices EXCEPT ![s] = "none"]
    /\ UNCHANGED <<serverVars, authorized, event>>

----------------------------------------------------------------------------
(* TcpSession *)

\* The system completes an operation; a read fails when the tracker hangs up.
Completion(s, kind) ==
    /\ sessions[s][kind] = "started"
    /\ \E result \in {"ok", "failed"} : sessions' = [sessions EXCEPT ![s][kind] = result]
    /\ UNCHANGED <<serverVars, members, devices, authorized, event>>

\* The handler of the operation begins to run.
Taken(s, kind) == [World EXCEPT !.sessions[s][kind] = "idle"]

Failed(s, kind) ==
    /\ sessions[s][kind] = "failed"
    /\ Become(Settle(Close(Taken(s, kind), s), s))
    /\ UNCHANGED serverVars

Read(w, s) == [w EXCEPT !.sessions[s].read = FirstState(w.sessions[s])]

\* handleTcpSessionReceivedData finds no Device once the session is closed.
HandleRead(s) ==
    \/ Failed(s, "read")
    \/ /\ sessions[s].read = "ok"
       /\ \E chunk \in Chunks :
             /\ sessions[s].queue + Len(chunk) <= MaxQueue
             /\ Become(Read(ProcessData(Taken(s, "read"), s, chunk), s))
       /\ UNCHANGED serverVars

\* _writeQueue is not emptied when the session closes: the writes go on failing.
Pop(w, s) ==
    LET session == w.sessions[s]
        rest    == session.queue - 1
    IN  [w EXCEPT !.sessions[s].queue = rest,
                  !.sessions[s].write = IF rest = 0 THEN "idle" ELSE FirstState(session)]

HandleWrite(s) ==
    \/ Failed(s, "write")
    \/ /\ sessions[s].write = "ok"
       /\ Become(Settle(Pop(Taken(s, "write"), s), s))
       /\ UNCHANGED serverVars

\* A command of the server, which Transmitter passes to processClientData.
ServerCommand ==
    /\ authorized # NoSession
    /\ devices[authorized] # "absent"
    /\ sessions[authorized].queue < MaxQueue
    /\ Become(Send(World, authorized))
    /\ UNCHANGED serverVars

Next ==
    \/ StartReceiver
    \/ PortFreed
    \/ ServerCommand
    \/ \E s \in Sessions :
          \/ HandleAccept(s)
          \/ \E kind \in {"read", "write"} : Completion(s, kind)
          \/ HandleRead(s)
          \/ HandleWrite(s)

(***************************************************************************)
(* The event loop runs the handlers that are ready, the timer among them,  *)
(* and the other program leaves the port some time.  No tracker has to do  *)
(* anything, not even to hang up.                                          *)
(***************************************************************************)
Fairness ==
    /\ WF_vars(StartReceiver)
    /\ WF_vars(PortFreed)
    /\ \A s \in Sessions : WF_vars(HandleRead(s)) /\ WF_vars(HandleWrite(s))

Spec == Init /\ [][Next]_vars

FairSpec == Spec /\ Fairness

----------------------------------------------------------------------------
(* Properties *)

TypeOK ==
    /\ acceptor \in {"closed", "open", "listening"}
    /\ portTaken \in BOOLEAN /\ rebinding \in BOOLEAN
    /\ sessions \in [Sessions -> [active : BOOLEAN, open : BOOLEAN, read : IoStates,
                                  write : IoStates, queue : Nat]]
    /\ members \subseteq Sessions
    /\ devices \in [Sessions -> Imeis]
    /\ authorized \in Sessions \union {NoSession}
    /\ event \in {"none", "connect", "disconnect"}

\* Device::_authorizedSession, a static, never outlives what it stands for: a
\* session with a Device that has logged in, an open socket and a place among
\* the server's sessions.  Commands of the server therefore reach a tracker.
AuthorizedIsLive ==
    authorized # NoSession =>
        /\ devices[authorized] \in {"own", "other"}
        /\ sessions[authorized].active /\ sessions[authorized].open
        /\ authorized \in members

\* TcpServer and Application keep their books alike, whichever of reads, writes
\* and rejected commands closes a session: a session is active exactly while
\* the server lists it and a Device serves it, and then it is being read.
BooksAgree ==
    \A s \in Sessions :
        /\ sessions[s].active <=> s \in members
        /\ sessions[s].active <=> devices[s] # "absent"
        /\ sessions[s].active <=> sessions[s].open
        /\ sessions[s].active => sessions[s].read # "idle"

\* The log of the tracker ends in "connect" exactly while a tracker is
\* authorized, also when a new session takes over from an older one whose
\* Device is destroyed later.
LastEventTells == event = "connect" <=> authorized # NoSession

\* Every closed session is destroyed: no chain of handlers keeps it forever.
ClosedIsDestroyed ==
    \A s \in Sessions :
        (sessions[s] # NewSession /\ ~sessions[s].active) ~> (sessions[s] = NewSession)

\* "Trying to rebind in ... second(s)" (ApplicationReceiver.cpp:63): once the
\* port is free the receiver listens.  The open acceptor prevents it.
Rebinds == RebindDelay > 0 => <>Listening
=============================================================================
