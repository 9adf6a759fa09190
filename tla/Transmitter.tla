----------------------------- MODULE Transmitter -----------------------------
(***************************************************************************)
(* Application as the owner of _transmitter (ApplicationTransmitter.cpp):  *)
(* it keeps a TcpClient connected to the tracking server, logs in with the *)
(* device's IMEI, relays the device's data and keeps the connection alive. *)
(*                                                                         *)
(* One deadline_timer serves two purposes, the delay before a reconnect    *)
(* and the pause before the next heartbeat, and handleTransmitterTimer     *)
(* tells them apart by _transmitterAuthorized alone.  It does not look at  *)
(* its error, so a wait that expires_from_now() cancels acts like one that *)
(* expired.  A heartbeat is a token that travels: a wait, a message in the *)
(* write queue, an answer the server owes, an answer on its way, and again *)
(* a wait.                                                                 *)
(*                                                                         *)
(* The settings transmitter.enabled and imei are set; transmitter.host,    *)
(* port and heartbeat have no say in the control.  The server is external: *)
(* it answers the login with LOAD or with something else, a heartbeat with *)
(* ON, and sends commands that end in a semicolon.                         *)
(***************************************************************************)
EXTENDS TcpClient, FiniteSets
LOCAL INSTANCE SequencesExt
LOCAL INSTANCE FiniteSetsExt

CONSTANTS
    ReconnectDelay,     \* transmitter.reconnect_delay, in milliseconds
    BufferLimit,        \* most characters an unfinished command may have (32768)
    MaxQueue,           \* bound of the model: messages in _writeBuffer when the device sends
    MaxIncoming,        \* bound of the model: pieces the server has sent ahead
    MaxDue              \* bound of the model: timer handlers that wait for the event loop

ASSUME ReconnectDelayAssumption == ReconnectDelay \in Nat
ASSUME BufferLimitAssumption == BufferLimit \in Nat \ {0}
ASSUME MaxQueueAssumption == MaxQueue \in Nat \ {0}
ASSUME MaxIncomingAssumption == MaxIncoming \in Nat \ {0}
ASSUME MaxDueAssumption == MaxDue \in Nat \ {0}

VARIABLES
    client,         \* _transmitter
    authorized,     \* _transmitterAuthorized
    buffer,         \* _transmitterBuffer
    timer,          \* _transmitterTimer: waits under way, and handlers due to run
    server,         \* the tracking server, as far as this connection goes
    view, last      \* what the TcpClient told, as in StreamClient

vars == <<client, authorized, buffer, timer, server, view, last>>

\* What the transmitter sends: the login, a heartbeat, data of the device.
Requests == {"login", "beat", "data"}

\* What the server sends, cut wherever a read may cut it: LOAD, ON, the
\* text of a command, and the semicolon that ends one.
Pieces == {"LO", "AD", "O", "N", "text", "semicolon"}

\* Two characters; the others have one.
Wide == {"LO", "AD", "text"}

Size(pieces) == Len(pieces) + Cardinality({i \in DOMAIN pieces : pieces[i] \in Wide})

NewServer == [asked |-> FALSE, granted |-> FALSE, owed |-> 0, incoming |-> << >>]

Init ==
    /\ client = NewClient
    /\ authorized = FALSE
    /\ buffer = << >>
    /\ timer = [waiting |-> 0, due |-> 0]
    /\ server = NewServer
    /\ view = "closed"
    /\ last = "none"

----------------------------------------------------------------------------
(* _transmitterTimer *)

\* async_wait
Wait(t) == [t EXCEPT !.waiting = @ + 1]

\* expires_from_now: the handlers of the waits it cancels will run at once.
ExpiresFromNow(t) == [waiting |-> 0, due |-> t.due + t.waiting]

TimerExpires ==
    /\ timer.waiting > 0
    /\ timer' = ExpiresFromNow(timer)
    /\ UNCHANGED <<client, authorized, buffer, server, view, last>>

\* startTransmitter
StartTransmitter ==
    /\ client' = Connect(client)
    /\ view' = IF client.status = "Disconnected" THEN "opening" ELSE view
    /\ UNCHANGED last

\* Application::main, once.
Start ==
    /\ view = "closed" /\ last = "none"
    /\ StartTransmitter
    /\ UNCHANGED <<authorized, buffer, timer, server>>

\* handleTransmitterTimer
HandleTimer ==
    /\ timer.due > 0
    /\ timer' = [timer EXCEPT !.due = @ - 1]
    /\ \/ /\ authorized
          /\ client' = Send(client, "beat")
          /\ UNCHANGED <<view, last>>
       \/ /\ ~authorized
          /\ StartTransmitter
    /\ UNCHANGED <<authorized, buffer, server>>

\* handleDeviceCommand, for a message of the authorized device.
HandleDeviceCommand ==
    /\ authorized
    /\ Len(client.writeBuffer) < MaxQueue
    /\ client' = Send(client, "data")
    /\ UNCHANGED <<authorized, buffer, timer, server, view, last>>

----------------------------------------------------------------------------
(* handleTcpClientReceivedData: one turn of its loop, on what is left of    *)
(* _transmitterBuffer.  A command goes on to the device: see Receiver.      *)

Semicolons(pieces) == {i \in DOMAIN pieces : pieces[i] = "semicolon"}

IsAnswer(pieces) == IsPrefix(<<"O", "N">>, pieces)

Drop(pieces, n) == SubSeq(pieces, n + 1, Len(pieces))

Granted(p) == [p EXCEPT !.authorized = TRUE, !.buffer = Drop(@, 2), !.timer = Wait(@)]

Answered(p) == [p EXCEPT !.buffer = Drop(@, 2), !.timer = Wait(@)]

Stop(p)   == [p EXCEPT !.goOn = FALSE]
Denied(p) == [p EXCEPT !.goOn = FALSE, !.denied = TRUE]

\* Mutant: any four characters grant access.
ParseLogin_Anything(p) == IF Size(p.buffer) < 4 THEN Stop(p) ELSE Granted(p)

ParseLogin(p) ==
    IF Size(p.buffer) < 4 THEN Stop(p)
    ELSE IF IsPrefix(<<"LO", "AD">>, p.buffer) THEN Granted(p)
    ELSE Denied(p)

ParseAnswer(p) == IF IsAnswer(p.buffer) THEN Answered(p) ELSE Stop(p)

\* Mutants: an answer in front of a command is lost, and the loop ends after
\* one command.
ParseCommand_NoAnswer(p) == [p EXCEPT !.buffer = Drop(@, Min(Semicolons(p.buffer)))]
ParseCommand_Once(p) == Stop(ParseCommand_NoAnswer(p))

ParseCommand(p) ==
    LET end     == Min(Semicolons(p.buffer))
        command == SubSeq(p.buffer, 1, end - 1)
    IN  [p EXCEPT !.buffer = Drop(@, end),
                  !.timer = IF IsAnswer(command) THEN Wait(@) ELSE @]

ParseOne(p) ==
    IF Semicolons(p.buffer) = {}
    THEN IF Size(p.buffer) < 2 THEN Stop(p)
         ELSE IF p.authorized THEN ParseAnswer(p) ELSE ParseLogin(p)
    ELSE IF p.authorized THEN ParseCommand(p) ELSE Denied(p)

\* Every turn that goes on takes a piece off the buffer.
Parse(pieces) ==
    LET Begin == [buffer |-> pieces, authorized |-> authorized, timer |-> ExpiresFromNow(timer),
                  goOn |-> TRUE, denied |-> FALSE]
        after[turn \in 0 .. Len(pieces) + 1] ==
            IF turn = 0 THEN Begin
            ELSE LET p == after[turn - 1] IN IF p.goOn THEN ParseOne(p) ELSE p
    IN  after[Len(pieces) + 1]

\* The data read is what has come so far, or any first part of it.
ReceiveData(c) ==
    \E n \in 1 .. Len(server.incoming) :
        LET p == Parse(buffer \o SubSeq(server.incoming, 1, n))
            tooLong == ~p.denied /\ Size(p.buffer) > BufferLimit
        IN  /\ authorized' = p.authorized
            /\ buffer' = p.buffer
            /\ timer' = p.timer
            /\ server' = [server EXCEPT !.incoming = Drop(@, n)]
            /\ client' = StartRead(IF p.denied \/ tooLong THEN Disconnect(c) ELSE c)
            /\ last' = "data"
            /\ UNCHANGED view

----------------------------------------------------------------------------
(* The other calls of the client. *)

\* Mutant: the new connection is not read.
Connected_NoRead(c) ==
    /\ authorized' = FALSE
    /\ buffer' = << >>
    /\ client' = Send(Established(c), "login")
    /\ server' = NewServer
    /\ view' = "open"
    /\ last' = "connect"
    /\ UNCHANGED timer

\* handleTcpClientConnect
Connected(c) ==
    /\ authorized' = FALSE
    /\ buffer' = << >>
    /\ client' = StartRead(Send(Established(c), "login"))
    /\ server' = NewServer
    /\ view' = "open"
    /\ last' = "connect"
    /\ UNCHANGED timer

\* Mutant: the timer is set and not waited for.
Reconnect_NoWait(t) == ExpiresFromNow(t)

\* handleTcpClientError, which handleTcpClientDisconnect also ends in.
Reconnect(t) ==
    IF ReconnectDelay < 1 THEN ExpiresFromNow(t) ELSE Wait(ExpiresFromNow(t))

Ending(h) ==
    IF h.tells = "error" THEN "error" ELSE IF h.byUser THEN "closedByUser" ELSE "closedByPeer"

\* Mutant: _transmitterAuthorized is not reset.
Lost_KeepsLogin(h) ==
    /\ UNCHANGED authorized
    /\ buffer' = << >>
    /\ timer' = IF Ending(h) = "closedByUser" THEN timer ELSE Reconnect(timer)
    /\ server' = NewServer
    /\ view' = "closed"
    /\ last' = Ending(h)

Lost(h) ==
    /\ authorized' = FALSE
    /\ buffer' = << >>
    /\ timer' = IF Ending(h) = "closedByUser" THEN timer ELSE Reconnect(timer)
    /\ server' = NewServer
    /\ view' = "closed"
    /\ last' = Ending(h)

GiveUp(h) ==
    /\ ~h.proceed
    /\ client' = h.client
    /\ \/ h.tells # "nothing" /\ Lost(h)
       \/ h.tells = "nothing" /\ UNCHANGED <<authorized, buffer, timer, server, view, last>>

\* Bound of the model: once MaxDue timer handlers are due, one of them runs
\* before any handler of the client does.
Ready(kind) == Completed(client, kind) /\ timer.due < MaxDue

HandleResolve ==
    /\ Ready("resolve")
    /\ LET h == Handled(client, "resolve", "Resolve")
       IN  \/ GiveUp(h)
           \/ /\ h.proceed
              /\ client' = StartConnect(h.client)
              /\ UNCHANGED <<authorized, buffer, timer, server, view, last>>

HandleConnect ==
    /\ Ready("connect")
    /\ LET h == Handled(client, "connect", "Connecting")
       IN  GiveUp(h) \/ (h.proceed /\ Connected(h.client))

HandleRead ==
    /\ Ready("read")
    /\ LET h == Handled(client, "read", "Connected")
       IN  GiveUp(h) \/ (h.proceed /\ ReceiveData(h.client))

HandleWrite ==
    /\ Ready("write")
    /\ LET h == Handled(client, "write", "Connected")
       IN  \/ GiveUp(h)
           \/ /\ h.proceed
              /\ client' = AfterWrite(h.client)
              /\ UNCHANGED <<authorized, buffer, timer, server, view, last>>

----------------------------------------------------------------------------
(* The system and the server *)

\* A request that is written has reached the server.
Reach(s, request) ==
    CASE request = "login" -> [s EXCEPT !.asked = TRUE]
      [] request = "beat"  -> [s EXCEPT !.owed = @ + 1]
      [] request = "data"  -> s

\* An operation fails when the peer is gone, or has closed the connection.
Failure(kind) ==
    /\ client.io[kind] = "started"
    /\ client' = Complete(client, kind, "failed")
    /\ UNCHANGED <<authorized, buffer, timer, server, view, last>>

Success(kind) ==
    /\ client.io[kind] = "started"
    /\ kind = "read" => server.incoming # << >>
    /\ client' = Complete(client, kind, "ok")
    /\ server' = IF kind = "write" THEN Reach(server, Head(client.writeBuffer)) ELSE server
    /\ UNCHANGED <<authorized, buffer, timer, view, last>>

Completion(kind) == Success(kind) \/ Failure(kind)

Sends(pieces) ==
    /\ client.socketOpen
    /\ Len(server.incoming) + Len(pieces) <= MaxIncoming
    /\ UNCHANGED <<client, authorized, buffer, timer, view, last>>

ServerGrants ==
    /\ server.asked
    /\ Sends(<<"LO", "AD">>)
    /\ server' = [server EXCEPT !.asked = FALSE, !.granted = TRUE,
                                !.incoming = @ \o <<"LO", "AD">>]

ServerDenies ==
    /\ server.asked
    /\ Sends(<<"text", "text">>)
    /\ server' = [server EXCEPT !.asked = FALSE, !.incoming = @ \o <<"text", "text">>]

ServerAnswers ==
    /\ server.owed > 0
    /\ Sends(<<"O", "N">>)
    /\ server' = [server EXCEPT !.owed = @ - 1, !.incoming = @ \o <<"O", "N">>]

ServerCommands ==
    /\ server.granted
    /\ \E command \in {<<"text", "semicolon">>, <<"text", "text", "semicolon">>} :
          /\ Sends(command)
          /\ server' = [server EXCEPT !.incoming = @ \o command]

ServerSteps == ServerGrants \/ ServerDenies \/ ServerAnswers \/ ServerCommands

Next ==
    \/ Start
    \/ TimerExpires
    \/ HandleTimer
    \/ HandleDeviceCommand
    \/ \E kind \in IoKinds : Completion(kind)
    \/ HandleResolve
    \/ HandleConnect
    \/ HandleRead
    \/ HandleWrite
    \/ ServerSteps

(***************************************************************************)
(* main() starts the transmitter, a timer expires, the event loop runs     *)
(* every handler that is ready, and the system ends every name lookup and  *)
(* connection attempt.  Neither the server nor the device has to act.      *)
(***************************************************************************)
Fairness ==
    /\ WF_vars(Start)
    /\ WF_vars(TimerExpires)
    /\ WF_vars(HandleTimer)
    /\ \A kind \in {"resolve", "connect"} : WF_vars(Completion(kind))
    /\ WF_vars(HandleResolve)
    /\ WF_vars(HandleConnect)
    /\ WF_vars(HandleRead)
    /\ WF_vars(HandleWrite)

Spec == Init /\ [][Next]_vars

FairSpec == Spec /\ Fairness

----------------------------------------------------------------------------
(* Properties *)

TypeOK ==
    /\ client \in [status : Statuses, ioCount : Nat, writeBuffer : Seq(Requests),
                   socketOpen : BOOLEAN, io : [IoKinds -> IoStates]]
    /\ authorized \in BOOLEAN
    /\ buffer \in Seq(Pieces)
    /\ timer \in [waiting : Nat, due : Nat]
    /\ server \in [asked : BOOLEAN, granted : BOOLEAN, owed : Nat, incoming : Seq(Pieces)]
    /\ view \in {"closed", "opening", "open"}
    /\ last \in {"none", "connect", "data", "closedByPeer", "closedByUser", "error"}

\* The transmitter takes itself for authorized only on a connection that is
\* not yet reported lost and on which the server has sent LOAD; a late timer
\* handler or a new connection never acts on the login of an earlier one.
NoStaleAuthorization == authorized => view = "open" /\ server.granted

\* Nothing but the login is handed to a server that has not granted access.
NothingBeforeGrant ==
    ~server.granted => \A i \in DOMAIN client.writeBuffer : client.writeBuffer[i] = "login"

Count(pieces, piece) == Cardinality({i \in DOMAIN pieces : pieces[i] = piece})

Heartbeats ==
    timer.waiting + timer.due + Count(client.writeBuffer, "beat") + server.owed
    + Count(server.incoming, "N")

\* On a live connection the heartbeat is always somewhere: a wait, a message
\* to the server, or an answer from it.  If it were lost no one would ever
\* notice that the connection is dead.
KeepaliveNeverLost ==
    authorized /\ client.status = "Connected" /\ client.socketOpen => Heartbeats > 0

\* However the reads cut the stream, what is left in _transmitterBuffer is the
\* beginning of something that has not come whole.
NothingLeftUnparsed ==
    client.status = "Connected" =>
        /\ Semicolons(buffer) = {}
        /\ IF authorized THEN ~IsAnswer(buffer) ELSE Size(buffer) < 4

\* A connection that is lost, or an attempt that fails, is followed by another
\* attempt when transmitter.reconnect_delay is set.
Reconnects ==
    (view = "closed" /\ last \in {"closedByPeer", "error"} /\ ReconnectDelay > 0)
        ~> (view = "opening")

\* What TcpClientLoop shows of a TcpClient with an arbitrary owner holds of the
\* transmitter's.
Loop == INSTANCE TcpClientLoop
            WITH Messages <- Requests, Lengths <- Nat,
                 last <- IF last \in {"closedByPeer", "closedByUser"} THEN "disconnect" ELSE last

OwnsTcpClient == Loop!Spec

\* "(no auto-reconnect)" (ApplicationTransmitter.cpp:107): with no delay set, a
\* lost connection stays closed.  The cancelled heartbeat wait breaks it.
NoAutoReconnect ==
    [][view = "closed" /\ last \in {"closedByPeer", "error"} /\ ReconnectDelay < 1
         => view' = "closed"]_vars
=============================================================================
