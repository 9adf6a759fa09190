--------------------------- MODULE SslClientLoop ----------------------------
(***************************************************************************)
(* One SslClient on the event loop (SslClient.cpp): TLS over a TcpClient,  *)
(* with the same interface to its owner, which is HttpsClient in the       *)
(* program and arbitrary here.  It repeats the pattern of TcpClient, with  *)
(* its own _status and _ioCount, but its only operation of its own is the  *)
(* wait of the millisecond between two writes; the rest happens inside     *)
(* the calls of the TcpClient.                                             *)
(*                                                                         *)
(* mbedTLS is outside src/src: a handshake step wants more, is done or     *)
(* fails, a read brings data, wants more or fails, a write takes a buffer, *)
(* wants to be repeated or fails, whatever the bytes in _sslBuffer are.    *)
(*                                                                         *)
(* The owner acts between handlers.  When it acts inside a call it gets,   *)
(* only TcpClient's next async_read follows, which fails whether the       *)
(* socket is closed before it or after, so the outcome is the same.        *)
(***************************************************************************)
EXTENDS Integers, Sequences

CONSTANTS
    MaxQueue,   \* bound of the model: buffers in both write queues when more is sent
    MaxDue      \* bound of the model: timer handlers that are due when more is sent

ASSUME BoundsAssumption == MaxQueue \in Nat \ {0} /\ MaxDue \in Nat \ {0}

VARIABLES
    tcp,        \* _tcpClient
    ssl,        \* _status, _ioCount, the length of _writeBuffer, _wasConnected
    timer,      \* _timer: waits under way, and handlers due to run
    view, last  \* what the owner was told, as in StreamClient

vars == <<tcp, ssl, timer, view, last>>

Tcp == INSTANCE TcpClient

Contract == INSTANCE StreamClient

Statuses == {"Disconnected", "Connecting", "Handshake", "Connected", "Disconnecting", "Error"}

NewSsl == [status |-> "Disconnected", ioCount |-> 0, queue |-> 0, wasConnected |-> FALSE]

Init ==
    /\ tcp = Tcp!NewClient
    /\ ssl = NewSsl
    /\ timer = [waiting |-> 0, due |-> 0]
    /\ view = "closed"
    /\ last = "none"

----------------------------------------------------------------------------
(* The methods call one another, the TcpClient and the owner, so they are   *)
(* operators on a record of all of it.                                      *)

World == [tcp |-> tcp, ssl |-> ssl, timer |-> timer, view |-> view, last |-> last]

Become(w) ==
    /\ tcp' = w.tcp
    /\ ssl' = w.ssl
    /\ timer' = w.timer
    /\ view' = w.view
    /\ last' = w.last

Tell(w, newView, call) == [w EXCEPT !.view = newView, !.last = call]

Counted(w) == [w EXCEPT !.ssl.ioCount = @ + 1]

Released(w) == [w EXCEPT !.ssl.ioCount = @ - 1]

\* Whether sslWriteCallback and sslReadCallback take part.
Flows(w) == w.ssl.status \in {"Handshake", "Connected"}

TcpSend(w) == [w EXCEPT !.tcp = Tcp!Send(@, "record")]

\* Mutant: an off-by-one.
MustWait_OffByOne(w) == w.ssl.ioCount >= 0

\* "Waiting for all IO operations to complete"
MustWait(w) == w.ssl.ioCount > 0

\* Mutant: _wasConnected is not reset.
Ended_KeepsConnected(w) ==
    [w EXCEPT !.ssl = [@ EXCEPT !.status = "Disconnected", !.ioCount = 0, !.queue = 0]]

Ended(w) ==
    [w EXCEPT !.ssl = [@ EXCEPT !.status = "Disconnected", !.ioCount = 0, !.queue = 0,
                                !.wasConnected = FALSE]]

EndOf(handleStatus) == IF handleStatus = "Connected" THEN "disconnect" ELSE "error"

Result(w, proceed) == [world |-> w, proceed |-> proceed]

\* Mutant: _status stays until everything has ended.
HandleAnything_KeepsStatus(w, handleStatus, error) ==
    LET released == Released(w)
        ending   == [released EXCEPT !.tcp = Tcp!Disconnect(@)]
    IN  CASE w.ssl.status = "Disconnected" -> Result(released, FALSE)
          [] w.ssl.status \in {"Connecting", "Handshake", "Connected"} /\ ~error ->
                Result(released, TRUE)
          [] OTHER -> IF MustWait(ending) THEN Result(ending, FALSE)
                      ELSE Result(Tell(Ended(ending), "closed", EndOf(handleStatus)), FALSE)

\* The result is the world, and whether the handler goes on.
HandleAnything(w, handleStatus, error) ==
    LET released == Released(w)
        ending   == [released EXCEPT !.ssl.status = IF @ = "Disconnecting" THEN @ ELSE "Error",
                                     !.tcp = Tcp!Disconnect(@)]
    IN  CASE w.ssl.status = "Disconnected" -> Result(released, FALSE)
          [] w.ssl.status \in {"Connecting", "Handshake", "Connected"} /\ ~error ->
                Result(released, TRUE)
          [] OTHER -> IF MustWait(ending) THEN Result(ending, FALSE)
                      ELSE Result(Tell(Ended(ending), "closed", EndOf(handleStatus)), FALSE)

----------------------------------------------------------------------------
(* handleHandshake, handleRead and handleWrite, with what mbedTLS says.     *)

HandleHandshake(w, result) ==
    LET h == HandleAnything(Counted(w), "Handshake", result = "failed")
    IN  IF ~h.proceed \/ result = "more" THEN h.world
        ELSE Tell([h.world EXCEPT !.ssl.status = "Connected", !.ssl.wasConnected = TRUE],
                  "open", "connect")

\* The loop around handleRead: it brings data any number of times, and ends
\* when mbedTLS wants more or fails; the calls before a failure leave no trace.
HandleRead(w, result) ==
    LET h == HandleAnything(Counted(w), "Connected", result = "failed")
    IN  IF h.proceed /\ result = "data" THEN Tell(h.world, "open", "data") ELSE h.world

\* expires_from_now: the handlers of the waits it cancels run at once.
ExpiresFromNow(t) == [waiting |-> 0, due |-> t.due + t.waiting]

StartWait(w) ==
    [Counted(w) EXCEPT !.timer = [ExpiresFromNow(@) EXCEPT !.waiting = 1]]

\* Mutant: the return on an empty buffer forgets the count.
HandleWrite_EmptyKeeps(w, result) ==
    LET h == HandleAnything(w, "Connected", result = "failed" \/ ~Flows(w))
    IN  CASE w.ssl.queue = 0 -> w
          [] w.ssl.queue > 0 /\ ~h.proceed -> h.world
          [] OTHER -> StartWait([h.world EXCEPT !.ssl.queue = IF result = "ok" THEN @ - 1 ELSE @])

\* Its count was taken before: by send(), or when the wait was started.
HandleWrite(w, result) ==
    LET sent == IF Flows(w) /\ result = "ok" THEN TcpSend(w) ELSE w
        h    == HandleAnything(sent, "Connected", result = "failed" \/ ~Flows(w))
    IN  CASE w.ssl.queue = 0 -> Released(w)
          [] w.ssl.queue > 0 /\ ~h.proceed -> h.world
          [] OTHER -> StartWait([h.world EXCEPT !.ssl.queue = IF result = "ok" THEN @ - 1 ELSE @])

WriteResults == {"ok", "again", "failed"}

----------------------------------------------------------------------------
(* The owner acts. *)

Connect(w) ==
    IF w.ssl.status # "Disconnected" THEN w
    ELSE [w EXCEPT !.ssl.status = "Connecting", !.ssl.queue = 0,
                   !.tcp = Tcp!Connect(@), !.view = "opening"]

Disconnect(w) ==
    IF w.ssl.status \in {"Disconnected", "Disconnecting", "Error"} THEN w
    ELSE [w EXCEPT !.ssl.status = "Disconnecting", !.tcp = Tcp!Disconnect(@)]

\* Mutants: _writeBuffer.empty() is asked after the push, and the first write
\* is not counted.
Send_LateTest(w, result) ==
    IF w.ssl.status # "Connected" THEN w ELSE [w EXCEPT !.ssl.queue = @ + 1]
Send_Uncounted(w, result) ==
    LET queued == [w EXCEPT !.ssl.queue = @ + 1]
    IN  CASE w.ssl.status # "Connected" -> w
          [] w.ssl.status = "Connected" /\ w.ssl.queue > 0 -> queued
          [] OTHER -> HandleWrite(queued, result)

Send(w, result) ==
    LET queued == [w EXCEPT !.ssl.queue = @ + 1]
    IN  CASE w.ssl.status # "Connected" -> w
          [] w.ssl.status = "Connected" /\ w.ssl.queue > 0 -> queued
          [] OTHER -> HandleWrite(Counted(queued), result)

CallConnect == ssl.status = "Disconnected" /\ Become(Connect(World))

CallDisconnect == Become(Disconnect(World))

CallSend ==
    /\ Len(tcp.writeBuffer) + ssl.queue < MaxQueue
    /\ timer.due < MaxDue
    /\ \E result \in WriteResults : Become(Send(World, result))

----------------------------------------------------------------------------
(* The calls of the TcpClient: handleTcpClientConnect, Disconnect, Error and *)
(* ReceivedData.  A handshake step may have something to send.              *)

HandshakeSteps(w) ==
    LET talks == IF Len(w.tcp.writeBuffer) < MaxQueue THEN {w, TcpSend(w)} ELSE {w}
    IN  {HandleHandshake(t, result) : t \in talks, result \in {"more", "done", "failed"}}

OnTcpConnect(w) == HandshakeSteps([w EXCEPT !.ssl.status = "Handshake"])

\* Mutant: the end counts always as that of an established connection.
OnTcpDisconnect_Connected(w) == HandleAnything(Counted(w), "Connected", TRUE).world

OnTcpDisconnect(w) ==
    HandleAnything(Counted(w), IF w.ssl.wasConnected THEN "Connected" ELSE "Handshake", TRUE).world

OnTcpError(w) == HandleAnything(Counted(w), "Connecting", TRUE).world

OnTcpData(w) ==
    CASE w.ssl.status = "Handshake" -> HandshakeSteps(w)
      [] w.ssl.status = "Connected" -> {HandleRead(w, result) : result \in {"more", "data", "failed"}}
      [] OTHER -> {w}

----------------------------------------------------------------------------
(* The event loop runs a handler of the TcpClient: see TcpClientLoop.       *)

Completion(kind) ==
    /\ tcp.io[kind] = "started"
    /\ \E result \in {"ok", "failed"} : tcp' = Tcp!Complete(tcp, kind, result)
    /\ UNCHANGED <<ssl, timer, view, last>>

With(client) == [World EXCEPT !.tcp = client]

GiveUp(h) ==
    /\ ~h.proceed
    /\ Become(CASE h.tells = "nothing"    -> With(h.client)
                [] h.tells = "error"      -> OnTcpError(With(h.client))
                [] h.tells = "disconnect" -> OnTcpDisconnect(With(h.client)))

TcpHandleResolve ==
    /\ Tcp!Completed(tcp, "resolve")
    /\ LET h == Tcp!Handled(tcp, "resolve", "Resolve")
       IN  \/ GiveUp(h)
           \/ h.proceed /\ Become(With(Tcp!StartConnect(h.client)))

\* TcpClient reads on after the call.
ReadOn(w) == [w EXCEPT !.tcp = Tcp!StartRead(@)]

TcpHandleConnect ==
    /\ Tcp!Completed(tcp, "connect")
    /\ LET h == Tcp!Handled(tcp, "connect", "Connecting")
       IN  \/ GiveUp(h)
           \/ h.proceed /\ \E w \in OnTcpConnect(With(Tcp!Established(h.client))) : Become(ReadOn(w))

TcpHandleRead ==
    /\ Tcp!Completed(tcp, "read")
    /\ LET h == Tcp!Handled(tcp, "read", "Connected")
       IN  \/ GiveUp(h)
           \/ h.proceed /\ \E w \in OnTcpData(With(h.client)) : Become(ReadOn(w))

TcpHandleWrite ==
    /\ Tcp!Completed(tcp, "write")
    /\ LET h == Tcp!Handled(tcp, "write", "Connected")
       IN  \/ GiveUp(h)
           \/ h.proceed /\ Become(With(Tcp!AfterWrite(h.client)))

----------------------------------------------------------------------------
(* _timer *)

TimerExpires ==
    /\ timer.waiting > 0
    /\ timer' = ExpiresFromNow(timer)
    /\ UNCHANGED <<tcp, ssl, view, last>>

HandleTimer ==
    /\ timer.due > 0
    /\ \E result \in WriteResults :
          Become(HandleWrite([World EXCEPT !.timer.due = @ - 1], result))

Next ==
    \/ CallConnect
    \/ CallDisconnect
    \/ CallSend
    \/ \E kind \in Tcp!IoKinds : Completion(kind)
    \/ TcpHandleResolve
    \/ TcpHandleConnect
    \/ TcpHandleRead
    \/ TcpHandleWrite
    \/ TimerExpires
    \/ HandleTimer

\* As in TcpClientLoop; the timer expires and its handlers run.
Fairness ==
    /\ \A kind \in {"resolve", "connect"} : WF_vars(Completion(kind))
    /\ WF_vars(TcpHandleResolve)
    /\ WF_vars(TcpHandleConnect)
    /\ WF_vars(TcpHandleRead)
    /\ WF_vars(TcpHandleWrite)
    /\ WF_vars(TimerExpires)
    /\ WF_vars(HandleTimer)

Spec == Init /\ [][Next]_vars

FairSpec == Spec /\ Fairness

----------------------------------------------------------------------------
(* Properties *)

TypeOK ==
    /\ tcp \in [status : Tcp!Statuses, ioCount : Nat, writeBuffer : Seq({"record"}),
                socketOpen : BOOLEAN, io : [Tcp!IoKinds -> Tcp!IoStates]]
    /\ ssl \in [status : Statuses, ioCount : Nat, queue : Nat, wasConnected : BOOLEAN]
    /\ timer \in [waiting : {0, 1}, due : Nat]
    /\ Contract!ContractTypeOK

\* _ioCount is the number of runs of handleWrite that are still to come, also
\* when a send() cancels a wait whose handler then runs besides the next one.
IoCountExact == ssl.ioCount = timer.waiting + timer.due

\* What waits in _writeBuffer is always going to be written or dropped: some
\* run of handleWrite is still to come.
QueueIsServed == ssl.queue > 0 => ssl.ioCount > 0

\* When connect() is accepted again no timer handler is left that would write
\* into the new connection, and the end of it will not be taken for the end of
\* an established one.
QuietWhenDisconnected ==
    ssl.status = "Disconnected" =>
        ssl.ioCount = 0 /\ ssl.queue = 0 /\ ~ssl.wasConnected

\* An SslClient that waits for its TcpClient has one that is not idle, and a TLS
\* connection stands on an established TCP connection, not on one that is still
\* to be opened or already being closed.  connect() is accepted while the
\* TcpClient still closes the connection before, and then ignored by it; the end
\* of that one is taken for the failure of the attempt.
StandsOnTcp ==
    /\ ssl.status = "Connecting" => tcp.status # "Disconnected"
    /\ ssl.status \in {"Handshake", "Connected"} => tcp.status = "Connected"

\* The contract of TcpClientHandler, to which TcpClient is held, holds of the
\* calls of SslClient too.
KeepsContract == Contract!Spec

\* An SslClient that is told to end, or that has failed, with buffers left
\* to write comes to accept connect() again.
EndingEnds ==
    (ssl.status \in {"Disconnecting", "Error"} /\ ssl.queue > 0) ~> (ssl.status = "Disconnected")

\* "Waiting for all IO operations to complete" (SslClient.cpp:240): a client
\* that waits has something to wait for.  The wait of a write timer that finds
\* an empty buffer breaks it.
WaitEnds ==
    ssl.status \in {"Disconnecting", "Error"} => ssl.ioCount > 0 \/ tcp.status # "Disconnected"
=============================================================================
