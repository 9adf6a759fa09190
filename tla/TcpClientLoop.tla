--------------------------- MODULE TcpClientLoop ----------------------------
(***************************************************************************)
(* One TcpClient on the event loop, owned by an arbitrary handler: one that *)
(* connects, sends and disconnects whenever it runs, also from inside the   *)
(* calls the client makes to it.  Application's transmitter and SslClient   *)
(* are two such handlers.                                                   *)
(***************************************************************************)
EXTENDS TcpClient

CONSTANTS
    Messages,   \* what a handler may send
    Lengths     \* bound of the model: lengths of _writeBuffer at which a handler sends more

ASSUME MessagesAssumption == Messages # {}
ASSUME LengthsAssumption == 0 \in Lengths /\ Lengths \subseteq Nat

VARIABLES
    client,     \* the TcpClient
    view,       \* the handler's: where the calls it got say the connection is
    last        \* the handler's: the last call it got

vars == <<client, view, last>>

Contract == INSTANCE StreamClient

Clients ==
    [status      : Statuses,
     ioCount     : Nat,
     writeBuffer : Seq(Messages),
     socketOpen  : BOOLEAN,
     io          : [IoKinds -> IoStates]]

Init ==
    /\ client = NewClient
    /\ view = "closed"
    /\ last = "none"

----------------------------------------------------------------------------
(* The handler acts: from a timer, or from another component's callback.   *)

CallConnect ==
    /\ client.status = "Disconnected"
    /\ client' = Connect(client)
    /\ view' = "opening"
    /\ UNCHANGED last

CallDisconnect ==
    /\ client' = Disconnect(client)
    /\ UNCHANGED <<view, last>>

CallSend(m) ==
    /\ Len(client.writeBuffer) \in Lengths
    /\ client' = Send(client, m)
    /\ UNCHANGED <<view, last>>

\* What a handler may leave behind of a client that calls it.
Reactions(c) ==
    LET sent == {Send(c, m) : m \in {m \in Messages : Len(c.writeBuffer) \in Lengths}}
    IN  {c, Disconnect(c)} \union sent \union {Disconnect(s) : s \in sent}

----------------------------------------------------------------------------
(* The system completes an operation. *)

Completion(kind) ==
    /\ client.io[kind] = "started"
    /\ \E result \in {"ok", "failed"} : client' = Complete(client, kind, result)
    /\ UNCHANGED <<view, last>>

----------------------------------------------------------------------------
(* The event loop runs a completion handler. *)

\* What the handler is told when handleAnything ends the handler early.
Told(h) ==
    \/ /\ h.tells = "nothing"
       /\ UNCHANGED <<view, last>>
    \/ /\ h.tells # "nothing"
       /\ view' = "closed"
       /\ last' = h.tells

GiveUp(h) ==
    /\ ~h.proceed
    /\ client' = h.client
    /\ Told(h)

HandleResolve ==
    /\ Completed(client, "resolve")
    /\ LET h == Handled(client, "resolve", "Resolve")
       IN  \/ GiveUp(h)
           \/ /\ h.proceed
              /\ client' = StartConnect(h.client)
              /\ UNCHANGED <<view, last>>

HandleConnect ==
    /\ Completed(client, "connect")
    /\ LET h == Handled(client, "connect", "Connecting")
       IN  \/ GiveUp(h)
           \/ /\ h.proceed
              /\ \E c \in Reactions(Established(h.client)) : client' = StartRead(c)
              /\ view' = "open"
              /\ last' = "connect"

HandleRead ==
    /\ Completed(client, "read")
    /\ LET h == Handled(client, "read", "Connected")
       IN  \/ GiveUp(h)
           \/ /\ h.proceed
              /\ \E c \in Reactions(h.client) : client' = StartRead(c)
              /\ last' = "data"
              /\ UNCHANGED view

HandleWrite ==
    /\ Completed(client, "write")
    /\ LET h == Handled(client, "write", "Connected")
       IN  \/ GiveUp(h)
           \/ /\ h.proceed
              /\ client' = AfterWrite(h.client)
              /\ UNCHANGED <<view, last>>

Next ==
    \/ CallConnect
    \/ CallDisconnect
    \/ \E m \in Messages : CallSend(m)
    \/ \E kind \in IoKinds : Completion(kind)
    \/ HandleResolve
    \/ HandleConnect
    \/ HandleRead
    \/ HandleWrite

(***************************************************************************)
(* The event loop runs every handler that is ready, and the system ends    *)
(* every name lookup and connection attempt, if only by a timeout of its   *)
(* own.  A read or a write ends only if the peer does something, and       *)
(* nothing obliges the handler to call.                                    *)
(***************************************************************************)
Fairness ==
    /\ \A kind \in {"resolve", "connect"} : WF_vars(Completion(kind))
    /\ WF_vars(HandleResolve)
    /\ WF_vars(HandleConnect)
    /\ WF_vars(HandleRead)
    /\ WF_vars(HandleWrite)

Spec == Init /\ [][Next]_vars

FairSpec == Spec /\ Fairness

----------------------------------------------------------------------------
(* Properties *)

\* The type invariant; _ioCount, a signed int in the code, never goes below 0.
TypeOK ==
    /\ client \in Clients
    /\ Contract!ContractTypeOK

\* _ioCount is the number of operations whose handler has still to run: the
\* increments before the asynchronous calls and the decrement in
\* handleAnything balance over every order of completions and disconnects.
IoCountExact ==
    client.ioCount = Outstanding(client, "resolve") + Outstanding(client, "connect")
                   + Outstanding(client, "read") + Outstanding(client, "write")

\* send() starts a write only when the buffer was empty and handleWrite
\* continues it, so what is queued on a live connection is always being
\* written, by one write, and handleWrite never pops an empty buffer.
WriteQueueDriven ==
    /\ client.io["write"] # "idle" => client.writeBuffer # << >>
    /\ client.status = "Connected" /\ client.socketOpen /\ client.writeBuffer # << >>
         => client.io["write"] # "idle"

\* When connect() is accepted again nothing of the previous connection is
\* left: no handler that would run into the new one, no data that would be
\* sent on it, no open socket.
QuietWhenDisconnected ==
    client.status = "Disconnected" =>
        /\ \A kind \in IoKinds : client.io[kind] = "idle"
        /\ client.writeBuffer = << >>
        /\ ~client.socketOpen

\* What is sent goes out once and in order: a message is only ever appended to
\* _writeBuffer, and leaves it when it is the first and its own write has
\* succeeded, or together with all others at the end of the connection, when
\* the system writes from none of them any more.
WritesInOrder ==
    [][LET before == client.writeBuffer
           after  == client'.writeBuffer
       IN  \/ after = before
           \/ \E m \in Messages : after = Append(before, m)
           \/ /\ client.io["write"] = "ok" /\ client'.io["write"] # "ok"
              /\ before # << >> /\ after = Tail(before)
           \/ /\ client'.status = "Disconnected" /\ client'.io["write"] = "idle"
              /\ after = << >>]_vars

\* The client keeps the contract of TcpClientHandler: one handleTcpClientError
\* or handleTcpClientConnect per accepted connect(), data only between connect
\* and disconnect, and one disconnect per connection.
KeepsContract == Contract!Spec

\* disconnect() ends: while some handler has still to run, the client comes to
\* accept connect() again without the peer's help.
DisconnectCompletes ==
    (client.status = "Disconnecting" /\ client.ioCount > 0) ~> (client.status = "Disconnected")

\* Every accepted connect() is answered by a call, of success or of failure.
AttemptEnds == (view = "opening") ~> (view # "opening")

\* "Waiting for all IO operations to complete" (TcpClient.cpp:116): once they
\* all have, the client is disconnected.  The code misses it when a failed
\* read is handled before a write that had succeeded: see README.
WaitEnds == client.ioCount = 0 => client.status = "Disconnected"
=============================================================================
