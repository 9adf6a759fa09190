----------------------------- MODULE TcpClient ------------------------------
(***************************************************************************)
(* The class TcpClient (src/src/TcpClient.cpp): an asynchronous TCP client *)
(* on Boost.Asio.  Application::_transmitter is one, and SslClient drives  *)
(* another.                                                                *)
(*                                                                         *)
(* This module has no variables.  A client is a record and every method is *)
(* an operator from a client to a client, because the methods call one     *)
(* another and the handler synchronously, inside one turn of the event     *)
(* loop.  The modules that own a client turn its handlers into actions.    *)
(*                                                                         *)
(* Boost.Asio is outside src/src and is modelled from how it is used: an   *)
(* asynchronous operation is started, completes with success or failure,   *)
(* and its completion handler runs later.  Closing the socket fails what   *)
(* has been started and not what has completed already: the handler of a   *)
(* completed operation still runs, with the result it completed with.  An  *)
(* operation started on a closed socket fails.  The library promises no    *)
(* order between the handlers of different operations.                     *)
(***************************************************************************)
EXTENDS Integers, Sequences

Statuses == {"Disconnected", "Resolve", "Connecting", "Connected", "Disconnecting"}

\* The asynchronous operations; the client has at most one of each under way.
IoKinds == {"resolve", "connect", "read", "write"}

\* idle: not under way; started: the system works on it; ok, failed: completed,
\* and the completion handler has not run yet.
IoStates == {"idle", "started", "ok", "failed"}

NewClient ==
    [status      |-> "Disconnected",
     ioCount     |-> 0,
     writeBuffer |-> << >>,
     socketOpen  |-> FALSE,
     io          |-> [k \in IoKinds |-> "idle"]]

----------------------------------------------------------------------------
(* Boost.Asio *)

CloseSocket(c) ==
    [c EXCEPT !.socketOpen = FALSE,
              !.io = [k \in IoKinds |->
                        IF k # "resolve" /\ c.io[k] = "started" THEN "failed" ELSE c.io[k]]]

FirstState(c, kind) ==
    IF kind \in {"read", "write"} /\ ~c.socketOpen THEN "failed" ELSE "started"

\* Every asynchronous call of the class is preceded by _ioCount++.
StartIo(c, kind) ==
    [c EXCEPT !.ioCount = @ + 1, !.io = [@ EXCEPT ![kind] = FirstState(c, kind)]]

\* The completion handler of an operation has begun to run.
Taken(c, kind) == [c EXCEPT !.io[kind] = "idle"]

Completed(c, kind) == c.io[kind] \in {"ok", "failed"}

Complete(c, kind, result) == [c EXCEPT !.io[kind] = result]

Outstanding(c, kind) == IF c.io[kind] = "idle" THEN 0 ELSE 1

----------------------------------------------------------------------------
(* The public methods *)

Connect(c) ==
    IF c.status # "Disconnected" THEN c
    ELSE StartIo([c EXCEPT !.status = "Resolve"], "resolve")

\* Mutant: the socket is left for the peer to close.
Disconnect_NoClose(c) ==
    IF c.status \in {"Disconnected", "Disconnecting"} THEN c
    ELSE [c EXCEPT !.status = "Disconnecting"]

\* In Resolve only the resolver is cancelled: its handler still has to run.
Disconnect(c) ==
    CASE c.status \in {"Disconnected", "Disconnecting"} -> c
      [] c.status = "Resolve" -> [c EXCEPT !.status = "Disconnecting"]
      [] OTHER -> CloseSocket([c EXCEPT !.status = "Disconnecting"])

StartWrite(c) == StartIo(c, "write")

\* Mutant: _writeBuffer.empty() is asked after the push.
Send_LateTest(c, data) ==
    IF c.status # "Connected" THEN c ELSE [c EXCEPT !.writeBuffer = Append(@, data)]

Send(c, data) ==
    LET queued == [c EXCEPT !.writeBuffer = Append(@, data)]
    IN  IF c.status # "Connected" THEN c
        ELSE IF c.writeBuffer # << >> THEN queued
        ELSE StartWrite(queued)

----------------------------------------------------------------------------
(* The completion handlers.  Each begins with handleAnything, whose result  *)
(* is the client, whether the handler goes on, and what the owner is told:  *)
(* nothing, "disconnect" or "error", and whether the client had itself been *)
(* asked to disconnect (ClosedByUser, operation_aborted).                   *)

Result(c, proceed, tells, byUser) ==
    [client |-> c, proceed |-> proceed, tells |-> tells, byUser |-> byUser]

\* Mutants: an off-by-one, and no waiting at all.
MustWait_OffByOne(c) == c.ioCount >= 0
MustWait_Never(c) == FALSE

\* "Waiting for all IO operations to complete"
MustWait(c) == c.ioCount > 0

Ended(c) == [c EXCEPT !.writeBuffer = << >>, !.status = "Disconnected", !.ioCount = 0]

\* Mutant: the end of an attempt is told as the end of a connection.
EndOf_Disconnect(handleStatus) == "disconnect"

EndOf(handleStatus) == IF handleStatus = "Connected" THEN "disconnect" ELSE "error"

HandleAnything(client, handleStatus, error) ==
    LET c      == [client EXCEPT !.ioCount = @ - 1]
        closed == CloseSocket(c)
        asked  == c.status = "Disconnecting"
    IN  CASE c.status = "Disconnected" -> Result(c, FALSE, "nothing", FALSE)
          [] c.status # "Disconnected" /\ ~asked /\ ~error -> Result(c, TRUE, "nothing", FALSE)
          [] OTHER -> IF MustWait(closed) THEN Result(closed, FALSE, "nothing", FALSE)
                      ELSE Result(Ended(closed), FALSE, EndOf(handleStatus), asked)

\* The operation's handler runs: its result, and handleAnything on it.
Handled(c, kind, handleStatus) ==
    HandleAnything(Taken(c, kind), handleStatus, c.io[kind] = "failed")

\* Mutants: the new operation is not counted.
StartConnect_Uncounted(c) ==
    [c EXCEPT !.status = "Connecting", !.socketOpen = TRUE, !.io["connect"] = "started"]
AfterWrite_Uncounted(c) ==
    LET popped == [c EXCEPT !.writeBuffer = Tail(@)]
    IN  IF popped.writeBuffer = << >> THEN popped
        ELSE [popped EXCEPT !.io["write"] = FirstState(c, "write")]

\* The rest of each handler, after handleAnything has returned true.  Those of
\* handleConnect and handleRead call the owner between Established and StartRead.
StartConnect(c) ==
    StartIo([c EXCEPT !.status = "Connecting", !.socketOpen = TRUE], "connect")

Established(c) == [c EXCEPT !.status = "Connected"]

StartRead(c) == StartIo(c, "read")

AfterWrite(c) ==
    LET popped == [c EXCEPT !.writeBuffer = Tail(@)]
    IN  IF popped.writeBuffer = << >> THEN popped ELSE StartWrite(popped)
=============================================================================
