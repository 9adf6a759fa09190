---------------------------- MODULE StreamClient ----------------------------
(***************************************************************************)
(* What the interface TcpClientHandler<T> promises its handler, whatever   *)
(* the client behind it is (TcpClient for the transmitter, SslClient for   *)
(* the Telegram bot).  For every accepted connect() the handler sees       *)
(*                                                                         *)
(*      opening --handleTcpClientError--> closed                           *)
(*      opening --handleTcpClientConnect--> open                           *)
(*      open    --handleTcpClientReceivedData--> open                      *)
(*      open    --handleTcpClientDisconnect--> closed                      *)
(*                                                                         *)
(* so exactly one terminal call per attempt, of the kind that fits how far *)
(* the attempt came, and data only while the connection is open.           *)
(***************************************************************************)

VARIABLES
    view,   \* where the handler, judging by the calls it got, takes the client to be
    last    \* the last call the handler got

viewVars == <<view, last>>

Views == {"closed", "opening", "open"}
Calls == {"none", "connect", "data", "disconnect", "error"}

ContractTypeOK ==
    /\ view \in Views
    /\ last \in Calls

Init ==
    /\ view = "closed"
    /\ last = "none"

\* connect() is called and accepted.
Open ==
    /\ view = "closed"
    /\ view' = "opening"
    /\ UNCHANGED last

OnConnect ==
    /\ view = "opening"
    /\ view' = "open"
    /\ last' = "connect"

OnData ==
    /\ view = "open"
    /\ last' = "data"
    /\ UNCHANGED view

OnDisconnect ==
    /\ view = "open"
    /\ view' = "closed"
    /\ last' = "disconnect"

OnError ==
    /\ view = "opening"
    /\ view' = "closed"
    /\ last' = "error"

Next == Open \/ OnConnect \/ OnData \/ OnDisconnect \/ OnError

Spec == Init /\ [][Next]_viewVars
=============================================================================
