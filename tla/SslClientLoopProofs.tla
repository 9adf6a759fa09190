------------------------ MODULE SslClientLoopProofs ------------------------
(***************************************************************************)
(* What SslClientLoop promises, for every bound of its queues: the client  *)
(* keeps the contract of TcpClientHandler as the TcpClient below it does,  *)
(* counts the runs of handleWrite exactly, is clean when it accepts        *)
(* connect() again, and a TLS connection stands on a TCP connection.       *)
(*                                                                         *)
(* The methods call one another, so the invariant is about a world in the  *)
(* middle of a handler: Running counts the runs of handleWrite that are    *)
(* not left to the timer, Stands holds except between the call of the      *)
(* TcpClient and the answer to it, Served between handlers.  What the      *)
(* TcpClient does in each call is known from the lemmas about a client in  *)
(* TcpClientLoopProofs, by an instance of it.                              *)
(***************************************************************************)
EXTENDS SslClientLoop, TLAPS

\* The theorems about a TcpClient with an arbitrary owner, for the one inside.
Client == INSTANCE TcpClientLoopProofs
              WITH Messages <- {"record"}, Lengths <- Nat, client <- tcp

----------------------------------------------------------------------------
(* The invariant *)

Worlds ==
    [tcp   : Client!Clients,
     ssl   : [status : Statuses, ioCount : Nat, queue : Nat, wasConnected : BOOLEAN],
     timer : [waiting : {0, 1}, due : Nat],
     view  : {"closed", "opening", "open"},
     last  : {"none", "connect", "data", "disconnect", "error"}]

\* What the owner was told follows from _status and _wasConnected.
ViewFits(w) ==
    /\ w.view = "closed" <=> w.ssl.status = "Disconnected"
    /\ w.view = "open" <=> w.ssl.wasConnected
    /\ w.ssl.status = "Connected" => w.ssl.wasConnected
    /\ w.ssl.status \in {"Connecting", "Handshake"} => ~w.ssl.wasConnected
    /\ w.ssl.queue > 0 => w.ssl.wasConnected

\* n runs of handleWrite have been counted that are not left to the timer.
CountFits(w, n) == w.ssl.ioCount = w.timer.waiting + w.timer.due + n

\* A TcpClient whose attempt may still fail has not carried a connection.
Young(w) ==
    w.tcp.io["resolve"] # "idle" \/ w.tcp.io["connect"] # "idle" => ~w.ssl.wasConnected

\* How far the TcpClient is, and how far the SslClient.
Stands(w) ==
    /\ w.ssl.status = "Connecting" => w.tcp.status # "Disconnected"
    /\ w.ssl.status \in {"Handshake", "Connected"} <=> w.tcp.status = "Connected"
    /\ w.tcp.status \in {"Resolve", "Connecting"} => w.ssl.status = "Connecting"

Served(w) ==
    /\ w.ssl.queue > 0 => w.ssl.ioCount > 0
    /\ w.ssl.status = "Disconnected" => w.ssl.ioCount = 0

\* What holds in the middle of a handler, too.
Running(w, n) ==
    /\ w \in Worlds
    /\ ViewFits(w)
    /\ CountFits(w, n)
    /\ Young(w)
    /\ Client!Sound(w.tcp)

Sound(w) == Running(w, 0) /\ Stands(w) /\ Served(w)

IInv == Sound(World) /\ Client!Good(tcp)

\* The owner gets at most one call, and one that the contract has.
Told(w, v) ==
    \/ v.view = w.view /\ v.last = w.last
    \/ w.view = "closed" /\ v.view = "opening" /\ v.last = w.last
    \/ w.view = "opening" /\ v.view = "open" /\ v.last = "connect"
    \/ w.view = "open" /\ v.view = "open" /\ v.last = "data"
    \/ w.view = "open" /\ v.view = "closed" /\ v.last = "disconnect"
    \/ w.view = "opening" /\ v.view = "closed" /\ v.last = "error"

----------------------------------------------------------------------------
(* The TcpClient *)

\* The methods of TcpClient are the same in both instances.
LEMMA SameClient ==
    ASSUME NEW c
    PROVE  /\ Client!Connect(c) = Tcp!Connect(c)
           /\ Client!Disconnect(c) = Tcp!Disconnect(c)
           /\ \A m : Client!Send(c, m) = Tcp!Send(c, m)
           /\ Client!StartConnect(c) = Tcp!StartConnect(c)
           /\ Client!Established(c) = Tcp!Established(c)
           /\ Client!StartRead(c) = Tcp!StartRead(c)
           /\ Client!AfterWrite(c) = Tcp!AfterWrite(c)
           /\ \A kind, result : Client!Complete(c, kind, result) = Tcp!Complete(c, kind, result)
           /\ \A kind : Client!Completed(c, kind) = Tcp!Completed(c, kind)
BY DEF Client!Connect, Tcp!Connect, Client!Disconnect, Tcp!Disconnect, Client!Send, Tcp!Send,
       Client!StartConnect, Tcp!StartConnect, Client!Established, Tcp!Established,
       Client!StartRead, Tcp!StartRead, Client!AfterWrite, Tcp!AfterWrite,
       Client!Complete, Tcp!Complete, Client!Completed, Tcp!Completed,
       Client!StartIo, Tcp!StartIo, Client!FirstState, Tcp!FirstState,
       Client!CloseSocket, Tcp!CloseSocket, Client!StartWrite, Tcp!StartWrite,
       Client!IoKinds, Tcp!IoKinds

LEMMA SameHandled ==
    ASSUME NEW c, NEW kind, NEW hs
    PROVE  Client!Handled(c, kind, hs) = Tcp!Handled(c, kind, hs)
BY DEF Client!Handled, Tcp!Handled, Client!HandleAnything, Tcp!HandleAnything,
       Client!Taken, Tcp!Taken, Client!CloseSocket, Tcp!CloseSocket, Client!MustWait, Tcp!MustWait,
       Client!Ended, Tcp!Ended, Client!EndOf, Tcp!EndOf, Client!Result, Tcp!Result,
       Client!IoKinds, Tcp!IoKinds

\* A TcpClient whose handler is about to start the next read.
Ready(c) ==
    /\ Client!Sound(c) /\ c.status \in {"Connected", "Disconnecting"}
    /\ c.io["resolve"] = "idle" /\ c.io["connect"] = "idle" /\ c.io["read"] = "idle"

LEMMA DisconnectLeaves ==
    ASSUME NEW c, Client!Sound(c)
    PROVE  LET d == Tcp!Disconnect(c)
           IN  /\ Client!Good(d) /\ d.status \in {"Disconnected", "Disconnecting"}
               /\ c.io["resolve"] = "idle" => d.io["resolve"] = "idle"
               /\ c.io["connect"] = "idle" => d.io["connect"] = "idle"
               /\ Ready(c) => Ready(d)
<1> DEFINE d == Tcp!Disconnect(c)
<1>1. d = Client!Disconnect(c)
  BY SameClient
<1>2. /\ Client!Sound(d)
      /\ \A kind \in Client!IoKinds : d.io[kind] = "idle" <=> c.io[kind] = "idle"
      /\ c.status = "Disconnected" => d.status = "Disconnected"
      /\ c.status # "Disconnected" => d.status = "Disconnecting"
  BY <1>1, Client!DisconnectSound
<1> HIDE DEF d
<1>3. Client!Good(d)
  BY <1>2 DEF Client!Good, Client!Reading
<1> QED
  BY <1>2, <1>3 DEF d, Ready, Client!IoKinds

LEMMA SendLeaves ==
    ASSUME NEW c, Client!Sound(c)
    PROVE  LET d == Tcp!Send(c, "record")
           IN  /\ Client!Sound(d) /\ d.status = c.status
               /\ Client!Good(c) => Client!Good(d)
               /\ d.io["resolve"] = c.io["resolve"] /\ d.io["connect"] = c.io["connect"]
               /\ Ready(c) => Ready(d)
<1> DEFINE d == Tcp!Send(c, "record")
<1>1. d = Client!Send(c, "record") /\ "record" \in {"record"}
  BY SameClient
<1>2. /\ Client!Sound(d) /\ d.status = c.status /\ d.socketOpen = c.socketOpen
      /\ \A kind \in Client!IoKinds \ {"write"} : d.io[kind] = c.io[kind]
  BY <1>1, Client!SendSound
<1> HIDE DEF d
<1>3. Client!Good(c) => Client!Good(d)
  BY <1>2 DEF Client!Good, Client!Reading, Client!IoKinds
<1> QED
  BY <1>2, <1>3 DEF d, Ready, Client!IoKinds

LEMMA StartReadLeaves ==
    ASSUME NEW c, Ready(c)
    PROVE  LET d == Tcp!StartRead(c)
           IN  /\ Client!Good(d) /\ d.status = c.status
               /\ d.io["resolve"] = "idle" /\ d.io["connect"] = "idle"
BY SameClient, Client!StartReadGood DEF Ready

----------------------------------------------------------------------------
(* Moves of a world *)

\* The TcpClient is set.
WithTcp(w, c) == [w EXCEPT !.tcp = c]

LEMMA TcpSet ==
    ASSUME NEW w, NEW n, Running(w, n), NEW c, Client!Sound(c),
           \/ ~w.ssl.wasConnected
           \/ /\ w.tcp.io["resolve"] = "idle" => c.io["resolve"] = "idle"
              /\ w.tcp.io["connect"] = "idle" => c.io["connect"] = "idle"
    PROVE  LET v == WithTcp(w, c)
           IN  /\ Running(v, n) /\ v.tcp = c /\ v.ssl = w.ssl /\ v.timer = w.timer
               /\ v.view = w.view /\ v.last = w.last
<1> DEFINE v == WithTcp(w, c)
<1>1. /\ v \in Worlds /\ v.tcp = c /\ v.ssl = w.ssl /\ v.timer = w.timer
      /\ v.view = w.view /\ v.last = w.last
  BY DEF Running, Worlds, WithTcp, Client!Sound
<1> HIDE DEF v
<1>2. Running(v, n)
  BY <1>1 DEF Running, ViewFits, CountFits, Young
<1> QED
  BY <1>1, <1>2 DEF v

LEMMA CountedFields ==
    ASSUME NEW w, Running(w, 0)
    PROVE  LET v == Counted(w)
           IN  /\ Running(v, 1) /\ Released(v) = w /\ v.tcp = w.tcp /\ v.timer = w.timer
               /\ v.view = w.view /\ v.last = w.last
               /\ v.ssl.status = w.ssl.status /\ v.ssl.queue = w.ssl.queue
               /\ v.ssl.wasConnected = w.ssl.wasConnected /\ v.ssl.ioCount = w.ssl.ioCount + 1
<1> DEFINE v == Counted(w)
<1>1. /\ v \in Worlds /\ v.tcp = w.tcp /\ v.timer = w.timer
      /\ v.view = w.view /\ v.last = w.last
      /\ v.ssl.status = w.ssl.status /\ v.ssl.queue = w.ssl.queue
      /\ v.ssl.wasConnected = w.ssl.wasConnected /\ v.ssl.ioCount = w.ssl.ioCount + 1
  BY DEF Running, Worlds, Counted
<1> HIDE DEF v
<1>2. Released(v) = w
  <2> DEFINE r == Released(v)
  <2>1. v.ssl.ioCount - 1 = w.ssl.ioCount /\ w \in Worlds
    BY <1>1 DEF Running, Worlds
  <2>2. /\ r \in Worlds /\ r.tcp = w.tcp /\ r.timer = w.timer
        /\ r.view = w.view /\ r.last = w.last
        /\ r.ssl.status = w.ssl.status /\ r.ssl.queue = w.ssl.queue
        /\ r.ssl.wasConnected = w.ssl.wasConnected /\ r.ssl.ioCount = w.ssl.ioCount
    BY <1>1, <2>1 DEF Worlds, Released
  <2> HIDE DEF r
  <2>3. r.ssl = w.ssl
    BY <2>1, <2>2 DEF Worlds
  <2>4. r = w
    BY <2>1, <2>2, <2>3 DEF Worlds
  <2> QED
    BY <2>4 DEF r
<1>3. Running(v, 1)
  BY <1>1 DEF Running, Worlds, ViewFits, CountFits, Young
<1> QED
  BY <1>1, <1>2, <1>3 DEF v

LEMMA ReleasedFields ==
    ASSUME NEW w, Running(w, 1)
    PROVE  LET v == Released(w)
           IN  /\ Running(v, 0) /\ v.tcp = w.tcp /\ v.timer = w.timer
               /\ v.view = w.view /\ v.last = w.last
               /\ v.ssl.status = w.ssl.status /\ v.ssl.queue = w.ssl.queue
               /\ v.ssl.wasConnected = w.ssl.wasConnected /\ v.ssl.ioCount = w.ssl.ioCount - 1
<1> DEFINE v == Released(w)
<1>1. w.ssl.ioCount - 1 \in Nat
  BY DEF Running, Worlds, CountFits
<1>2. /\ v \in Worlds /\ v.tcp = w.tcp /\ v.timer = w.timer
      /\ v.view = w.view /\ v.last = w.last
      /\ v.ssl.status = w.ssl.status /\ v.ssl.queue = w.ssl.queue
      /\ v.ssl.wasConnected = w.ssl.wasConnected /\ v.ssl.ioCount = w.ssl.ioCount - 1
  BY <1>1 DEF Running, Worlds, Released
<1> HIDE DEF v
<1>3. Running(v, 0)
  BY <1>2 DEF Running, Worlds, ViewFits, CountFits, Young
<1> QED
  BY <1>2, <1>3 DEF v

\* handleAnything ends the handler; what is left of its world.
Ending(w) ==
    [Released(w) EXCEPT !.ssl.status = IF @ = "Disconnecting" THEN @ ELSE "Error",
                        !.tcp = Tcp!Disconnect(@)]

LEMMA EndingFields ==
    ASSUME NEW w, Running(w, 1), w.ssl.status # "Disconnected"
    PROVE  LET v == Ending(w)
           IN  /\ Running(v, 0) /\ v.tcp = Tcp!Disconnect(w.tcp) /\ v.timer = w.timer
               /\ v.view = w.view /\ v.last = w.last
               /\ v.ssl.status \in {"Disconnecting", "Error"}
               /\ Client!Good(v.tcp) /\ v.tcp.status \in {"Disconnected", "Disconnecting"}
               /\ Ready(w.tcp) => Ready(v.tcp)
<1> DEFINE r == Released(w)
           c == Tcp!Disconnect(r.tcp)
           v == Ending(w)
<1>1. /\ Running(r, 0) /\ r.tcp = w.tcp /\ r.timer = w.timer
      /\ r.view = w.view /\ r.last = w.last /\ r.ssl.status = w.ssl.status
  BY ReleasedFields
<1> HIDE DEF r
<1>2. /\ Client!Good(c) /\ c.status \in {"Disconnected", "Disconnecting"}
      /\ r.tcp.io["resolve"] = "idle" => c.io["resolve"] = "idle"
      /\ r.tcp.io["connect"] = "idle" => c.io["connect"] = "idle"
      /\ Ready(r.tcp) => Ready(c)
  BY <1>1, DisconnectLeaves DEF Running
<1> HIDE DEF c
<1>3. v = [r EXCEPT !.ssl.status = IF @ = "Disconnecting" THEN @ ELSE "Error", !.tcp = c]
  BY DEF Ending, r, c
<1> HIDE DEF v
<1>4. c \in Client!Clients
  BY <1>2 DEF Client!Good, Client!Sound
<1>5. /\ v \in Worlds /\ v.tcp = c /\ v.timer = r.timer /\ v.view = r.view /\ v.last = r.last
      /\ v.ssl.status \in {"Disconnecting", "Error"} /\ v.ssl.ioCount = r.ssl.ioCount
      /\ v.ssl.queue = r.ssl.queue /\ v.ssl.wasConnected = r.ssl.wasConnected
  BY <1>1, <1>3, <1>4 DEF Running, Worlds, Statuses
<1>6. Running(v, 0)
  BY <1>1, <1>2, <1>5 DEF Running, ViewFits, CountFits, Young, Client!Good
<1> QED
  BY <1>1, <1>2, <1>5, <1>6 DEF v, c

LEMMA EndedFields ==
    ASSUME NEW w, Running(w, 0), ~MustWait(w), w.ssl.status # "Disconnected", NEW call,
           call = IF w.view = "open" THEN "disconnect" ELSE "error"
    PROVE  LET v == Tell(Ended(w), "closed", call)
           IN  /\ Running(v, 0) /\ Served(v) /\ v.tcp = w.tcp /\ v.ssl.status = "Disconnected"
               /\ Told(w, v)
<1> DEFINE v == Tell(Ended(w), "closed", call)
<1>1. /\ w.ssl.ioCount = 0 /\ w.view \in {"open", "opening"}
      /\ w.timer.waiting + w.timer.due = 0
  BY DEF Running, Worlds, ViewFits, CountFits, MustWait
<1>2. /\ v \in Worlds /\ v.tcp = w.tcp /\ v.timer = w.timer /\ v.view = "closed"
      /\ v.last = call /\ v.ssl.status = "Disconnected" /\ v.ssl.ioCount = 0
      /\ v.ssl.queue = 0 /\ v.ssl.wasConnected = FALSE
  BY DEF Running, Worlds, Ended, Tell, Statuses
<1> HIDE DEF v
<1>3. Running(v, 0)
  BY <1>1, <1>2 DEF Running, ViewFits, CountFits, Young
<1>4. Served(v) /\ Told(w, v)
  BY <1>1, <1>2 DEF Served, Told
<1> QED
  BY <1>2, <1>3, <1>4 DEF v

----------------------------------------------------------------------------
(* handleAnything and the handlers *)

\* The handler ends: with an error, or because everything is ending.
LEMMA HandleAnythingEnds ==
    ASSUME NEW w, Running(w, 1), w.ssl.status # "Disconnected",
           NEW hs, hs = "Connected" <=> w.view = "open",
           NEW error \in BOOLEAN, error \/ w.ssl.status \in {"Disconnecting", "Error"}
    PROVE  LET h == HandleAnything(w, hs, error)
           IN  /\ ~h.proceed /\ Sound(h.world) /\ Told(w, h.world)
               /\ Client!Good(h.world.tcp) /\ (Ready(w.tcp) => Ready(h.world.tcp))
<1> DEFINE h == HandleAnything(w, hs, error)
           e == Ending(w)
           d == Tell(Ended(e), "closed", EndOf(hs))
<1>1. w.ssl.status \in Statuses
  BY DEF Running, Worlds
<1>2. h = IF MustWait(e) THEN Result(e, FALSE) ELSE Result(d, FALSE)
  BY <1>1 DEF HandleAnything, Ending, Statuses
<1>3. /\ Running(e, 0) /\ e.view = w.view /\ e.last = w.last
      /\ e.ssl.status \in {"Disconnecting", "Error"}
      /\ Client!Good(e.tcp) /\ e.tcp.status \in {"Disconnected", "Disconnecting"}
      /\ Ready(w.tcp) => Ready(e.tcp)
  BY EndingFields
<1>4. EndOf(hs) = IF e.view = "open" THEN "disconnect" ELSE "error"
  BY <1>3 DEF EndOf
<1> HIDE DEF h, e
<1>5. CASE MustWait(e)
  <2>1. ~h.proceed /\ h.world = e
    BY <1>2, <1>5 DEF Result
  <2>2. Sound(e) /\ Told(w, e)
    BY <1>3, <1>5 DEF Sound, Stands, Served, MustWait, Told
  <2> QED
    BY <1>3, <2>1, <2>2 DEF h
<1>6. CASE ~MustWait(e)
  <2>1. ~h.proceed /\ h.world = d
    BY <1>2, <1>6 DEF Result
  <2>2. /\ Running(d, 0) /\ Served(d) /\ d.tcp = e.tcp /\ d.ssl.status = "Disconnected"
        /\ Told(e, d)
    BY <1>3, <1>4, <1>6, EndedFields
  <2> HIDE DEF d
  <2>3. Sound(d) /\ Told(w, d)
    BY <1>3, <2>2 DEF Sound, Stands, Told
  <2> QED
    BY <1>3, <2>1, <2>2, <2>3 DEF h
<1> QED
  BY <1>5, <1>6

\* mbedTLS has been given what the TcpClient has read, or asked to begin.
LEMMA HandshakeSound ==
    ASSUME NEW w, Running(w, 0), Served(w), w.ssl.status = "Handshake",
           w.tcp.status = "Connected", Ready(w.tcp), NEW result \in {"more", "done", "failed"}
    PROVE  LET v == HandleHandshake(w, result)
           IN  Sound(v) /\ Told(w, v) /\ Ready(v.tcp)
<1> DEFINE c == Counted(w)
           h == HandleAnything(c, "Handshake", result = "failed")
           d == Tell([w EXCEPT !.ssl.status = "Connected", !.ssl.wasConnected = TRUE],
                     "open", "connect")
           v == HandleHandshake(w, result)
<1>1. /\ Running(c, 1) /\ Released(c) = w /\ c.tcp = w.tcp /\ c.view = w.view /\ c.last = w.last
      /\ c.ssl.status = "Handshake"
  BY CountedFields
<1>2. w.view = "opening"
  BY DEF Running, ViewFits, Worlds
<1>3. v = IF ~h.proceed \/ result = "more" THEN h.world
          ELSE Tell([h.world EXCEPT !.ssl.status = "Connected", !.ssl.wasConnected = TRUE],
                    "open", "connect")
  BY DEF HandleHandshake
<1> HIDE DEF c, v
<1>4. CASE result = "failed"
  <2>1. (result = "failed") \in BOOLEAN
    OBVIOUS
  <2>2. /\ ~h.proceed /\ Sound(h.world) /\ Told(c, h.world) /\ Ready(h.world.tcp)
    BY <1>1, <1>2, <1>4, <2>1, HandleAnythingEnds
  <2>3. Told(w, h.world)
    BY <1>1, <2>2 DEF Told
  <2> QED
    BY <1>3, <2>2, <2>3 DEF v
<1>5. CASE result # "failed"
  <2>1. h.proceed /\ h.world = w
    BY <1>1, <1>5 DEF HandleAnything, Result
  <2> HIDE DEF h
  <2>2. CASE result = "more"
    <3>1. v = w
      BY <1>3, <2>1, <2>2
    <3>2. Sound(w) /\ Told(w, w)
      BY DEF Sound, Stands, Told
    <3> QED
      BY <3>1, <3>2 DEF v
  <2>3. CASE result = "done"
    <3>1. v = d
      BY <1>3, <2>1, <2>3
    <3>2. /\ d \in Worlds /\ d.tcp = w.tcp /\ d.timer = w.timer /\ d.view = "open"
          /\ d.last = "connect" /\ d.ssl.status = "Connected" /\ d.ssl.wasConnected = TRUE
          /\ d.ssl.ioCount = w.ssl.ioCount /\ d.ssl.queue = w.ssl.queue
      BY DEF Running, Worlds, Tell, Statuses
    <3> HIDE DEF d
    <3>3. Running(d, 0)
      BY <3>2 DEF Running, ViewFits, CountFits, Young, Ready
    <3>4. Sound(d) /\ Told(w, d)
      BY <1>2, <3>2, <3>3 DEF Sound, Stands, Served, Told
    <3> QED
      BY <3>1, <3>2, <3>4 DEF v
  <2> QED
    BY <1>5, <2>2, <2>3
<1> QED
  BY <1>4, <1>5

LEMMA HandleReadSound ==
    ASSUME NEW w, Running(w, 0), Served(w), w.ssl.status = "Connected",
           w.tcp.status = "Connected", Ready(w.tcp), NEW result \in {"more", "data", "failed"}
    PROVE  LET v == HandleRead(w, result)
           IN  Sound(v) /\ Told(w, v) /\ Ready(v.tcp)
<1> DEFINE c == Counted(w)
           h == HandleAnything(c, "Connected", result = "failed")
           d == Tell(w, "open", "data")
           v == HandleRead(w, result)
<1>1. /\ Running(c, 1) /\ Released(c) = w /\ c.tcp = w.tcp /\ c.view = w.view /\ c.last = w.last
      /\ c.ssl.status = "Connected"
  BY CountedFields
<1>2. w.view = "open"
  BY DEF Running, ViewFits, Worlds
<1>3. v = IF h.proceed /\ result = "data" THEN Tell(h.world, "open", "data") ELSE h.world
  BY DEF HandleRead
<1> HIDE DEF c, v
<1>4. CASE result = "failed"
  <2>1. (result = "failed") \in BOOLEAN
    OBVIOUS
  <2>2. /\ ~h.proceed /\ Sound(h.world) /\ Told(c, h.world) /\ Ready(h.world.tcp)
    BY <1>1, <1>2, <1>4, <2>1, HandleAnythingEnds
  <2>3. Told(w, h.world)
    BY <1>1, <2>2 DEF Told
  <2> QED
    BY <1>3, <2>2, <2>3 DEF v
<1>5. CASE result # "failed"
  <2>1. h.proceed /\ h.world = w
    BY <1>1, <1>5 DEF HandleAnything, Result
  <2> HIDE DEF h
  <2>2. CASE result = "more"
    <3>1. v = w
      BY <1>3, <2>1, <2>2
    <3>2. Sound(w) /\ Told(w, w)
      BY DEF Sound, Stands, Told
    <3> QED
      BY <3>1, <3>2 DEF v
  <2>3. CASE result = "data"
    <3>1. v = d
      BY <1>3, <2>1, <2>3
    <3>2. /\ d \in Worlds /\ d.tcp = w.tcp /\ d.timer = w.timer /\ d.ssl = w.ssl
          /\ d.view = "open" /\ d.last = "data"
      BY DEF Running, Worlds, Tell
    <3> HIDE DEF d
    <3>3. Running(d, 0)
      BY <1>2, <3>2 DEF Running, ViewFits, CountFits, Young
    <3>4. Sound(d) /\ Told(w, d)
      BY <1>2, <3>2, <3>3 DEF Sound, Stands, Served, Told
    <3> QED
      BY <3>1, <3>2, <3>4 DEF v
  <2> QED
    BY <1>5, <2>2, <2>3
<1> QED
  BY <1>4, <1>5

LEMMA StartWaitSound ==
    ASSUME NEW w, Running(w, 0), Stands(w), w.ssl.status # "Disconnected"
    PROVE  LET v == StartWait(w)
           IN  Sound(v) /\ v.tcp = w.tcp /\ v.view = w.view /\ v.last = w.last
<1> DEFINE c == Counted(w)
           v == StartWait(w)
<1>1. /\ Running(c, 1) /\ c.tcp = w.tcp /\ c.timer = w.timer
      /\ c.view = w.view /\ c.last = w.last /\ c.ssl.status = w.ssl.status
  BY CountedFields
<1>2. v = [c EXCEPT !.timer = [ExpiresFromNow(c.timer) EXCEPT !.waiting = 1]]
  BY DEF StartWait
<1> HIDE DEF c, v
<1>3. /\ v \in Worlds /\ v.tcp = c.tcp /\ v.ssl = c.ssl /\ v.view = c.view /\ v.last = c.last
      /\ v.timer.waiting = 1 /\ v.timer.due = c.timer.due + c.timer.waiting
  BY <1>1, <1>2 DEF Running, Worlds, ExpiresFromNow
<1>4. CountFits(v, 0) /\ v.ssl.ioCount > 0
  BY <1>1, <1>3 DEF Running, Worlds, CountFits
<1>5. Running(v, 0)
  BY <1>1, <1>3, <1>4 DEF Running, ViewFits, Young
<1>6. Sound(v)
  BY <1>1, <1>3, <1>4, <1>5 DEF Sound, Stands, Served
<1> QED
  BY <1>1, <1>3, <1>6 DEF v

LEMMA HandleWriteSound ==
    ASSUME NEW w, Running(w, 1), Stands(w), Client!Good(w.tcp), w.ssl.status # "Disconnected",
           NEW result \in WriteResults
    PROVE  LET v == HandleWrite(w, result)
           IN  Sound(v) /\ Told(w, v) /\ Client!Good(v.tcp)
<1> DEFINE s == IF Flows(w) /\ result = "ok" THEN TcpSend(w) ELSE w
           error == result = "failed" \/ ~Flows(w)
           h == HandleAnything(s, "Connected", error)
           v == HandleWrite(w, result)
           q == [h.world EXCEPT !.ssl.queue = IF result = "ok" THEN @ - 1 ELSE @]
<1>1. v = CASE w.ssl.queue = 0 -> Released(w)
            [] w.ssl.queue > 0 /\ ~h.proceed -> h.world
            [] OTHER -> StartWait(q)
  BY DEF HandleWrite
<1>2. /\ Running(s, 1) /\ Client!Good(s.tcp) /\ s.tcp.status = w.tcp.status
      /\ s.ssl = w.ssl /\ s.view = w.view /\ s.last = w.last
  <2> DEFINE c == Tcp!Send(w.tcp, "record")
  <2>1. /\ Client!Sound(c) /\ Client!Good(c) /\ c.status = w.tcp.status
        /\ c.io["resolve"] = w.tcp.io["resolve"] /\ c.io["connect"] = w.tcp.io["connect"]
    BY SendLeaves DEF Client!Good
  <2>2. TcpSend(w) = WithTcp(w, c)
    BY DEF TcpSend, WithTcp
  <2> HIDE DEF c
  <2>3. /\ Running(WithTcp(w, c), 1) /\ WithTcp(w, c).tcp = c /\ WithTcp(w, c).ssl = w.ssl
        /\ WithTcp(w, c).view = w.view /\ WithTcp(w, c).last = w.last
    BY <2>1, TcpSet
  <2>4. s = WithTcp(w, c) \/ s = w
    BY <2>2
  <2> HIDE DEF s
  <2> QED
    BY <2>1, <2>3, <2>4
<1>3. w.ssl.queue \in Nat /\ w.ssl.ioCount \in Nat /\ w.ssl.status \in Statuses
  BY DEF Running, Worlds
<1> HIDE DEF s
<1>4. CASE w.ssl.queue = 0
  <2> DEFINE r == Released(w)
  <2>1. v = r
    BY <1>1, <1>4
  <2>2. /\ Running(r, 0) /\ r.tcp = w.tcp /\ r.view = w.view /\ r.last = w.last
        /\ r.ssl.status = w.ssl.status /\ r.ssl.queue = w.ssl.queue
    BY ReleasedFields
  <2> HIDE DEF r, v
  <2>3. Sound(r) /\ Told(w, r)
    BY <1>4, <2>2 DEF Sound, Stands, Served, Told
  <2> QED
    BY <2>1, <2>2, <2>3 DEF v
<1>5. CASE w.ssl.queue > 0 /\ (result = "failed" \/ ~Flows(w))
  <2>1. s.view = "open"
    BY <1>2, <1>5 DEF Running, ViewFits
  <2>2. error \in BOOLEAN /\ error
    BY <1>5
  <2>3. ~h.proceed /\ Sound(h.world) /\ Told(s, h.world) /\ Client!Good(h.world.tcp)
    BY <1>2, <2>1, <2>2, HandleAnythingEnds
  <2>4. v = h.world
    BY <1>1, <1>3, <1>5, <2>3
  <2> HIDE DEF h, v
  <2>5. Told(w, h.world)
    BY <1>2, <2>3 DEF Told
  <2> QED
    BY <2>3, <2>4, <2>5 DEF v
<1>6. CASE w.ssl.queue > 0 /\ result # "failed" /\ Flows(w)
  <2> DEFINE r == Released(s)
             u == StartWait(q)
  <2>1. h.proceed /\ h.world = r
    BY <1>2, <1>6 DEF HandleAnything, Result, Flows
  <2>2. v = u
    BY <1>1, <1>3, <1>6, <2>1
  <2>3. /\ Running(r, 0) /\ r.tcp = s.tcp /\ r.view = w.view /\ r.last = w.last
        /\ r.ssl.status = w.ssl.status /\ r.ssl.queue = w.ssl.queue
        /\ r.ssl.wasConnected = w.ssl.wasConnected
    BY <1>2, ReleasedFields
  <2>4. q = [r EXCEPT !.ssl.queue = IF result = "ok" THEN @ - 1 ELSE @]
    BY <2>1
  <2> HIDE DEF r, q, v
  <2>5. /\ q \in Worlds /\ q.tcp = r.tcp /\ q.timer = r.timer /\ q.view = r.view
        /\ q.last = r.last /\ q.ssl.status = r.ssl.status /\ q.ssl.ioCount = r.ssl.ioCount
        /\ q.ssl.wasConnected = r.ssl.wasConnected
    <3>1. r.ssl.queue - 1 \in Nat /\ r.ssl.queue \in Nat
      BY <1>3, <1>6, <2>3
    <3> QED
      BY <2>3, <2>4, <3>1 DEF Running, Worlds
  <2>6. w.ssl.wasConnected
    BY <1>6 DEF Running, ViewFits
  <2>7. Running(q, 0) /\ Stands(q)
    BY <1>2, <2>3, <2>5, <2>6 DEF Running, ViewFits, CountFits, Young, Stands
  <2>8. Sound(u) /\ u.tcp = q.tcp /\ u.view = q.view /\ u.last = q.last
    BY <2>3, <2>5, <2>7, StartWaitSound
  <2> HIDE DEF u
  <2>9. Told(w, u)
    BY <2>3, <2>5, <2>8 DEF Told
  <2> QED
    BY <1>2, <2>2, <2>3, <2>5, <2>8, <2>9 DEF v
<1> QED
  BY <1>3, <1>4, <1>5, <1>6

----------------------------------------------------------------------------
(* The owner acts *)

LEMMA ConnectSound ==
    ASSUME NEW w, Sound(w), Client!Good(w.tcp), w.ssl.status = "Disconnected"
    PROVE  LET v == Connect(w) IN Sound(v) /\ Told(w, v) /\ Client!Good(v.tcp)
<1> DEFINE c == Tcp!Connect(w.tcp)
           v == Connect(w)
<1>1. /\ w \in Worlds /\ w.view = "closed" /\ ~w.ssl.wasConnected /\ w.ssl.ioCount = 0
      /\ w.tcp.status \in {"Disconnected", "Disconnecting"}
  BY DEF Sound, Running, ViewFits, Served, Stands, Worlds,
         Client!Clients, Client!Statuses
<1>2. /\ Client!Good(c) /\ c.status \in {"Resolve", "Disconnecting"} /\ c \in Client!Clients
  <2>1. CASE w.tcp.status = "Disconnected"
    BY <2>1, Client!ConnectGood, SameClient DEF Client!Good, Client!Sound
  <2>2. CASE w.tcp.status = "Disconnecting"
    BY <2>2 DEF Tcp!Connect, Client!Good, Client!Sound
  <2> QED
    BY <1>1, <2>1, <2>2
<1>3. v = [w EXCEPT !.ssl.status = "Connecting", !.ssl.queue = 0, !.tcp = c, !.view = "opening"]
  BY DEF Connect, Sound
<1> HIDE DEF c, v
<1>4. /\ v \in Worlds /\ v.tcp = c /\ v.timer = w.timer /\ v.view = "opening"
      /\ v.last = w.last /\ v.ssl.status = "Connecting" /\ v.ssl.queue = 0
      /\ v.ssl.ioCount = w.ssl.ioCount /\ v.ssl.wasConnected = w.ssl.wasConnected
  BY <1>1, <1>2, <1>3 DEF Worlds, Statuses
<1>5. Running(v, 0)
  BY <1>1, <1>2, <1>4 DEF Sound, Running, ViewFits, CountFits, Young, Client!Good
<1>6. Sound(v) /\ Told(w, v)
  BY <1>1, <1>2, <1>4, <1>5 DEF Sound, Stands, Served, Told
<1> QED
  BY <1>2, <1>4, <1>6 DEF v

LEMMA DisconnectSound ==
    ASSUME NEW w, Sound(w), Client!Good(w.tcp)
    PROVE  LET v == Disconnect(w) IN Sound(v) /\ Told(w, v) /\ Client!Good(v.tcp)
<1> DEFINE c == Tcp!Disconnect(w.tcp)
           v == Disconnect(w)
<1>1. CASE w.ssl.status \in {"Disconnected", "Disconnecting", "Error"}
  <2>1. v = w
    BY <1>1 DEF Disconnect
  <2>2. Told(w, w)
    BY DEF Told
  <2> QED
    BY <2>1, <2>2
<1>2. CASE w.ssl.status \notin {"Disconnected", "Disconnecting", "Error"}
  <2>1. w \in Worlds /\ w.ssl.status \in Statuses
    BY DEF Sound, Running, Worlds
  <2>2. /\ Client!Good(c) /\ c \in Client!Clients
        /\ c.status \in {"Disconnected", "Disconnecting"}
        /\ w.tcp.io["resolve"] = "idle" => c.io["resolve"] = "idle"
        /\ w.tcp.io["connect"] = "idle" => c.io["connect"] = "idle"
    BY DisconnectLeaves DEF Client!Good, Client!Sound
  <2>3. v = [w EXCEPT !.ssl.status = "Disconnecting", !.tcp = c]
    BY <1>2 DEF Disconnect
  <2> HIDE DEF c, v
  <2>4. /\ v \in Worlds /\ v.tcp = c /\ v.timer = w.timer /\ v.view = w.view
        /\ v.last = w.last /\ v.ssl.status = "Disconnecting" /\ v.ssl.queue = w.ssl.queue
        /\ v.ssl.ioCount = w.ssl.ioCount /\ v.ssl.wasConnected = w.ssl.wasConnected
    BY <2>1, <2>2, <2>3 DEF Worlds, Statuses
  <2>5. Running(v, 0)
    BY <1>2, <2>2, <2>4 DEF Sound, Running, ViewFits, CountFits, Young, Client!Good
  <2>6. Sound(v) /\ Told(w, v)
    BY <1>2, <2>2, <2>4, <2>5 DEF Sound, Stands, Served, Told
  <2> QED
    BY <2>2, <2>4, <2>6 DEF v
<1> QED
  BY <1>1, <1>2

LEMMA SendSound ==
    ASSUME NEW w, Sound(w), Client!Good(w.tcp), NEW result \in WriteResults
    PROVE  LET v == Send(w, result) IN Sound(v) /\ Told(w, v) /\ Client!Good(v.tcp)
<1> DEFINE q == [w EXCEPT !.ssl.queue = @ + 1]
           c == Counted(q)
           v == Send(w, result)
<1>1. v = CASE w.ssl.status # "Connected" -> w
            [] w.ssl.status = "Connected" /\ w.ssl.queue > 0 -> q
            [] OTHER -> HandleWrite(c, result)
  BY DEF Send
<1>2. CASE w.ssl.status # "Connected"
  <2>1. v = w
    BY <1>1, <1>2
  <2>2. Told(w, w)
    BY DEF Told
  <2> QED
    BY <2>1, <2>2
<1>3. CASE w.ssl.status = "Connected"
  <2>1. w.ssl.queue \in Nat
    BY DEF Sound, Running, Worlds
  <2>2. /\ q \in Worlds /\ q.tcp = w.tcp /\ q.timer = w.timer /\ q.view = w.view
        /\ q.last = w.last /\ q.ssl.status = w.ssl.status
        /\ q.ssl.queue = w.ssl.queue + 1 /\ q.ssl.ioCount = w.ssl.ioCount
        /\ q.ssl.wasConnected = w.ssl.wasConnected
    BY DEF Sound, Running, Worlds
  <2> HIDE DEF q, v
  <2>3. Running(q, 0) /\ Stands(q)
    BY <1>3, <2>2 DEF Sound, Running, ViewFits, CountFits, Young, Stands
  <2>4. CASE w.ssl.queue > 0
    <3>1. v = q
      BY <1>1, <1>3, <2>4
    <3>2. Sound(q) /\ Told(w, q)
      BY <1>3, <2>2, <2>3, <2>4 DEF Sound, Served, Told
    <3> QED
      BY <2>2, <3>1, <3>2 DEF v
  <2>5. CASE w.ssl.queue = 0
    <3> DEFINE u == HandleWrite(c, result)
    <3>1. v = u
      BY <1>1, <1>3, <2>5
    <3>2. /\ Running(c, 1) /\ c.tcp = q.tcp /\ c.view = q.view /\ c.last = q.last
          /\ c.ssl.status = q.ssl.status
      BY <2>3, CountedFields
    <3> HIDE DEF c
    <3>3. Stands(c) /\ Client!Good(c.tcp) /\ c.ssl.status # "Disconnected"
      BY <1>3, <2>2, <2>3, <3>2 DEF Stands
    <3>4. Sound(u) /\ Told(c, u) /\ Client!Good(u.tcp)
      BY <3>2, <3>3, HandleWriteSound
    <3> HIDE DEF u
    <3>5. Told(w, u)
      BY <2>2, <3>2, <3>4 DEF Told
    <3> QED
      BY <3>1, <3>4, <3>5 DEF v
  <2> QED
    BY <2>1, <2>4, <2>5
<1> QED
  BY <1>2, <1>3

----------------------------------------------------------------------------
(* The calls of the TcpClient *)

\* One that ends the TcpClient: whatever the SslClient was doing has ended, too.
LEMMA EndSound ==
    ASSUME NEW w, Running(w, 0), Served(w), w.tcp.status = "Disconnected", Client!Good(w.tcp),
           NEW hs, w.ssl.status # "Disconnected" => (hs = "Connected" <=> w.view = "open")
    PROVE  LET v == HandleAnything(Counted(w), hs, TRUE).world
           IN  Sound(v) /\ Told(w, v) /\ Client!Good(v.tcp)
<1> DEFINE c == Counted(w)
           v == HandleAnything(c, hs, TRUE).world
<1>1. /\ Running(c, 1) /\ Released(c) = w /\ c.tcp = w.tcp /\ c.view = w.view /\ c.last = w.last
      /\ c.ssl.status = w.ssl.status
  BY CountedFields
<1> HIDE DEF c
<1>2. CASE w.ssl.status = "Disconnected"
  <2>1. v = w
    BY <1>1, <1>2 DEF HandleAnything, Result
  <2>2. Sound(w) /\ Told(w, w)
    BY <1>2 DEF Sound, Stands, Told
  <2> HIDE DEF v
  <2> QED
    BY <2>1, <2>2 DEF v, c
<1>3. CASE w.ssl.status # "Disconnected"
  <2>1. Sound(v) /\ Told(c, v) /\ Client!Good(v.tcp)
    BY <1>1, <1>3, HandleAnythingEnds
  <2> HIDE DEF v
  <2>2. Told(w, v)
    BY <1>1, <2>1 DEF Told
  <2> QED
    BY <2>1, <2>2 DEF v, c
<1> QED
  BY <1>2, <1>3

\* A handshake step, with or without something to send.
LEMMA HandshakeStepsSound ==
    ASSUME NEW w, Running(w, 0), Served(w), w.ssl.status = "Handshake",
           w.tcp.status = "Connected", Ready(w.tcp), NEW v \in HandshakeSteps(w)
    PROVE  Sound(v) /\ Told(w, v) /\ Ready(v.tcp)
<1>1. PICK t \in {w, TcpSend(w)}, result \in {"more", "done", "failed"} :
           v = HandleHandshake(t, result)
  BY DEF HandshakeSteps
<1>2. /\ Running(t, 0) /\ Served(t) /\ t.ssl.status = "Handshake" /\ t.tcp.status = "Connected"
      /\ Ready(t.tcp) /\ t.view = w.view /\ t.last = w.last
  <2> DEFINE c == Tcp!Send(w.tcp, "record")
  <2>1. /\ Client!Sound(c) /\ c.status = w.tcp.status /\ Ready(c)
        /\ c.io["resolve"] = w.tcp.io["resolve"] /\ c.io["connect"] = w.tcp.io["connect"]
    BY SendLeaves DEF Ready
  <2>2. TcpSend(w) = WithTcp(w, c)
    BY DEF TcpSend, WithTcp
  <2> HIDE DEF c
  <2>3. /\ Running(WithTcp(w, c), 0) /\ WithTcp(w, c).tcp = c /\ WithTcp(w, c).ssl = w.ssl
        /\ WithTcp(w, c).view = w.view /\ WithTcp(w, c).last = w.last
    BY <2>1, TcpSet
  <2>4. t = w \/ t = WithTcp(w, c)
    BY <2>2
  <2> QED
    BY <2>1, <2>3, <2>4 DEF Served
<1>3. Sound(v) /\ Told(t, v) /\ Ready(v.tcp)
  BY <1>1, <1>2, HandshakeSound
<1> QED
  BY <1>2, <1>3 DEF Told

\* TcpClient has called and reads on.
LEMMA ReadOnSound ==
    ASSUME NEW w, Sound(w), Ready(w.tcp)
    PROVE  LET v == ReadOn(w)
           IN  Sound(v) /\ Client!Good(v.tcp) /\ v.view = w.view /\ v.last = w.last
<1> DEFINE c == Tcp!StartRead(w.tcp)
           v == WithTcp(w, c)
<1>1. /\ Client!Good(c) /\ c.status = w.tcp.status
      /\ c.io["resolve"] = "idle" /\ c.io["connect"] = "idle"
  BY StartReadLeaves
<1>2. ReadOn(w) = v
  BY DEF ReadOn, WithTcp
<1> HIDE DEF c
<1>3. /\ Running(v, 0) /\ v.tcp = c /\ v.ssl = w.ssl /\ v.view = w.view /\ v.last = w.last
  BY <1>1, TcpSet DEF Sound, Client!Good
<1> HIDE DEF v
<1>4. Sound(v)
  BY <1>1, <1>3 DEF Sound, Stands, Served
<1> QED
  BY <1>1, <1>2, <1>3, <1>4

----------------------------------------------------------------------------
(* The actions *)

\* The state is as a world w says, which the operators lead to from World.
Reaches(w) == Become(w) /\ Sound(w) /\ Told(World, w) /\ Client!Good(w.tcp)

ContractStep == [Contract!Next]_(Contract!viewVars)

Kept == IInv' /\ ContractStep

LEMMA WorldIs ==
    /\ World.tcp = tcp /\ World.ssl = ssl /\ World.timer = timer
    /\ World.view = view /\ World.last = last
BY DEF World

LEMMA Reached ==
    ASSUME NEW w, Reaches(w)
    PROVE  Kept
<1>1. World' = w /\ tcp' = w.tcp /\ view' = w.view /\ last' = w.last
  BY DEF Reaches, Sound, Running, Worlds, Become, World
<1>2. IInv'
  BY <1>1 DEF Reaches, IInv
<1>3. \/ view' = view /\ last' = last
      \/ view = "closed" /\ view' = "opening" /\ last' = last
      \/ view = "opening" /\ view' = "open" /\ last' = "connect"
      \/ view = "open" /\ view' = "open" /\ last' = "data"
      \/ view = "open" /\ view' = "closed" /\ last' = "disconnect"
      \/ view = "opening" /\ view' = "closed" /\ last' = "error"
  BY <1>1, WorldIs DEF Reaches, Told
<1>4. ContractStep
  BY <1>3 DEF ContractStep, Contract!viewVars, Contract!Next, Contract!Open, Contract!OnConnect,
              Contract!OnData, Contract!OnDisconnect, Contract!OnError
<1> QED
  BY <1>2, <1>4 DEF Kept

\* A handler of the TcpClient ends early.
LEMMA GiveUpKeeps ==
    ASSUME IInv, NEW kind \in Tcp!IoKinds, Tcp!Completed(tcp, kind), NEW hs,
           kind \in {"read", "write"} <=> hs = "Connected",
           GiveUp(Tcp!Handled(tcp, kind, hs))
    PROVE  Kept
<1> DEFINE h == Tcp!Handled(tcp, kind, hs)
           w == WithTcp(World, h.client)
<1>1. /\ Client!Good(tcp) /\ tcp.io[kind] # "idle" /\ kind \in Client!IoKinds /\ Sound(World)
      /\ h = Client!Handled(tcp, kind, hs)
  BY SameHandled DEF IInv, Tcp!Completed, Client!IoKinds, Tcp!IoKinds
<1>2. \/ /\ h.tells = "nothing" /\ Client!Good(h.client) /\ h.client.status = tcp.status
         /\ \A k \in Client!IoKinds : tcp.io[k] = "idle" => h.client.io[k] = "idle"
      \/ /\ h.tells = Client!EndOf(hs) /\ Client!Good(h.client)
         /\ h.client.status = "Disconnected"
  BY <1>1, Client!HandledGood DEF GiveUp
<1>3. Become(CASE h.tells = "nothing"    -> w
               [] h.tells = "error"      -> OnTcpError(w)
               [] h.tells = "disconnect" -> OnTcpDisconnect(w))
  BY DEF GiveUp, With, WithTcp
<1>4. Client!EndOf(hs) = IF hs = "Connected" THEN "disconnect" ELSE "error"
  BY DEF Client!EndOf
<1> HIDE DEF h
<1>5. CASE /\ h.tells = "nothing" /\ Client!Good(h.client) /\ h.client.status = tcp.status
           /\ \A k \in Client!IoKinds : tcp.io[k] = "idle" => h.client.io[k] = "idle"
  <2>1. /\ Running(w, 0) /\ w.tcp = h.client /\ w.ssl = World.ssl
        /\ w.view = World.view /\ w.last = World.last
    BY <1>1, <1>5, WorldIs, TcpSet DEF Sound, Client!Good, Client!IoKinds
  <2>2. Become(w)
    BY <1>3, <1>5
  <2> HIDE DEF w
  <2>3. Sound(w) /\ Told(World, w)
    BY <1>1, <1>5, <2>1, WorldIs DEF Sound, Stands, Served, Told
  <2> QED
    BY <1>5, <2>1, <2>2, <2>3, Reached DEF Reaches
<1>6. CASE /\ h.tells = Client!EndOf(hs) /\ Client!Good(h.client)
           /\ h.client.status = "Disconnected"
  <2>1. h.client.io["resolve"] = "idle" /\ h.client.io["connect"] = "idle"
    BY <1>6 DEF Client!Good, Client!Sound, Client!StatusFits, Client!Idle, Client!IoKinds
  <2>2. /\ Running(w, 0) /\ w.tcp = h.client /\ w.ssl = World.ssl
        /\ w.view = World.view /\ w.last = World.last
    BY <1>1, <1>6, <2>1, TcpSet DEF Sound, Client!Good
  <2>3. Served(w)
    BY <1>1, <2>2 DEF Sound, Served
  <2>4. CASE hs = "Connected"
    <3> DEFINE e == IF w.ssl.wasConnected THEN "Connected" ELSE "Handshake"
               v == HandleAnything(Counted(w), e, TRUE).world
    <3>1. Become(v)
      BY <1>3, <1>4, <1>6, <2>4 DEF OnTcpDisconnect
    <3>2. e = "Connected" <=> w.view = "open"
      BY <2>2 DEF Running, ViewFits
    <3> HIDE DEF e
    <3>3. Sound(v) /\ Told(w, v) /\ Client!Good(v.tcp)
      BY <1>6, <2>2, <2>3, <3>2, EndSound
    <3> HIDE DEF v, w
    <3>4. Told(World, v)
      BY <2>2, <3>3 DEF Told
    <3> QED
      BY <3>1, <3>3, <3>4, Reached DEF Reaches
  <2>5. CASE hs # "Connected"
    <3> DEFINE v == HandleAnything(Counted(w), "Connecting", TRUE).world
    <3>1. Become(v)
      BY <1>3, <1>4, <1>6, <2>5 DEF OnTcpError
    <3>2. w.view # "open"
      <4>1. kind \in {"resolve", "connect"}
        BY <2>5 DEF Tcp!IoKinds
      <4> QED
        BY <1>1, <2>2, <4>1, WorldIs DEF Sound, Running, ViewFits, Young
    <3>3. Sound(v) /\ Told(w, v) /\ Client!Good(v.tcp)
      BY <1>6, <2>2, <2>3, <3>2, EndSound
    <3> HIDE DEF v, w
    <3>4. Told(World, v)
      BY <2>2, <3>3 DEF Told
    <3> QED
      BY <3>1, <3>3, <3>4, Reached DEF Reaches
  <2> QED
    BY <2>4, <2>5
<1> QED
  BY <1>2, <1>5, <1>6

LEMMA WithIs ==
    ASSUME NEW c
    PROVE  With(c) = WithTcp(World, c)
BY DEF With, WithTcp

LEMMA CompletionKeeps ==
    ASSUME IInv, NEW kind \in Tcp!IoKinds, Completion(kind)
    PROVE  Kept
<1>1. PICK result \in {"ok", "failed"} : tcp' = Tcp!Complete(tcp, kind, result)
  BY DEF Completion
<1> DEFINE c == Tcp!Complete(tcp, kind, result)
           w == WithTcp(World, c)
<1>2. /\ Client!Good(tcp) /\ tcp.io[kind] = "started" /\ kind \in Client!IoKinds
      /\ Sound(World)
  BY DEF IInv, Completion, Tcp!IoKinds, Client!IoKinds
<1>3. /\ Client!Good(c) /\ c.status = tcp.status
      /\ \A k \in Client!IoKinds : c.io[k] = "idle" <=> tcp.io[k] = "idle"
  <2>1. c = Client!Complete(tcp, kind, result)
    BY SameClient
  <2> QED
    BY <1>2, <2>1, Client!CompleteGood
<1>4. tcp' = c
  BY <1>1
<1> HIDE DEF c
<1>5. /\ Running(w, 0) /\ w.tcp = c /\ w.ssl = World.ssl /\ w.timer = World.timer
      /\ w.view = World.view /\ w.last = World.last
  BY <1>2, <1>3, WorldIs, TcpSet DEF Sound, Client!Good, Client!IoKinds
<1> HIDE DEF w
<1>6. Become(w)
  BY <1>4, <1>5, WorldIs DEF Completion, Become
<1>7. Sound(w) /\ Told(World, w)
  BY <1>2, <1>3, <1>5, WorldIs DEF Sound, Stands, Served, Told
<1> QED
  BY <1>3, <1>5, <1>6, <1>7, Reached DEF Reaches

LEMMA TcpHandleResolveKeeps ==
    ASSUME IInv, TcpHandleResolve
    PROVE  Kept
<1> DEFINE h == Tcp!Handled(tcp, "resolve", "Resolve")
           c == Tcp!StartConnect(h.client)
           w == WithTcp(World, c)
<1>1. /\ Client!Good(tcp) /\ tcp.io["resolve"] # "idle" /\ Sound(World)
      /\ Tcp!Completed(tcp, "resolve") /\ h = Client!Handled(tcp, "resolve", "Resolve")
  BY SameHandled DEF IInv, TcpHandleResolve, Tcp!Completed
<1>2. CASE GiveUp(h)
  BY <1>1, <1>2, GiveUpKeeps DEF Tcp!IoKinds
<1>3. CASE h.proceed /\ Become(With(c))
  <2>1. /\ tcp.status = "Resolve" /\ Client!Good(c) /\ c.status = "Connecting"
    BY <1>1, <1>3, Client!ResolvedGood, SameClient
  <2>2. Become(w)
    BY <1>3, WithIs
  <2> HIDE DEF c
  <2>3. World.ssl.status = "Connecting" /\ ~World.ssl.wasConnected
    BY <1>1, <2>1, WorldIs DEF Sound, Running, Stands, ViewFits
  <2>4. /\ Running(w, 0) /\ w.tcp = c /\ w.ssl = World.ssl
        /\ w.view = World.view /\ w.last = World.last
    BY <1>1, <2>1, <2>3, TcpSet DEF Sound, Client!Good
  <2> HIDE DEF w
  <2>5. Sound(w) /\ Told(World, w)
    BY <1>1, <2>1, <2>3, <2>4 DEF Sound, Stands, Served, Told
  <2> QED
    BY <2>1, <2>2, <2>4, <2>5, Reached DEF Reaches
<1> QED
  BY <1>2, <1>3 DEF TcpHandleResolve

LEMMA TcpHandleConnectKeeps ==
    ASSUME IInv, TcpHandleConnect
    PROVE  Kept
<1> DEFINE h == Tcp!Handled(tcp, "connect", "Connecting")
           c == Tcp!Established(h.client)
           w == WithTcp(World, c)
           s == [w EXCEPT !.ssl.status = "Handshake"]
<1>1. /\ Client!Good(tcp) /\ tcp.io["connect"] # "idle" /\ Sound(World)
      /\ Tcp!Completed(tcp, "connect") /\ h = Client!Handled(tcp, "connect", "Connecting")
  BY SameHandled DEF IInv, TcpHandleConnect, Tcp!Completed
<1>2. CASE GiveUp(h)
  BY <1>1, <1>2, GiveUpKeeps DEF Tcp!IoKinds
<1>3. CASE h.proceed /\ \E v \in OnTcpConnect(With(c)) : Become(ReadOn(v))
  <2>1. PICK v \in HandshakeSteps(s) : Become(ReadOn(v))
    BY <1>3, WithIs DEF OnTcpConnect
  <2>2. tcp.status = "Connecting" /\ Ready(c) /\ c.status = "Connected"
    BY <1>1, <1>3, Client!ConnectedSound, SameClient DEF Ready, Client!Idle
  <2> HIDE DEF c
  <2>3. World.ssl.status = "Connecting" /\ ~World.ssl.wasConnected
    BY <1>1, <2>2, WorldIs DEF Sound, Running, Stands, ViewFits
  <2>4. /\ Running(w, 0) /\ w.tcp = c /\ w.ssl = World.ssl
        /\ w.view = World.view /\ w.last = World.last
    BY <1>1, <2>2, <2>3, TcpSet DEF Sound, Ready
  <2> HIDE DEF w
  <2>5. /\ s \in Worlds /\ s.tcp = c /\ s.timer = w.timer /\ s.view = w.view /\ s.last = w.last
        /\ s.ssl.status = "Handshake" /\ s.ssl.ioCount = w.ssl.ioCount
        /\ s.ssl.queue = w.ssl.queue /\ s.ssl.wasConnected = w.ssl.wasConnected
    BY <2>4 DEF Running, Worlds, Statuses
  <2> HIDE DEF s
  <2>6. Running(s, 0) /\ Served(s)
    BY <1>1, <2>3, <2>4, <2>5 DEF Sound, Served, Running, ViewFits, CountFits, Young
  <2>7. Sound(v) /\ Told(s, v) /\ Ready(v.tcp)
    BY <2>1, <2>2, <2>5, <2>6, HandshakeStepsSound
  <2> DEFINE r == ReadOn(v)
  <2>8. Sound(r) /\ Client!Good(r.tcp) /\ r.view = v.view /\ r.last = v.last
    BY <2>7, ReadOnSound
  <2>9. Become(r)
    BY <2>1
  <2> HIDE DEF r
  <2>10. Told(World, r)
    BY <2>4, <2>5, <2>7, <2>8 DEF Told
  <2> QED
    BY <2>8, <2>9, <2>10, Reached DEF Reaches
<1> QED
  BY <1>2, <1>3 DEF TcpHandleConnect

LEMMA TcpHandleReadKeeps ==
    ASSUME IInv, TcpHandleRead
    PROVE  Kept
<1> DEFINE h == Tcp!Handled(tcp, "read", "Connected")
           c == h.client
           w == WithTcp(World, c)
<1>1. /\ Client!Good(tcp) /\ tcp.io["read"] # "idle" /\ Sound(World)
      /\ Tcp!Completed(tcp, "read") /\ h = Client!Handled(tcp, "read", "Connected")
  BY SameHandled DEF IInv, TcpHandleRead, Tcp!Completed
<1>2. CASE GiveUp(h)
  BY <1>1, <1>2, GiveUpKeeps DEF Tcp!IoKinds
<1>3. CASE h.proceed /\ \E v \in OnTcpData(With(c)) : Become(ReadOn(v))
  <2>1. PICK v \in OnTcpData(w) : Become(ReadOn(v))
    BY <1>3, WithIs
  <2>2. tcp.status = "Connected" /\ Ready(c) /\ c.status = "Connected"
    BY <1>1, <1>3, Client!ReadSound DEF Ready, Client!Idle
  <2> HIDE DEF c
  <2>3. World.ssl.status \in {"Handshake", "Connected"}
    BY <1>1, <2>2, WorldIs DEF Sound, Stands
  <2>4. /\ Running(w, 0) /\ w.tcp = c /\ w.ssl = World.ssl
        /\ w.view = World.view /\ w.last = World.last
    BY <1>1, <2>2, <2>3, TcpSet DEF Sound, Ready
  <2>5. Served(w)
    BY <1>1, <2>4 DEF Sound, Served
  <2> HIDE DEF w
  <2>6. Sound(v) /\ Told(w, v) /\ Ready(v.tcp)
    <3>1. CASE World.ssl.status = "Handshake"
      <4>1. v \in HandshakeSteps(w)
        BY <2>1, <2>4, <3>1 DEF OnTcpData
      <4> QED
        BY <2>2, <2>4, <2>5, <3>1, <4>1, HandshakeStepsSound
    <3>2. CASE World.ssl.status = "Connected"
      <4>1. \E result \in {"more", "data", "failed"} : v = HandleRead(w, result)
        BY <2>1, <2>4, <3>2 DEF OnTcpData
      <4> QED
        BY <2>2, <2>4, <2>5, <3>2, <4>1, HandleReadSound
    <3> QED
      BY <2>3, <3>1, <3>2
  <2> DEFINE r == ReadOn(v)
  <2>7. Sound(r) /\ Client!Good(r.tcp) /\ r.view = v.view /\ r.last = v.last
    BY <2>6, ReadOnSound
  <2>8. Become(r)
    BY <2>1
  <2> HIDE DEF r
  <2>9. Told(World, r)
    BY <2>4, <2>6, <2>7 DEF Told
  <2> QED
    BY <2>7, <2>8, <2>9, Reached DEF Reaches
<1> QED
  BY <1>2, <1>3 DEF TcpHandleRead

LEMMA TcpHandleWriteKeeps ==
    ASSUME IInv, TcpHandleWrite
    PROVE  Kept
<1> DEFINE h == Tcp!Handled(tcp, "write", "Connected")
           c == Tcp!AfterWrite(h.client)
           w == WithTcp(World, c)
<1>1. /\ Client!Good(tcp) /\ tcp.io["write"] # "idle" /\ Sound(World)
      /\ Tcp!Completed(tcp, "write") /\ h = Client!Handled(tcp, "write", "Connected")
  BY SameHandled DEF IInv, TcpHandleWrite, Tcp!Completed
<1>2. CASE GiveUp(h)
  BY <1>1, <1>2, GiveUpKeeps DEF Tcp!IoKinds
<1>3. CASE h.proceed /\ Become(With(c))
  <2>1. /\ tcp.status = "Connected" /\ Client!Good(c) /\ c.status = "Connected"
        /\ c.io["resolve"] = "idle" /\ c.io["connect"] = "idle"
    BY <1>1, <1>3, Client!WrittenGood, SameClient DEF Client!Idle
  <2>2. Become(w)
    BY <1>3, WithIs
  <2> HIDE DEF c
  <2>3. /\ Running(w, 0) /\ w.tcp = c /\ w.ssl = World.ssl
        /\ w.view = World.view /\ w.last = World.last
    BY <1>1, <2>1, TcpSet DEF Sound, Client!Good
  <2> HIDE DEF w
  <2>4. Sound(w) /\ Told(World, w)
    BY <1>1, <2>1, <2>3, WorldIs DEF Sound, Stands, Served, Told
  <2> QED
    BY <2>1, <2>2, <2>3, <2>4, Reached DEF Reaches
<1> QED
  BY <1>2, <1>3 DEF TcpHandleWrite

LEMMA TimerKeeps ==
    ASSUME IInv, TimerExpires \/ HandleTimer
    PROVE  Kept
<1>1. Sound(World) /\ Client!Good(World.tcp) /\ World.timer = timer
  BY WorldIs DEF IInv
<1>2. timer \in [waiting : {0, 1}, due : Nat]
  BY <1>1 DEF Sound, Running, Worlds
<1>3. CASE TimerExpires
  <2> DEFINE w == [World EXCEPT !.timer = ExpiresFromNow(timer)]
  <2>1. Become(w)
    BY <1>3 DEF TimerExpires, Become, World
  <2>2. /\ w \in Worlds /\ w.tcp = World.tcp /\ w.ssl = World.ssl /\ w.view = World.view
        /\ w.last = World.last /\ w.timer.waiting = 0
        /\ w.timer.due = timer.due + timer.waiting
    BY <1>1, <1>2 DEF Sound, Running, Worlds, ExpiresFromNow
  <2> HIDE DEF w
  <2>3. CountFits(w, 0)
    BY <1>1, <1>2, <2>2 DEF Sound, Running, CountFits
  <2>4. Sound(w) /\ Told(World, w)
    BY <1>1, <2>2, <2>3 DEF Sound, Running, ViewFits, Young, Stands, Served, Told
  <2> QED
    BY <1>1, <2>1, <2>2, <2>4, Reached DEF Reaches
<1>4. CASE HandleTimer
  <2> DEFINE w == [World EXCEPT !.timer.due = @ - 1]
  <2>1. PICK result \in WriteResults : Become(HandleWrite(w, result))
    BY <1>4 DEF HandleTimer
  <2>2. timer.due - 1 \in Nat
    BY <1>2, <1>4 DEF HandleTimer
  <2>3. /\ w \in Worlds /\ w.tcp = World.tcp /\ w.ssl = World.ssl /\ w.view = World.view
        /\ w.last = World.last /\ w.timer.waiting = timer.waiting
        /\ w.timer.due = timer.due - 1
    BY <1>1, <1>2, <2>2 DEF Sound, Running, Worlds
  <2> HIDE DEF w
  <2>4. CountFits(w, 1)
    BY <1>1, <1>2, <2>3 DEF Sound, Running, CountFits
  <2>5. Running(w, 1) /\ Stands(w)
    BY <1>1, <2>3, <2>4 DEF Sound, Running, ViewFits, Young, Stands
  <2>6. w.ssl.status # "Disconnected"
    BY <1>1, <1>2, <2>2, <2>3 DEF Sound, Running, CountFits, Served
  <2> DEFINE v == HandleWrite(w, result)
  <2>7. Sound(v) /\ Told(w, v) /\ Client!Good(v.tcp)
    BY <1>1, <2>3, <2>5, <2>6, HandleWriteSound
  <2>8. Become(v)
    BY <2>1
  <2> HIDE DEF v
  <2>9. Told(World, v)
    BY <2>3, <2>7 DEF Told
  <2> QED
    BY <2>7, <2>8, <2>9, Reached DEF Reaches
<1> QED
  BY <1>3, <1>4

LEMMA CallKeeps ==
    ASSUME IInv, CallConnect \/ CallDisconnect \/ CallSend
    PROVE  Kept
<1>1. Sound(World) /\ Client!Good(World.tcp) /\ World.ssl = ssl
  BY WorldIs DEF IInv
<1>2. CASE CallConnect
  <2>1. Become(Connect(World)) /\ World.ssl.status = "Disconnected"
    BY <1>1, <1>2 DEF CallConnect
  <2> QED
    BY <1>1, <2>1, ConnectSound, Reached DEF Reaches
<1>3. CASE CallDisconnect
  <2>1. Become(Disconnect(World))
    BY <1>3 DEF CallDisconnect
  <2> QED
    BY <1>1, <2>1, DisconnectSound, Reached DEF Reaches
<1>4. CASE CallSend
  <2>1. PICK result \in WriteResults : Become(Send(World, result))
    BY <1>4 DEF CallSend
  <2> QED
    BY <1>1, <2>1, SendSound, Reached DEF Reaches
<1> QED
  BY <1>2, <1>3, <1>4

----------------------------------------------------------------------------
(* The theorems *)

LEMMA StepKeeps ==
    IInv /\ [Next]_vars => IInv' /\ ContractStep
<1> SUFFICES ASSUME IInv, [Next]_vars PROVE Kept
  BY DEF Kept
<1>1. ASSUME NEW kind \in Tcp!IoKinds, Completion(kind) PROVE Kept
  BY <1>1, CompletionKeeps
<1>2. CASE UNCHANGED vars
  <2>1. Become(World)
    BY <1>2, WorldIs DEF vars, Become
  <2>2. Sound(World) /\ Told(World, World) /\ Client!Good(World.tcp)
    BY WorldIs DEF IInv, Told
  <2> QED
    BY <2>1, <2>2, Reached DEF Reaches
<1> QED
  BY <1>1, <1>2, CallKeeps, TcpHandleResolveKeeps, TcpHandleConnectKeeps, TcpHandleReadKeeps,
     TcpHandleWriteKeeps, TimerKeeps DEF Next

LEMMA InitKeeps ==
    Init => IInv /\ Contract!Init
<1> SUFFICES ASSUME Init PROVE IInv /\ Contract!Init
  OBVIOUS
<1>1. tcp = Client!NewClient
  BY DEF Init, Tcp!NewClient, Client!NewClient, Tcp!IoKinds, Client!IoKinds
<1>2. Client!Init
  BY <1>1 DEF Init, Client!Init
<1>3. Client!Good(tcp)
  BY <1>2, Client!InitGood DEF Client!IInv
<1>4. tcp.status = "Disconnected"
  BY <1>1 DEF Client!NewClient
<1>5. World \in Worlds
  BY <1>3 DEF Init, NewSsl, World, Worlds, Statuses, Client!Good, Client!Sound
<1>6. Sound(World)
  BY <1>3, <1>4, <1>5, WorldIs
     DEF Init, NewSsl, Sound, Running, ViewFits, CountFits, Young, Stands, Served, Client!Good
<1> QED
  BY <1>3, <1>6 DEF Init, IInv, Contract!Init

\* Every behaviour keeps the invariant.
THEOREM Invariance == Spec => []IInv
<1>1. IInv /\ [Next]_vars => IInv'
  BY StepKeeps
<1> QED
  BY <1>1, InitKeeps, PTL DEF Spec

\* The variables of the SslClient keep their types; _ioCount is never negative.
THEOREM TypeCorrect == Spec => []TypeOK
<1>1. IInv => TypeOK
  <2>1. [status : Tcp!Statuses, ioCount : Nat, writeBuffer : Seq({"record"}),
         socketOpen : BOOLEAN, io : [Tcp!IoKinds -> Tcp!IoStates]] = Client!Clients
    BY DEF Client!Clients, Client!Statuses, Client!IoKinds, Client!IoStates,
           Tcp!Statuses, Tcp!IoKinds, Tcp!IoStates
  <2>2. IInv => /\ tcp \in Client!Clients
                /\ ssl \in [status : Statuses, ioCount : Nat, queue : Nat, wasConnected : BOOLEAN]
                /\ timer \in [waiting : {0, 1}, due : Nat]
                /\ Contract!ContractTypeOK
    BY WorldIs DEF IInv, Sound, Running, Worlds, Contract!ContractTypeOK, Contract!Views,
                   Contract!Calls
  <2> QED
    BY <2>1, <2>2 DEF TypeOK
<1> QED
  BY <1>1, Invariance, PTL

\* _ioCount counts the runs of handleWrite that are still to come.
THEOREM CountIsExact == Spec => []IoCountExact
<1>1. IInv => IoCountExact
  BY WorldIs DEF IInv, Sound, Running, Worlds, CountFits, IoCountExact
<1> QED
  BY <1>1, Invariance, PTL

\* A buffer that waits is always going to be written or dropped.
THEOREM QueueIsDriven == Spec => []QueueIsServed
<1>1. IInv => QueueIsServed
  BY WorldIs DEF IInv, Sound, Served, QueueIsServed
<1> QED
  BY <1>1, Invariance, PTL

\* Nothing of a connection is left when the next may begin.
THEOREM Quiet == Spec => []QuietWhenDisconnected
<1>1. IInv => QuietWhenDisconnected
  BY WorldIs DEF IInv, Sound, Running, Worlds, ViewFits, Served, QuietWhenDisconnected
<1> QED
  BY <1>1, Invariance, PTL

\* A TLS connection stands on an established TCP connection.
THEOREM StandsOnEstablished == Spec => []StandsOnTcp
<1>1. IInv => StandsOnTcp
  BY WorldIs DEF IInv, Sound, Stands, StandsOnTcp
<1> QED
  BY <1>1, Invariance, PTL

\* The SslClient implements the contract of TcpClientHandler.
THEOREM Implements == Spec => KeepsContract
<1>1. IInv /\ [Next]_vars => [Contract!Next]_(Contract!viewVars)
  BY StepKeeps DEF ContractStep
<1>2. Init => Contract!Init
  BY InitKeeps
<1> QED
  BY Invariance, <1>1, <1>2, PTL DEF Spec, KeepsContract, Contract!Spec
=============================================================================
