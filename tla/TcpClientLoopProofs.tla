------------------------ MODULE TcpClientLoopProofs ------------------------
(***************************************************************************)
(* What TcpClientLoop promises, for every set of messages and every bound  *)
(* of the queue: the client keeps TcpClientHandler's contract, counts its  *)
(* operations exactly and is clean when it accepts connect() again.        *)
(*                                                                         *)
(* The properties are not inductive alone.  Good says, status by status,   *)
(* which operations may be outstanding and what they imply for the socket  *)
(* and the queue; Fits relates the status to what the handler was told.    *)
(***************************************************************************)
EXTENDS TcpClientLoop, TLAPS

Idle(c, kinds) == \A kind \in kinds : c.io[kind] = "idle"

\* Which operations a status leaves room for.
StatusFits(c) ==
    /\ c.status = "Disconnected" => Idle(c, IoKinds)
    /\ c.status = "Resolve"      => Idle(c, IoKinds \ {"resolve"})
    /\ c.status = "Connecting"   => Idle(c, IoKinds \ {"connect"})
    /\ c.status = "Connected"    => Idle(c, {"resolve", "connect"})
    /\ c.io["resolve"] # "idle"  => Idle(c, IoKinds \ {"resolve"})
    /\ c.io["connect"] # "idle"  => Idle(c, IoKinds \ {"connect"})

\* What the socket and the queue have to do with it.
SocketFits(c) ==
    /\ c.status \in {"Disconnected", "Resolve", "Disconnecting"} => ~c.socketOpen
    /\ c.status \in {"Disconnected", "Resolve", "Connecting"} => c.writeBuffer = << >>

\* While a handler of the client runs it has not yet started to read again.
Reading(c) == c.status = "Connected" /\ c.socketOpen => c.io["read"] # "idle"

QueueFits(c) ==
    /\ c.io["write"] # "idle" => c.writeBuffer # << >>
    /\ c.status = "Connected" /\ c.socketOpen /\ c.writeBuffer # << >>
         => c.io["write"] # "idle"

CountFits(c) ==
    c.ioCount = Outstanding(c, "resolve") + Outstanding(c, "connect")
              + Outstanding(c, "read") + Outstanding(c, "write")

Sound(c) ==
    /\ c \in Clients
    /\ StatusFits(c)
    /\ SocketFits(c)
    /\ QueueFits(c)
    /\ CountFits(c)

Good(c) == Sound(c) /\ Reading(c)

\* What is left of it while handleWrite runs.
Bare(c) ==
    /\ c \in Clients
    /\ StatusFits(c)
    /\ SocketFits(c)
    /\ c.io["write"] # "idle" => c.writeBuffer # << >>
    /\ CountFits(c)

\* What the handler was told, v, fits the client.
Fits(c, v) ==
    /\ c.status = "Disconnected" <=> v = "closed"
    /\ c.status \in {"Resolve", "Connecting"} => v = "opening"
    /\ c.status = "Connected" => v = "open"
    /\ c.io["resolve"] # "idle" \/ c.io["connect"] # "idle" => v = "opening"
    /\ c.io["read"] # "idle" \/ c.io["write"] # "idle" => v = "open"

IInv ==
    /\ Good(client)
    /\ Contract!ContractTypeOK
    /\ Fits(client, view)
----------------------------------------------------------------------------
(* The methods keep a client sound. *)

USE DEF IoKinds, IoStates, Statuses, Clients

LEMMA CloseSocketFields ==
    ASSUME NEW c \in Clients
    PROVE  /\ CloseSocket(c) \in Clients
           /\ ~CloseSocket(c).socketOpen
           /\ CloseSocket(c).status = c.status
           /\ CloseSocket(c).ioCount = c.ioCount
           /\ CloseSocket(c).writeBuffer = c.writeBuffer
           /\ \A kind \in IoKinds :
                CloseSocket(c).io[kind] = "idle" <=> c.io[kind] = "idle"
BY DEF CloseSocket

LEMMA FirstStateBusy ==
    ASSUME NEW c, NEW kind
    PROVE  FirstState(c, kind) \in IoStates \ {"idle"}
BY DEF FirstState

LEMMA StartIoFields ==
    ASSUME NEW c \in Clients, NEW kind \in IoKinds
    PROVE  /\ StartIo(c, kind) \in Clients
           /\ StartIo(c, kind).status = c.status
           /\ StartIo(c, kind).ioCount = c.ioCount + 1
           /\ StartIo(c, kind).writeBuffer = c.writeBuffer
           /\ StartIo(c, kind).socketOpen = c.socketOpen
           /\ StartIo(c, kind).io = [c.io EXCEPT ![kind] = FirstState(c, kind)]
<1> DEFINE io == [c.io EXCEPT ![kind] = FirstState(c, kind)]
<1>1. io \in [IoKinds -> IoStates]
  BY FirstStateBusy
<1>2. StartIo(c, kind) = [c EXCEPT !.ioCount = @ + 1, !.io = io]
  BY DEF StartIo
<1>3. c.ioCount + 1 \in Nat
  OBVIOUS
<1> HIDE DEF io
<1>4. /\ StartIo(c, kind) \in Clients
      /\ StartIo(c, kind).status = c.status
      /\ StartIo(c, kind).ioCount = c.ioCount + 1
      /\ StartIo(c, kind).writeBuffer = c.writeBuffer
      /\ StartIo(c, kind).socketOpen = c.socketOpen
      /\ StartIo(c, kind).io = io
  BY <1>1, <1>2, <1>3
<1> QED
  BY <1>4 DEF io

LEMMA DisconnectSound ==
    ASSUME NEW c, Sound(c)
    PROVE  /\ Sound(Disconnect(c))
           /\ \A kind \in IoKinds :
                Disconnect(c).io[kind] = "idle" <=> c.io[kind] = "idle"
           /\ c.status = "Disconnected" => Disconnect(c).status = "Disconnected"
           /\ c.status # "Disconnected" => Disconnect(c).status = "Disconnecting"
<1>1. CASE c.status \in {"Disconnected", "Disconnecting"}
  BY <1>1 DEF Disconnect
<1>2. CASE c.status = "Resolve"
  BY <1>2 DEF Disconnect, Sound, StatusFits, SocketFits, QueueFits, CountFits, Idle, Outstanding
<1>3. CASE c.status \in {"Connecting", "Connected"}
  <2> DEFINE d == [c EXCEPT !.status = "Disconnecting"]
  <2>1. d \in Clients /\ d.io = c.io /\ d.ioCount = c.ioCount /\ d.writeBuffer = c.writeBuffer
    BY DEF Sound
  <2>2. Disconnect(c) = CloseSocket(d)
    BY <1>3 DEF Disconnect
  <2> QED
    BY <1>3, <2>1, <2>2, CloseSocketFields
       DEF Sound, StatusFits, SocketFits, QueueFits, CountFits, Idle, Outstanding
<1> QED
  BY <1>1, <1>2, <1>3 DEF Sound

LEMMA SendSound ==
    ASSUME NEW c, Sound(c), NEW m \in Messages
    PROVE  /\ Sound(Send(c, m))
           /\ Send(c, m).status = c.status
           /\ Send(c, m).socketOpen = c.socketOpen
           /\ \A kind \in IoKinds \ {"write"} : Send(c, m).io[kind] = c.io[kind]
           /\ c.status # "Connected" => Send(c, m) = c
<1> DEFINE queued == [c EXCEPT !.writeBuffer = Append(@, m)]
<1>1. CASE c.status # "Connected"
  BY <1>1 DEF Send
<1>2. /\ queued \in Clients
      /\ queued.writeBuffer # << >>
      /\ queued.status = c.status
      /\ queued.ioCount = c.ioCount
      /\ queued.socketOpen = c.socketOpen
      /\ queued.io = c.io
  <2>1. c.writeBuffer \in Seq(Messages)
    BY DEF Sound
  <2>2. Append(c.writeBuffer, m) \in Seq(Messages) /\ Append(c.writeBuffer, m) # << >>
    BY <2>1
  <2> QED
    BY <2>2 DEF Sound
<1>3. CASE c.status = "Connected" /\ c.writeBuffer # << >>
  <2>1. Send(c, m) = queued
    BY <1>3 DEF Send
  <2> HIDE DEF queued
  <2> QED
    BY <1>2, <1>3, <2>1
       DEF Sound, StatusFits, SocketFits, QueueFits, CountFits, Idle, Outstanding
<1>4. CASE c.status = "Connected" /\ c.writeBuffer = << >>
  <2>1. Send(c, m) = StartIo(queued, "write")
    BY <1>4 DEF Send, StartWrite
  <2>2. c.io["write"] = "idle"
    BY <1>4 DEF Sound, QueueFits
  <2> HIDE DEF queued
  <2> DEFINE s == Send(c, m)
  <2>3. /\ s \in Clients
        /\ s.status = c.status /\ s.socketOpen = c.socketOpen
        /\ s.ioCount = c.ioCount + 1 /\ s.writeBuffer # << >>
        /\ s.io = [c.io EXCEPT !["write"] = FirstState(queued, "write")]
    <3>1. queued \in Clients /\ "write" \in IoKinds
      BY <1>2
    <3> HIDE DEF Clients, IoKinds, IoStates, Statuses
    <3>2. /\ s \in Clients
          /\ s.status = queued.status /\ s.socketOpen = queued.socketOpen
          /\ s.ioCount = queued.ioCount + 1 /\ s.writeBuffer = queued.writeBuffer
          /\ s.io = [queued.io EXCEPT !["write"] = FirstState(queued, "write")]
      BY <2>1, <3>1, StartIoFields
    <3> QED
      BY <1>2, <3>2
  <2> HIDE DEF s
  <2>4. StatusFits(s) /\ SocketFits(s) /\ QueueFits(s)
    BY <1>4, <2>2, <2>3, FirstStateBusy DEF Sound, StatusFits, SocketFits, QueueFits, Idle
  <2>5. CountFits(s)
    BY <2>2, <2>3, FirstStateBusy DEF Sound, CountFits, Outstanding
  <2> QED
    BY <1>4, <2>3, <2>4, <2>5 DEF Sound, s
<1> QED
  BY <1>1, <1>3, <1>4

LEMMA ReactionSound ==
    ASSUME NEW c, Sound(c), c.status = "Connected", NEW r \in Reactions(c)
    PROVE  /\ Sound(r)
           /\ r.status \in {"Connected", "Disconnecting"}
           /\ \A kind \in {"resolve", "connect", "read"} : r.io[kind] = "idle" <=> c.io[kind] = "idle"
<1>1. \/ r = c
      \/ r = Disconnect(c)
      \/ \E m \in Messages : r = Send(c, m)
      \/ \E m \in Messages : r = Disconnect(Send(c, m))
  BY DEF Reactions
<1>2. CASE r = c
  BY <1>2
<1>3. CASE r = Disconnect(c)
  BY <1>3, DisconnectSound
<1>4. ASSUME NEW m \in Messages, r = Send(c, m)
      PROVE  /\ Sound(r)
             /\ r.status = "Connected"
             /\ \A kind \in {"resolve", "connect", "read"} : r.io[kind] = c.io[kind]
  BY <1>4, SendSound
<1>5. ASSUME NEW m \in Messages, r = Disconnect(Send(c, m))
      PROVE  /\ Sound(r)
             /\ r.status = "Disconnecting"
             /\ \A kind \in {"resolve", "connect", "read"} :
                  r.io[kind] = "idle" <=> c.io[kind] = "idle"
  <2> DEFINE d == Send(c, m)
  <2>1. /\ Sound(d)
        /\ d.status = "Connected"
        /\ \A kind \in {"resolve", "connect", "read"} : d.io[kind] = c.io[kind]
    BY SendSound
  <2> HIDE DEF d
  <2>2. /\ Sound(Disconnect(d))
        /\ Disconnect(d).status = "Disconnecting"
        /\ \A kind \in IoKinds : Disconnect(d).io[kind] = "idle" <=> d.io[kind] = "idle"
    BY <2>1, DisconnectSound
  <2>3. r = Disconnect(d)
    BY <1>5 DEF d
  <2> QED
    BY <2>1, <2>2, <2>3
<1> QED
  BY <1>1, <1>2, <1>3, <1>4, <1>5

LEMMA StartReadGood ==
    ASSUME NEW r, Sound(r), r.status \in {"Connected", "Disconnecting"},
           r.io["resolve"] = "idle", r.io["connect"] = "idle", r.io["read"] = "idle"
    PROVE  /\ Good(StartRead(r))
           /\ StartRead(r).status = r.status
           /\ StartRead(r).io["resolve"] = "idle"
           /\ StartRead(r).io["connect"] = "idle"
<1> DEFINE s == StartRead(r)
<1>1. r \in Clients /\ "read" \in IoKinds
  BY DEF Sound
<1>2. /\ s \in Clients
      /\ s.status = r.status /\ s.socketOpen = r.socketOpen
      /\ s.ioCount = r.ioCount + 1 /\ s.writeBuffer = r.writeBuffer
      /\ s.io = [r.io EXCEPT !["read"] = FirstState(r, "read")]
  BY <1>1, StartIoFields DEF StartRead
<1> HIDE DEF s
<1>3. StatusFits(s) /\ SocketFits(s) /\ QueueFits(s) /\ Reading(s)
  BY <1>1, <1>2, FirstStateBusy DEF Sound, StatusFits, SocketFits, QueueFits, Idle, Reading
<1>4. CountFits(s)
  BY <1>1, <1>2, FirstStateBusy DEF Sound, CountFits, Outstanding
<1>5. s.io["resolve"] = "idle" /\ s.io["connect"] = "idle"
  BY <1>1, <1>2
<1> QED
  BY <1>2, <1>3, <1>4, <1>5 DEF Good, Sound, s

----------------------------------------------------------------------------
(* A completion handler begins: handleAnything, on the operation's result.  *)

\* The client after _ioCount--.
Counted(c, kind) == [Taken(c, kind) EXCEPT !.ioCount = @ - 1]

LEMMA CountedSound ==
    ASSUME NEW c, Good(c), NEW kind \in IoKinds, c.io[kind] # "idle"
    PROVE  /\ Bare(Counted(c, kind))
           /\ kind # "write" => Sound(Counted(c, kind))
           /\ Counted(c, kind).status = c.status
           /\ Counted(c, kind).io = [c.io EXCEPT ![kind] = "idle"]
           /\ Counted(c, kind).socketOpen = c.socketOpen
           /\ Counted(c, kind).writeBuffer = c.writeBuffer
           /\ c.status # "Disconnected"
<1> DEFINE t == Counted(c, kind)
           io == [c.io EXCEPT ![kind] = "idle"]
<1>1. c \in Clients /\ c.ioCount - 1 \in Nat
  BY DEF Good, Sound, CountFits, Outstanding
<1>2. io \in [IoKinds -> IoStates]
  BY <1>1
<1> HIDE DEF io
<1>3. t = [c EXCEPT !.io = io, !.ioCount = c.ioCount - 1]
  BY <1>1 DEF Counted, Taken, io
<1>4. /\ t \in Clients
      /\ t.status = c.status /\ t.socketOpen = c.socketOpen /\ t.writeBuffer = c.writeBuffer
      /\ t.ioCount = c.ioCount - 1
      /\ t.io = io
  BY <1>1, <1>2, <1>3
<1> HIDE DEF t
<1>5. /\ StatusFits(t) /\ SocketFits(t)
      /\ t.io["write"] # "idle" => t.writeBuffer # << >>
      /\ kind # "write" => QueueFits(t)
  BY <1>1, <1>4 DEF io, Good, Sound, StatusFits, SocketFits, QueueFits, Idle
<1>6. CountFits(t)
  BY <1>1, <1>4 DEF io, Good, Sound, CountFits, Outstanding
<1>7. c.status # "Disconnected"
  BY DEF Good, Sound, StatusFits, Idle
<1> QED
  BY <1>4, <1>5, <1>6, <1>7 DEF Bare, Sound, t, io

LEMMA ClosedGood ==
    ASSUME NEW t, Bare(t)
    PROVE  Good(CloseSocket(t))
<1> DEFINE d == CloseSocket(t)
<1>1. t \in Clients
  BY DEF Bare
<1>2. /\ d \in Clients /\ ~d.socketOpen
      /\ d.status = t.status /\ d.ioCount = t.ioCount /\ d.writeBuffer = t.writeBuffer
      /\ \A kind \in IoKinds : d.io[kind] = "idle" <=> t.io[kind] = "idle"
  BY <1>1, CloseSocketFields
<1> HIDE DEF d
<1>3. StatusFits(d) /\ SocketFits(d) /\ QueueFits(d) /\ Reading(d)
  BY <1>2 DEF Bare, StatusFits, SocketFits, QueueFits, Idle, Reading
<1>4. CountFits(d)
  BY <1>2 DEF Bare, CountFits, Outstanding
<1> QED
  BY <1>2, <1>3, <1>4 DEF Good, Sound, d

LEMMA EndedGood ==
    ASSUME NEW d, Good(d), ~d.socketOpen, ~MustWait(d)
    PROVE  /\ Good(Ended(d))
           /\ Ended(d).status = "Disconnected"
           /\ Ended(d).io = d.io
           /\ Idle(d, IoKinds)
<1> DEFINE e == Ended(d)
<1>1. d \in Clients /\ d.ioCount = 0
  BY DEF Good, Sound, MustWait
<1>2. Idle(d, IoKinds)
  BY <1>1 DEF Good, Sound, CountFits, Outstanding, Idle
<1>3. /\ e \in Clients
      /\ e.status = "Disconnected" /\ e.ioCount = 0 /\ e.writeBuffer = << >>
      /\ e.io = d.io /\ e.socketOpen = d.socketOpen
  <2>1. << >> \in Seq(Messages) /\ 0 \in Nat /\ "Disconnected" \in Statuses
    OBVIOUS
  <2> QED
    BY <1>1, <2>1 DEF Ended
<1> HIDE DEF e
<1>4. Good(e)
  BY <1>2, <1>3 DEF Good, Sound, StatusFits, SocketFits, QueueFits, CountFits, Idle, Outstanding,
                    Reading
<1> QED
  BY <1>2, <1>3, <1>4 DEF e

LEMMA HandledGood ==
    ASSUME NEW c, Good(c), NEW kind \in IoKinds, c.io[kind] # "idle", NEW hs
    PROVE  LET h == Handled(c, kind, hs)
               t == Counted(c, kind)
           IN  \/ /\ h.proceed
                  /\ h.client = t
                  /\ c.status \in {"Resolve", "Connecting", "Connected"}
               \/ /\ ~h.proceed /\ h.tells = "nothing"
                  /\ Good(h.client)
                  /\ h.client.status = c.status
                  /\ \A k \in IoKinds : c.io[k] = "idle" => h.client.io[k] = "idle"
               \/ /\ ~h.proceed /\ h.tells = EndOf(hs)
                  /\ Good(h.client)
                  /\ h.client.status = "Disconnected"
<1> DEFINE h == Handled(c, kind, hs)
           t == Counted(c, kind)
           d == CloseSocket(t)
           asked == t.status = "Disconnecting"
           error == c.io[kind] = "failed"
<1>1. c \in Clients /\ c.status # "Disconnected"
  BY CountedSound DEF Good, Sound
<1>2. /\ Bare(t) /\ t.status = c.status
      /\ \A k \in IoKinds : c.io[k] = "idle" => t.io[k] = "idle"
  <2>1. Bare(t) /\ t.status = c.status /\ t.io = [c.io EXCEPT ![kind] = "idle"]
    BY CountedSound
  <2> HIDE DEF t
  <2> QED
    BY <1>1, <2>1
<1>3. /\ Good(d) /\ ~d.socketOpen /\ d.status = t.status
      /\ \A k \in IoKinds : d.io[k] = "idle" <=> t.io[k] = "idle"
  BY <1>2, ClosedGood, CloseSocketFields DEF Bare
<1>4. h = IF ~asked /\ ~error THEN Result(t, TRUE, "nothing", FALSE)
          ELSE IF MustWait(d) THEN Result(d, FALSE, "nothing", FALSE)
          ELSE Result(Ended(d), FALSE, EndOf(hs), asked)
  BY <1>2, <1>1 DEF Handled, HandleAnything, Counted
<1> HIDE DEF h, t, d, asked, error
<1>5. CASE ~asked /\ ~error
  <2>1. h.proceed /\ h.client = t
    BY <1>4, <1>5 DEF Result
  <2> QED
    BY <1>2, <1>1, <1>5, <2>1 DEF h, t, asked
<1>6. CASE (asked \/ error) /\ MustWait(d)
  <2>1. ~h.proceed /\ h.tells = "nothing" /\ h.client = d
    BY <1>4, <1>6 DEF Result
  <2> QED
    BY <1>2, <1>3, <2>1 DEF h, t
<1>7. CASE (asked \/ error) /\ ~MustWait(d)
  <2>1. ~h.proceed /\ h.tells = EndOf(hs) /\ h.client = Ended(d)
    BY <1>4, <1>7 DEF Result
  <2> QED
    BY <1>3, <1>7, <2>1, EndedGood DEF h, t
<1> QED
  BY <1>5, <1>6, <1>7

----------------------------------------------------------------------------
(* What the rest of each method leaves of a client.                         *)

LEMMA ConnectGood ==
    ASSUME NEW c, Good(c), c.status = "Disconnected"
    PROVE  /\ Good(Connect(c))
           /\ Connect(c).status = "Resolve"
           /\ Idle(Connect(c), IoKinds \ {"resolve"})
<1> DEFINE d == [c EXCEPT !.status = "Resolve"]
           s == StartIo(d, "resolve")
<1>1. /\ d \in Clients /\ d.status = "Resolve" /\ ~d.socketOpen /\ d.writeBuffer = << >>
      /\ d.ioCount = c.ioCount /\ d.io = c.io
  BY DEF Good, Sound, SocketFits
<1>2. Connect(c) = s
  BY DEF Connect
<1>3. "resolve" \in IoKinds
  OBVIOUS
<1> HIDE DEF d
<1>4. /\ s \in Clients /\ s.status = d.status /\ s.socketOpen = d.socketOpen
      /\ s.ioCount = d.ioCount + 1 /\ s.writeBuffer = d.writeBuffer
      /\ s.io = [d.io EXCEPT !["resolve"] = FirstState(d, "resolve")]
  BY <1>1, <1>3, StartIoFields
<1> HIDE DEF s
<1>5. Good(s) /\ Idle(s, IoKinds \ {"resolve"})
  BY <1>1, <1>4, FirstStateBusy
     DEF Good, Sound, StatusFits, SocketFits, QueueFits, CountFits, Idle, Outstanding, Reading
<1> QED
  BY <1>1, <1>2, <1>4, <1>5

LEMMA CompleteGood ==
    ASSUME NEW c, Good(c), NEW kind \in IoKinds, c.io[kind] = "started",
           NEW result \in {"ok", "failed"}
    PROVE  LET s == Complete(c, kind, result)
           IN  /\ Good(s) /\ s.status = c.status
               /\ \A k \in IoKinds : s.io[k] = "idle" <=> c.io[k] = "idle"
<1> DEFINE s == Complete(c, kind, result)
<1>1. /\ s \in Clients /\ s.status = c.status /\ s.socketOpen = c.socketOpen
      /\ s.ioCount = c.ioCount /\ s.writeBuffer = c.writeBuffer
      /\ s.io = [c.io EXCEPT ![kind] = result]
  BY DEF Good, Sound, Complete
<1> HIDE DEF s
<1>2. \A k \in IoKinds : s.io[k] = "idle" <=> c.io[k] = "idle"
  BY <1>1 DEF Good, Sound
<1>3. Good(s)
  BY <1>1, <1>2
     DEF Good, Sound, StatusFits, SocketFits, QueueFits, CountFits, Idle, Outstanding, Reading
<1> QED
  BY <1>1, <1>2, <1>3 DEF s

LEMMA ResolvedGood ==
    ASSUME NEW c, Good(c), c.io["resolve"] # "idle", NEW hs,
           Handled(c, "resolve", hs).proceed
    PROVE  LET s == StartConnect(Handled(c, "resolve", hs).client)
           IN  /\ c.status = "Resolve" /\ Good(s) /\ s.status = "Connecting"
               /\ Idle(s, IoKinds \ {"connect"})
<1> DEFINE h == Handled(c, "resolve", hs)
           t == Counted(c, "resolve")
           d == [t EXCEPT !.status = "Connecting", !.socketOpen = TRUE]
           s == StartIo(d, "connect")
<1>1. h.client = t /\ c.status = "Resolve"
  BY HandledGood DEF Good, Sound, StatusFits, Idle
<1>2. /\ Sound(t) /\ t.status = "Resolve" /\ t.io = [c.io EXCEPT !["resolve"] = "idle"]
  BY <1>1, CountedSound
<1>3. StartConnect(h.client) = s
  BY <1>1 DEF StartConnect
<1> HIDE DEF t
<1>4. Idle(t, IoKinds) /\ t.writeBuffer = << >>
  BY <1>1, <1>2 DEF Good, Sound, StatusFits, SocketFits, Idle
<1>5. /\ d \in Clients /\ d.status = "Connecting" /\ d.socketOpen
      /\ d.io = t.io /\ d.ioCount = t.ioCount /\ d.writeBuffer = << >>
  BY <1>2, <1>4 DEF Sound
<1> HIDE DEF d
<1>6. "connect" \in IoKinds
  OBVIOUS
<1>7. /\ s \in Clients /\ s.status = d.status /\ s.socketOpen = d.socketOpen
      /\ s.ioCount = d.ioCount + 1 /\ s.writeBuffer = d.writeBuffer
      /\ s.io = [d.io EXCEPT !["connect"] = FirstState(d, "connect")]
  BY <1>5, <1>6, StartIoFields
<1> HIDE DEF s
<1>8. Good(s) /\ Idle(s, IoKinds \ {"connect"})
  BY <1>2, <1>4, <1>5, <1>7, FirstStateBusy
     DEF Good, Sound, StatusFits, SocketFits, QueueFits, CountFits, Idle, Outstanding, Reading
<1> QED
  BY <1>1, <1>3, <1>5, <1>7, <1>8

LEMMA ConnectedSound ==
    ASSUME NEW c, Good(c), c.io["connect"] # "idle", NEW hs,
           Handled(c, "connect", hs).proceed
    PROVE  LET e == Established(Handled(c, "connect", hs).client)
           IN  /\ c.status = "Connecting" /\ Sound(e) /\ e.status = "Connected"
               /\ Idle(e, {"resolve", "connect", "read"})
<1> DEFINE h == Handled(c, "connect", hs)
           t == Counted(c, "connect")
           e == Established(t)
<1>1. h.client = t /\ c.status = "Connecting"
  BY HandledGood DEF Good, Sound, StatusFits, Idle
<1>2. /\ Sound(t) /\ t.status = "Connecting" /\ t.io = [c.io EXCEPT !["connect"] = "idle"]
  BY <1>1, CountedSound
<1> HIDE DEF t
<1>3. Idle(t, IoKinds) /\ t.writeBuffer = << >>
  BY <1>1, <1>2 DEF Good, Sound, StatusFits, SocketFits, Idle
<1>4. /\ e \in Clients /\ e.status = "Connected" /\ e.socketOpen = t.socketOpen
      /\ e.io = t.io /\ e.ioCount = t.ioCount /\ e.writeBuffer = << >>
  BY <1>2, <1>3 DEF Sound, Established
<1>5. Established(h.client) = e
  BY <1>1
<1> HIDE DEF e
<1>6. Sound(e)
  BY <1>2, <1>3, <1>4 DEF Sound, StatusFits, SocketFits, QueueFits, CountFits, Idle, Outstanding
<1>7. Idle(e, {"resolve", "connect", "read"})
  BY <1>3, <1>4 DEF Idle
<1> QED
  BY <1>1, <1>4, <1>5, <1>6, <1>7

LEMMA ReadSound ==
    ASSUME NEW c, Good(c), c.io["read"] # "idle", NEW hs, Handled(c, "read", hs).proceed
    PROVE  LET t == Handled(c, "read", hs).client
           IN  /\ c.status = "Connected" /\ Sound(t) /\ t.status = "Connected"
               /\ Idle(t, {"resolve", "connect", "read"})
<1> DEFINE h == Handled(c, "read", hs)
           t == Counted(c, "read")
<1>1. h.client = t /\ c.status = "Connected"
  BY HandledGood DEF Good, Sound, StatusFits, Idle
<1>2. /\ Sound(t) /\ t.status = "Connected" /\ t.io = [c.io EXCEPT !["read"] = "idle"]
  BY <1>1, CountedSound
<1> HIDE DEF t
<1>3. Idle(t, {"resolve", "connect", "read"})
  BY <1>1, <1>2 DEF Good, Sound, StatusFits, Idle
<1> QED
  BY <1>1, <1>2, <1>3

LEMMA WrittenGood ==
    ASSUME NEW c, Good(c), c.io["write"] # "idle", NEW hs, Handled(c, "write", hs).proceed
    PROVE  LET s == AfterWrite(Handled(c, "write", hs).client)
           IN  /\ c.status = "Connected" /\ Good(s) /\ s.status = "Connected"
               /\ Idle(s, {"resolve", "connect"})
<1> DEFINE h == Handled(c, "write", hs)
           t == Counted(c, "write")
           p == [t EXCEPT !.writeBuffer = Tail(@)]
           s == StartIo(p, "write")
<1>1. h.client = t /\ c.status = "Connected"
  BY HandledGood DEF Good, Sound, StatusFits, Idle
<1>2. /\ Bare(t) /\ t.status = "Connected" /\ t.io = [c.io EXCEPT !["write"] = "idle"]
      /\ t.socketOpen = c.socketOpen /\ t.writeBuffer = c.writeBuffer
  BY <1>1, CountedSound
<1>3. AfterWrite(h.client) = IF p.writeBuffer = << >> THEN p ELSE s
  BY <1>1 DEF AfterWrite, StartWrite
<1> HIDE DEF t
<1>4. Tail(t.writeBuffer) \in Seq(Messages)
  <2>1. t.writeBuffer \in Seq(Messages) /\ t.writeBuffer # << >>
    BY <1>2 DEF Bare, Good, Sound, QueueFits
  <2> QED
    BY <2>1
<1>5. /\ p \in Clients /\ p.status = "Connected" /\ p.socketOpen = t.socketOpen
      /\ p.io = t.io /\ p.ioCount = t.ioCount
  BY <1>2, <1>4 DEF Bare
<1>6. /\ Idle(t, {"resolve", "connect"}) /\ t.io["write"] = "idle"
      /\ t.socketOpen => t.io["read"] # "idle"
  BY <1>1, <1>2 DEF Good, Sound, StatusFits, Idle, Reading
<1> HIDE DEF p
<1>7. CASE p.writeBuffer = << >>
  <2>1. Good(p) /\ Idle(p, {"resolve", "connect"})
    BY <1>2, <1>5, <1>6, <1>7
       DEF Bare, Good, Sound, StatusFits, SocketFits, QueueFits, CountFits, Idle, Outstanding,
           Reading
  <2> QED
    BY <1>1, <1>3, <1>5, <1>7, <2>1
<1>8. CASE p.writeBuffer # << >>
  <2>1. "write" \in IoKinds
    OBVIOUS
  <2>2. /\ s \in Clients /\ s.status = p.status /\ s.socketOpen = p.socketOpen
        /\ s.ioCount = p.ioCount + 1 /\ s.writeBuffer = p.writeBuffer
        /\ s.io = [p.io EXCEPT !["write"] = FirstState(p, "write")]
    BY <1>5, <2>1, StartIoFields
  <2> HIDE DEF s
  <2>3. Good(s) /\ Idle(s, {"resolve", "connect"})
    BY <1>2, <1>5, <1>6, <1>8, <2>2, FirstStateBusy
       DEF Bare, Good, Sound, StatusFits, SocketFits, QueueFits, CountFits, Idle, Outstanding,
           Reading
  <2> QED
    BY <1>1, <1>3, <1>5, <1>8, <2>2, <2>3
<1> QED
  BY <1>7, <1>8

----------------------------------------------------------------------------
(* The invariant, action by action, together with the step of the contract. *)

USE DEF Contract!Views, Contract!Calls

ContractStep == [Contract!Next]_(Contract!viewVars)

LEMMA Stutter ==
    ASSUME UNCHANGED <<view, last>>
    PROVE  ContractStep /\ (Contract!ContractTypeOK => Contract!ContractTypeOK')
BY DEF ContractStep, Contract!viewVars, Contract!ContractTypeOK

LEMMA CallConnectKeeps ==
    ASSUME IInv, CallConnect
    PROVE  IInv' /\ ContractStep
<1>1. /\ Good(client) /\ client.status = "Disconnected" /\ view = "closed"
      /\ Contract!ContractTypeOK
  BY DEF IInv, Fits, CallConnect
<1>2. client' = Connect(client) /\ view' = "opening" /\ UNCHANGED last
  BY DEF CallConnect
<1>3. Good(client') /\ client'.status = "Resolve" /\ Idle(client', IoKinds \ {"resolve"})
  BY <1>1, <1>2, ConnectGood
<1>4. Fits(client', view')
  BY <1>2, <1>3 DEF Fits, Idle
<1>5. Contract!Next /\ Contract!ContractTypeOK'
  BY <1>1, <1>2 DEF Contract!Next, Contract!Open, Contract!ContractTypeOK
<1> QED
  BY <1>3, <1>4, <1>5 DEF IInv, ContractStep

LEMMA CallDisconnectKeeps ==
    ASSUME IInv, CallDisconnect
    PROVE  IInv' /\ ContractStep
<1>1. /\ Good(client) /\ Fits(client, view) /\ Contract!ContractTypeOK
      /\ client' = Disconnect(client) /\ UNCHANGED <<view, last>>
  BY DEF IInv, CallDisconnect
<1>2. /\ Sound(client')
      /\ \A kind \in IoKinds : client'.io[kind] = "idle" <=> client.io[kind] = "idle"
      /\ client.status = "Disconnected" => client'.status = "Disconnected"
      /\ client.status # "Disconnected" => client'.status = "Disconnecting"
  BY <1>1, DisconnectSound DEF Good
<1>3. Good(client')
  BY <1>2 DEF Good, Reading
<1>4. Fits(client', view')
  BY <1>1, <1>2 DEF Fits
<1> QED
  BY <1>1, <1>3, <1>4, Stutter DEF IInv

LEMMA CallSendKeeps ==
    ASSUME IInv, NEW m \in Messages, CallSend(m)
    PROVE  IInv' /\ ContractStep
<1>1. /\ Good(client) /\ Fits(client, view) /\ Contract!ContractTypeOK
      /\ client' = Send(client, m) /\ UNCHANGED <<view, last>>
  BY DEF IInv, CallSend
<1>2. /\ Sound(client')
      /\ client'.status = client.status /\ client'.socketOpen = client.socketOpen
      /\ \A kind \in IoKinds \ {"write"} : client'.io[kind] = client.io[kind]
      /\ client.status # "Connected" => client' = client
  BY <1>1, SendSound DEF Good
<1>3. Good(client')
  BY <1>1, <1>2 DEF Good, Reading
<1>4. Fits(client', view')
  BY <1>1, <1>2 DEF Fits
<1> QED
  BY <1>1, <1>3, <1>4, Stutter DEF IInv

LEMMA CompletionKeeps ==
    ASSUME IInv, NEW kind \in IoKinds, Completion(kind)
    PROVE  IInv' /\ ContractStep
<1>1. /\ Good(client) /\ Fits(client, view) /\ Contract!ContractTypeOK
      /\ client.io[kind] = "started" /\ UNCHANGED <<view, last>>
  BY DEF IInv, Completion
<1>2. PICK result \in {"ok", "failed"} : client' = Complete(client, kind, result)
  BY DEF Completion
<1>3. /\ Good(client') /\ client'.status = client.status
      /\ \A k \in IoKinds : client'.io[k] = "idle" <=> client.io[k] = "idle"
  BY <1>1, <1>2, CompleteGood
<1>4. Fits(client', view')
  BY <1>1, <1>3 DEF Fits
<1> QED
  BY <1>1, <1>3, <1>4, Stutter DEF IInv

\* handleAnything ends the handler early.
LEMMA GiveUpKeeps ==
    ASSUME IInv, NEW kind \in IoKinds, Completed(client, kind), NEW hs,
           kind \in {"read", "write"} <=> hs = "Connected",
           GiveUp(Handled(client, kind, hs))
    PROVE  IInv' /\ ContractStep
<1> DEFINE h == Handled(client, kind, hs)
<1>1. /\ Good(client) /\ Fits(client, view) /\ Contract!ContractTypeOK
      /\ client.io[kind] # "idle"
  BY DEF IInv, Completed
<1>2. ~h.proceed /\ client' = h.client /\ Told(h)
  BY DEF GiveUp
<1>3. \/ /\ h.tells = "nothing" /\ Good(h.client) /\ h.client.status = client.status
         /\ \A k \in IoKinds : client.io[k] = "idle" => h.client.io[k] = "idle"
      \/ /\ h.tells = EndOf(hs) /\ Good(h.client) /\ h.client.status = "Disconnected"
  BY <1>1, <1>2, HandledGood
<1>4. IF hs = "Connected" THEN EndOf(hs) = "disconnect" /\ view = "open"
                          ELSE EndOf(hs) = "error" /\ view = "opening"
  BY <1>1 DEF EndOf, Fits
<1> HIDE DEF h
<1>5. CASE /\ h.tells = "nothing" /\ Good(h.client) /\ h.client.status = client.status
           /\ \A k \in IoKinds : client.io[k] = "idle" => h.client.io[k] = "idle"
  <2>1. UNCHANGED <<view, last>>
    BY <1>2, <1>5 DEF Told
  <2>2. Good(client') /\ Fits(client', view')
    BY <1>1, <1>2, <1>5, <2>1 DEF Fits
  <2> QED
    BY <1>1, <2>1, <2>2, Stutter DEF IInv
<1>6. CASE h.tells = EndOf(hs) /\ Good(h.client) /\ h.client.status = "Disconnected"
  <2>1. view' = "closed" /\ last' = EndOf(hs)
    BY <1>2, <1>4, <1>6 DEF Told
  <2>2. Good(client') /\ Fits(client', view')
    BY <1>2, <1>6, <2>1 DEF Fits, Good, Sound, StatusFits, Idle
  <2>3. (Contract!OnDisconnect \/ Contract!OnError) /\ Contract!ContractTypeOK'
    BY <1>4, <2>1 DEF Contract!OnDisconnect, Contract!OnError, Contract!ContractTypeOK
  <2> QED
    BY <2>2, <2>3 DEF IInv, ContractStep, Contract!Next
<1> QED
  BY <1>3, <1>5, <1>6

LEMMA HandleResolveKeeps ==
    ASSUME IInv, HandleResolve
    PROVE  IInv' /\ ContractStep
<1> DEFINE h == Handled(client, "resolve", "Resolve")
           s == StartConnect(h.client)
<1>1. /\ Good(client) /\ Fits(client, view) /\ Contract!ContractTypeOK
      /\ Completed(client, "resolve") /\ client.io["resolve"] # "idle"
  BY DEF IInv, HandleResolve, Completed
<1>2. CASE GiveUp(h)
  BY <1>1, <1>2, GiveUpKeeps
<1>3. CASE h.proceed /\ client' = s /\ UNCHANGED <<view, last>>
  <2>1. /\ client.status = "Resolve" /\ Good(s) /\ s.status = "Connecting"
        /\ Idle(s, IoKinds \ {"connect"})
    BY <1>1, <1>3, ResolvedGood
  <2> HIDE DEF h, s
  <2>2. Fits(client', view')
    BY <1>1, <1>3, <2>1 DEF Fits, Idle
  <2> QED
    BY <1>1, <1>3, <2>1, <2>2, Stutter DEF IInv
<1> QED
  BY <1>2, <1>3 DEF HandleResolve

\* The rest of handleConnect and of handleRead: the handler is called, reacts,
\* and the next read is started.
LEMMA ReadAgainKeeps ==
    ASSUME NEW c, Sound(c), c.status = "Connected", view' = "open",
           c.io["resolve"] = "idle", c.io["connect"] = "idle", c.io["read"] = "idle",
           \E r \in Reactions(c) : client' = StartRead(r)
    PROVE  Good(client') /\ Fits(client', view')
<1>1. PICK r \in Reactions(c) : client' = StartRead(r)
  OBVIOUS
<1>2. /\ Sound(r) /\ r.status \in {"Connected", "Disconnecting"}
      /\ r.io["resolve"] = "idle" /\ r.io["connect"] = "idle" /\ r.io["read"] = "idle"
  BY ReactionSound
<1>3. /\ Good(client') /\ client'.status \in {"Connected", "Disconnecting"}
      /\ client'.io["resolve"] = "idle" /\ client'.io["connect"] = "idle"
  BY <1>1, <1>2, StartReadGood
<1> QED
  BY <1>3 DEF Fits

LEMMA HandleConnectKeeps ==
    ASSUME IInv, HandleConnect
    PROVE  IInv' /\ ContractStep
<1> DEFINE h == Handled(client, "connect", "Connecting")
           c == Established(h.client)
<1>1. /\ Good(client) /\ Fits(client, view) /\ Contract!ContractTypeOK
      /\ Completed(client, "connect") /\ client.io["connect"] # "idle"
  BY DEF IInv, HandleConnect, Completed
<1>2. CASE GiveUp(h)
  BY <1>1, <1>2, GiveUpKeeps
<1>3. CASE /\ h.proceed
           /\ \E r \in Reactions(c) : client' = StartRead(r)
           /\ view' = "open" /\ last' = "connect"
  <2>1. /\ client.status = "Connecting" /\ Sound(c) /\ c.status = "Connected"
        /\ Idle(c, {"resolve", "connect", "read"})
    BY <1>1, <1>3, ConnectedSound
  <2> HIDE DEF h, c
  <2>2. view = "opening" /\ Good(client') /\ Fits(client', view')
    BY <1>1, <1>3, <2>1, ReadAgainKeeps DEF Fits, Idle
  <2>3. Contract!OnConnect /\ Contract!ContractTypeOK'
    BY <1>3, <2>2 DEF Contract!OnConnect, Contract!ContractTypeOK
  <2> QED
    BY <2>2, <2>3 DEF IInv, ContractStep, Contract!Next
<1> QED
  BY <1>2, <1>3 DEF HandleConnect

LEMMA HandleReadKeeps ==
    ASSUME IInv, HandleRead
    PROVE  IInv' /\ ContractStep
<1> DEFINE h == Handled(client, "read", "Connected")
           c == h.client
<1>1. /\ Good(client) /\ Fits(client, view) /\ Contract!ContractTypeOK
      /\ Completed(client, "read") /\ client.io["read"] # "idle"
  BY DEF IInv, HandleRead, Completed
<1>2. CASE GiveUp(h)
  BY <1>1, <1>2, GiveUpKeeps
<1>3. CASE /\ h.proceed
           /\ \E r \in Reactions(c) : client' = StartRead(r)
           /\ last' = "data" /\ UNCHANGED view
  <2>1. /\ client.status = "Connected" /\ Sound(c) /\ c.status = "Connected"
        /\ Idle(c, {"resolve", "connect", "read"})
    BY <1>1, <1>3, ReadSound
  <2> HIDE DEF h, c
  <2>2. view' = "open" /\ Good(client') /\ Fits(client', view')
    BY <1>1, <1>3, <2>1, ReadAgainKeeps DEF Fits, Idle
  <2>3. Contract!OnData /\ Contract!ContractTypeOK'
    BY <1>1, <1>3, <2>2 DEF Contract!OnData, Contract!ContractTypeOK
  <2> QED
    BY <2>2, <2>3 DEF IInv, ContractStep, Contract!Next
<1> QED
  BY <1>2, <1>3 DEF HandleRead

LEMMA HandleWriteKeeps ==
    ASSUME IInv, HandleWrite
    PROVE  IInv' /\ ContractStep
<1> DEFINE h == Handled(client, "write", "Connected")
           s == AfterWrite(h.client)
<1>1. /\ Good(client) /\ Fits(client, view) /\ Contract!ContractTypeOK
      /\ Completed(client, "write") /\ client.io["write"] # "idle"
  BY DEF IInv, HandleWrite, Completed
<1>2. CASE GiveUp(h)
  BY <1>1, <1>2, GiveUpKeeps
<1>3. CASE h.proceed /\ client' = s /\ UNCHANGED <<view, last>>
  <2>1. /\ client.status = "Connected" /\ Good(s) /\ s.status = "Connected"
        /\ Idle(s, {"resolve", "connect"})
    BY <1>1, <1>3, WrittenGood
  <2> HIDE DEF h, s
  <2>2. Fits(client', view')
    BY <1>1, <1>3, <2>1 DEF Fits, Idle
  <2> QED
    BY <1>1, <1>3, <2>1, <2>2, Stutter DEF IInv
<1> QED
  BY <1>2, <1>3 DEF HandleWrite

----------------------------------------------------------------------------
(* The theorems *)

LEMMA InitGood ==
    Init => IInv /\ Contract!Init
<1> SUFFICES ASSUME Init PROVE IInv /\ Contract!Init
  OBVIOUS
<1>1. << >> \in Seq(Messages)
  OBVIOUS
<1>2. /\ client \in Clients /\ client.status = "Disconnected" /\ client.ioCount = 0
      /\ client.writeBuffer = << >> /\ ~client.socketOpen
      /\ client.io = [k \in IoKinds |-> "idle"]
  BY <1>1 DEF Init, NewClient
<1>3. Good(client)
  BY <1>2 DEF Good, Sound, StatusFits, SocketFits, QueueFits, CountFits, Idle, Outstanding, Reading
<1>4. Fits(client, view)
  BY <1>2 DEF Init, Fits
<1> QED
  BY <1>3, <1>4 DEF Init, IInv, Contract!Init, Contract!ContractTypeOK

LEMMA StepKeeps ==
    IInv /\ [Next]_vars => IInv' /\ ContractStep
<1> SUFFICES ASSUME IInv, [Next]_vars PROVE IInv' /\ ContractStep
  OBVIOUS
<1>1. CASE CallConnect
  BY <1>1, CallConnectKeeps
<1>2. CASE CallDisconnect
  BY <1>2, CallDisconnectKeeps
<1>3. ASSUME NEW m \in Messages, CallSend(m) PROVE IInv' /\ ContractStep
  BY <1>3, CallSendKeeps
<1>4. ASSUME NEW kind \in IoKinds, Completion(kind) PROVE IInv' /\ ContractStep
  BY <1>4, CompletionKeeps
<1>5. CASE HandleResolve
  BY <1>5, HandleResolveKeeps
<1>6. CASE HandleConnect
  BY <1>6, HandleConnectKeeps
<1>7. CASE HandleRead
  BY <1>7, HandleReadKeeps
<1>8. CASE HandleWrite
  BY <1>8, HandleWriteKeeps
<1>9. CASE UNCHANGED vars
  <2>1. UNCHANGED <<view, last>> /\ client' = client
    BY <1>9 DEF vars
  <2> QED
    BY <2>1, Stutter DEF IInv
<1> QED
  BY <1>1, <1>2, <1>3, <1>4, <1>5, <1>6, <1>7, <1>8, <1>9 DEF Next

\* The inductive invariant holds of every behaviour of the client.
THEOREM Inductive == Spec => []IInv
<1>1. IInv /\ [Next]_vars => IInv'
  BY StepKeeps
<1> QED
  BY InitGood, <1>1, PTL DEF Spec

\* Type correctness, and _ioCount is never negative.
THEOREM TypeCorrect == Spec => []TypeOK
<1>1. IInv => TypeOK
  BY DEF IInv, Good, Sound, TypeOK
<1> QED
  BY Inductive, <1>1, PTL

\* _ioCount counts the operations whose handler has still to run.
THEOREM CountIsExact == Spec => []IoCountExact
<1>1. IInv => IoCountExact
  BY DEF IInv, Good, Sound, CountFits, IoCountExact
<1> QED
  BY Inductive, <1>1, PTL

\* Queued data on a live connection is always being written.
THEOREM QueueIsDriven == Spec => []WriteQueueDriven
<1>1. IInv => WriteQueueDriven
  BY DEF IInv, Good, Sound, QueueFits, WriteQueueDriven
<1> QED
  BY Inductive, <1>1, PTL

\* Nothing of a connection is left when the next may begin.
THEOREM Quiet == Spec => []QuietWhenDisconnected
<1>1. IInv => QuietWhenDisconnected
  BY DEF IInv, Good, Sound, StatusFits, SocketFits, Idle, QuietWhenDisconnected
<1> QED
  BY Inductive, <1>1, PTL

\* The client implements the contract of TcpClientHandler.
THEOREM Implements == Spec => KeepsContract
<1>1. IInv /\ [Next]_vars => [Contract!Next]_(Contract!viewVars)
  BY StepKeeps DEF ContractStep
<1>2. Init => Contract!Init
  BY InitGood
<1> QED
  BY Inductive, <1>1, <1>2, PTL DEF Spec, KeepsContract, Contract!Spec
----------------------------------------------------------------------------
(* What is sent goes out once and in order. *)

\* At most one message has been appended.
Queued(before, after) ==
    after = before \/ \E m \in Messages : after = Append(before, m)

LEMMA MethodsQueue ==
    ASSUME NEW c \in Clients
    PROVE  /\ Connect(c).writeBuffer = c.writeBuffer
           /\ Disconnect(c).writeBuffer = c.writeBuffer
           /\ StartConnect(c).writeBuffer = c.writeBuffer
           /\ Established(c).writeBuffer = c.writeBuffer
           /\ StartRead(c).writeBuffer = c.writeBuffer
           /\ \A m \in Messages : Queued(c.writeBuffer, Send(c, m).writeBuffer)
<1>1. Disconnect(c).writeBuffer = c.writeBuffer
  BY DEF Disconnect, CloseSocket
<1>2. ASSUME NEW m \in Messages PROVE Queued(c.writeBuffer, Send(c, m).writeBuffer)
  BY DEF Queued, Send, StartWrite, StartIo
<1> QED
  BY <1>1, <1>2 DEF Connect, StartConnect, Established, StartRead, StartIo

LEMMA ReactionQueue ==
    ASSUME NEW c, Sound(c), NEW r \in Reactions(c)
    PROVE  r \in Clients /\ Queued(c.writeBuffer, r.writeBuffer)
<1>1. \/ r = c
      \/ r = Disconnect(c)
      \/ \E m \in Messages : r = Send(c, m)
      \/ \E m \in Messages : r = Disconnect(Send(c, m))
  BY DEF Reactions
<1>2. CASE r \in {c, Disconnect(c)}
  BY <1>2, MethodsQueue, DisconnectSound DEF Sound, Queued
<1>3. ASSUME NEW m \in Messages, r \in {Send(c, m), Disconnect(Send(c, m))}
      PROVE  r \in Clients /\ Queued(c.writeBuffer, r.writeBuffer)
  <2> DEFINE d == Send(c, m)
  <2>1. Sound(d) /\ Queued(c.writeBuffer, d.writeBuffer)
    BY MethodsQueue, SendSound DEF Sound
  <2>2. r = d \/ r = Disconnect(d)
    BY <1>3
  <2> HIDE DEF d
  <2> QED
    BY <2>1, <2>2, MethodsQueue, DisconnectSound DEF Sound
<1> QED
  BY <1>1, <1>2, <1>3

LEMMA CountedFields ==
    ASSUME NEW c, Good(c), NEW kind \in IoKinds, Completed(c, kind)
    PROVE  /\ c.io[kind] # "idle" /\ c.status # "Disconnected"
           /\ Bare(Counted(c, kind)) /\ Counted(c, kind) \in Clients
           /\ Counted(c, kind).status = c.status
           /\ Counted(c, kind).io = [c.io EXCEPT ![kind] = "idle"]
           /\ Counted(c, kind).writeBuffer = c.writeBuffer
<1>1. c.io[kind] # "idle"
  BY DEF Completed
<1>2. /\ c.status # "Disconnected"
      /\ Bare(Counted(c, kind))
      /\ Counted(c, kind).status = c.status
      /\ Counted(c, kind).io = [c.io EXCEPT ![kind] = "idle"]
      /\ Counted(c, kind).writeBuffer = c.writeBuffer
  BY <1>1, CountedSound
<1>3. Counted(c, kind) \in Clients
  BY <1>2 DEF Bare
<1> QED
  BY <1>1, <1>2, <1>3

\* A handler that goes on has a queue to go on with, and its operation was a
\* success; one that does not has left the queue alone or ended the connection.
LEMMA HandledQueue ==
    ASSUME NEW c, Good(c), NEW kind \in IoKinds, Completed(c, kind), NEW hs
    PROVE  LET h == Handled(c, kind, hs)
           IN  \/ /\ h.proceed /\ h.client = Counted(c, kind) /\ c.io[kind] = "ok"
                  /\ h.client.writeBuffer = c.writeBuffer
               \/ ~h.proceed /\ h.client.writeBuffer = c.writeBuffer
               \/ /\ ~h.proceed /\ h.client.writeBuffer = << >>
                  /\ h.client.status = "Disconnected" /\ h.client.io["write"] = "idle"
<1> DEFINE h == Handled(c, kind, hs)
           t == Counted(c, kind)
           d == CloseSocket(t)
           error == c.io[kind] = "failed"
           asked == t.status = "Disconnecting"
<1>1. /\ c.io[kind] # "idle" /\ c.status # "Disconnected"
      /\ Bare(t) /\ t \in Clients /\ t.status = c.status /\ t.writeBuffer = c.writeBuffer
  <2> HIDE DEF Clients, IoKinds, IoStates, Statuses
  <2> QED
    BY CountedFields
<1>2. h = IF ~asked /\ ~error THEN Result(t, TRUE, "nothing", FALSE)
          ELSE IF MustWait(d) THEN Result(d, FALSE, "nothing", FALSE)
          ELSE Result(Ended(d), FALSE, EndOf(hs), asked)
  BY <1>1 DEF Handled, HandleAnything, Counted
<1> HIDE DEF t
<1>3. d.writeBuffer = c.writeBuffer
  BY <1>1, CloseSocketFields
<1> HIDE DEF h, d, asked, error
<1>4. CASE ~asked /\ ~error
  <2>1. h.proceed /\ h.client = t
    BY <1>2, <1>4 DEF Result
  <2>2. c.io[kind] = "ok"
    BY <1>4 DEF Completed, error
  <2> QED
    BY <1>1, <2>1, <2>2 DEF h, t
<1>5. CASE (asked \/ error) /\ MustWait(d)
  <2>1. ~h.proceed /\ h.client = d
    BY <1>2, <1>5 DEF Result
  <2> QED
    BY <1>3, <2>1 DEF h
<1>6. CASE (asked \/ error) /\ ~MustWait(d)
  <2>1. ~h.proceed /\ h.client = Ended(d)
    BY <1>2, <1>6 DEF Result
  <2>2. Good(d) /\ ~d.socketOpen
    BY <1>1, ClosedGood, CloseSocketFields DEF d
  <2>3. Good(Ended(d)) /\ Ended(d).status = "Disconnected"
    BY <1>6, <2>2, EndedGood
  <2>4. Ended(d).writeBuffer = << >> /\ Ended(d).io["write"] = "idle"
    BY <2>2, <2>3 DEF Ended, Good, Sound, StatusFits, Idle
  <2> QED
    BY <2>1, <2>3, <2>4 DEF h
<1> QED
  BY <1>4, <1>5, <1>6

\* A message leaves the queue of c, in the step that makes it d, as the first.
InOrder(c, d) ==
    \/ Queued(c.writeBuffer, d.writeBuffer)
    \/ /\ c.io["write"] = "ok" /\ d.io["write"] # "ok"
       /\ c.writeBuffer # << >> /\ d.writeBuffer = Tail(c.writeBuffer)
    \/ d.status = "Disconnected" /\ d.io["write"] = "idle" /\ d.writeBuffer = << >>

LEMMA ReadAgainQueue ==
    ASSUME NEW c, Sound(c), \E r \in Reactions(c) : client' = StartRead(r)
    PROVE  Queued(c.writeBuffer, client'.writeBuffer)
<1>1. PICK r \in Reactions(c) : client' = StartRead(r)
  OBVIOUS
<1>2. r \in Clients /\ Queued(c.writeBuffer, r.writeBuffer)
  BY ReactionQueue
<1>3. client'.writeBuffer = r.writeBuffer
  BY <1>1, <1>2, MethodsQueue
<1> QED
  BY <1>2, <1>3

LEMMA GiveUpQueue ==
    ASSUME Good(client), NEW kind \in IoKinds, Completed(client, kind), NEW hs,
           GiveUp(Handled(client, kind, hs))
    PROVE  InOrder(client, client')
<1> DEFINE h == Handled(client, kind, hs)
<1>1. ~h.proceed /\ client' = h.client
  BY DEF GiveUp
<1>2. \/ h.client.writeBuffer = client.writeBuffer
      \/ /\ h.client.writeBuffer = << >>
         /\ h.client.status = "Disconnected" /\ h.client.io["write"] = "idle"
  BY <1>1, HandledQueue
<1> HIDE DEF h
<1> QED
  BY <1>1, <1>2 DEF InOrder, Queued

LEMMA WrittenQueue ==
    ASSUME NEW c, Good(c), Completed(c, "write"), NEW hs, Handled(c, "write", hs).proceed
    PROVE  InOrder(c, AfterWrite(Handled(c, "write", hs).client))
<1> DEFINE h == Handled(c, "write", hs)
           t == Counted(c, "write")
           p == [t EXCEPT !.writeBuffer = Tail(@)]
<1>1. /\ h.client = t /\ c.io["write"] = "ok"
      /\ t.writeBuffer = c.writeBuffer
  BY HandledQueue
<1>2. t \in Clients /\ t.io = [c.io EXCEPT !["write"] = "idle"]
  BY CountedFields
<1>3. c.writeBuffer # << >>
  BY <1>1 DEF Good, Sound, QueueFits
<1>4. AfterWrite(h.client) = IF p.writeBuffer = << >> THEN p ELSE StartIo(p, "write")
  BY <1>1 DEF AfterWrite, StartWrite
<1> HIDE DEF h, t
<1>5. p.writeBuffer = Tail(c.writeBuffer) /\ p.io = t.io
  BY <1>1, <1>2
<1>6. p.io["write"] = "idle"
  BY <1>2, <1>5 DEF Good, Sound
<1>7. StartIo(p, "write").writeBuffer = p.writeBuffer
  BY <1>2 DEF StartIo
<1>8. StartIo(p, "write").io["write"] \in {"started", "failed"}
  BY <1>2, <1>5 DEF StartIo, FirstState
<1> HIDE DEF p
<1> QED
  BY <1>1, <1>3, <1>4, <1>5, <1>6, <1>7, <1>8 DEF InOrder, h

LEMMA StepInOrder ==
    IInv /\ [Next]_vars => InOrder(client, client')
<1> SUFFICES ASSUME IInv, [Next]_vars PROVE InOrder(client, client')
  OBVIOUS
<1>1. Good(client) /\ client \in Clients
  BY DEF IInv, Good, Sound
<1>2. CASE CallConnect
  BY <1>1, <1>2, MethodsQueue DEF CallConnect, Queued, InOrder
<1>3. CASE CallDisconnect
  BY <1>1, <1>3, MethodsQueue DEF CallDisconnect, Queued, InOrder
<1>4. ASSUME NEW m \in Messages, CallSend(m) PROVE InOrder(client, client')
  BY <1>1, <1>4, MethodsQueue DEF CallSend, InOrder
<1>5. ASSUME NEW kind \in IoKinds, Completion(kind) PROVE InOrder(client, client')
  BY <1>1, <1>5 DEF Completion, Complete, Queued, InOrder
<1>6. CASE HandleResolve
  <2> DEFINE h == Handled(client, "resolve", "Resolve")
  <2>1. Completed(client, "resolve")
    BY <1>6 DEF HandleResolve
  <2>2. CASE GiveUp(h)
    BY <1>1, <2>1, <2>2, GiveUpQueue
  <2>3. CASE h.proceed /\ client' = StartConnect(h.client)
    <3>1. /\ h.client.writeBuffer = client.writeBuffer /\ h.client = Counted(client, "resolve")
          /\ "resolve" \in IoKinds
      BY <1>1, <2>1, <2>3, HandledQueue
    <3>2. h.client \in Clients
      <4> HIDE DEF Clients, IoKinds, IoStates, Statuses
      <4>1. Counted(client, "resolve") \in Clients
        BY <1>1, <2>1, <3>1, CountedFields
      <4> QED
        BY <3>1, <4>1
    <3> HIDE DEF h
    <3> QED
      BY <2>3, <3>1, <3>2, MethodsQueue DEF Queued, InOrder
  <2> QED
    BY <1>6, <2>2, <2>3 DEF HandleResolve
<1>7. CASE HandleConnect
  <2> DEFINE h == Handled(client, "connect", "Connecting")
             e == Established(h.client)
  <2>1. Completed(client, "connect") /\ client.io["connect"] # "idle"
    BY <1>7 DEF HandleConnect, Completed
  <2>2. CASE GiveUp(h)
    BY <1>1, <2>1, <2>2, GiveUpQueue
  <2>3. CASE h.proceed /\ \E r \in Reactions(e) : client' = StartRead(r)
    <3>1. /\ h.client.writeBuffer = client.writeBuffer /\ h.client = Counted(client, "connect")
          /\ "connect" \in IoKinds
      BY <1>1, <2>1, <2>3, HandledQueue
    <3>2. h.client \in Clients
      <4> HIDE DEF Clients, IoKinds, IoStates, Statuses
      <4>1. Counted(client, "connect") \in Clients
        BY <1>1, <2>1, <3>1, CountedFields
      <4> QED
        BY <3>1, <4>1
    <3>3. e.writeBuffer = client.writeBuffer
      BY <3>1, <3>2, MethodsQueue
    <3>4. Sound(e)
      BY <1>1, <2>1, <2>3, ConnectedSound
    <3> HIDE DEF e
    <3> QED
      BY <2>3, <3>3, <3>4, ReadAgainQueue DEF InOrder
  <2> QED
    BY <1>7, <2>2, <2>3 DEF HandleConnect
<1>8. CASE HandleRead
  <2> DEFINE h == Handled(client, "read", "Connected")
  <2>1. Completed(client, "read") /\ client.io["read"] # "idle"
    BY <1>8 DEF HandleRead, Completed
  <2>2. CASE GiveUp(h)
    BY <1>1, <2>1, <2>2, GiveUpQueue
  <2>3. CASE h.proceed /\ \E r \in Reactions(h.client) : client' = StartRead(r)
    <3>1. h.client.writeBuffer = client.writeBuffer
      BY <1>1, <2>1, <2>3, HandledQueue
    <3>2. Sound(h.client)
      BY <1>1, <2>1, <2>3, ReadSound
    <3> HIDE DEF h
    <3> QED
      BY <2>3, <3>1, <3>2, ReadAgainQueue DEF InOrder
  <2> QED
    BY <1>8, <2>2, <2>3 DEF HandleRead
<1>9. CASE HandleWrite
  <2> DEFINE h == Handled(client, "write", "Connected")
  <2>1. Completed(client, "write")
    BY <1>9 DEF HandleWrite
  <2>2. CASE GiveUp(h)
    BY <1>1, <2>1, <2>2, GiveUpQueue
  <2>3. CASE h.proceed /\ client' = AfterWrite(h.client)
    BY <1>1, <2>1, <2>3, WrittenQueue
  <2> QED
    BY <1>9, <2>2, <2>3 DEF HandleWrite
<1>10. CASE UNCHANGED vars
  BY <1>10 DEF vars, Queued, InOrder
<1> QED
  BY <1>2, <1>3, <1>4, <1>5, <1>6, <1>7, <1>8, <1>9, <1>10 DEF Next

\* No message is lost, doubled or overtaken while the connection lasts.
THEOREM OnceInOrder == Spec => WritesInOrder
<1>1. IInv /\ [Next]_vars => InOrder(client, client')
  BY StepInOrder
<1>2. InOrder(client, client') =>
        \/ client'.writeBuffer = client.writeBuffer
        \/ \E m \in Messages : client'.writeBuffer = Append(client.writeBuffer, m)
        \/ /\ client.io["write"] = "ok" /\ client'.io["write"] # "ok"
           /\ client.writeBuffer # << >> /\ client'.writeBuffer = Tail(client.writeBuffer)
        \/ /\ client'.status = "Disconnected" /\ client'.io["write"] = "idle"
           /\ client'.writeBuffer = << >>
  BY DEF InOrder, Queued
<1> QED
  BY Inductive, <1>1, <1>2, PTL DEF Spec, WritesInOrder
=============================================================================
