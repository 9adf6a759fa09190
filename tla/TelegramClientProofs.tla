------------------------ MODULE TelegramClientProofs ------------------------
(***************************************************************************)
(* Theorems about TelegramClient, for every retry delay and every bound.   *)
(***************************************************************************)
EXTENDS TelegramClient, SequenceTheorems, TLAPS

----------------------------------------------------------------------------
(* The inductive invariant.  The properties are not inductive: a poll that  *)
(* is given up is popped whatever it is, so it must still be the poll, and  *)
(* the identifiers grow only if the poll that is answered asked from where  *)
(* the bot is.                                                              *)

OnePoll(requests) ==
    \A i, j \in DOMAIN requests : IsLongPoll(requests[i]) /\ IsLongPoll(requests[j]) => i = j

Fresh(requests, id) ==
    \A i \in DOMAIN requests : IsLongPoll(requests[i]) => requests[i].offset = id

NotStarted == ~enabled => queue = << >> /\ timer = Idle /\ botTimer = Idle

PollGivesWay == ssl = "Disconnecting" => IsLongPoll(Head(queue))

InStep ==
    /\ handled = [i \in 1 .. Len(handled) |-> i]
    /\ lastUpdateId = IF handled = << >> THEN 0 ELSE Len(handled) + 1

IInv ==
    /\ TypeOK
    /\ NotStarted
    /\ BusyWithRequest
    /\ PollGivesWay
    /\ NeverStalls
    /\ OnePoll(queue)
    /\ Fresh(queue, lastUpdateId)
    /\ InStep

----------------------------------------------------------------------------
(* Queues of requests *)

LEMMA RequestsTyped ==
    /\ GetMe \in Requests /\ ~IsLongPoll(GetMe)
    /\ Message \in Requests /\ ~IsLongPoll(Message)
    /\ \A id \in Nat : Poll(id) \in Requests /\ IsLongPoll(Poll(id)) /\ Poll(id).offset = id
BY DEF GetMe, Message, Poll, Requests, IsLongPoll

\* Replies to n commands.
LEMMA RepliesTyped ==
    ASSUME NEW n \in Nat
    PROVE  LET replies == [i \in 1 .. n |-> Message]
           IN  /\ replies \in Seq(Requests)
               /\ Len(replies) = n
               /\ \A i \in DOMAIN replies : ~IsLongPoll(replies[i])
BY RequestsTyped

\* What is appended that is no poll leaves the polls, and the first request, alone.
LEMMA AppendOthers ==
    ASSUME NEW q \in Seq(Requests), NEW r \in Seq(Requests), NEW id \in Nat,
           \A i \in DOMAIN r : ~IsLongPoll(r[i])
    PROVE  /\ q \o r \in Seq(Requests)
           /\ q # << >> => q \o r # << >> /\ Head(q \o r) = Head(q)
           /\ OnePoll(q) => OnePoll(q \o r)
           /\ Fresh(q, id) => Fresh(q \o r, id)
<1>1. /\ q \o r \in Seq(Requests)
      /\ Len(q \o r) = Len(q) + Len(r)
      /\ \A i \in 1 .. Len(q) + Len(r) :
            (q \o r)[i] = IF i <= Len(q) THEN q[i] ELSE r[i - Len(q)]
  BY ConcatProperties
<1>2. /\ DOMAIN q = 1 .. Len(q) /\ Len(q) \in Nat
      /\ DOMAIN r = 1 .. Len(r) /\ Len(r) \in Nat
      /\ DOMAIN (q \o r) = 1 .. Len(q) + Len(r)
  BY <1>1, LenProperties
<1>3. \A i \in DOMAIN (q \o r) :
        IsLongPoll((q \o r)[i]) => i \in DOMAIN q /\ (q \o r)[i] = q[i]
  <2>1. SUFFICES ASSUME NEW i \in 1 .. Len(q) + Len(r), IsLongPoll((q \o r)[i])
                 PROVE  i \in 1 .. Len(q) /\ (q \o r)[i] = q[i]
    BY <1>2
  <2>2. CASE i <= Len(q)
    BY <1>1, <1>2, <2>2
  <2>3. CASE ~(i <= Len(q))
    <3>1. (q \o r)[i] = r[i - Len(q)] /\ i - Len(q) \in 1 .. Len(r)
      BY <1>1, <1>2, <2>3
    <3>2. QED
      BY <1>2, <2>1, <3>1
  <2>4. QED
    BY <2>2, <2>3
<1>4. q # << >> => q \o r # << >> /\ Head(q \o r) = Head(q)
  BY <1>1, <1>2
<1>5. QED
  BY <1>1, <1>3, <1>4 DEF OnePoll, Fresh

\* Taking off the first request takes no poll in, and takes off the poll if it is one.
LEMMA TakeOff ==
    ASSUME NEW q \in Seq(Requests), q # << >>, OnePoll(q), NEW id \in Nat
    PROVE  /\ Tail(q) \in Seq(Requests)
           /\ OnePoll(Tail(q))
           /\ Fresh(q, id) => Fresh(Tail(q), id)
           /\ IsLongPoll(Head(q)) => \A other : Fresh(Tail(q), other)
<1>1. /\ Tail(q) \in Seq(Requests)
      /\ Len(Tail(q)) = Len(q) - 1
      /\ \A i \in 1 .. Len(Tail(q)) : Tail(q)[i] = q[i + 1]
  BY HeadTailProperties
<1>2. DOMAIN q = 1 .. Len(q) /\ Len(q) \in Nat \ {0} /\ DOMAIN Tail(q) = 1 .. Len(q) - 1
  BY <1>1, LenProperties, EmptySeq
<1>3. \A i \in DOMAIN Tail(q) : i \in Nat /\ i + 1 \in DOMAIN q /\ i + 1 # 1 /\ Tail(q)[i] = q[i + 1]
  BY <1>1, <1>2
<1>4. Head(q) = q[1] /\ 1 \in DOMAIN q
  BY <1>2
<1>5. OnePoll(Tail(q))
  <2>1. SUFFICES ASSUME NEW i \in DOMAIN Tail(q), NEW j \in DOMAIN Tail(q),
                        IsLongPoll(Tail(q)[i]), IsLongPoll(Tail(q)[j])
                 PROVE  i = j
    BY DEF OnePoll
  <2>2. i + 1 = j + 1
    BY <1>3, <2>1 DEF OnePoll
  <2>3. QED
    BY <1>3, <2>2
<1>6. Fresh(q, id) => Fresh(Tail(q), id)
  BY <1>3 DEF Fresh
<1>7. IsLongPoll(Head(q)) => \A other : Fresh(Tail(q), other)
  BY <1>3, <1>4 DEF OnePoll, Fresh
<1>8. QED
  BY <1>1, <1>5, <1>6, <1>7

----------------------------------------------------------------------------
(* Timers *)

LEMMA TimersKeepTypes ==
    ASSUME NEW t \in Timers
    PROVE  /\ ExpiresFromNow(t) \in Timers
           /\ ExpiresFromNow(t).waiting = 0
           /\ t.waiting + t.due > 0 => ExpiresFromNow(t).due > 0
           /\ \A n \in Nat \ {0} : PushQueue(t, n) \in Timers /\ PushQueue(t, n).waiting = 1
           /\ t.due > 0 => [t EXCEPT !.due = @ - 1] \in Timers
           /\ RetryLater(t) \in Timers
           /\ RetryDelay > 0 => RetryLater(t).waiting = 1
BY RetryDelayAssumption DEF Timers, ExpiresFromNow, PushQueue, RetryLater

LEMMA TimersNat ==
    ASSUME NEW t \in Timers
    PROVE  t.waiting \in {0, 1} /\ t.due \in Nat
BY DEF Timers

\* sendRequest, of requests that are no polls.
LEMMA SendKeepsQueue ==
    ASSUME TypeOK, OnePoll(queue), Fresh(queue, lastUpdateId), PollGivesWay, BusyWithRequest,
           NEW requests \in Seq(Requests), Len(requests) > 0, SendRequests(requests),
           \A i \in DOMAIN requests : ~IsLongPoll(requests[i])
    PROVE  /\ queue' \in Seq(Requests) /\ timer' \in Timers
           /\ timer'.waiting = 1
           /\ OnePoll(queue') /\ Fresh(queue', lastUpdateId)
           /\ queue # << >> => queue' # << >> /\ Head(queue') = Head(queue)
<1>1. queue \in Seq(Requests) /\ timer \in Timers /\ lastUpdateId \in Nat
  BY DEF TypeOK
<1>2. Len(requests) \in Nat \ {0}
  BY LenProperties
<1>3. QED
  BY <1>1, <1>2, AppendOthers, TimersKeepTypes DEF SendRequests

----------------------------------------------------------------------------
(* The actions, one by one *)

LEMMA InitIInv == Init => IInv
<1>1. SUFFICES ASSUME Init PROVE IInv
  OBVIOUS
<1>2. TypeOK
  BY <1>1, EmptySeq DEF Init, TypeOK, Timers, Idle, Empty
<1>3. NotStarted /\ BusyWithRequest /\ PollGivesWay /\ NeverStalls
  <2>1. ~enabled /\ queue = << >> /\ timer = Idle /\ botTimer = Idle /\ ssl = "Disconnected"
    BY <1>1 DEF Init
  <2>2. QED
    BY <2>1 DEF NotStarted, BusyWithRequest, PollGivesWay, NeverStalls
<1>4. OnePoll(queue) /\ Fresh(queue, lastUpdateId)
  <2>1. queue = << >> /\ DOMAIN << >> = {}
    BY <1>1 DEF Init
  <2>2. QED
    BY <2>1 DEF OnePoll, Fresh
<1>5. InStep
  <2>1. handled = << >> /\ lastUpdateId = 0 /\ Len(handled) = 0
    BY <1>1, EmptySeq DEF Init
  <2>2. [i \in 1 .. 0 |-> i] = << >>
    OBVIOUS
  <2>3. QED
    BY <2>1, <2>2 DEF InStep
<1>6. QED
  BY <1>2, <1>3, <1>4, <1>5 DEF IInv

\* The first two requests: the bot has none before.
LEMMA StartKeeps == IInv /\ Start => IInv'
<1>1. SUFFICES ASSUME IInv, Start PROVE IInv'
  OBVIOUS
<1>2. queue = << >> /\ lastUpdateId \in Nat /\ timer \in Timers
  BY <1>1 DEF IInv, TypeOK, NotStarted, Start
<1>3. queue' = <<Poll(lastUpdateId), GetMe>>
  <2>1. <<Poll(lastUpdateId), GetMe>> \in Seq(Requests)
    BY <1>2, RequestsTyped
  <2>2. << >> \o <<Poll(lastUpdateId), GetMe>> = <<Poll(lastUpdateId), GetMe>>
    BY <2>1, ConcatEmptySeq
  <2>3. QED
    BY <1>1, <1>2, <2>2 DEF Start, SendRequests
<1>4. timer' \in Timers /\ timer'.waiting = 1
  <2>1. timer' = PushQueue(timer, 2)
    BY <1>1 DEF Start, SendRequests
  <2>2. PushQueue(timer, 2) \in Timers /\ PushQueue(timer, 2).waiting = 1
    <3>1. 2 \in Nat \ {0}
      OBVIOUS
    <3>2. QED
      BY <1>2, <3>1, TimersKeepTypes
  <2>3. QED
    BY <2>1, <2>2
<1>5. TypeOK'
  BY <1>1, <1>2, <1>3, <1>4, RequestsTyped DEF IInv, TypeOK, Start
<1>6. NotStarted' /\ BusyWithRequest' /\ PollGivesWay'
  BY <1>1, <1>2, <1>3, RequestsTyped
  DEF IInv, BusyWithRequest, NotStarted, PollGivesWay, Start
<1>7. NeverStalls'
  BY <1>4, TimersNat DEF NeverStalls
<1>8. OnePoll(queue)' /\ Fresh(queue, lastUpdateId)'
  BY <1>1, <1>2, <1>3, RequestsTyped DEF OnePoll, Fresh, Start
<1>9. InStep'
  BY <1>1 DEF IInv, InStep, Start
<1>10. QED
  BY <1>5, <1>6, <1>7, <1>8, <1>9 DEF IInv

LEMMA SendMessageKeeps == IInv /\ SendMessage => IInv'
<1>1. SUFFICES ASSUME IInv, SendMessage PROVE IInv'
  OBVIOUS
<1>2. /\ <<Message>> \in Seq(Requests) /\ Len(<<Message>>) > 0
      /\ \A i \in DOMAIN <<Message>> : ~IsLongPoll(<<Message>>[i])
  BY RequestsTyped
<1>3. /\ queue' \in Seq(Requests) /\ timer' \in Timers
      /\ timer'.waiting = 1
      /\ OnePoll(queue') /\ Fresh(queue', lastUpdateId)
      /\ queue # << >> => queue' # << >> /\ Head(queue') = Head(queue)
  BY <1>1, <1>2, SendKeepsQueue DEF IInv, SendMessage
<1>4. TypeOK'
  BY <1>1, <1>3 DEF IInv, TypeOK, SendMessage
<1>5. NotStarted' /\ BusyWithRequest' /\ PollGivesWay'
  BY <1>1, <1>3 DEF IInv, BusyWithRequest, NotStarted, PollGivesWay, SendMessage
<1>6. NeverStalls'
  BY <1>3, TimersNat DEF NeverStalls
<1>7. Fresh(queue, lastUpdateId)' /\ OnePoll(queue)' /\ InStep'
  BY <1>1, <1>3 DEF IInv, InStep, SendMessage
<1>8. QED
  BY <1>4, <1>5, <1>6, <1>7 DEF IInv

LEMMA TimerExpiresKeeps == IInv /\ TimerExpires => IInv'
<1>1. SUFFICES ASSUME IInv, TimerExpires PROVE IInv'
  OBVIOUS
<1>2. timer \in Timers /\ timer' = ExpiresFromNow(timer) /\ timer.waiting > 0
  BY <1>1 DEF IInv, TypeOK, TimerExpires
<1>3. timer' \in Timers /\ timer'.waiting = 0 /\ timer'.due > 0
  <2>1. timer.waiting + timer.due > 0
    BY <1>2, TimersNat
  <2>2. QED
    BY <1>2, <2>1, TimersKeepTypes
<1>4. TypeOK'
  BY <1>1, <1>3 DEF IInv, TypeOK, TimerExpires, botVars
<1>5. NotStarted' /\ BusyWithRequest' /\ PollGivesWay'
  BY <1>1, <1>2 DEF IInv, NotStarted, BusyWithRequest, PollGivesWay, TimerExpires, botVars, Idle
<1>6. NeverStalls'
  BY <1>3, TimersNat DEF NeverStalls
<1>7. (OnePoll(queue) /\ Fresh(queue, lastUpdateId) /\ InStep)'
  BY <1>1 DEF IInv, OnePoll, Fresh, InStep, TimerExpires, botVars
<1>8. QED
  BY <1>4, <1>5, <1>6, <1>7 DEF IInv

LEMMA BotTimerExpiresKeeps == IInv /\ BotTimerExpires => IInv'
<1>1. SUFFICES ASSUME IInv, BotTimerExpires PROVE IInv'
  OBVIOUS
<1>2. botTimer \in Timers /\ botTimer' = ExpiresFromNow(botTimer) /\ botTimer.waiting > 0
  BY <1>1 DEF IInv, TypeOK, BotTimerExpires
<1>3. botTimer' \in Timers /\ botTimer'.waiting = 0 /\ botTimer'.due > 0
  <2>1. botTimer.waiting + botTimer.due > 0
    BY <1>2, TimersNat
  <2>2. QED
    BY <1>2, <2>1, TimersKeepTypes
<1>4. TypeOK'
  BY <1>1, <1>3 DEF IInv, TypeOK, BotTimerExpires
<1>5. NotStarted' /\ BusyWithRequest' /\ PollGivesWay'
  BY <1>1 DEF IInv, NotStarted, BusyWithRequest, PollGivesWay, BotTimerExpires, Idle
<1>6. NeverStalls'
  BY <1>3, TimersNat DEF NeverStalls
<1>7. (OnePoll(queue) /\ Fresh(queue, lastUpdateId) /\ InStep)'
  BY <1>1 DEF IInv, OnePoll, Fresh, InStep, BotTimerExpires
<1>8. QED
  BY <1>4, <1>5, <1>6, <1>7 DEF IInv

\* The idle client asks for updates, and only because its queue is empty.
LEMMA HandleTimerKeeps == IInv /\ HandleTimer => IInv'
<1>1. SUFFICES ASSUME IInv, HandleTimer PROVE IInv'
  OBVIOUS
<1> DEFINE run == [timer EXCEPT !.due = @ - 1]
<1>2. run \in Timers /\ queue \in Seq(Requests) /\ lastUpdateId \in Nat
  BY <1>1, TimersKeepTypes DEF IInv, TypeOK, HandleTimer
<1>3. UNCHANGED <<enabled, lastUpdateId, botTimer, handled, sent, response, posted>>
  BY <1>1 DEF HandleTimer, botVars
<1>4. enabled
  BY <1>1 DEF IInv, NotStarted, HandleTimer, Idle
<1>5. CASE ssl \in {"Disconnecting", "Error", "Connecting", "Connected"}
  <2>1. UNCHANGED <<view, queue>> /\ timer' = run
    BY <1>1, <1>5 DEF HandleTimer
  <2>2. /\ ssl' \in {"Disconnecting", "Error", "Connecting", "Connected"}
        /\ ssl' = "Disconnecting" => ssl = "Disconnecting" \/ IsLongPoll(Head(queue))
    BY <1>1, <1>5 DEF HandleTimer, GivesWay
  <2>3. TypeOK'
    BY <1>1, <1>2, <1>3, <2>1, <2>2 DEF IInv, TypeOK
  <2>4. NotStarted' /\ BusyWithRequest' /\ PollGivesWay' /\ NeverStalls'
    BY <1>1, <1>3, <1>4, <1>5, <2>1, <2>2
    DEF IInv, NotStarted, BusyWithRequest, PollGivesWay, NeverStalls
  <2>5. (OnePoll(queue) /\ Fresh(queue, lastUpdateId) /\ InStep)'
    BY <1>1, <1>3, <2>1 DEF IInv, OnePoll, Fresh, InStep
  <2>6. QED
    BY <2>3, <2>4, <2>5 DEF IInv
<1>6. CASE ssl = "Disconnected" /\ queue = << >>
  <2>1. /\ timer' = PushQueue(run, 1)
        /\ queue' = <<Poll(lastUpdateId)>>
        /\ ssl' = ssl /\ view' = view
    BY <1>1, <1>6 DEF HandleTimer
  <2>2. timer' \in Timers /\ timer'.waiting = 1
    <3>1. 1 \in Nat \ {0}
      OBVIOUS
    <3>2. PushQueue(run, 1) \in Timers /\ PushQueue(run, 1).waiting = 1
      BY <1>2, <3>1, TimersKeepTypes
    <3>3. QED
      BY <2>1, <3>2
  <2>3. TypeOK'
    BY <1>1, <1>2, <1>3, <2>1, <2>2, RequestsTyped DEF IInv, TypeOK
  <2>4. NotStarted' /\ BusyWithRequest' /\ PollGivesWay'
    BY <1>3, <1>4, <1>6, <2>1 DEF NotStarted, BusyWithRequest, PollGivesWay
  <2>5. NeverStalls'
    BY <2>2, TimersNat DEF NeverStalls
  <2>6. (OnePoll(queue) /\ Fresh(queue, lastUpdateId))'
    BY <1>2, <1>3, <2>1, RequestsTyped DEF OnePoll, Fresh
  <2>7. InStep'
    BY <1>1, <1>3 DEF IInv, InStep
  <2>8. QED
    BY <2>3, <2>4, <2>5, <2>6, <2>7 DEF IInv
<1>7. CASE ssl = "Disconnected" /\ queue # << >>
  <2>1. timer' = run /\ ssl' = "Connecting" /\ view' = "opening" /\ queue' = queue
    BY <1>1, <1>7 DEF HandleTimer
  <2>2. TypeOK'
    BY <1>1, <1>2, <1>3, <2>1 DEF IInv, TypeOK
  <2>3. NotStarted' /\ BusyWithRequest' /\ PollGivesWay' /\ NeverStalls'
    BY <1>3, <1>4, <1>7, <2>1 DEF NotStarted, BusyWithRequest, PollGivesWay, NeverStalls
  <2>4. (OnePoll(queue) /\ Fresh(queue, lastUpdateId) /\ InStep)'
    BY <1>1, <1>3, <2>1 DEF IInv, OnePoll, Fresh, InStep
  <2>5. QED
    BY <2>2, <2>3, <2>4 DEF IInv
<1>8. QED
  BY <1>1, <1>5, <1>6, <1>7 DEF IInv, TypeOK

LEMMA HandleBotTimerKeeps == IInv /\ HandleBotTimer => IInv'
<1>1. SUFFICES ASSUME IInv, HandleBotTimer PROVE IInv'
  OBVIOUS
<1>2. UNCHANGED <<enabled, lastUpdateId, handled, sent, queue, response, ssl, view, posted>>
  BY <1>1 DEF HandleBotTimer
<1>3. botTimer' \in Timers
  BY <1>1, TimersKeepTypes DEF IInv, TypeOK, HandleBotTimer
<1>4. timer' \in Timers /\ timer'.waiting = 1
  <2>1. 1 \in Nat \ {0} /\ timer \in Timers /\ timer' = PushQueue(timer, 1)
    BY <1>1 DEF IInv, TypeOK, HandleBotTimer
  <2>2. PushQueue(timer, 1) \in Timers /\ PushQueue(timer, 1).waiting = 1
    BY <2>1, TimersKeepTypes
  <2>3. QED
    BY <2>1, <2>2
<1>5. TypeOK'
  BY <1>1, <1>2, <1>3, <1>4 DEF IInv, TypeOK
<1>6. NeverStalls'
  BY <1>4, TimersNat DEF NeverStalls
<1>7. enabled
  BY <1>1 DEF HandleBotTimer, IInv, NotStarted, Idle
<1>8. NotStarted' /\ BusyWithRequest' /\ PollGivesWay'
  BY <1>1, <1>2, <1>7 DEF IInv, NotStarted, BusyWithRequest, PollGivesWay
<1>9. (OnePoll(queue) /\ Fresh(queue, lastUpdateId) /\ InStep)'
  BY <1>1, <1>2 DEF IInv, OnePoll, Fresh, InStep
<1>10. QED
  BY <1>5, <1>6, <1>8, <1>9 DEF IInv

\* Steps that leave the queue and the timers, and thus most of IInv, alone.
LEMMA QueueUntouched ==
    ASSUME IInv, TypeOK', ssl # "Disconnected", ssl' # "Disconnected",
           ssl' = "Disconnecting" => ssl = "Disconnecting",
           UNCHANGED <<botVars, queue, timer>>
    PROVE  IInv'
<1>1. NotStarted' /\ BusyWithRequest' /\ PollGivesWay' /\ NeverStalls'
  BY DEF IInv, NotStarted, BusyWithRequest, PollGivesWay, NeverStalls, botVars
<1>2. (OnePoll(queue) /\ Fresh(queue, lastUpdateId) /\ InStep)'
  BY DEF IInv, OnePoll, Fresh, InStep, botVars
<1>3. QED
  BY <1>1, <1>2 DEF IInv

LEMMA HandleConnectKeeps == IInv /\ HandleConnect => IInv'
<1>1. SUFFICES ASSUME IInv, HandleConnect PROVE IInv'
  OBVIOUS
<1>2. TypeOK'
  BY <1>1 DEF IInv, TypeOK, HandleConnect, botVars, Empty
<1>3. QED
  BY <1>1, <1>2, QueueUntouched DEF HandleConnect

LEMMA HandleReceivedDataKeeps == IInv /\ HandleReceivedData => IInv'
<1>1. SUFFICES ASSUME IInv, HandleReceivedData PROVE IInv'
  OBVIOUS
<1>2. TypeOK'
  BY <1>1 DEF IInv, TypeOK, HandleReceivedData, botVars
<1>3. QED
  BY <1>1, <1>2, QueueUntouched DEF HandleReceivedData

LEMMA BreaksKeeps == IInv /\ Breaks => IInv'
<1>1. SUFFICES ASSUME IInv, Breaks PROVE IInv'
  OBVIOUS
<1>2. TypeOK'
  BY <1>1 DEF IInv, TypeOK, Breaks, botVars
<1>3. QED
  BY <1>1, <1>2, QueueUntouched DEF Breaks

LEMMA PostKeeps == IInv /\ Post => IInv'
<1>1. SUFFICES ASSUME IInv, Post PROVE IInv'
  OBVIOUS
<1>2. TypeOK'
  BY <1>1 DEF IInv, TypeOK, Post, botVars
<1>3. NotStarted' /\ BusyWithRequest' /\ PollGivesWay' /\ NeverStalls'
  BY <1>1 DEF IInv, NotStarted, BusyWithRequest, PollGivesWay, NeverStalls, Post, botVars
<1>4. (OnePoll(queue) /\ Fresh(queue, lastUpdateId) /\ InStep)'
  BY <1>1 DEF IInv, OnePoll, Fresh, InStep, Post, botVars
<1>5. QED
  BY <1>2, <1>3, <1>4 DEF IInv

\* The attempt fails: the request stays, and the bot waits to try again.
LEMMA HandleErrorKeeps == IInv /\ HandleError => IInv'
<1>1. SUFFICES ASSUME IInv, HandleError PROVE IInv'
  OBVIOUS
<1>2. /\ UNCHANGED <<enabled, lastUpdateId, handled, sent, queue, timer, posted>>
      /\ ssl' = "Disconnected" /\ view' = "closed" /\ response' = Empty
      /\ botTimer' = RetryLater(botTimer)
  BY <1>1 DEF HandleError, Closed
<1>3. botTimer' \in Timers /\ (RetryDelay > 0 => botTimer'.waiting = 1)
  BY <1>1, <1>2, TimersKeepTypes DEF IInv, TypeOK
<1>4. TypeOK'
  BY <1>1, <1>2, <1>3 DEF IInv, TypeOK, Empty
<1>5. enabled
  BY <1>1 DEF IInv, NotStarted, BusyWithRequest, HandleError
<1>6. NotStarted' /\ BusyWithRequest' /\ PollGivesWay'
  BY <1>2, <1>5 DEF NotStarted, BusyWithRequest, PollGivesWay
<1>7. NeverStalls'
  BY <1>2, <1>3, TimersNat DEF NeverStalls
<1>8. (OnePoll(queue) /\ Fresh(queue, lastUpdateId) /\ InStep)'
  BY <1>1, <1>2 DEF IInv, OnePoll, Fresh, InStep
<1>9. QED
  BY <1>4, <1>6, <1>7, <1>8 DEF IInv

\* A request that is popped, and the replies that are appended before that.
LEMMA PopKeeps ==
    ASSUME IInv, ssl # "Disconnected", NEW n \in Nat, Closed,
           PopRequest([i \in 1 .. n |-> Message])
    PROVE  /\ enabled
           /\ queue' \in Seq(Requests) /\ timer' \in Timers
           /\ timer'.waiting = 1
           /\ OnePoll(queue')
           /\ Fresh(queue', lastUpdateId)
           /\ \A id \in Nat : IsLongPoll(Head(queue)) => Fresh(queue', id)
           /\ BusyWithRequest' /\ PollGivesWay' /\ NeverStalls'
<1> DEFINE replies == [i \in 1 .. n |-> Message]
<1>1. queue # << >> /\ queue \in Seq(Requests) /\ lastUpdateId \in Nat /\ timer \in Timers
  BY DEF IInv, TypeOK, BusyWithRequest
<1>2. replies \in Seq(Requests) /\ Len(replies) = n /\ \A i \in DOMAIN replies : ~IsLongPoll(replies[i])
  BY RepliesTyped
<1>3. queue' = Tail(queue) \o replies /\ timer' = PushQueue(timer, n + 1)
  BY <1>2 DEF PopRequest
<1> HIDE DEF replies
<1>4. timer' \in Timers /\ timer'.waiting = 1
  <2>1. n + 1 \in Nat \ {0}
    OBVIOUS
  <2>2. PushQueue(timer, n + 1) \in Timers /\ PushQueue(timer, n + 1).waiting = 1
    BY <1>1, <2>1, TimersKeepTypes
  <2>3. QED
    BY <1>3, <2>2
<1>5. /\ Tail(queue) \in Seq(Requests) /\ OnePoll(Tail(queue)) /\ Fresh(Tail(queue), lastUpdateId)
      /\ IsLongPoll(Head(queue)) => \A other : Fresh(Tail(queue), other)
  BY <1>1, TakeOff DEF IInv
<1>6. queue' \in Seq(Requests) /\ OnePoll(queue') /\ Fresh(queue', lastUpdateId)
  BY <1>1, <1>2, <1>3, <1>5, AppendOthers
<1>7. \A id \in Nat : IsLongPoll(Head(queue)) => Fresh(queue', id)
  BY <1>2, <1>3, <1>5, AppendOthers
<1>8. ssl' = "Disconnected" /\ enabled
  BY <1>1 DEF Closed, IInv, NotStarted
<1>9. BusyWithRequest' /\ PollGivesWay'
  BY <1>8 DEF BusyWithRequest, PollGivesWay
<1>10. NeverStalls'
  BY <1>4, TimersNat DEF NeverStalls
<1>11. QED
  BY <1>4, <1>6, <1>7, <1>8, <1>9, <1>10

LEMMA HandleAbortedKeeps == IInv /\ HandleAborted => IInv'
<1>1. SUFFICES ASSUME IInv, HandleAborted PROVE IInv'
  OBVIOUS
<1>2. PopRequest([i \in 1 .. 0 |-> Message]) /\ Closed /\ ssl # "Disconnected" /\ 0 \in Nat
  <2>1. [i \in 1 .. 0 |-> Message] = << >>
    OBVIOUS
  <2>2. QED
    BY <1>1, <2>1 DEF HandleAborted
<1>3. /\ enabled
      /\ queue' \in Seq(Requests) /\ timer' \in Timers
      /\ OnePoll(queue') /\ Fresh(queue', lastUpdateId)
      /\ BusyWithRequest' /\ PollGivesWay' /\ NeverStalls'
  BY <1>1, <1>2, PopKeeps
<1>4. UNCHANGED <<enabled, lastUpdateId, botTimer, handled, sent, posted>>
  BY <1>1 DEF HandleAborted, botVars
<1>5. TypeOK'
  BY <1>1, <1>2, <1>3, <1>4 DEF IInv, TypeOK, Closed, Empty
<1>6. NotStarted' /\ InStep' /\ (OnePoll(queue) /\ Fresh(queue, lastUpdateId))'
  BY <1>1, <1>3, <1>4 DEF IInv, NotStarted, InStep
<1>7. QED
  BY <1>3, <1>5, <1>6 DEF IInv

\* The answer to a poll continues where the updates handled so far end.
LEMMA UpdatesContinue ==
    ASSUME IInv, queue # << >>
    PROVE  LET id      == Len(handled) + 1
               updates == Updates(First(Head(queue).offset))
           IN  /\ updates = << >> \/ IsLongPoll(Head(queue))
               /\ updates = << >> \/ \E n \in Nat \ {0} : updates = [i \in 1 .. n |-> id + i - 1]
<1>1. CASE ~(response.state = "answer" /\ IsLongPoll(Head(queue)))
  BY <1>1 DEF Updates
<1>2. CASE response.state = "answer" /\ IsLongPoll(Head(queue))
  <2>1. First(Head(queue).offset) = Len(handled) + 1 /\ Len(handled) \in Nat
    <3>1. 1 \in DOMAIN queue /\ Head(queue) = queue[1]
      BY LenProperties, EmptySeq DEF IInv, TypeOK
    <3>2. Head(queue).offset = lastUpdateId
      BY <1>2, <3>1 DEF IInv, Fresh
    <3>3. Len(handled) \in Nat /\ (handled = << >> => Len(handled) = 0)
      BY LenProperties, EmptySeq DEF IInv, TypeOK
    <3>4. QED
      BY <3>2, <3>3 DEF First, IInv, InStep
  <2>2. response.upTo \in Nat
    BY DEF IInv, TypeOK
  <2> DEFINE id == Len(handled) + 1
             n == response.upTo - id + 1
  <2>3. Updates(First(Head(queue).offset)) = [i \in 1 .. n |-> id + i - 1]
    BY <1>2, <2>1 DEF Updates
  <2>4. n \in Int
    BY <2>1, <2>2
  <2> HIDE DEF n
  <2>5. CASE n > 0
    <3>1. n \in Nat \ {0}
      BY <2>4, <2>5
    <3>2. \E k \in Nat \ {0} :
            Updates(First(Head(queue).offset)) = [i \in 1 .. k |-> Len(handled) + 1 + i - 1]
      BY <2>3, <3>1
    <3>3. QED
      BY <1>2, <3>2
  <2>6. CASE ~(n > 0)
    <3>1. 1 .. n = {}
      BY <2>4, <2>6
    <3>2. [i \in 1 .. n |-> id + i - 1] = << >>
      BY <3>1
    <3>3. QED
      BY <2>3, <3>2
  <2>7. QED
    BY <2>5, <2>6
<1>3. QED
  BY <1>1, <1>2

\* The identifier moves with the updates that are handled.
LEMMA ResponseKeepsStep ==
    ASSUME IInv, queue # << >>, HandleResponse
    PROVE  /\ InStep'
           /\ lastUpdateId' \in Nat /\ handled' \in Seq(Nat)
           /\ lastUpdateId' # lastUpdateId => IsLongPoll(Head(queue))
<1> DEFINE len     == Len(handled)
           updates == Updates(First(Head(queue).offset))
<1>1. /\ lastUpdateId' = NextId(lastUpdateId, updates)
      /\ handled' = handled \o updates
  BY DEF HandleResponse
<1>2. /\ handled \in Seq(Nat) /\ len \in Nat /\ lastUpdateId \in Nat
      /\ handled = << >> => len = 0
      /\ handled = [i \in 1 .. len |-> i]
      /\ lastUpdateId = IF handled = << >> THEN 0 ELSE len + 1
  BY LenProperties, EmptySeq DEF IInv, TypeOK, InStep
<1>3. CASE updates = << >>
  <2>1. handled' = handled /\ lastUpdateId' = lastUpdateId
    BY <1>1, <1>2, <1>3, ConcatEmptySeq DEF NextId
  <2>2. QED
    BY <1>2, <2>1 DEF InStep
<1>4. CASE updates # << >>
  <2>1. IsLongPoll(Head(queue)) /\ \E n \in Nat \ {0} : updates = [i \in 1 .. n |-> len + 1 + i - 1]
    BY <1>4, UpdatesContinue
  <2>2. PICK n \in Nat \ {0} : updates = [i \in 1 .. n |-> len + 1 + i - 1]
    BY <2>1
  <2>3. updates \in Seq(Nat) /\ Len(updates) = n /\ updates[n] = len + n
    BY <1>2, <2>2
  <2>4. lastUpdateId' = len + n + 1
    BY <1>1, <1>2, <1>4, <2>3 DEF NextId
  <2>5. /\ handled' \in Seq(Nat)
        /\ Len(handled') = len + n
        /\ \A i \in 1 .. len + n :
              handled'[i] = IF i <= len THEN handled[i] ELSE updates[i - len]
    <3> HIDE DEF updates
    <3>1. /\ handled \o updates \in Seq(Nat)
          /\ Len(handled \o updates) = len + Len(updates)
          /\ \A i \in 1 .. len + Len(updates) :
                (handled \o updates)[i] = IF i <= len THEN handled[i] ELSE updates[i - len]
      BY <1>2, <2>3, ConcatProperties
    <3>2. QED
      BY <1>1, <2>3, <3>1
  <2>6. DOMAIN handled' = 1 .. len + n
    BY <2>5, LenProperties
  <2>7. \A i \in 1 .. len + n : handled'[i] = i
    BY <1>2, <2>2, <2>5
  <2>8. handled' = [i \in 1 .. len + n |-> i]
    BY <2>5, <2>6, <2>7, LenProperties
  <2>9. handled' # << >> /\ len + n + 1 \in Nat
    BY <1>2, <2>2, <2>5, EmptySeq
  <2>10. InStep'
    BY <2>4, <2>5, <2>8, <2>9 DEF InStep
  <2>11. QED
    BY <2>1, <2>4, <2>5, <2>9, <2>10
<1>5. QED
  BY <1>3, <1>4

\* The poll that was answered is popped, so no other poll is left behind with
\* the identifier before.
LEMMA HandleClosedByPeerKeeps == IInv /\ HandleClosedByPeer => IInv'
<1>1. SUFFICES ASSUME IInv, HandleClosedByPeer PROVE IInv'
  OBVIOUS
<1>2. /\ Closed /\ HandleResponse /\ ssl # "Disconnected" /\ queue # << >>
      /\ UNCHANGED <<enabled, botTimer, posted>>
  BY <1>1 DEF HandleClosedByPeer, IInv, BusyWithRequest
<1>3. sent \in Nat /\ MaxMessages \in Nat
  BY <1>1, BoundsAssumption DEF IInv, TypeOK
<1>4. PICK n \in 0 .. MaxMessages - sent :
        sent' = sent + n /\ PopRequest([i \in 1 .. n |-> Message])
  BY <1>2 DEF HandleResponse
<1>5. n \in Nat /\ sent' \in Nat
  BY <1>3, <1>4
<1>6. /\ enabled
      /\ queue' \in Seq(Requests) /\ timer' \in Timers
      /\ OnePoll(queue') /\ Fresh(queue', lastUpdateId)
      /\ \A id \in Nat : IsLongPoll(Head(queue)) => Fresh(queue', id)
      /\ BusyWithRequest' /\ PollGivesWay' /\ NeverStalls'
  BY <1>1, <1>2, <1>4, <1>5, PopKeeps
<1>7. /\ InStep'
      /\ lastUpdateId' \in Nat /\ handled' \in Seq(Nat)
      /\ lastUpdateId' # lastUpdateId => IsLongPoll(Head(queue))
  BY <1>1, <1>2, ResponseKeepsStep
<1>8. TypeOK'
  BY <1>1, <1>2, <1>5, <1>6, <1>7 DEF IInv, TypeOK, Closed, Empty
<1>9. NotStarted'
  BY <1>2, <1>6 DEF NotStarted
<1>10. (OnePoll(queue) /\ Fresh(queue, lastUpdateId))'
  BY <1>6, <1>7
<1>11. QED
  BY <1>6, <1>7, <1>8, <1>9, <1>10 DEF IInv

LEMMA StutterKeeps == IInv /\ UNCHANGED vars => IInv'
BY DEF IInv, TypeOK, NotStarted, BusyWithRequest, PollGivesWay, NeverStalls, OnePoll, Fresh,
       InStep, vars, botVars

LEMMA NextKeeps == IInv /\ [Next]_vars => IInv'
BY StartKeeps, SendMessageKeeps, TimerExpiresKeeps, BotTimerExpiresKeeps, HandleTimerKeeps,
   HandleBotTimerKeeps, HandleConnectKeeps, HandleReceivedDataKeeps, BreaksKeeps,
   HandleAbortedKeeps, HandleClosedByPeerKeeps, HandleErrorKeeps, PostKeeps, StutterKeeps
DEF Next

----------------------------------------------------------------------------
(* The theorems *)

\* Queue, timers and identifiers fit one another in every reachable state.
THEOREM Inductive == Spec => []IInv
BY InitIInv, NextKeeps, PTL DEF Spec

\* Every reachable state of HttpsClient and TelegramBot has its type: in
\* particular one timer never has two waits.
THEOREM TypeCorrect == Spec => []TypeOK
<1>1. IInv => TypeOK
  BY DEF IInv
<1>2. QED
  BY <1>1, Inductive, PTL

\* front() and pop_front() of _requestQueue, in HttpsClient's handlers, always
\* find a request.
THEOREM FrontExists == Spec => []BusyWithRequest
<1>1. IInv => BusyWithRequest
  BY DEF IInv
<1>2. QED
  BY <1>1, Inductive, PTL

\* Updates are given to handleUpdate once each and in their order, however
\* often polls are given up or fail, and two polls never wait together.
THEOREM OnceInOrder == Spec => []UpdatesInOrder
<1>1. IInv => UpdatesInOrder
  BY DEF IInv, UpdatesInOrder, OnePoll, InStep
<1>2. QED
  BY <1>1, Inductive, PTL

\* With a reconnect delay the bot always has a connection or a timer under way.
THEOREM AlwaysAwake == Spec => []NeverStalls
<1>1. IInv => NeverStalls
  BY DEF IInv
<1>2. QED
  BY <1>1, Inductive, PTL

\* A message at the front of _requestQueue stays there until a connection is
\* open to send it on: pop_front() after an aborted connection hits polls only.
LEMMA StepGivesWay ==
    ASSUME IInv, [Next]_vars, queue # << >>, ~IsLongPoll(Head(queue)), view # "open"
    PROVE  queue' # << >> /\ Head(queue') = Head(queue)
<1>1. CASE Start \/ HandleAborted \/ HandleClosedByPeer
  BY <1>1 DEF Start, HandleAborted, HandleClosedByPeer, IInv, NotStarted, PollGivesWay
<1>2. CASE SendMessage
  <2>1. /\ <<Message>> \in Seq(Requests) /\ Len(<<Message>>) > 0
        /\ \A i \in DOMAIN <<Message>> : ~IsLongPoll(<<Message>>[i])
    BY RequestsTyped
  <2>2. QED
    BY <1>2, <2>1, SendKeepsQueue DEF IInv, SendMessage
<1>3. CASE HandleTimer
  BY <1>3 DEF HandleTimer
<1>4. CASE \/ TimerExpires \/ BotTimerExpires \/ HandleBotTimer \/ HandleConnect
           \/ HandleReceivedData \/ Breaks \/ HandleError \/ Post \/ UNCHANGED vars
  BY <1>4 DEF TimerExpires, BotTimerExpires, HandleBotTimer, HandleConnect,
              HandleReceivedData, Breaks, HandleError, Post, vars
<1>5. QED
  BY <1>1, <1>2, <1>3, <1>4 DEF Next

THEOREM MessagesStay == Spec => OnlyPollsGiveWay
<1>1. IInv /\ [Next]_vars =>
        [queue # << >> /\ ~IsLongPoll(Head(queue)) /\ view # "open"
           => queue' # << >> /\ Head(queue') = Head(queue)]_vars
  BY StepGivesWay
<1>2. QED
  BY <1>1, Inductive, PTL DEF Spec, OnlyPollsGiveWay
=============================================================================
