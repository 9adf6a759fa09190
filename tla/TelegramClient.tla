--------------------------- MODULE TelegramClient ---------------------------
(***************************************************************************)
(* TelegramBot and its HttpsClient (TelegramBot.cpp, HttpsClient.cpp): a   *)
(* queue of requests to Telegram, served one at a time and each on a       *)
(* connection of its own, and a long poll for updates that is given up as  *)
(* soon as there is something else to send.                                *)
(*                                                                         *)
(* The SslClient below is taken as SslClientLoop shows it to be: it keeps  *)
(* the contract of StreamClient, accepts connect() when it is              *)
(* Disconnected, and may stay for a while in Disconnecting or Error before *)
(* it tells of the end.  The two ways in which it never does are the       *)
(* findings about WaitEnds there and in TcpClientLoop.                     *)
(*                                                                         *)
(* Telegram is external.  It gives updates ascending identifiers, answers  *)
(* getUpdates with those from the offset on, or with something useless     *)
(* such as an error page or half an answer, and closes the connection, as  *)
(* every request asks it to.  TelegramBot::stop and HttpsClient::stop have *)
(* no caller, so _enabled stays TRUE once it is.                           *)
(***************************************************************************)
EXTENDS Integers, Sequences

CONSTANTS
    RetryDelay,     \* telegram.reconnect_delay, in milliseconds
    MaxUpdates,     \* bound of the model: updates Telegram ever has
    MaxMessages,    \* bound of the model: messages the bot ever sends
    MaxDue          \* bound of the model: timer handlers of the HttpsClient that are due

ASSUME RetryDelayAssumption == RetryDelay \in Nat
ASSUME BoundsAssumption == MaxUpdates \in Nat /\ MaxMessages \in Nat /\ MaxDue \in Nat \ {0}

VARIABLES
    enabled,        \* TelegramBot::_enabled
    lastUpdateId,   \* TelegramBot::_lastUpdateId
    botTimer,       \* TelegramBot::_timer
    queue,          \* HttpsClient::_requestQueue
    response,       \* HttpsClient::_response
    timer,          \* HttpsClient::_timer
    ssl,            \* _status of the SslClient; Handshake is Connecting here
    view,           \* what the SslClient told: closed, opening, open
    posted,         \* Telegram's updates are 1 .. posted
    handled,        \* the updates the bot gave to handleUpdate
    sent            \* how many messages it was asked to send

botVars == <<enabled, lastUpdateId, botTimer, handled, sent>>
vars == <<botVars, queue, response, timer, ssl, view, posted>>

\* An offset of 0 stands for none.
Poll(offset) == [tag |-> "getUpdates", offset |-> offset]
GetMe   == [tag |-> "getMe", offset |-> 0]
Message == [tag |-> "sendMessage", offset |-> 0]

IsLongPoll(request) == request.tag = "getUpdates"

\* A response, and the last update it has.
Empty == [state |-> "empty", upTo |-> 0]

Idle == [waiting |-> 0, due |-> 0]

Init ==
    /\ enabled = FALSE
    /\ lastUpdateId = 0
    /\ botTimer = Idle
    /\ queue = << >>
    /\ response = Empty
    /\ timer = Idle
    /\ ssl = "Disconnected"
    /\ view = "closed"
    /\ posted = 0
    /\ handled = << >>
    /\ sent = 0

----------------------------------------------------------------------------
(* The timers.  The handlers do not look at their error, so a wait that is  *)
(* cancelled acts like one that expired.                                    *)

ExpiresFromNow(t) == [waiting |-> 0, due |-> t.due + t.waiting]

\* Mutant: a new wait does not cancel the one before.
PushQueue_NoCancel(t, n) == [t EXCEPT !.waiting = @ + n]

\* HttpsClient::pushQueue, n times: every time but the last it leaves a wait
\* for the next time to cancel.
PushQueue(t, n) == [waiting |-> 1, due |-> t.due + t.waiting + n - 1]

TimerExpires ==
    /\ timer.waiting > 0
    /\ timer' = ExpiresFromNow(timer)
    /\ UNCHANGED <<botVars, queue, response, ssl, view, posted>>

BotTimerExpires ==
    /\ botTimer.waiting > 0
    /\ botTimer' = ExpiresFromNow(botTimer)
    /\ UNCHANGED <<enabled, lastUpdateId, handled, sent, queue, response, timer, ssl, view, posted>>

----------------------------------------------------------------------------
(* Requests *)

\* HttpsClient::sendRequest, for each of the requests.
SendRequests(requests) ==
    /\ queue' = queue \o requests
    /\ timer' = PushQueue(timer, Len(requests))

\* startTelegram: start(), which asks for updates, and getMe().
Start ==
    /\ ~enabled
    /\ enabled' = TRUE
    /\ SendRequests(<<Poll(lastUpdateId), GetMe>>)
    /\ UNCHANGED <<lastUpdateId, botTimer, handled, sent, response, ssl, view, posted>>

\* sendMessage, of an event of the tracker.
SendMessage ==
    /\ enabled
    /\ sent < MaxMessages
    /\ timer.due < MaxDue
    /\ sent' = sent + 1
    /\ SendRequests(<<Message>>)
    /\ UNCHANGED <<enabled, lastUpdateId, botTimer, handled, response, ssl, view, posted>>

\* Mutant: any request gives way.
GivesWay_Any == response = Empty

\* A long poll that has not been answered yet gives way.
GivesWay == IsLongPoll(Head(queue)) /\ response = Empty

\* HttpsClient::handleTimerEvent.  Idle means TelegramBot::handleHttpClientIdle.
HandleTimer ==
    /\ timer.due > 0
    /\ LET run == [timer EXCEPT !.due = @ - 1]
       IN  \/ /\ ssl \in {"Disconnecting", "Error"}
              /\ timer' = run
              /\ UNCHANGED <<ssl, view, queue>>
           \/ /\ ssl \in {"Connecting", "Connected"}
              /\ timer' = run
              /\ ssl' = IF GivesWay THEN "Disconnecting" ELSE ssl
              /\ UNCHANGED <<view, queue>>
           \/ /\ ssl = "Disconnected" /\ queue = << >>
              /\ timer' = PushQueue(run, 1)
              /\ queue' = <<Poll(lastUpdateId)>>
              /\ UNCHANGED <<ssl, view>>
           \/ /\ ssl = "Disconnected" /\ queue # << >>
              /\ timer' = run
              /\ ssl' = "Connecting"
              /\ view' = "opening"
              /\ UNCHANGED queue
    /\ UNCHANGED <<botVars, response, posted>>

\* TelegramBot::handleTimerEvent
HandleBotTimer ==
    /\ botTimer.due > 0
    /\ botTimer' = [botTimer EXCEPT !.due = @ - 1]
    /\ timer' = PushQueue(timer, 1)
    /\ UNCHANGED <<enabled, lastUpdateId, handled, sent, queue, response, ssl, view, posted>>

----------------------------------------------------------------------------
(* The calls of the SslClient *)

\* Bound of the model: once MaxDue handlers are due, one runs before the end
\* of a connection adds another.
Ready == timer.due < MaxDue

Closed ==
    /\ ssl' = "Disconnected"
    /\ view' = "closed"
    /\ response' = Empty

\* Mutant: a request that was not answered stays in the queue.
PopRequest_IfAnswered(requests) ==
    /\ queue' = IF response = Empty THEN queue ELSE Tail(queue) \o requests
    /\ timer' = PushQueue(timer, Len(requests) + 1)

\* The requests that the answer gave rise to are appended before the first one
\* is taken off, and each of the two steps pushes the queue.
PopRequest(requests) ==
    /\ queue' = Tail(queue) \o requests
    /\ timer' = PushQueue(timer, Len(requests) + 1)

\* Mutant: the request is taken off when it is sent.
HandleConnect_Pops ==
    /\ ssl = "Connecting"
    /\ ssl' = "Connected"
    /\ view' = "open"
    /\ response' = Empty
    /\ queue' = Tail(queue)
    /\ UNCHANGED <<botVars, timer, posted>>

\* handleTcpClientConnect; the request is sent.
HandleConnect ==
    /\ ssl = "Connecting"
    /\ ssl' = "Connected"
    /\ view' = "open"
    /\ response' = Empty
    /\ UNCHANGED <<botVars, queue, timer, posted>>

\* handleTcpClientReceivedData: an answer, or a part of it or something useless.
HandleReceivedData ==
    /\ ssl = "Connected"
    /\ \/ /\ response.state # "answer"
          /\ response' = [state |-> "answer", upTo |-> posted]
       \/ /\ response = Empty
          /\ response' = [state |-> "useless", upTo |-> 0]
    /\ UNCHANGED <<botVars, queue, timer, ssl, view, posted>>

\* The connection is given up by SslClient, which may have to wait.
Breaks ==
    /\ ssl \in {"Connecting", "Connected"}
    /\ ssl' = "Error"
    /\ UNCHANGED <<botVars, queue, response, timer, view, posted>>

\* handleTcpClientDisconnect and handleTcpClientError, after disconnect(): the
\* long poll is dropped.
HandleAborted ==
    /\ ssl = "Disconnecting"
    /\ Ready
    /\ Closed
    /\ PopRequest(<< >>)
    /\ UNCHANGED <<botVars, posted>>

\* Updates that the response brings; an identifier counts from the offset on.
Updates(from) ==
    IF response.state = "answer" /\ IsLongPoll(Head(queue))
    THEN [i \in 1 .. response.upTo - from + 1 |-> from + i - 1] ELSE << >>

First(offset) == IF offset = 0 THEN 1 ELSE offset

\* Mutant: the identifier of the last update, not the one after it.
NextId_Same(id, updates) ==
    LET last == updates[Len(updates)]
    IN  IF updates # << >> /\ last >= id THEN last ELSE id

NextId(id, updates) ==
    LET last == updates[Len(updates)]
    IN  IF updates # << >> /\ last >= id THEN last + 1 ELSE id

\* handleHttpClientResponse: the updates may hold commands, each with replies.
HandleResponse ==
    LET updates == Updates(First(Head(queue).offset))
    IN  /\ lastUpdateId' = NextId(lastUpdateId, updates)
        /\ handled' = handled \o updates
        /\ \E n \in 0 .. MaxMessages - sent :
              /\ n > 0 => updates # << >>
              /\ sent' = sent + n
              /\ PopRequest([i \in 1 .. n |-> Message])

\* handleTcpClientDisconnect, ClosedByPeer
HandleClosedByPeer ==
    /\ ssl \in {"Connected", "Error"} /\ view = "open"
    /\ Ready
    /\ Closed
    /\ HandleResponse
    /\ UNCHANGED <<enabled, botTimer, posted>>

\* Mutant: the timer is set and not waited for.
RetryLater_NoWait(t) == ExpiresFromNow(t)

\* TelegramBot::handleHttpClientError
RetryLater(t) ==
    IF RetryDelay < 1 THEN ExpiresFromNow(t) ELSE [ExpiresFromNow(t) EXCEPT !.waiting = 1]

\* handleTcpClientError, of an attempt that fails: the request stays.
HandleError ==
    /\ ssl \in {"Connecting", "Error"} /\ view = "opening"
    /\ Closed
    /\ botTimer' = RetryLater(botTimer)
    /\ UNCHANGED <<enabled, lastUpdateId, handled, sent, queue, timer, posted>>

\* A user writes to the bot.
Post ==
    /\ posted < MaxUpdates
    /\ posted' = posted + 1
    /\ UNCHANGED <<botVars, queue, response, timer, ssl, view>>

Next ==
    \/ Start
    \/ SendMessage
    \/ TimerExpires
    \/ BotTimerExpires
    \/ HandleTimer
    \/ HandleBotTimer
    \/ HandleConnect
    \/ HandleReceivedData
    \/ Breaks
    \/ HandleAborted
    \/ HandleClosedByPeer
    \/ HandleError
    \/ Post

(***************************************************************************)
(* main() starts the bot, timers expire and their handlers run, and every  *)
(* attempt, disconnect and connection comes to an end, the last because    *)
(* Telegram closes it.  No attempt has to succeed.                         *)
(***************************************************************************)
Fairness ==
    /\ WF_vars(Start)
    /\ WF_vars(TimerExpires)
    /\ WF_vars(BotTimerExpires)
    /\ WF_vars(HandleTimer)
    /\ WF_vars(HandleBotTimer)
    /\ WF_vars(HandleAborted)
    /\ WF_vars(HandleClosedByPeer)
    /\ WF_vars(HandleError)

Spec == Init /\ [][Next]_vars

FairSpec == Spec /\ Fairness

----------------------------------------------------------------------------
(* Properties *)

Timers == [waiting : {0, 1}, due : Nat]

Requests == [tag : {"getUpdates", "getMe", "sendMessage"}, offset : Nat]

TypeOK ==
    /\ enabled \in BOOLEAN
    /\ lastUpdateId \in Nat
    /\ botTimer \in Timers /\ timer \in Timers
    /\ queue \in Seq(Requests)
    /\ response \in [state : {"empty", "useless", "answer"}, upTo : Nat]
    /\ ssl \in {"Disconnected", "Connecting", "Connected", "Disconnecting", "Error"}
    /\ view \in {"closed", "opening", "open"}
    /\ posted \in Nat /\ sent \in Nat
    /\ handled \in Seq(Nat)

\* Whenever the SslClient is busy there is a request it is busy with, so that
\* front() and pop_front() in every call of it find one.
BusyWithRequest == ssl # "Disconnected" => queue # << >>

\* The bot asks for updates only when nothing else is to be done, so no two
\* polls wait with the same offset, and no update is handled twice or left out.
UpdatesInOrder ==
    /\ \A i, j \in DOMAIN queue : IsLongPoll(queue[i]) /\ IsLongPoll(queue[j]) => i = j
    /\ handled = [i \in 1 .. Len(handled) |-> i]
    /\ lastUpdateId = IF handled = << >> THEN 0 ELSE Len(handled) + 1

\* A message stays at the front of the queue until a connection is open to
\* send it on; what gives way, and is dropped unsent, is the long poll alone.
OnlyPollsGiveWay ==
    [][queue # << >> /\ ~IsLongPoll(Head(queue)) /\ view # "open"
         => queue' # << >> /\ Head(queue') = Head(queue)]_vars

\* With a delay to retry after, something is always going to happen next: the
\* SslClient is busy, or a timer will push the queue.
NeverStalls ==
    enabled /\ RetryDelay > 0 =>
        ssl # "Disconnected" \/ timer.waiting + timer.due > 0 \/ botTimer.waiting + botTimer.due > 0

\* However many attempts fail, there is another one; and as long as attempts
\* succeed now and then, the bot comes back to asking for updates: messages that
\* overtake a poll, and polls that are given up because of a timer handler too
\* many, do not keep it from that.
KeepsAsking ==
    RetryDelay > 0 =>
        /\ []<>(ssl = "Connecting")
        /\ []<>(ssl = "Connected" /\ IsLongPoll(Head(queue))) \/ <>[](view # "open")
=============================================================================
