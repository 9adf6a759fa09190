# A formal model of gpsinformer

gpsinformer sits between a GPS tracker and its owner. It accepts the tracker's
connection, passes what the tracker says on to a tracking server and the
server's commands back, stores positions and events in SQLite, and talks with
the owner through a Telegram bot. It is one C++ program on one Boost.Asio
`io_service` run by one thread: there are no data races, and everything that is
hard comes from the order in which completion handlers, timers and callbacks
run, and from what a connection may do between two of them.

This directory holds TLA+ models of that program, the TLC configurations that
check them, and TLAPS proofs. All paths below are relative to the repository;
`TcpClient.cpp` stands for `src/TcpClient.cpp` there.

## 1. Inventory

| Component | State | Operations | Talks to |
|---|---|---|---|
| **TcpClient** (`TcpClient.*`, `TcpClientHandler.h`) | `_status`, `_ioCount`, `_writeBuffer`, socket, resolver | `connect`, `disconnect`, `send`; `handleResolve/Connect/Read/Write`, all through `handleAnything` | its owner, through the four calls of `TcpClientHandler` |
| **Transmitter** (`ApplicationTransmitter.cpp`) | `_transmitterAuthorized`, `_transmitterBuffer`, `_transmitterTimer` | `startTransmitter`, the four TcpClient calls, `handleTransmitterTimer`, `handleDeviceCommand` | TcpClient; the tracking server; Device |
| **Receiver** (`TcpServer.*`, `TcpSession.*`, `ApplicationReceiver.cpp`, `Device.*`) | acceptor, `_sessions`; per session socket, `_writeQueue`, `_active`; `_devices`; `Device::_authorizedSession`, `_imei`, `_buffer`; `_receiverTimer` | `listen`, `accept`, session read/write/close, `processData` with login, heartbeat and position, rebind timer | trackers; Transmitter; tracker events |
| **Relay** | none of its own | device data to the server (`handleDeviceCommand`), server commands to the device (`processClientData`) | Transmitter and Receiver |
| **SslClient** (`SslClient.*`) | `_status`, `_ioCount`, `_writeBuffer`, `_sslBuffer`, `_wasConnected`, timer | `connect`, `disconnect`, `send`, handshake/read/write, the four TcpClient calls | TcpClient below, HttpsClient above |
| **HttpsClient** (`HttpsClient.*`) | `_requestQueue`, `_response`, timer | `sendRequest`, `pushQueue`, `stop`, the four SslClient calls, timer | SslClient, TelegramBot |
| **TelegramBot** (`TelegramBot.*`) | `_enabled`, `_lastUpdateId`, timer | `start`, `stop`, `getUpdates`, `send*`, response, error, idle | HttpsClient, Application |
| **Tracker events** (`ApplicationEvents.cpp`) | none | `handleTrackerEvent`: store, alert the users | database, bot |
| **Database and settings** (`ApplicationDatabase.cpp`, `UserSettings.h`) | SQLite tables, settings in memory, `_lastMessage` | open, save and restore settings, positions, users | chat commands, events |
| **Chat commands and users** (`ApplicationCommands.cpp`, `ApplicationTelegram.cpp`) | command list; users and their access in the database | `start`, `help`, `password`, `where`, `status`, `arm`, `disarm` | bot, database, settings |
| **Parsers and helpers** (`Url.*`, `Utilities.*`, `HttpParser.*`) | none | `Url::parse`, `wildcardMatch`, `parseResponse` | bot, commands |
| Telegram types (`tgbot/`) | none | JSON to and from structures | bot |
| Application shell (`Application.cpp`, `Main.cpp`) | command line, configuration, log | start everything, run the event loop | all |

### What is hard, and what makes each part correct

* **TcpClient.** A connection can fail while a read and a write are both under
  way, the owner may call `send` or `disconnect` from inside the client's own
  callbacks, and handlers of an old connection may still run when a new one is
  wanted. Correct means: `_ioCount` is exact, nothing of an old connection
  survives into a new one, writes are neither lost nor doubled, and the owner
  gets exactly one end per beginning.
* **Transmitter.** One timer both delays reconnects and paces heartbeats, and
  its handler never looks at whether its wait was cancelled. The stream may be
  cut anywhere. Correct means: data only after LOAD on *this* connection, a
  heartbeat that never dies on a live connection, nothing left unparsed, and a
  new attempt after every loss.
* **Receiver.** A tracker reconnects before its old connection is noticed to be
  dead, and a rejected command closes the session, and destroys the `Device`,
  from inside the `Device`'s own method. Correct means: the authorized session
  is always a live one, the server's and the application's lists agree, the
  event log tells the truth, and closed sessions go away.
* **SslClient, HttpsClient, TelegramBot.** The pattern of TcpClient is repeated
  on top of it with differences, a request queue is served one connection per
  request, and the long poll is given up whenever something else is to be sent.
* **Database, settings, commands, events.** What is told to the user, what is in
  memory and what is on disk change in separate steps; each may fail, the process
  may die between any two, and Telegram then delivers the last commands again.
  Correct means: only owners are alerted, nobody is sent events he was told he
  would not be, and a restart changes nothing that anybody can see.
* **Text.** A chat message and a tracker's stream are taken apart character by
  character. Correct means: quotes, spaces and newlines mean what they should
  over the whole message, and it does not matter how TCP cuts the stream.

PROJECT.json lists the single hazards, each at its line, with the properties
that watch it or the reason why none does.

## 2. The modules

    StreamClient            what TcpClientHandler promises           (abstract)
      ^ refined by              ^ refined by
    TcpClientLoop             SslClientLoop    TLS, with an arbitrary owner
      |  a TcpClient with       |  uses
      |  an arbitrary owner     |              TelegramClient   requests and long poll,
      |  ^ refined by           |                over an SslClient taken as
      |  Transmitter            |                SslClientLoop shows it to be
      |    |  uses              |
    TcpClient (operators) <-----+              Receiver         server, sessions, devices

    Alarm     commands, events, settings and the database, over restarts
    Text      the tokenizers of chat messages and of the tracker's stream
    MCAlarm   Alarm for TLC: symmetry of the users

    TcpClientLoopProofs     theorems about a client with an arbitrary owner, used by
      TransmitterProofs     the transmitter as one of these owners, and its stream
      SslClientLoopProofs   TLS on top of such a client
    ReceiverProofs, TelegramClientProofs, AlarmProofs, TextProofs
                            theorems about these modules
    LoopTheorems            lemmas only: induction over the turns of a loop

**StreamClient** has two variables: where the owner, judging by the calls it
got, takes the connection to be, and the last call. It is what the owner may
rely on: after an accepted `connect()` one `handleTcpClientError` or one
`handleTcpClientConnect`, data only after the latter, then one
`handleTcpClientDisconnect`.

**TcpClient** has no variables: a client is a record and each method an
operator from client to client, because methods call one another, and the owner,
synchronously. `HandleAnything` returns a record with the client, whether the
handler goes on, and what the owner is told. Boost.Asio is modelled from how it
is used: an operation is `idle`, `started`, or completed (`ok`, `failed`) with
its handler still to run. Closing a socket fails what is started and does not
touch what is completed. Nothing is assumed about the order of handlers of
different operations.

**TcpClientLoop** turns the handlers into actions and adds an owner that does
anything: it calls any method between handlers, and from inside the two calls
after which the client goes on (`Reactions`). The owner never calls `connect()`
inside `handleTcpClientError` or `handleTcpClientDisconnect`; since the client
has reset itself before these calls, and does nothing after them, a call there
is the same as a call right after.

**Transmitter** is Application as the owner. Each action is one turn of the
event loop: a handler of the client with everything Application does in the
callback, or the timer's handler. The server's answers are pieces (`LO`, `AD`,
`O`, `N`, `text`, `semicolon`) so that LOAD, ON and commands may be cut where it
matters; `Parse` is the loop of `handleTcpClientReceivedData`, a recursive
function of the number of turns. The timer is a
pair of counts: waits under way, and handlers due. `expires_from_now` moves all
the waits to the due handlers, as the library does. Line ends, which the code
erases first, are left out, as are the settings `imei` and
`transmitter.enabled`, taken as set.

**Receiver** is the other side. Methods of TcpSession, Application and Device
call one another, so they are operators on a record of what they change
(`World`), and an action ends with `Become`. A read delivers a sequence of
whole commands; the code's loop over them, which ends where a command closes
the session, is `ProcessData`, again a function of the number of turns. A session that is closed and has no handler left
is destroyed and its identity used again (`Settle`). Since
`TcpServer::close` and `TcpSession::disconnect` have no caller, they are not
modelled. A second accept at once is not modelled: `accept` is called again only
by the handler of the one before.

**SslClientLoop** repeats the pattern of TcpClientLoop one layer up. A record
`ssl` has the client's own state, and the methods are operators on a record of
everything (`World`), because the calls of the TcpClient run down into it and up
to the owner. What mbedTLS makes of the bytes is a choice: a handshake step
wants more, is done or fails, a write is taken, wants to be repeated or fails.
The set-up of mbedTLS is taken to succeed. The owner acts between handlers; the
module says why it makes no difference when it acts inside one.

**TelegramClient** is HttpsClient and TelegramBot. A request is its tag and, for
a poll, its offset; a response is empty, useless, or an answer that has the
updates up to some identifier. The SslClient is reduced to its status, with
Handshake counted to Connecting, and to what the contract says it has told; it
may break at any time and then stay in Error until it tells of the end. Two
handlers fold into one action where the code does: `HandleAborted` is the end
after `disconnect()`, which SslClient tells as an error or as a disconnect by the
user, with the same effect. The replies to the commands in an answer are appended
before the request is popped, as in the code, and every append pushes the queue.
Messages of the bot are all alike, since the queue treats `getMe`, `sendMessage`
and `sendLocation` in the same way.

**Alarm** is the process as its users see it, over many of its lives. A handler
runs alone on the event loop, so one that calls no more than one statement is one
action; `dbSaveSettings` is a DELETE and one INSERT for each row, each a
transaction of its own, and the event handler alerts before it stores, so these
have a `phase` between their statements in which the process may die. Memory
(`_userSettings`, `_lastMessage`, `_database`) is lost then and read back by
`Start`; the tables are not. Every statement may fail, and each failure is a
*kind* of fault that `faults` remembers: `load` (opening or reading at the start),
`users`, `save`, `data`, `cut` (dying after the DELETE), and `second`, two messages
in one second, of which `ORDER BY host_time DESC LIMIT 1` yields the first.
Telegram keeps commands until `getUpdates` names an offset after them; what was
handled and not confirmed is delivered again after a restart. `told` is what each
user heard last, and `lastEvent` the last event: they are there for the
properties. `Settled(u)` says that nothing of u's is on its way, in which case his
messages have been sent, since the bot asks for updates only with an empty queue.
A `/password` is handled in one action, as its only write is its last statement.

**Text** is two loops over text. A step is one turn of the loop of
`Application::handleMessage` (`HandleCharacter`), what follows that loop
(`HandleEnd`), or a call of `Device::processData` with what one read brings
(`Read`), whose own loop is a function of the number of turns. Characters stand for
their classes, those that the code tells apart. `WordsAsMeant` and `CutsDontMatter`
compare the results with definitions that do not loop: a quote, a newline or a
semicolon means something by its place in the whole text (`CommandsOf`, `Taken`).
What a command of the tracker does to the session is the class `refusal`, "the
session is closed for it"; Receiver has the rest.

## 3. What is checked

| Run | Module | Bounds | States | Shows |
|---|---|---|---|---|
| `tcp_client` | TcpClientLoop | 2 messages, 2 buffers queued | 302 | `IoCountExact`, `WriteQueueDriven`, `QuietWhenDisconnected`, `WritesInOrder`; refinement `KeepsContract`; `DisconnectCompletes`, `AttemptEnds` |
| `tcp_wait` | TcpClientLoop | 1 message, 1 buffer | - | `WaitEnds` violated, see 5 |
| `transmitter` | Transmitter | 1 message of the device queued, 4 pieces on the way, 2 timer handlers due, unfinished command at most 3 characters | 10470 | `NoStaleAuthorization`, `NothingBeforeGrant`, `KeepaliveNeverLost`, `NothingLeftUnparsed`, `Reconnects`; refinement `OwnsTcpClient` |
| `transmitter_no_reconnect` | Transmitter | `reconnect_delay` 0 | - | `NoAutoReconnect` violated |
| `receiver` | Receiver | 2 sessions, 2 messages queued, 2 commands per read | 6302 | `AuthorizedIsLive`, `BooksAgree`, `LastEventTells`, `ClosedIsDestroyed` |
| `receiver_rebind` | Receiver | 1 session | - | `Rebinds` violated |
| `ssl_client` | SslClientLoop | 2 buffers queued in both layers together, 2 timer handlers due | 1665 | `IoCountExact`, `QueueIsServed`, `QuietWhenDisconnected`, `StandsOnTcp`; refinement `KeepsContract`; `EndingEnds` |
| `ssl_wait` | SslClientLoop | 1 buffer, 1 timer handler | - | `WaitEnds` violated |
| `telegram` | TelegramClient | 2 updates, 2 messages, 2 timer handlers due | 16615 | `BusyWithRequest`, `UpdatesInOrder`, `NeverStalls`, `OnlyPollsGiveWay`; `KeepsAsking` |
| `alarm` | MCAlarm | 2 users (symmetric), mode `alert`, 2 keywords of which one is quiet, 2 commands in the inbox, 1 kind of fault | 2368550 | `OnlyOwnersAlerted`, `DisarmedStaysQuiet`, `AlertsFollowMode`, `CrashIsInvisible`; `SaveRepairs` |
| `alarm_kept` | MCAlarm | as `alarm` | - | `ModeIsKept` violated |
| `text` | Text | 7 characters of 4 or 5 classes, limit 2 | 263048 | `WordsAsMeant`, `CutsDontMatter`, `OnlyAShortRestWaits` |

`OwnsTcpClient` composes: every behaviour of the transmitter is one of
TcpClientLoop, so what holds of a client with an arbitrary owner, including what
is proved in 4, holds of the transmitter's client. The runs of Transmitter and
Receiver do not list a type invariant, which theorems state for every bound. For the transmitter `Lengths`
is the set of all natural numbers, since TcpClient has no bound on its queue.

**Why the bounds are enough.** Two buffers are the fewest for which a write is
followed by another and a `send` may meet a write under way; the client never
looks at a buffer's content. One more queued message, one more piece and one
more due timer handler (65300 states of Transmitter) were also checked and
showed nothing new. Four pieces hold an answer with a command glued behind it,
or LOAD with one, the cases in which the parser could lose something. Three
characters of limit are exceeded by two pieces of text, so the limit of 32768 is
met. In Receiver two sessions are the fewest for a take-over, and there is only
one authorized session to take over from; two commands in a read let a command
follow one that closes the session. In SslClientLoop two due timer handlers are
the one that a `send` cancels and the one that has expired. In TelegramClient two
updates come in one answer or in two, and two messages overtake a poll one by
one or together; `MaxDue` only holds back new events until a handler that is due
has run.

In Alarm a second user is whom a save loses or an event spares; a keyword that is
repeated, one that differs and one that is quiet are all that `alert` tells apart.
With one mode the commands still differ (armed, disarmed); the three modes differ
in `Due` alone, two of them were also checked (12.6 million states), and the proofs
take all three. Two commands let one be handled and confirmed while another is not,
and be handled again in either role. One *kind* of fault may happen any number of
times; the proofs take all kinds together. In Text seven characters hold two
quoted words, or a command that is refused between two that are not, in every cut
into reads.

**Fairness.** `io_service::run` runs every handler that is ready, so the
handlers are weakly fair, each by itself; name lookups and connection attempts
end, if only by the system's timeout; timers expire. A read or a write ends only
if the peer or the network does something, and no fairness is assumed of them,
nor of the server, the tracker, or the owner. `Rebinds` also assumes that the
other program leaves the port. `DisconnectCompletes` and `AttemptEnds` thus hold
against a peer that never answers. For TelegramClient the connection to Telegram
is also taken to end, because every request is sent with `Connection: close`
(`HttpParser.cpp:79`); neither HttpsClient nor SslClient has a timeout of its own.
Nothing says that an attempt succeeds, so the second half of `KeepsAsking` is
about behaviours in which connections open again and again.

Alarm states no liveness: nothing in the code or its words promises that an alert
arrives, and TelegramClient has what there is to say of the queue.

Transmitter runs with deadlock checking off, because the server may deny access
and then nothing is left to happen: the code stops there too. So does Text, which
ends at its greatest length.

## 4. What is proved

`TcpClientLoopProofs` proves for every set of messages, every queue bound and
every behaviour of the owner:

| Theorem | States |
|---|---|
| `Inductive` | `Spec => []IInv` |
| `TypeCorrect` | `Spec => []TypeOK`; `_ioCount` never goes below zero |
| `CountIsExact` | `Spec => []IoCountExact` |
| `QueueIsDriven` | `Spec => []WriteQueueDriven` |
| `Quiet` | `Spec => []QuietWhenDisconnected` |
| `Implements` | `Spec => KeepsContract`: every step is a step of StreamClient or a stutter |
| `OnceInOrder` | `Spec => WritesInOrder`: what is sent is written once and in order |

None of the invariants is inductive by itself. `_ioCount` is exact only if an
operation is not started while one of its kind is under way, and that depends on
the status, the socket and the queue. The strengthening has two parts.

* `Good(client)` is about the client alone: which operations may be under way in
  which status (`StatusFits`), when the socket is open (`SocketFits`), that an
  open connection is being read (`Reading`), that what is being written is in the
  queue and a queue on an open connection is being written (`QueueFits`), and
  that the count is the sum (`CountFits`). `Sound` is the same without the clause on
  reading, which is false while a callback runs, between `_status = Connected`
  and the next `async_read`.
* `Fits` ties the owner's view to the client: closed while nothing is under way,
  opening in Resolve and Connecting, open in Connected, and either while
  Disconnecting, according to which operations are left. This is what makes
  `EndOf` right: a handler of the kind that is left tells the owner an error or
  a disconnect, and it is the one the owner has to expect.

The proof goes along the code: a lemma per method says that it keeps `Sound`
(`DisconnectSound`, `SendSound`, `ReactionSound`), one that starting a read
restores `Good`, `HandledGood` does `handleAnything` by its three cases, and
what the rest of each handler leaves of a client is said by a lemma about the
client alone (`ResolvedGood`, `ConnectedSound`, `ReadSound`, `WrittenGood`). Then
one lemma per action says that it keeps `IInv` and is a step of StreamClient. The
lemmas about the client alone serve SslClientLoopProofs too. `OnceInOrder` rests on the same
invariant: a handler that goes on had an operation that succeeded, only
`handleWrite` then takes a buffer off (`HandledQueue`), and `handleAnything` clears the
queue only where nothing is under way any more, so that no write reads from it.

Assumptions: `MessagesAssumption` and `LengthsAssumption` of TcpClientLoop, and
what is said of Boost.Asio above.

`TransmitterProofs` proves, for every delay, every limit of the buffer and all
bounds, so for any stream of the server, cut anyhow:

| Theorem | States |
|---|---|
| `Owns` | `Spec => []Client!IInv /\ Client!Spec`: the invariant of TcpClientLoop holds of the transmitter's client |
| `Owner` | `Spec => OwnsTcpClient` |
| `HandlerSeesContract` | `Spec => Client!KeepsContract`: what the transmitter is told obeys StreamClient |
| `ParserLeavesItsLoop` | `Spec => []` of: whatever is read next, `while (true)` leaves itself, where nothing can be parsed or access is denied |
| `SendsInOrder` | `Spec => Client!WritesInOrder`: what the transmitter sends is written once and in order |
| `Invariance` | `Spec => []IInv` |
| `TypeCorrect` | `Spec => []TypeOK` |
| `LoginIsOfThisConnection` | `Spec => []NoStaleAuthorization` |
| `LoginComesFirst` | `Spec => []NothingBeforeGrant` |
| `ParsesAllThatCame` | `Spec => []NothingLeftUnparsed` |
| `KeepaliveStays` | `Spec => []KeepaliveNeverLost` |

Three arguments meet.

* *The stream.* What has been read and not parsed, followed by what is still to be
  read, is what the server wrote: `WellFormed(Stream, granted, authorized)` says
  that before access is granted there is only the denial's text, that LOAD is in
  front until it is parsed, that an `N` follows its `O`, and that text is followed
  by more text or a semicolon. A cut may fall between any two pieces, so this is
  said of the whole stream and not of the buffer. `ParseOneGoes` is one turn of
  the loop: it takes whole parts off the stream, which stays well formed, loses
  no `N` without starting a wait, and stops only where nothing can be parsed
  (`Goes`). `ParseGoes` is the loop, by induction over its turns: a turn
  that goes on shortens the buffer, so as many turns as there are pieces and one
  more suffice (`Gone`). That the number of turns is no bound of the model, and the
  loop of the code does not spin, is `ParserLeavesItsLoop`.
* *The client.* Once every step of the transmitter is shown to be one of an owner
  of TcpClientLoop (`StepIsOwnerStep`), the invariant of TcpClientLoopProofs holds
  of `client`, and its lemmas can be cited.
* *What joins them* (`Rest`), one lemma per action: an authorized transmitter has
  a connection that is open; before the grant nothing but the login is queued;
  the login is the first message, and while it is being written the server has
  said nothing (`LoginFirst`), which is why LOAD cannot answer a login that was
  not sent; and on a live, authorized connection the heartbeat is `Alive`: a wait
  is under way or due, a heartbeat has still to reach the server, the server owes
  an answer, or the answer is in the stream. None of the four alone is kept by a
  step: the heartbeat goes round through them.

Assumptions: those on the constants, and what the module says of the server: it
sends LOAD at most once and as the first thing it grants, and answers each
heartbeat with ON.

`ReceiverProofs` proves for every finite set of sessions, every length of a read
and every queue:

| Theorem | States |
|---|---|
| `Invariance` | `Spec => []IInv` |
| `TypeCorrect` | `Spec => []TypeOK` |
| `PointerIsLive` | `Spec => []AuthorizedIsLive` |
| `BooksStayAlike` | `Spec => []BooksAgree` |
| `LogIsTrue` | `Spec => []LastEventTells` |

The methods call one another while the books do not agree, so the invariant has
layers. `Booked(w)` holds at every moment, also between two statements of a
command: a session is active if and only if TcpServer lists it, Application has
its Device and its socket is open, a write under way has something queued, the
authorized session has a Device, and the last event is "connect" if and only if a
session is authorized. `Known` (the authorized session has logged in) fails inside
`commandLogin`, and `BeingRead` (an active session is being read) fails for the
session whose read is handled; `Served(w, s)` is what holds between two commands
of session s, and `Sound` what holds between handlers. `ProcessCommandServes`
says that a command, which may take the authorization from another session and
close that one, or close its own, keeps `Served`; `ProcessDataServes` makes of it that a whole
read does. `Untouched` says that nobody has connected before the
server listens, without which the rebind timer might open an acceptor that has
sessions.

Assumptions: those on the constants, and that two accepts are not under way at
once (section 2).

`SslClientLoopProofs` proves for all bounds of the queues:

| Theorem | States |
|---|---|
| `Invariance` | `Spec => []IInv` |
| `TypeCorrect` | `Spec => []TypeOK` |
| `CountIsExact` | `Spec => []IoCountExact` |
| `QueueIsDriven` | `Spec => []QueueIsServed` |
| `Quiet` | `Spec => []QuietWhenDisconnected` |
| `StandsOnEstablished` | `Spec => []StandsOnTcp` |
| `Implements` | `Spec => KeepsContract`: SslClient keeps the contract that TcpClient keeps |

What the TcpClient below does in a call is known from the lemmas of
TcpClientLoopProofs, through an instance of it. What is left is a handler that
runs through both layers and, at the end, up to the owner. `Running(w, n)` holds
in the middle of it: the count of SslClient is the waits of its timer, the
handlers that are due, and `n` runs of `handleWrite` that are on the stack; the
owner's view follows from the status and `_wasConnected` (`ViewFits`); and a
TcpClient that still looks up or connects has never carried a TLS connection
(`Young`), so an error before the handshake is told as an error and one after it
as a disconnect. `Stands`, which ties the two statuses, fails between a call of
the TcpClient and SslClient's answer to it, and `Served`, which says that a queue
has a run of `handleWrite` to serve it, fails inside `handleWrite`; both hold
again when the handler returns (`Sound`). Each lemma about an action also says what the owner was told, as
one of the six lines of `Told`, of which each is a step of StreamClient.

Assumptions: `BoundsAssumption`, and that mbedTLS can be set up.

`LoopTheorems` holds lemmas that the proofs about loops rest on; they are facts of
arithmetic and sets and say nothing of the program. The library's theorems
on induction take an operator, which the provers cannot instantiate;
`TurnsInduction` states induction over the turns of a loop with a set, the turns
after which something holds, and `TurnsExist` states that a function defined by
recursion over the turns exists, so that what `Parse` and `ProcessData` define is
known turn by turn. Both follow from `LeastNumber`, which is the library's theorem
that the strict subsets of a finite set are well founded.

`TelegramClientProofs` proves for every retry delay and all bounds, so also for
any number of updates and messages:

| Theorem | States |
|---|---|
| `Inductive` | `Spec => []IInv` |
| `TypeCorrect` | `Spec => []TypeOK`; a timer never has two waits |
| `FrontExists` | `Spec => []BusyWithRequest` |
| `OnceInOrder` | `Spec => []UpdatesInOrder` |
| `AlwaysAwake` | `Spec => []NeverStalls` |
| `MessagesStay` | `Spec => OnlyPollsGiveWay` |

The invariant adds to the properties what makes them survive a step.
`PollGivesWay`: while SslClient is Disconnecting the front of the queue is the
poll, since requests are only appended; so what an aborted connection pops is
the poll. `OnePoll` and `Fresh`: there is at most one poll in the queue, and its
offset is `_lastUpdateId`. When it is answered the identifier moves, but the poll
with the old one is popped in the same handler; when anything else is answered,
the identifier stays. So the updates that come continue where the handled ones
end (`UpdatesContinue`), which `ResponseKeepsStep` turns into `InStep`.
`NotStarted` says that nothing moves before the bot is enabled. Two lemmas about
sequences, `AppendOthers` and `TakeOff`, carry the rest.

Assumptions: `RetryDelayAssumption`, `BoundsAssumption`, and what the module says
of SslClient and Telegram. That SslClient keeps its contract is proved in
SslClientLoopProofs; that a connection that was given up always ends is not part
of it, see finding 4 below.

`AlarmProofs` proves every property of the run `alarm` for any finite set of users,
any modes and keywords, any number of commands and all faults together:

| Theorem | States |
|---|---|
| `Inductive` | `Spec => []IInv` |
| `TypeCorrect` | `Spec => []TypeOK` |
| `OwnersOnly` | `Spec => []OnlyOwnersAlerted` |
| `Quieted` | `Spec => []DisarmedStaysQuiet` |
| `Followed` | `Spec => []AlertsFollowMode` |
| `Invisible` | `Spec => []CrashIsInvisible` |
| `Repaired` | `Spec => SaveRepairs` |

What a user was told, what memory has and what the table has of him differ at
times, and the invariant says when: only while a command of his is `Pending` (in
the inbox and not handled by this process) or `Saving` (handled, and its save not
ended). `OffAsTold` says so for users who heard "disarm", under all faults but a
failed read at start; `AsTold` for all users, when nothing but the reading of users
fails. A crash turns `Saving` into `Pending`, since the command is still with Telegram
(`CrashKeepsPending`); a new offset removes only what is handled
(`GetUpdatesKeepsPending`). `RowsInserted` says that during a save what is no longer
to be inserted is as in memory, which at its end is `SaveCompletes`. `RowsRead` says that
no row of the table is missing in memory, without which `/disarm` would not save.
`LastApplied` says that memory shows an owner's last handled command; with
`RowsAgree` it gives `CrashIsInvisible`, by comparing the last command of the inbox
with the last of what is still to be handled (`OutcomeIs`, and `Greatest`, since
the library's theorem on least numbers takes an operator).

Assumptions: `ModesAssumption` of Alarm, and what the
module says of SQLite and Telegram.

`TextProofs` proves for texts of any length, cut into reads anyhow, and any limit:

| Theorem | States |
|---|---|
| `ProcessDataLeavesItsLoop` | for every Device, a turn more than `Loop` gives it changes nothing |
| `CutsAreInvisible` | `Spec => []CutsDontMatter` |
| `RestIsShort` | `Spec => []OnlyAShortRestWaits` |
| `WordsAreFound` | `Spec => []WordsAsMeant` |

The loops keep a state, and the definitions they are compared with look at all of
a text. What joins them says of the state which part of the text it stands for.

* *The tracker.* `Known` is what holds of a Device between reads. Within one, the
  Device is at a position of all that it was given: the commands are
  those of the pieces up to it, of which none before is refused, and the buffer is
  what comes after it. A turn moves the position to the next semicolon
  (`TurnAdvances`); since it shortens the buffer, the loop ends only where there is none
  (`LoopEnds`, from TurnsInduction). The next read changes nothing of the pieces that
  have ended (`PieceStays`), and begins where the last one left the loop (`FineBegins`,
  `ReadKeeps`).
* *The chat.* `ReadTo(m, body)`: the calls are the commands up to the newlines so
  far (`Called`), the command in progress is its words that have ended
  (`InProgress`), and the argument `Waits`: it is nothing, or the one word that has not
  ended, which is the last of its command. It was checked with TLC as an invariant
  before it was proved. One more character makes no other marks than at the end
  (`MarksGrow`, `WordsGoOn`), so calls and words grow there (`CalledGrows`,
  `InProgressGrows`); `TurnReads` makes of it a turn of the loop, and `EndReads` what
  follows the loop, where a quote that is never closed counts.

Both stand on `ValuesGrow`: where a set of positions gets a greater one, its values in
order get one more at the end.

Assumption: `TextAssumption`, that the bounds are natural numbers.

Only model-checked is liveness (`DisconnectCompletes`, `AttemptEnds`, `Reconnects`,
`ClosedIsDestroyed`, `EndingEnds`, `KeepsAsking`): it rests on fairness, so on
ENABLED, with which the prover cannot reason. Every invariant, every action property
and every refinement that a passing run checks is also a theorem.

## 5. Where the code and its words differ

Five runs are expected to be violated. Each quotes a comment, a log message or
what the program tells its user.

1. **A client that waits for nothing** (`tcp_wait`; comment at
   `TcpClient.cpp:116`, "Waiting for all IO operations to complete"). A write
   completes; before its handler runs, the handler of a failed read closes the
   socket, finds `_ioCount` 1, and returns to wait, without changing `_status`.
   The write's handler sees neither an error nor Disconnecting, pops the buffer,
   and has nothing more to send. The client is now Connected on a closed socket,
   with nothing under way: the owner is not told, and the transmitter never
   reconnects. For this reason `DisconnectCompletes` is stated for clients that
   have an operation left, and `Reconnects` starts where the owner has been told.
   If there is more to send, the next write fails and the client recovers.
2. **A reconnect without reconnect** (`transmitter_no_reconnect`; log at
   `ApplicationTransmitter.cpp:107`, "(no auto-reconnect)"). With
   `reconnect_delay` 0, `expires_from_now()` is called before the decision not to
   reconnect and cancels the heartbeat's wait. Its handler runs at once, finds
   the transmitter not authorized, and starts it.
3. **A rebind that cannot succeed** (`receiver_rebind`; log at
   `ApplicationReceiver.cpp:63`, "Trying to rebind in"). If `bind` fails because
   the port is taken, the acceptor stays open, and every later `listen()` fails
   in `open()`, also after the port is free.

4. **A TLS client that waits for nothing** (`ssl_wait`; comment at
   `SslClient.cpp:240`, again "Waiting for all IO operations to complete"). After
   each write SslClient waits a millisecond for the next, and counts that in
   `_ioCount`. If the connection ends in it and nothing is left to write, the
   timer's handler returns on the empty `_writeBuffer` before it looks at the
   status. The client stays in Error or Disconnecting with nothing under way;
   HttpsClient, which does nothing while `isDisconnecting()`, sends no request any
   more. A long poll that is sent and then given up within the millisecond is
   enough. With something left to write the client ends, which is `EndingEnds`.
5. **An alarm that is not kept** (`alarm_kept`; message at
   `ApplicationCommands.cpp:365`, "The system is in *armed* mode now."). Every save
   deletes the settings of all users and inserts them one by one, without a
   transaction (`ApplicationDatabase.cpp:183`). If the process dies in between, users
   whose rows were not yet inserted are disarmed after the restart, though they did
   nothing and were told nothing. Their commands are long confirmed, so Telegram
   does not deliver them again.

## 6. The plan

The order is that of importance to the program's purpose.

1. StreamClient, TcpClient, TcpClientLoop, and the proofs. *Done.*
2. Transmitter, and the proofs. *Done.*
3. Receiver, and the proofs. *Done.*
4. SslClientLoop, and the proofs. *Done.*
5. TelegramClient, and the proofs. *Done.* To state: an abstract queue of requests
   that TelegramClient implements.
6. Alarm (settings, access, commands, events, over crashes and failures), and the
   proofs. *Done.*
7. Text: the two tokenizers, and the proofs. *Done.*
8. **Relay**: Transmitter and Receiver composed through their interfaces; a
   command of the server reaches only the authorized tracker, data of a tracker
   only a server that granted access.
9. **Parsers**: `Url::parse` and `HttpParser::parseResponse` as functions, against
   declarative definitions over bounded inputs.

## 7. What is not modelled, and why

* Commands that only read (`/start`, `/help`, `/where`, `/status`) and the wording of
  messages: they change no state. `/get` and `wildcardMatch`, which only it calls:
  `/get` is commented out in the list of commands.
* The names of users (`dbSearchUser` writes them back with the access it has just
  read) and the fields of a position other than its keyword.
* What should follow a start that cannot read the settings: the code logs and goes
  on with what it has, and nothing says what is right. `DisarmedStaysQuiet` leaves
  those behaviours out; then a user may be told "disarm" while the table still has
  him armed, and a later start reads it back.
* `tgbot/`: marshalling of JSON, field by field, without state.
* Command line, configuration file, log: sequential input and output at start.
* `dep/`: mbedTLS, SQLite and utfcpp are third-party.
* The fields of a position message (`Device::commandGpsData`): text to numbers.
  Its one effect on control, an exception of `from_iso_string`, is a hazard.
* `TcpServer::close`, `TcpSession::disconnect`: no caller.
* `TelegramBot::stop`, `HttpsClient::stop`: no caller.
* `sslInitialize`, `sslFree`: calls of mbedTLS in sequence; a failure is a hazard.
* Errors of `accept`: they change no state; the code accepts again.
* Destruction of the Application: the event loop never returns.
