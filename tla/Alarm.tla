-------------------------------- MODULE Alarm --------------------------------
(***************************************************************************)
(* Who may command the bot, who is alerted of the events of the tracker,   *)
(* and what of this outlives the process (ApplicationCommands.cpp,         *)
(* ApplicationEvents.cpp, ApplicationDatabase.cpp).                        *)
(*                                                                         *)
(* A handler runs alone on the event loop, but the process may die between *)
(* any two of its statements, and any statement may fail.  SQLite is       *)
(* external: a statement happens completely or not at all, and what it did *)
(* outlives the process.  Telegram is external too: it keeps a command     *)
(* until it is asked for updates with an offset after it, so the commands  *)
(* of the last answer are delivered again to a process that starts anew.   *)
(* The bot asks only when it has no message left to send (TelegramClient), *)
(* so whoever has no command in the inbox has been sent what he is told.   *)
(*                                                                         *)
(* Not here: commands that only read (/start, /help, /where, /status), are *)
(* misspelt or name a wrong code; the names in table users (dbSearchUser   *)
(* writes them, with the access it has just read); all of a position but   *)
(* its keyword; and the order of the rows in _userSettings.                *)
(***************************************************************************)
EXTENDS Integers, Sequences, FiniteSets

CONSTANTS
    Users,          \* Telegram users
    Modes,          \* what they /arm: some of alert, paranoid, insane
    Keywords,       \* keywords of the tracker's messages
    Quiet,          \* those of them that are "connect" or "disconnect" but for case
    MaxInbox,       \* bound of the model: commands that Telegram keeps at a time
    MaxFaults       \* bound of the model: kinds of faults in one behaviour

ASSUME UsersAssumption == IsFiniteSet(Users)
ASSUME ModesAssumption == Modes \subseteq {"alert", "paranoid", "insane"}
ASSUME KeywordsAssumption == Quiet \subseteq Keywords /\ "" \notin Keywords
ASSUME BoundsAssumption == MaxInbox \in Nat /\ MaxFaults \in Nat

VARIABLES
    users,          \* table users: the access of each user, 0 without a row
    settings,       \* table settings: the status of each user, Absent without a row
    row,            \* table data: the keyword of the row that is read back first
    database,       \* _database is not 0
    userSettings,   \* _userSettings, in the same form as settings
    lastMessage,    \* the keyword of _lastMessage
    phase,          \* where the process is; loop is between two handlers
    unsaved,        \* the rows that dbSaveSettings still has to insert
    event,          \* the keyword of the event that is being handled
    alerted,        \* the users it was sent to
    inbox,          \* commands that Telegram keeps
    batch,          \* how many of them it delivered to this process
    taken,          \* how many of those are handled
    told,           \* what each user heard last about the alarm
    lastEvent,      \* the keyword of the last event that was handled, by any process
    faults          \* the kinds of faults that happened

tables == <<users, settings, row>>
memory == <<database, userSettings, lastMessage>>
handler == <<phase, unsaved, event, alerted>>
telegram == <<inbox, batch, taken>>
vars == <<tables, memory, handler, telegram, told, lastEvent, faults>>

\* ChatCommand::Access
NoAccess == 0
User     == 1
Owner    == 2

\* UserSettings::Status, or no row.
Default  == "disarm"
Absent   == "absent"
Statuses == Modes \union {Default}
NoRows   == [u \in Users |-> Absent]

\* What a user hears instead of a status.
Trouble == "trouble"
Nothing == "nothing"

\* An empty keyword: no message yet.
NoKeyword == ""

Commands ==
    [user : Users, what : {"password"}, code : {User, Owner}]
        \union [user : Users, what : {"arm"}, status : Modes]
        \union [user : Users, what : {"disarm"}, status : {Default}]

Init ==
    /\ users = [u \in Users |-> NoAccess]
    /\ settings = NoRows
    /\ row = NoKeyword
    /\ database = FALSE
    /\ userSettings = NoRows
    /\ lastMessage = NoKeyword
    /\ phase = "down"
    /\ unsaved = {}
    /\ event = NoKeyword
    /\ alerted = {}
    /\ inbox = << >>
    /\ batch = 0
    /\ taken = 0
    /\ told = [u \in Users |-> Nothing]
    /\ lastEvent = NoKeyword
    /\ faults = {}

----------------------------------------------------------------------------
(* Faults *)

Fault(kind) ==
    /\ faults' = faults \union {kind}
    /\ Cardinality(faults') <= MaxFaults

\* Without a database every statement fails; that is the fault of openDatabase.
StatementFails(kind) == IF database THEN Fault(kind) ELSE UNCHANGED faults

----------------------------------------------------------------------------
(* The life of the process *)

\* The process dies.  A message that is only queued is lost with it.
Crash ==
    /\ phase # "down"
    /\ IF phase = "insert" THEN Fault("cut") ELSE UNCHANGED faults
    /\ phase' = "down"
    /\ database' = FALSE
    /\ userSettings' = NoRows
    /\ lastMessage' = NoKeyword
    /\ unsaved' = {}
    /\ event' = NoKeyword
    /\ alerted' = {}
    /\ batch' = 0
    /\ taken' = 0
    /\ UNCHANGED <<tables, inbox, told, lastEvent>>

\* Mutant: the last message is not read back.
Restored_NoMessage ==
    /\ database' = TRUE
    /\ userSettings' = settings
    /\ lastMessage' = NoKeyword
    /\ UNCHANGED faults

\* openDatabase and dbRestoreSettings, when everything can be read.
Restored ==
    /\ database' = TRUE
    /\ userSettings' = settings
    /\ lastMessage' = row
    /\ UNCHANGED faults

\* The same when something cannot: the file cannot be opened, the last message
\* cannot be read, or reading the settings fails after some of the rows.
RestoredInPart ==
    /\ Fault("load")
    /\ database' \in BOOLEAN
    /\ lastMessage' \in {NoKeyword, row}
    /\ \E U \in SUBSET Users : userSettings' = [u \in Users |-> IF u \in U THEN settings[u] ELSE Absent]
    /\ ~database' => lastMessage' = NoKeyword /\ userSettings' = NoRows

\* main()
Start ==
    /\ phase = "down"
    /\ phase' = "loop"
    /\ Restored \/ RestoredInPart
    /\ UNCHANGED <<tables, unsaved, event, alerted, telegram, told, lastEvent>>

----------------------------------------------------------------------------
(* The updates of Telegram.  A batch is handled without a pause. *)

\* A user writes to the bot.
Post(c) ==
    /\ Len(inbox) < MaxInbox
    /\ inbox' = Append(inbox, c)
    /\ UNCHANGED <<tables, memory, handler, batch, taken, told, lastEvent, faults>>

\* Mutant: what was handled is not counted from the new offset.
GetUpdates_KeepsTaken ==
    /\ phase = "loop" /\ taken = batch /\ batch > 0
    /\ inbox' = SubSeq(inbox, taken + 1, Len(inbox))
    /\ batch' = 0
    /\ UNCHANGED <<tables, memory, handler, taken, told, lastEvent, faults>>

\* getUpdates names the offset after the last update that was handled, and
\* Telegram forgets what is before it.
GetUpdates ==
    /\ phase = "loop" /\ taken = batch /\ batch > 0
    /\ inbox' = SubSeq(inbox, taken + 1, Len(inbox))
    /\ batch' = 0
    /\ taken' = 0
    /\ UNCHANGED <<tables, memory, handler, told, lastEvent, faults>>

\* The answer to it reaches the bot.
Updates ==
    /\ phase = "loop" /\ batch = 0 /\ inbox # << >>
    /\ batch' = Len(inbox)
    /\ UNCHANGED <<tables, memory, handler, inbox, taken, told, lastEvent, faults>>

----------------------------------------------------------------------------
(* Commands *)

\* handleChatCommand is called with c.
Handling(c) ==
    /\ phase = "loop" /\ taken < batch
    /\ c = inbox[taken + 1]
    /\ taken' = taken + 1
    /\ UNCHANGED <<inbox, batch>>

Tell(u, what) == told' = [told EXCEPT ![u] = what]

\* dbSearchUser fails; the command is answered with an apology and forgotten.
HandleWithoutUser(c) ==
    /\ Handling(c)
    /\ StatementFails("users")
    /\ Tell(c.user, Trouble)
    /\ UNCHANGED <<tables, memory, handler, lastEvent>>

\* Mutant: any code that is known is accepted.
Raises_Any(c) == c.code # NoAccess

\* Does the code raise the access of the user?
Raises(c) == c.code > users[c.user]

\* handlePasswordCommand; dbUpdateUser and dbCreateUser
HandlePassword(c) ==
    /\ Handling(c) /\ c.what = "password"
    /\ database
    /\ \/ Raises(c) /\ users' = [users EXCEPT ![c.user] = c.code] /\ UNCHANGED faults
       \/ Raises(c) /\ StatementFails("users") /\ UNCHANGED users
       \/ ~Raises(c) /\ UNCHANGED <<users, faults>>
    /\ UNCHANGED <<settings, row, memory, handler, told, lastEvent>>

\* /arm and /disarm of somebody else than an owner
HandleRefused(c) ==
    /\ Handling(c) /\ c.what # "password"
    /\ database /\ users[c.user] < Owner
    /\ UNCHANGED <<tables, memory, handler, told, lastEvent, faults>>

\* The setting is changed in memory, the user is told, and dbSaveSettings begins.
Set(u, status) ==
    /\ userSettings' = [userSettings EXCEPT ![u] = status]
    /\ Tell(u, status)
    /\ phase' = "delete"

\* handleArmCommand
HandleArm(c) ==
    /\ Handling(c) /\ c.what = "arm"
    /\ database /\ users[c.user] = Owner
    /\ Set(c.user, c.status)
    /\ UNCHANGED <<tables, database, lastMessage, unsaved, event, alerted, lastEvent, faults>>

\* Mutant: the new setting is not saved.
Disarmed_NotSaved(u) ==
    /\ userSettings' = [userSettings EXCEPT ![u] = IF @ = Absent THEN Absent ELSE Default]
    /\ Tell(u, Default)
    /\ UNCHANGED phase

\* A user without a row is told the same, and there is nothing to save.
Disarmed(u) ==
    IF userSettings[u] # Absent
    THEN Set(u, Default)
    ELSE Tell(u, Default) /\ UNCHANGED <<userSettings, phase>>

\* handleDisarmCommand
HandleDisarm(c) ==
    /\ Handling(c) /\ c.what = "disarm"
    /\ database /\ users[c.user] = Owner
    /\ Disarmed(c.user)
    /\ UNCHANGED <<tables, database, lastMessage, unsaved, event, alerted, lastEvent, faults>>

----------------------------------------------------------------------------
(* dbSaveSettings *)

\* The rows of _userSettings
ToInsert == {u \in Users : userSettings[u] # Absent}

\* DELETE FROM settings
DeleteRows ==
    /\ phase = "delete"
    /\ settings' = NoRows
    /\ unsaved' = ToInsert
    /\ phase' = "insert"
    /\ UNCHANGED <<users, row, memory, event, alerted, telegram, told, lastEvent, faults>>

\* Mutant: the last row is left out.
Finished_OneEarly(rows) == Cardinality(rows) <= 1

Finished(rows) == rows = {}

\* INSERT INTO settings
InsertRow(u) ==
    /\ phase = "insert" /\ u \in unsaved
    /\ settings' = [settings EXCEPT ![u] = userSettings[u]]
    /\ unsaved' = IF Finished(unsaved \ {u}) THEN {} ELSE unsaved \ {u}
    /\ phase' = IF Finished(unsaved \ {u}) THEN "loop" ELSE "insert"
    /\ UNCHANGED <<users, row, memory, event, alerted, telegram, told, lastEvent, faults>>

\* One of the two fails: the rows stay as they are and the user is told.
SaveFails ==
    /\ phase \in {"delete", "insert"}
    /\ Fault("save")
    /\ Tell(inbox[taken].user, Trouble)
    /\ phase' = "loop"
    /\ unsaved' = {}
    /\ UNCHANGED <<tables, memory, event, alerted, telegram, lastEvent>>

----------------------------------------------------------------------------
(* Events of the tracker *)

\* Is a message with keyword k sent to a user with this status, when the message
\* before it had keyword previous?
Due(status, k, previous) ==
    \/ status = "insane"
    \/ status = "paranoid" /\ k # previous
    \/ status = "alert" /\ k # previous /\ k \notin Quiet

\* handleTrackerEvent, up to dbAddGpsData.
HandleEvent(k) ==
    /\ phase = "loop" /\ taken = batch
    /\ phase' = "store"
    /\ event' = k
    /\ alerted' = {u \in Users : Due(userSettings[u], k, lastMessage)}
    /\ UNCHANGED <<tables, memory, unsaved, telegram, told, lastEvent, faults>>

\* ORDER BY host_time DESC LIMIT 1: host_time is in whole seconds, and of the
\* rows of one second the first comes first.
StoreRow ==
    \/ row' = event /\ UNCHANGED faults
    \/ row \notin {NoKeyword, event} /\ UNCHANGED row /\ Fault("second")

\* dbAddGpsData, whose result nobody looks at, and the end of handleTrackerEvent
StoreEvent ==
    /\ phase = "store"
    /\ \/ database /\ StoreRow
       \/ StatementFails("data") /\ UNCHANGED row
    /\ lastMessage' = event
    /\ lastEvent' = event
    /\ phase' = "loop" /\ event' = NoKeyword /\ alerted' = {}
    /\ UNCHANGED <<users, settings, database, userSettings, unsaved, telegram, told>>

Next ==
    \/ Crash
    \/ Start
    \/ GetUpdates
    \/ Updates
    \/ \E c \in Commands :
          \/ Post(c)
          \/ HandleWithoutUser(c)
          \/ HandlePassword(c)
          \/ HandleRefused(c)
          \/ HandleArm(c)
          \/ HandleDisarm(c)
    \/ DeleteRows
    \/ \E u \in Users : InsertRow(u)
    \/ SaveFails
    \/ \E k \in Keywords : HandleEvent(k)
    \/ StoreEvent

Spec == Init /\ [][Next]_vars

----------------------------------------------------------------------------
(* Properties *)

FaultKinds == {"load", "users", "save", "cut", "second", "data"}

TypeOK ==
    /\ users \in [Users -> {NoAccess, User, Owner}]
    /\ settings \in [Users -> Statuses \union {Absent}]
    /\ userSettings \in [Users -> Statuses \union {Absent}]
    /\ {row, lastMessage, event, lastEvent} \subseteq Keywords \union {NoKeyword}
    /\ database \in BOOLEAN
    /\ phase \in {"down", "loop", "delete", "insert", "store"}
    /\ unsaved \subseteq Users /\ alerted \subseteq Users
    /\ inbox \in Seq(Commands)
    /\ batch \in 0 .. Len(inbox) /\ taken \in 0 .. batch
    /\ told \in [Users -> Statuses \union {Trouble, Nothing}]
    /\ faults \subseteq FaultKinds

\* Whoever has a setting, in memory or in the table, and whoever is sent an
\* event is an owner, whatever failed and however often the process was restarted.
OnlyOwnersAlerted ==
    \A u \in Users :
        settings[u] # Absent \/ userSettings[u] # Absent \/ u \in alerted => users[u] = Owner

\* What a user was told has been sent, and no command of his is on its way.
Settled(u) == \A i \in DOMAIN inbox : inbox[i].user # u

\* Whoever was told that his alarm is off is not sent events, though saves fail
\* or are cut off: as long as the settings could be read at every start.
DisarmedStaysQuiet ==
    "load" \notin faults =>
        \A u \in alerted : Settled(u) => told[u] # Default

\* Without faults the process may die between two handlers, and still every user
\* is sent precisely the events that he was told he would, each compared with the
\* one before, though another process may have handled that.
AlertsFollowMode ==
    phase = "store" /\ faults \subseteq {"users"} =>
        \A u \in Users :
            Settled(u) /\ told[u] # Trouble =>
                (u \in alerted <=> Due(told[u], event, lastEvent))

\* The status of u after the commands of a sequence, if it was before at first.
Outcome(before, u, commands) ==
    LET changes == {i \in DOMAIN commands : commands[i].user = u /\ users[u] = Owner}
    IN  IF changes = {} THEN IF before = Absent THEN Default ELSE before
        ELSE commands[CHOOSE i \in changes : \A j \in changes : j <= i].status

\* If the process died between two handlers and started anew, it would come to
\* the same settings: what it reads back, followed by the commands that Telegram
\* delivers again, is what it has in memory, followed by those it has yet to handle.
\* (Not of users who type a code, which would give its effect to an earlier command.)
CrashIsInvisible ==
    phase = "loop" /\ faults \subseteq {"second", "data"} =>
        \A u \in Users :
            (\A i \in DOMAIN inbox : inbox[i].user = u => inbox[i].what # "password") =>
                Outcome(userSettings[u], u, SubSeq(inbox, taken + 1, Len(inbox)))
                    = Outcome(settings[u], u, inbox)

\* A save that nobody is warned of leaves the whole table as memory is, whatever
\* an earlier one left out.
SaveRepairs ==
    [][(phase \in {"delete", "insert"} /\ phase' = "loop" /\ UNCHANGED told)
         => settings' = userSettings]_vars

\* "The system is in *armed* mode now.": while every statement succeeds, it is
\* until the user says otherwise.
ModeIsKept ==
    phase = "loop" /\ {"load", "save"} \intersect faults = {} =>
        \A u \in Users :
            Settled(u) /\ told[u] \in Modes => userSettings[u] = told[u]
=============================================================================
