----------------------------- MODULE AlarmProofs -----------------------------
(***************************************************************************)
(* Theorems about Alarm, for any users, modes and keywords, however many   *)
(* commands Telegram keeps and however many kinds of faults meet.          *)
(***************************************************************************)
EXTENDS Alarm, FiniteSetTheorems, SequenceTheorems, TLAPS

----------------------------------------------------------------------------
(* The inductive invariant.  What a user was told and what the process and  *)
(* the table have of him differ while a command of his is on its way: not   *)
(* yet handled, or not yet saved.                                           *)

\* A command of u that may change his setting has still to be handled.
Pending(u) ==
    \E i \in DOMAIN inbox : i > taken /\ inbox[i].user = u /\ inbox[i].what # "password"

\* The setting of u is being saved by a command of his own.
Saving(u) == phase \in {"delete", "insert"} /\ inbox[taken].user = u

\* What the handler keeps fits the phase that it is in.
PhaseFits ==
    /\ phase = "down" => taken = 0
    /\ phase \in {"delete", "insert"} =>
          /\ taken > 0
          /\ inbox[taken].what # "password"
          /\ told[inbox[taken].user] \in Statuses
    /\ phase # "store" => alerted = {}
    /\ phase = "store" =>
          \A u \in Users : u \in alerted <=> Due(userSettings[u], event, lastMessage)

\* Whoever was told a status is an owner, and so is whoever has a setting.
OwnersTold ==
    \A u \in Users :
        settings[u] # Absent \/ userSettings[u] # Absent \/ told[u] \in Statuses => users[u] = Owner

\* The rows that need no more inserting are as in memory.
RowsInserted ==
    phase = "insert" => \A u \in Users \ unsaved : settings[u] = userSettings[u]

\* A user whose row in the table is in memory too if all of them could be read
RowsRead ==
    "load" \notin faults /\ phase # "down" =>
        database /\ \A u \in Users : settings[u] # Absent => userSettings[u] # Absent

Off(status) == status \in {Default, Absent}

\* Whoever was told that his alarm is off has it off, or a command to come.
OffAsTold ==
    "load" \notin faults =>
        \A u \in Users : told[u] = Default =>
            /\ Off(settings[u]) \/ Pending(u) \/ Saving(u)
            /\ phase # "down" => Off(userSettings[u]) \/ Pending(u)

\* The last message is that of the last event.
MessageKept ==
    faults \subseteq {"users"} => row = lastEvent /\ (phase # "down" => lastMessage = lastEvent)

Agrees(status, heard) == status = heard \/ (status = Absent /\ heard \in {Default, Nothing})

\* Everybody has the status that he was told, or a command to come.
AsTold ==
    faults \subseteq {"users"} =>
        \A u \in Users : told[u] # Trouble =>
            /\ Agrees(settings[u], told[u]) \/ Pending(u) \/ Saving(u) \/ phase = "insert"
            /\ phase # "down" => Agrees(userSettings[u], told[u]) \/ Pending(u)

\* Between two handlers the table has what memory has.
RowsAgree ==
    faults \subseteq {"second", "data"} /\ phase \in {"loop", "store"} => settings = userSettings

\* A user without a row is as one who has his alarm off.
Status(status) == IF status = Absent THEN Default ELSE status

\* i is the last command of u among the first n.
IsLast(i, u, n) ==
    /\ i \in 1 .. n /\ inbox[i].user = u
    /\ \A j \in 1 .. n : inbox[j].user = u => j <= i

\* An owner's status in memory is that of his last command that was handled.
LastApplied ==
    faults \subseteq {"second", "data"} =>
        \A u \in Users :
            /\ users[u] = Owner
            /\ \A i \in 1 .. taken : inbox[i].user = u => inbox[i].what # "password"
            => \A i \in 1 .. taken : IsLast(i, u, taken) => Status(userSettings[u]) = inbox[i].status

IInv ==
    /\ TypeOK
    /\ PhaseFits
    /\ OwnersTold
    /\ RowsInserted
    /\ RowsRead
    /\ OffAsTold
    /\ MessageKept
    /\ AsTold
    /\ RowsAgree
    /\ LastApplied

----------------------------------------------------------------------------
(* Commands and those of them that are still to be handled *)

LEMMA CommandsTyped ==
    ASSUME NEW c \in Commands
    PROVE  /\ c.user \in Users
           /\ c.what \in {"password", "arm", "disarm"}
           /\ c.what = "password" => c.code \in {User, Owner}
           /\ c.what = "arm" => c.status \in Modes
           /\ c.what = "disarm" => c.status = Default
BY DEF Commands

LEMMA ModesKnown == Default \notin Modes /\ Absent \notin Statuses /\ Trouble \notin Statuses /\ Nothing \notin Statuses
BY ModesAssumption DEF Default, Absent, Trouble, Nothing, Statuses

\* The command that is handled, or was handled last, is one of the inbox.
LEMMA HandledIsThere ==
    ASSUME TypeOK
    PROVE  /\ taken \in Nat /\ batch \in Nat /\ Len(inbox) \in Nat
           /\ DOMAIN inbox = 1 .. Len(inbox)
           /\ taken < batch => taken + 1 \in DOMAIN inbox /\ inbox[taken + 1] \in Commands
           /\ taken > 0 => taken \in DOMAIN inbox /\ inbox[taken] \in Commands
<1>1. Len(inbox) \in Nat /\ DOMAIN inbox = 1 .. Len(inbox) /\ \A i \in 1 .. Len(inbox) : inbox[i] \in Commands
  BY LenProperties, ElementOfSeq DEF TypeOK
<1>2. QED
  BY <1>1 DEF TypeOK

\* A new command leaves the others where they are.
LEMMA PostKeepsPending ==
    ASSUME TypeOK, NEW c \in Commands, Post(c)
    PROVE  /\ inbox' \in Seq(Commands) /\ Len(inbox') = Len(inbox) + 1
           /\ \A i \in DOMAIN inbox : i \in DOMAIN inbox' /\ inbox'[i] = inbox[i]
           /\ \A u : Pending(u) => Pending(u)'
<1>1. inbox' = Append(inbox, c) /\ inbox \in Seq(Commands) /\ taken' = taken
  BY DEF Post, TypeOK, telegram
<1>2. /\ inbox' \in Seq(Commands) /\ Len(inbox') = Len(inbox) + 1
      /\ \A i \in 1 .. Len(inbox) : inbox'[i] = inbox[i]
      /\ DOMAIN inbox = 1 .. Len(inbox) /\ DOMAIN inbox' = 1 .. Len(inbox) + 1
      /\ Len(inbox) \in Nat
  BY <1>1, AppendProperties, LenProperties
<1>3. \A i \in DOMAIN inbox : i \in DOMAIN inbox' /\ inbox'[i] = inbox[i]
  BY <1>2
<1>4. QED
  BY <1>1, <1>2, <1>3 DEF Pending

\* Telegram forgets only what was handled.
LEMMA GetUpdatesKeepsPending ==
    ASSUME TypeOK, GetUpdates
    PROVE  /\ inbox' \in Seq(Commands)
           /\ \A u : Pending(u) => Pending(u)'
<1>1. /\ inbox' = SubSeq(inbox, taken + 1, Len(inbox)) /\ taken' = 0
      /\ inbox \in Seq(Commands) /\ taken \in 0 .. Len(inbox)
  BY HandledIsThere DEF GetUpdates, TypeOK
<1>2. taken \in Nat /\ Len(inbox) \in Nat /\ DOMAIN inbox = 1 .. Len(inbox) /\ \A i \in 1 .. Len(inbox) : inbox[i] \in Commands
  BY <1>1, HandledIsThere, ElementOfSeq
<1>3. /\ inbox' \in Seq(Commands)
      /\ Len(inbox') = Len(inbox) - taken
      /\ \A i \in 1 .. Len(inbox) - taken : inbox'[i] = inbox[taken + i]
      /\ DOMAIN inbox' = 1 .. Len(inbox) - taken
  <2>1. \A i \in taken + 1 .. Len(inbox) : inbox[i] \in Commands
    BY <1>2
  <2>2. QED
    BY <1>1, <1>2, <2>1, SubSeqProperties
<1>4. ASSUME NEW u, NEW i \in DOMAIN inbox, i > taken, inbox[i].user = u, inbox[i].what # "password"
      PROVE  Pending(u)'
  <2>1. i - taken \in DOMAIN inbox' /\ i - taken > 0 /\ inbox'[i - taken] = inbox[i]
    BY <1>2, <1>3, <1>4
  <2>2. QED
    BY <1>1, <1>4, <2>1 DEF Pending
<1>5. QED
  BY <1>3, <1>4 DEF Pending

\* Handling a command of somebody else, or a code, leaves what is to come.
LEMMA HandlingKeepsPending ==
    ASSUME TypeOK, NEW c \in Commands, Handling(c)
    PROVE  /\ inbox' = inbox /\ batch' = batch /\ taken' = taken + 1 /\ taken + 1 <= batch
           /\ inbox'[taken'] = c
           /\ \A u : Pending(u) /\ (c.user # u \/ c.what = "password") => Pending(u)'
<1>1. inbox' = inbox /\ batch' = batch /\ taken' = taken + 1 /\ c = inbox[taken + 1] /\ taken < batch /\ taken \in Nat /\ batch \in Nat
  BY HandledIsThere DEF Handling
<1>2. DOMAIN inbox = 1 .. Len(inbox) /\ Len(inbox) \in Nat
  BY HandledIsThere
<1>3. ASSUME NEW u, c.user # u \/ c.what = "password",
             NEW i \in DOMAIN inbox, i > taken, inbox[i].user = u, inbox[i].what # "password"
      PROVE  Pending(u)'
  <2>1. i # taken + 1
    BY <1>1, <1>3
  <2>2. i > taken'
    BY <1>1, <1>2, <1>3, <2>1
  <2>3. QED
    BY <1>1, <1>3, <2>2 DEF Pending
<1>4. QED
  BY <1>1, <1>3 DEF Pending

\* After a crash all commands of the inbox are to come, the last one too.
LEMMA CrashKeepsPending ==
    ASSUME TypeOK, PhaseFits, Crash, NEW u, Pending(u) \/ Saving(u)
    PROVE  Pending(u)'
<1>1. inbox' = inbox /\ taken' = 0
  BY DEF Crash
<1>2. CASE Pending(u)
  BY <1>1, <1>2, HandledIsThere DEF Pending
<1>3. CASE Saving(u)
  <2>1. taken \in DOMAIN inbox /\ taken > 0 /\ inbox[taken].user = u /\ inbox[taken].what # "password"
    BY <1>3, HandledIsThere DEF Saving, PhaseFits
  <2>2. QED
    BY <1>1, <2>1 DEF Pending
<1>4. QED
  BY <1>2, <1>3

----------------------------------------------------------------------------
(* Types *)

LEMMA TypeInit == Init => TypeOK
<1>1. << >> \in Seq(Commands) /\ Len(<< >>) = 0
  BY EmptySeq
<1>2. NoRows \in [Users -> Statuses \union {Absent}]
  BY DEF NoRows
<1>3. SUFFICES ASSUME Init
               PROVE  TypeOK
  OBVIOUS
<1>4. users \in [Users -> {NoAccess, User, Owner}] /\ told \in [Users -> Statuses \union {Trouble, Nothing}]
  BY <1>3 DEF Init
<1>5. inbox \in Seq(Commands) /\ batch \in 0 .. Len(inbox) /\ taken \in 0 .. batch
  BY <1>1, <1>3 DEF Init
<1>6. QED
  BY <1>2, <1>3, <1>4, <1>5 DEF Init, TypeOK

LEMMA TypeStep == TypeOK /\ [Next]_vars => TypeOK'
<1> SUFFICES ASSUME TypeOK, [Next]_vars
             PROVE  TypeOK'
  OBVIOUS
<1>1. CASE Crash
  <2>1. userSettings' \in [Users -> Statuses \union {Absent}] /\ faults' \subseteq FaultKinds
    BY <1>1 DEF TypeOK, Crash, NoRows, Fault, FaultKinds
  <2>2. batch' \in 0 .. Len(inbox') /\ taken' \in 0 .. batch'
    BY <1>1, HandledIsThere DEF Crash
  <2>3. QED
    BY <1>1, <2>1, <2>2 DEF TypeOK, Crash, tables
<1>2. CASE Start
  <2>1. /\ database' \in BOOLEAN
        /\ userSettings' \in [Users -> Statuses \union {Absent}]
        /\ lastMessage' \in Keywords \union {NoKeyword}
        /\ faults' \subseteq FaultKinds
    <3>1. CASE Restored
      BY <3>1 DEF TypeOK, Restored
    <3>2. CASE RestoredInPart
      <4>1. PICK U \in SUBSET Users :
              userSettings' = [u \in Users |-> IF u \in U THEN settings[u] ELSE Absent]
        BY <3>2 DEF RestoredInPart
      <4>2. QED
        BY <3>2, <4>1 DEF TypeOK, RestoredInPart, Fault, FaultKinds
    <3>3. QED
      BY <1>2, <3>1, <3>2 DEF Start
  <2>2. QED
    BY <1>2, <2>1 DEF TypeOK, Start, tables, telegram
<1>3. CASE GetUpdates
  <2>1. inbox' \in Seq(Commands) /\ Len(inbox') \in Nat
    BY <1>3, GetUpdatesKeepsPending, LenProperties
  <2>2. QED
    BY <1>3, <2>1 DEF TypeOK, GetUpdates, tables, memory, handler
<1>4. CASE Updates
  BY <1>4, HandledIsThere DEF TypeOK, Updates, tables, memory, handler
<1>5. ASSUME NEW c \in Commands, Post(c)
      PROVE  TypeOK'
  <2>1. inbox' \in Seq(Commands) /\ batch' \in 0 .. Len(inbox') /\ taken' \in 0 .. batch'
    BY <1>5, PostKeepsPending, HandledIsThere DEF Post, telegram, TypeOK
  <2>2. QED
    BY <1>5, <2>1 DEF TypeOK, Post, tables, memory, handler
<1>6. ASSUME NEW c \in Commands, Handling(c)
      PROVE  c.user \in Users /\ inbox' \in Seq(Commands) /\ batch' \in 0 .. Len(inbox') /\ taken' \in 0 .. batch'
  BY <1>6, HandlingKeepsPending, CommandsTyped, HandledIsThere DEF TypeOK
<1>7. ASSUME NEW c \in Commands, HandleWithoutUser(c)
      PROVE  TypeOK'
  <2>1. Handling(c)
    BY <1>7 DEF HandleWithoutUser
  <2>2. QED
    BY <1>6, <1>7, <2>1 DEF TypeOK, HandleWithoutUser, StatementFails, Fault, Tell, FaultKinds, tables, memory, handler
<1>8. ASSUME NEW c \in Commands, HandlePassword(c)
      PROVE  TypeOK'
  <2>1. Handling(c) /\ c.code \in {User, Owner}
    BY <1>8, CommandsTyped DEF HandlePassword
  <2>2. users' \in [Users -> {NoAccess, User, Owner}] /\ faults' \subseteq FaultKinds
    BY <1>6, <1>8, <2>1 DEF TypeOK, HandlePassword, StatementFails, Fault, FaultKinds
  <2>3. QED
    BY <1>6, <1>8, <2>1, <2>2 DEF TypeOK, HandlePassword, memory, handler
<1>9. ASSUME NEW c \in Commands, HandleRefused(c)
      PROVE  TypeOK'
  <2>1. Handling(c)
    BY <1>9 DEF HandleRefused
  <2>2. QED
    BY <1>6, <1>9, <2>1 DEF TypeOK, HandleRefused, tables, memory, handler
<1>10. ASSUME NEW c \in Commands, HandleArm(c)
       PROVE  TypeOK'
  <2>1. Handling(c) /\ c.status \in Statuses
    BY <1>10, CommandsTyped DEF HandleArm, Statuses
  <2>2. QED
    BY <1>6, <1>10, <2>1 DEF TypeOK, HandleArm, Set, Tell, tables
<1>11. ASSUME NEW c \in Commands, HandleDisarm(c)
       PROVE  TypeOK'
  <2>1. Handling(c) /\ Default \in Statuses
    BY <1>11 DEF HandleDisarm, Statuses
  <2>2. QED
    BY <1>6, <1>11, <2>1 DEF TypeOK, HandleDisarm, Disarmed, Set, Tell, tables
<1>12. CASE DeleteRows
  BY <1>12 DEF TypeOK, DeleteRows, NoRows, ToInsert, memory, telegram
<1>13. ASSUME NEW u \in Users, InsertRow(u)
       PROVE  TypeOK'
  BY <1>13 DEF TypeOK, InsertRow, memory, telegram
<1>14. CASE SaveFails
  <2>1. told' \in [Users -> Statuses \union {Trouble, Nothing}]
    BY <1>14 DEF TypeOK, SaveFails, Tell
  <2>2. QED
    BY <1>14, <2>1 DEF TypeOK, SaveFails, Fault, FaultKinds, tables, memory, telegram
<1>15. ASSUME NEW k \in Keywords, HandleEvent(k)
       PROVE  TypeOK'
  BY <1>15 DEF TypeOK, HandleEvent, tables, memory, telegram
<1>16. CASE StoreEvent
  <2>1. row' \in Keywords \union {NoKeyword} /\ faults' \subseteq FaultKinds
    BY <1>16 DEF TypeOK, StoreEvent, StoreRow, StatementFails, Fault, FaultKinds
  <2>2. QED
    BY <1>16, <2>1 DEF TypeOK, StoreEvent, NoKeyword, telegram
<1>17. CASE UNCHANGED vars
  BY <1>17 DEF TypeOK, vars, tables, memory, handler, telegram
<1>18. QED
  BY <1>1, <1>2, <1>3, <1>4, <1>5, <1>7, <1>8, <1>9, <1>10, <1>11, <1>12, <1>13, <1>14,
     <1>15, <1>16, <1>17 DEF Next

----------------------------------------------------------------------------
(* Phases *)

LEMMA PhaseStep == TypeOK /\ PhaseFits /\ [Next]_vars => PhaseFits'
<1> SUFFICES ASSUME TypeOK, PhaseFits, [Next]_vars
             PROVE  PhaseFits'
  OBVIOUS
<1>1. CASE Crash
  BY <1>1 DEF PhaseFits, Crash
<1>2. CASE Start
  BY <1>2 DEF PhaseFits, Start, telegram
<1>3. CASE GetUpdates
  BY <1>3 DEF PhaseFits, GetUpdates, handler
<1>4. CASE Updates
  BY <1>4 DEF PhaseFits, Updates, handler
<1>5. ASSUME NEW c \in Commands, Post(c)
      PROVE  PhaseFits'
  <2>1. taken' = taken /\ (taken > 0 => inbox'[taken] = inbox[taken])
    BY <1>5, PostKeepsPending, HandledIsThere DEF Post, telegram
  <2>2. QED
    BY <1>5, <2>1 DEF PhaseFits, Post, memory, handler, telegram
<1>6. ASSUME NEW c \in Commands, HandleWithoutUser(c)
      PROVE  PhaseFits'
  BY <1>6 DEF PhaseFits, HandleWithoutUser, Handling, memory, handler
<1>7. ASSUME NEW c \in Commands, HandlePassword(c)
      PROVE  PhaseFits'
  BY <1>7 DEF PhaseFits, HandlePassword, Handling, memory, handler
<1>8. ASSUME NEW c \in Commands, HandleRefused(c)
      PROVE  PhaseFits'
  BY <1>8 DEF PhaseFits, HandleRefused, Handling, memory, handler
<1>9. ASSUME NEW c \in Commands, Handling(c), NEW status \in Statuses, Set(c.user, status),
             c.what # "password", UNCHANGED alerted
      PROVE  PhaseFits'
  <2>1. taken' > 0 /\ inbox'[taken'] = c /\ c.user \in Users
    BY <1>9, HandlingKeepsPending, CommandsTyped, HandledIsThere
  <2>2. told'[c.user] = status /\ phase' = "delete" /\ phase = "loop"
    BY <1>9, <2>1 DEF Set, Tell, TypeOK, Handling
  <2>3. QED
    BY <1>9, <2>1, <2>2 DEF PhaseFits
<1>10. ASSUME NEW c \in Commands, HandleArm(c)
       PROVE  PhaseFits'
  <2>1. c.status \in Statuses
    BY <1>10, CommandsTyped DEF HandleArm, Statuses
  <2>2. QED
    BY <1>9, <1>10, <2>1 DEF HandleArm
<1>11. ASSUME NEW c \in Commands, HandleDisarm(c)
       PROVE  PhaseFits'
  <2>1. CASE Set(c.user, Default)
    BY <1>9, <1>11, <2>1 DEF HandleDisarm, Statuses
  <2>2. CASE ~Set(c.user, Default)
    BY <1>11, <2>2 DEF PhaseFits, HandleDisarm, Disarmed, Handling
  <2>3. QED
    BY <2>1, <2>2
<1>12. CASE DeleteRows
  BY <1>12 DEF PhaseFits, DeleteRows, telegram
<1>13. ASSUME NEW u \in Users, InsertRow(u)
       PROVE  PhaseFits'
  BY <1>13 DEF PhaseFits, InsertRow, telegram
<1>14. CASE SaveFails
  BY <1>14 DEF PhaseFits, SaveFails
<1>15. ASSUME NEW k \in Keywords, HandleEvent(k)
       PROVE  PhaseFits'
  BY <1>15 DEF PhaseFits, HandleEvent, memory
<1>16. CASE StoreEvent
  BY <1>16 DEF PhaseFits, StoreEvent
<1>17. CASE UNCHANGED vars
  BY <1>17 DEF PhaseFits, vars, memory, handler, telegram
<1>18. QED
  BY <1>1, <1>2, <1>3, <1>4, <1>5, <1>6, <1>7, <1>8, <1>10, <1>11, <1>12, <1>13, <1>14,
     <1>15, <1>16, <1>17 DEF Next

----------------------------------------------------------------------------
(* Owners *)

\* Nobody loses the access of an owner, and nobody else is given a setting.
LEMMA OwnersStep == TypeOK /\ PhaseFits /\ OwnersTold /\ [Next]_vars => OwnersTold'
<1> SUFFICES ASSUME TypeOK, PhaseFits, OwnersTold, [Next]_vars, NEW u \in Users,
                    settings'[u] # Absent \/ userSettings'[u] # Absent \/ told'[u] \in Statuses
             PROVE  users'[u] = Owner
  BY DEF OwnersTold
<1>0. /\ settings[u] # Absent => users[u] = Owner
      /\ userSettings[u] # Absent => users[u] = Owner
      /\ told[u] \in Statuses => users[u] = Owner
  BY DEF OwnersTold
<1>1. CASE Crash
  BY <1>0, <1>1 DEF Crash, tables, NoRows
<1>2. CASE Start
  <2>1. userSettings'[u] \in {settings[u], Absent}
    <3>1. CASE Restored
      BY <3>1 DEF Restored
    <3>2. CASE RestoredInPart
      BY <3>2 DEF RestoredInPart
    <3>3. QED
      BY <1>2, <3>1, <3>2 DEF Start
  <2>2. QED
    BY <1>0, <1>2, <2>1 DEF Start, tables
<1>3. CASE GetUpdates
  BY <1>0, <1>3 DEF GetUpdates, tables, memory
<1>4. CASE Updates
  BY <1>0, <1>4 DEF Updates, tables, memory
<1>5. ASSUME NEW c \in Commands, Post(c)
      PROVE  users'[u] = Owner
  BY <1>0, <1>5 DEF Post, tables, memory
<1>6. ASSUME NEW c \in Commands, HandleWithoutUser(c)
      PROVE  users'[u] = Owner
  BY <1>0, <1>6, ModesKnown DEF HandleWithoutUser, Tell, TypeOK, tables, memory
<1>7. ASSUME NEW c \in Commands, HandlePassword(c)
      PROVE  users'[u] = Owner
  <2>1. users[u] = Owner
    BY <1>0, <1>7 DEF HandlePassword, memory
  <2>2. c.code \in {User, Owner} /\ c.user \in Users
    BY <1>7, CommandsTyped DEF HandlePassword
  <2>3. users' = users \/ (Raises(c) /\ users' = [users EXCEPT ![c.user] = c.code])
    BY <1>7 DEF HandlePassword
  <2>4. CASE Raises(c) /\ c.user = u
    BY <2>1, <2>2, <2>4 DEF Raises, User, Owner
  <2>5. QED
    BY <2>1, <2>3, <2>4 DEF TypeOK
<1>8. ASSUME NEW c \in Commands, HandleRefused(c)
      PROVE  users'[u] = Owner
  BY <1>0, <1>8 DEF HandleRefused, tables, memory
<1>9. ASSUME NEW c \in Commands, HandleArm(c)
      PROVE  users'[u] = Owner
  <2>1. CASE c.user = u
    BY <1>9, <2>1 DEF HandleArm, tables
  <2>2. CASE c.user # u
    BY <1>0, <1>9, <2>2 DEF HandleArm, Set, Tell, TypeOK, tables
  <2>3. QED
    BY <2>1, <2>2
<1>10. ASSUME NEW c \in Commands, HandleDisarm(c)
       PROVE  users'[u] = Owner
  <2>1. CASE c.user = u
    BY <1>10, <2>1 DEF HandleDisarm, tables
  <2>2. CASE c.user # u
    BY <1>0, <1>10, <2>2 DEF HandleDisarm, Disarmed, Set, Tell, TypeOK, tables
  <2>3. QED
    BY <2>1, <2>2
<1>11. CASE DeleteRows
  BY <1>0, <1>11 DEF DeleteRows, NoRows, memory
<1>12. ASSUME NEW v \in Users, InsertRow(v)
       PROVE  users'[u] = Owner
  BY <1>0, <1>12 DEF InsertRow, memory, TypeOK
<1>13. CASE SaveFails
  BY <1>0, <1>13, ModesKnown DEF SaveFails, Tell, TypeOK, tables, memory
<1>14. ASSUME NEW k \in Keywords, HandleEvent(k)
       PROVE  users'[u] = Owner
  BY <1>0, <1>14 DEF HandleEvent, tables, memory
<1>15. CASE StoreEvent
  BY <1>0, <1>15 DEF StoreEvent
<1>16. CASE UNCHANGED vars
  BY <1>0, <1>16 DEF vars, tables, memory
<1>17. QED
  BY <1>1, <1>2, <1>3, <1>4, <1>5, <1>6, <1>7, <1>8, <1>9, <1>10, <1>11, <1>12, <1>13,
     <1>14, <1>15, <1>16 DEF Next

----------------------------------------------------------------------------
(* The table and memory *)

\* Every start reads some of the rows; all of them, unless that is a fault.
LEMMA StartReads ==
    ASSUME Start
    PROVE  \/ userSettings' = settings /\ lastMessage' = row /\ database' = TRUE /\ faults' = faults
           \/ "load" \in faults'
BY DEF Start, Restored, RestoredInPart, Fault

LEMMA RowsInsertedStep == TypeOK /\ RowsInserted /\ [Next]_vars => RowsInserted'
<1> SUFFICES ASSUME TypeOK, RowsInserted, [Next]_vars,
                    phase' = "insert", NEW u \in Users \ unsaved'
             PROVE  settings'[u] = userSettings'[u]
  BY DEF RowsInserted
<1>1. CASE DeleteRows
  BY <1>1 DEF DeleteRows, NoRows, ToInsert, memory
<1>2. ASSUME NEW v \in Users, InsertRow(v)
      PROVE  settings'[u] = userSettings'[u]
  <2>1. unsaved' = unsaved \ {v} /\ userSettings' = userSettings
    BY <1>2 DEF InsertRow, memory
  <2>2. QED
    BY <1>2, <2>1 DEF InsertRow, RowsInserted, TypeOK
<1>3. CASE phase = "insert" /\ UNCHANGED <<settings, userSettings, unsaved>>
  BY <1>3 DEF RowsInserted
<1>4. ASSUME NEW c \in Commands, Post(c)
      PROVE  settings'[u] = userSettings'[u]
  BY <1>3, <1>4 DEF Post, tables, memory, handler
<1>5. CASE UNCHANGED vars
  BY <1>3, <1>5 DEF vars, tables, memory, handler
<1>6. phase' # "insert" \/ phase = phase'
      \/ DeleteRows \/ \E v \in Users : InsertRow(v)
  BY DEF Next, Crash, Start, GetUpdates, Updates, HandleWithoutUser, HandlePassword, HandleRefused,
         HandleArm, HandleDisarm, Disarmed, Set, SaveFails, HandleEvent, StoreEvent, Post, vars, handler
<1>7. CASE phase = "insert"
  BY <1>1, <1>2, <1>4, <1>5, <1>7
     DEF Next, Crash, Start, GetUpdates, Updates, HandleWithoutUser, HandlePassword, HandleRefused,
         HandleArm, HandleDisarm, Handling, SaveFails, HandleEvent, StoreEvent
<1>8. QED
  BY <1>1, <1>2, <1>6, <1>7

\* The save ends with the table as memory is.
LEMMA SaveCompletes ==
    ASSUME TypeOK, RowsInserted, NEW v \in Users, InsertRow(v), phase' = "loop"
    PROVE  settings' = userSettings
<1>1. phase = "insert" /\ unsaved \ {v} = {}
  BY DEF InsertRow, Finished
<1>2. \A u \in Users : settings'[u] = userSettings[u]
  <2>1. \A u \in Users : u # v => settings[u] = userSettings[u]
    BY <1>1 DEF RowsInserted
  <2>2. settings' = [settings EXCEPT ![v] = userSettings[v]]
    BY DEF InsertRow
  <2>3. QED
    BY <2>1, <2>2 DEF TypeOK
<1>3. settings' \in [Users -> Statuses \union {Absent}]
  BY DEF InsertRow, TypeOK
<1>4. QED
  BY <1>2, <1>3 DEF TypeOK

LEMMA RowsReadStep == TypeOK /\ RowsRead /\ [Next]_vars => RowsRead'
<1> SUFFICES ASSUME TypeOK, RowsRead, [Next]_vars, "load" \notin faults', phase' # "down"
             PROVE  database' /\ \A u \in Users : settings'[u] # Absent => userSettings'[u] # Absent
  BY DEF RowsRead
<1> DEFINE Goal == database' /\ \A u \in Users : settings'[u] # Absent => userSettings'[u] # Absent
<1>1. CASE Start
  BY <1>1, StartReads DEF Start, tables
<1>2. CASE ~Start
  <2>1. "load" \notin faults /\ phase # "down"
    BY <1>2 DEF Next, Crash, GetUpdates, Updates, HandleWithoutUser, HandlePassword, HandleRefused,
           HandleArm, HandleDisarm, Handling, DeleteRows, InsertRow, SaveFails, HandleEvent, StoreEvent,
           StoreRow, StatementFails, Fault, Post, vars, handler
  <2>2. database /\ \A u \in Users : settings[u] # Absent => userSettings[u] # Absent
    BY <2>1 DEF RowsRead
  <2>3. CASE UNCHANGED <<settings, userSettings, database>>
    BY <2>2, <2>3
  <2>4. ASSUME NEW c \in Commands, HandleArm(c) \/ HandleDisarm(c)
        PROVE  Goal
    <3>1. UNCHANGED <<settings, database>>
      BY <2>4 DEF HandleArm, HandleDisarm, tables
    <3>2. PICK status \in Statuses :
            userSettings' \in {userSettings, [userSettings EXCEPT ![c.user] = status]}
      <4>1. CASE HandleArm(c)
        BY <4>1, CommandsTyped DEF HandleArm, Set, Statuses
      <4>2. CASE HandleDisarm(c)
        BY <4>2 DEF HandleDisarm, Disarmed, Set, Statuses
      <4>3. QED
        BY <2>4, <4>1, <4>2
    <3>3. QED
      BY <2>2, <3>1, <3>2, ModesKnown DEF TypeOK
  <2>5. CASE DeleteRows
    BY <2>2, <2>5 DEF DeleteRows, NoRows, memory
  <2>6. ASSUME NEW v \in Users, InsertRow(v)
        PROVE  Goal
    BY <2>2, <2>6 DEF InsertRow, memory, TypeOK
  <2>7. QED
    BY <1>2, <2>3, <2>4, <2>5, <2>6
       DEF Next, Crash, GetUpdates, Updates, HandleWithoutUser, HandlePassword, HandleRefused,
           SaveFails, HandleEvent, StoreEvent, Post, vars, tables, memory
<1>3. QED
  BY <1>1, <1>2

----------------------------------------------------------------------------
(* What users were told *)

\* A fault is not forgotten.
LEMMA FaultsStay == [Next]_vars => faults \subseteq faults'
BY DEF Next, Crash, Start, Restored, RestoredInPart, GetUpdates, Updates, HandleWithoutUser,
       HandlePassword, HandleRefused, HandleArm, HandleDisarm, DeleteRows, InsertRow, SaveFails,
       HandleEvent, StoreEvent, StoreRow, StatementFails, Fault, Post, vars

\* What is to come and what is being saved depends on no more than this.
LEMMA SameCommands ==
    ASSUME UNCHANGED <<inbox, taken>>, NEW u
    PROVE  /\ Pending(u)' <=> Pending(u)
           /\ phase' = phase => (Saving(u)' <=> Saving(u))
BY DEF Pending, Saving

LEMMA PostKeepsSaving ==
    ASSUME TypeOK, PhaseFits, NEW c \in Commands, Post(c), NEW u, Saving(u)
    PROVE  Saving(u)'
<1>1. taken \in DOMAIN inbox /\ taken' = taken /\ phase' = phase
  BY HandledIsThere DEF Saving, PhaseFits, Post, telegram, handler
<1>2. inbox'[taken] = inbox[taken]
  BY <1>1, PostKeepsPending
<1>3. QED
  BY <1>1, <1>2 DEF Saving

LEMMA OffStep ==
    TypeOK /\ PhaseFits /\ OwnersTold /\ RowsInserted /\ RowsRead /\ OffAsTold /\ [Next]_vars
        => OffAsTold'
<1> SUFFICES ASSUME TypeOK, PhaseFits, OwnersTold, RowsInserted, RowsRead, OffAsTold, [Next]_vars,
                    "load" \notin faults', NEW u \in Users, told'[u] = Default
             PROVE  /\ Off(settings'[u]) \/ Pending(u)' \/ Saving(u)'
                    /\ phase' # "down" => Off(userSettings'[u]) \/ Pending(u)'
  BY DEF OffAsTold
<1> DEFINE Goal == /\ Off(settings'[u]) \/ Pending(u)' \/ Saving(u)'
                   /\ phase' # "down" => Off(userSettings'[u]) \/ Pending(u)'
<1>0. /\ "load" \notin faults
      /\ told[u] = Default => Off(settings[u]) \/ Pending(u) \/ Saving(u)
      /\ told[u] = Default /\ phase # "down" => Off(userSettings[u]) \/ Pending(u)
      /\ phase \notin {"delete", "insert"} => ~Saving(u)
  BY FaultsStay DEF OffAsTold, Saving
<1>1. CASE Crash
  BY <1>0, <1>1, CrashKeepsPending DEF Crash, tables
<1>2. CASE Start
  BY <1>0, <1>2, StartReads, SameCommands DEF Start, tables, telegram
<1>3. CASE GetUpdates
  BY <1>0, <1>3, GetUpdatesKeepsPending DEF GetUpdates, tables, memory, handler
<1>4. CASE Updates
  BY <1>0, <1>4, SameCommands DEF Updates, tables, memory, handler
<1>5. ASSUME NEW c \in Commands, Post(c)
      PROVE  Goal
  BY <1>0, <1>5, PostKeepsPending, PostKeepsSaving DEF Post, tables, memory, handler
<1>6. ASSUME NEW c \in Commands, HandleWithoutUser(c)
      PROVE  Goal
  <2>1. c.user # u
    BY <1>6, ModesKnown DEF HandleWithoutUser, Tell, TypeOK, Statuses
  <2>2. QED
    BY <1>0, <1>6, <2>1, HandlingKeepsPending
       DEF HandleWithoutUser, Handling, Tell, TypeOK, tables, memory, handler
<1>7. ASSUME NEW c \in Commands, HandlePassword(c)
      PROVE  Goal
  BY <1>0, <1>7, HandlingKeepsPending DEF HandlePassword, Handling, memory, handler
<1>8. ASSUME NEW c \in Commands, HandleRefused(c)
      PROVE  Goal
  <2>1. c.user # u
    BY <1>8 DEF HandleRefused, OwnersTold, Statuses, Owner
  <2>2. QED
    BY <1>0, <1>8, <2>1, HandlingKeepsPending DEF HandleRefused, Handling, tables, memory, handler
<1>9. ASSUME NEW c \in Commands, HandleArm(c)
      PROVE  Goal
  <2>1. c.user # u
    BY <1>9, CommandsTyped, ModesKnown DEF HandleArm, Set, Tell, TypeOK
  <2>2. told'[u] = told[u] /\ userSettings'[u] = userSettings[u]
    BY <1>9, <2>1 DEF HandleArm, Set, Tell, TypeOK
  <2>3. QED
    BY <1>0, <1>9, <2>1, <2>2, HandlingKeepsPending DEF HandleArm, Handling, tables
<1>10. ASSUME NEW c \in Commands, HandleDisarm(c)
       PROVE  Goal
  <2>1. CASE c.user # u
    <3>1. told'[u] = told[u] /\ userSettings'[u] = userSettings[u]
      BY <1>10, <2>1 DEF HandleDisarm, Disarmed, Set, Tell, TypeOK
    <3>2. QED
      BY <1>0, <1>10, <2>1, <3>1, HandlingKeepsPending DEF HandleDisarm, Handling, tables
  <2>2. CASE c.user = u /\ userSettings[u] # Absent
    <3>1. userSettings'[u] = Default /\ phase' = "delete"
      BY <1>10, <2>2 DEF HandleDisarm, Disarmed, Set, TypeOK
    <3>2. inbox'[taken'] = c
      BY <1>10, HandlingKeepsPending DEF HandleDisarm
    <3>3. QED
      BY <2>2, <3>1, <3>2 DEF Saving, Off
  <2>3. CASE c.user = u /\ userSettings[u] = Absent
    <3>1. settings[u] = Absent
      BY <1>0, <1>10, <2>3 DEF HandleDisarm, Handling, RowsRead
    <3>2. QED
      BY <1>10, <2>3, <3>1 DEF HandleDisarm, Disarmed, Off, tables
  <2>4. QED
    BY <2>1, <2>2, <2>3
<1>11. CASE DeleteRows
  BY <1>0, <1>11, SameCommands DEF DeleteRows, NoRows, Off, memory, telegram
<1>12. ASSUME NEW v \in Users, InsertRow(v)
       PROVE  Goal
  <2>1. /\ phase = "insert" /\ phase' \in {"loop", "insert"}
        /\ UNCHANGED <<told, userSettings, inbox, taken>>
    BY <1>12 DEF InsertRow, memory, telegram
  <2>2. CASE settings'[u] = userSettings[u]
    BY <1>0, <2>1, <2>2, SameCommands
  <2>3. CASE settings'[u] = settings[u] /\ phase' = "insert"
    BY <1>0, <2>1, <2>3, SameCommands
  <2>4. QED
    BY <1>12, <2>1, <2>2, <2>3, SaveCompletes DEF InsertRow, TypeOK
<1>13. CASE SaveFails
  <2>1. ~Saving(u) /\ told'[u] = told[u]
    BY <1>13, ModesKnown DEF SaveFails, Tell, Saving, TypeOK, Statuses
  <2>2. QED
    BY <1>0, <1>13, <2>1, SameCommands DEF SaveFails, tables, memory, telegram
<1>14. ASSUME NEW k \in Keywords, HandleEvent(k)
       PROVE  Goal
  BY <1>0, <1>14, SameCommands DEF HandleEvent, tables, memory, telegram
<1>15. CASE StoreEvent
  BY <1>0, <1>15, SameCommands DEF StoreEvent, telegram
<1>16. CASE UNCHANGED vars
  BY <1>0, <1>16, SameCommands DEF vars, tables, memory, handler, telegram
<1>17. QED
  BY <1>1, <1>2, <1>3, <1>4, <1>5, <1>6, <1>7, <1>8, <1>9, <1>10, <1>11, <1>12, <1>13,
     <1>14, <1>15, <1>16 DEF Next

LEMMA MessageStep == TypeOK /\ RowsRead /\ MessageKept /\ [Next]_vars => MessageKept'
<1> SUFFICES ASSUME TypeOK, RowsRead, MessageKept, [Next]_vars, faults' \subseteq {"users"}
             PROVE  row' = lastEvent' /\ (phase' # "down" => lastMessage' = lastEvent')
  BY DEF MessageKept
<1>1. /\ faults \subseteq {"users"}
      /\ row = lastEvent
      /\ phase # "down" => lastMessage = lastEvent
  BY FaultsStay DEF MessageKept
<1>2. CASE Start
  BY <1>1, <1>2, StartReads DEF Start, tables
<1>3. CASE StoreEvent
  <2>1. database
    BY <1>1, <1>3 DEF RowsRead, StoreEvent
  <2>2. row' = event
    BY <1>3, <2>1 DEF StoreEvent, StoreRow, StatementFails, Fault
  <2>3. QED
    BY <1>3, <2>2 DEF StoreEvent
<1>4. CASE phase' = "down" /\ UNCHANGED <<row, lastEvent>>
  BY <1>1, <1>4
<1>5. CASE phase # "down" /\ UNCHANGED <<row, lastMessage, lastEvent>>
  BY <1>1, <1>5
<1>6. CASE UNCHANGED <<row, lastMessage, lastEvent, phase>>
  BY <1>1, <1>6
<1>7. QED
  BY <1>2, <1>3, <1>4, <1>5, <1>6
     DEF Next, Crash, GetUpdates, Updates, Post, HandleWithoutUser, HandlePassword, HandleRefused,
         HandleArm, HandleDisarm, Handling, DeleteRows, InsertRow, SaveFails, HandleEvent,
         vars, tables, memory, handler

LEMMA ToldStep ==
    TypeOK /\ PhaseFits /\ OwnersTold /\ RowsInserted /\ RowsRead /\ AsTold /\ [Next]_vars
        => AsTold'
<1> SUFFICES ASSUME TypeOK, PhaseFits, OwnersTold, RowsInserted, RowsRead, AsTold, [Next]_vars,
                    faults' \subseteq {"users"}, NEW u \in Users, told'[u] # Trouble
             PROVE  /\ Agrees(settings'[u], told'[u]) \/ Pending(u)' \/ Saving(u)' \/ phase' = "insert"
                    /\ phase' # "down" => Agrees(userSettings'[u], told'[u]) \/ Pending(u)'
  BY DEF AsTold
<1> DEFINE Goal == /\ Agrees(settings'[u], told'[u]) \/ Pending(u)' \/ Saving(u)' \/ phase' = "insert"
                   /\ phase' # "down" => Agrees(userSettings'[u], told'[u]) \/ Pending(u)'
<1>0. /\ faults \subseteq {"users"} /\ "load" \notin faults'
      /\ told[u] # Trouble =>
            Agrees(settings[u], told[u]) \/ Pending(u) \/ Saving(u) \/ phase = "insert"
      /\ told[u] # Trouble /\ phase # "down" => Agrees(userSettings[u], told[u]) \/ Pending(u)
      /\ phase \notin {"delete", "insert"} => ~Saving(u)
  BY FaultsStay DEF AsTold, Saving
<1>1. CASE Crash
  <2>1. phase # "insert"
    BY <1>1 DEF Crash, Fault
  <2>2. QED
    BY <1>0, <1>1, <2>1, CrashKeepsPending DEF Crash, tables
<1>2. CASE Start
  BY <1>0, <1>2, StartReads, SameCommands DEF Start, tables, telegram
<1>3. CASE GetUpdates
  BY <1>0, <1>3, GetUpdatesKeepsPending DEF GetUpdates, tables, memory, handler
<1>4. CASE Updates
  BY <1>0, <1>4, SameCommands DEF Updates, tables, memory, handler
<1>5. ASSUME NEW c \in Commands, Post(c)
      PROVE  Goal
  BY <1>0, <1>5, PostKeepsPending, PostKeepsSaving DEF Post, tables, memory, handler
<1>6. ASSUME NEW c \in Commands, HandleWithoutUser(c)
      PROVE  Goal
  <2>1. c.user # u
    BY <1>6 DEF HandleWithoutUser, Tell, TypeOK
  <2>2. QED
    BY <1>0, <1>6, <2>1, HandlingKeepsPending
       DEF HandleWithoutUser, Handling, Tell, TypeOK, tables, memory, handler
<1>7. ASSUME NEW c \in Commands, HandlePassword(c)
      PROVE  Goal
  BY <1>0, <1>7, HandlingKeepsPending DEF HandlePassword, Handling, memory, handler
<1>8. ASSUME NEW c \in Commands, HandleRefused(c)
      PROVE  Goal
  <2>1. CASE c.user # u
    BY <1>0, <1>8, <2>1, HandlingKeepsPending DEF HandleRefused, Handling, tables, memory, handler
  <2>2. CASE c.user = u
    <3>1. settings[u] = Absent /\ userSettings[u] = Absent /\ told[u] \notin Statuses
      BY <1>8, <2>2 DEF HandleRefused, OwnersTold, Owner
    <3>2. UNCHANGED <<settings, userSettings, told>>
      BY <1>8 DEF HandleRefused, tables, memory
    <3>3. told'[u] = Nothing
      BY <3>1, <3>2 DEF TypeOK
    <3>4. QED
      BY <3>1, <3>2, <3>3 DEF Agrees
  <2>3. QED
    BY <2>1, <2>2
<1>9. ASSUME NEW c \in Commands, NEW status \in Statuses, Handling(c), Set(c.user, status),
             c.user \in Users, UNCHANGED tables
      PROVE  Goal
  <2>1. CASE c.user # u
    <3>1. told'[u] = told[u] /\ userSettings'[u] = userSettings[u]
      BY <1>9, <2>1 DEF Set, Tell, TypeOK
    <3>2. QED
      BY <1>0, <1>9, <2>1, <3>1, HandlingKeepsPending DEF Handling, tables
  <2>2. CASE c.user = u
    <3>1. userSettings'[u] = status /\ told'[u] = status /\ phase' = "delete"
      BY <1>9, <2>2 DEF Set, Tell, TypeOK
    <3>2. inbox'[taken'] = c
      BY <1>9, HandlingKeepsPending
    <3>3. QED
      BY <2>2, <3>1, <3>2 DEF Saving, Agrees
  <2>3. QED
    BY <2>1, <2>2
<1>10. ASSUME NEW c \in Commands, HandleArm(c)
       PROVE  Goal
  BY <1>9, <1>10, CommandsTyped DEF HandleArm, Statuses
<1>11. ASSUME NEW c \in Commands, HandleDisarm(c)
       PROVE  Goal
  <2>1. CASE userSettings[c.user] # Absent
    BY <1>9, <1>11, <2>1, CommandsTyped DEF HandleDisarm, Disarmed, Statuses
  <2>2. CASE userSettings[c.user] = Absent
    <3>1. /\ told' = [told EXCEPT ![c.user] = Default]
          /\ UNCHANGED <<settings, userSettings, phase>>
          /\ phase = "loop" /\ c.user \in Users
      BY <1>11, <2>2, CommandsTyped DEF HandleDisarm, Disarmed, Tell, Handling, tables
    <3>2. CASE c.user # u
      BY <1>0, <1>11, <3>1, <3>2, HandlingKeepsPending DEF HandleDisarm, TypeOK
    <3>3. CASE c.user = u
      <4>1. settings[u] = Absent
        BY <1>0, <2>2, <3>1, <3>3 DEF RowsRead
      <4>2. QED
        BY <2>2, <3>1, <3>3, <4>1 DEF Agrees, TypeOK
    <3>4. QED
      BY <3>2, <3>3
  <2>3. QED
    BY <2>1, <2>2
<1>12. CASE DeleteRows
  BY <1>0, <1>12, SameCommands DEF DeleteRows, memory, telegram
<1>13. ASSUME NEW v \in Users, InsertRow(v)
       PROVE  Goal
  <2>1. /\ phase = "insert" /\ phase' \in {"loop", "insert"}
        /\ UNCHANGED <<told, userSettings, inbox, taken>>
    BY <1>13 DEF InsertRow, memory, telegram
  <2>2. phase' = "loop" => settings'[u] = userSettings[u]
    BY <1>13, SaveCompletes
  <2>3. QED
    BY <1>0, <2>1, <2>2, SameCommands
<1>14. CASE SaveFails
  BY <1>14 DEF SaveFails, Fault
<1>15. ASSUME NEW k \in Keywords, HandleEvent(k)
       PROVE  Goal
  BY <1>0, <1>15, SameCommands DEF HandleEvent, tables, memory, telegram
<1>16. CASE StoreEvent
  BY <1>0, <1>16, SameCommands DEF StoreEvent, telegram
<1>17. CASE UNCHANGED vars
  BY <1>0, <1>17, SameCommands DEF vars, tables, memory, handler, telegram
<1>18. QED
  BY <1>1, <1>2, <1>3, <1>4, <1>5, <1>6, <1>7, <1>8, <1>10, <1>11, <1>12, <1>13,
     <1>14, <1>15, <1>16, <1>17 DEF Next

----------------------------------------------------------------------------
(* What a restart would come to *)

LEMMA AgreeStep == TypeOK /\ RowsInserted /\ RowsAgree /\ [Next]_vars => RowsAgree'
<1> SUFFICES ASSUME TypeOK, RowsInserted, RowsAgree, [Next]_vars,
                    faults' \subseteq {"second", "data"}, phase' \in {"loop", "store"}
             PROVE  settings' = userSettings'
  BY DEF RowsAgree
<1>1. faults \subseteq {"second", "data"}
  BY FaultsStay
<1>2. CASE Start
  BY <1>2, StartReads DEF Start, tables
<1>3. ASSUME NEW v \in Users, InsertRow(v)
      PROVE  settings' = userSettings'
  <2>1. phase' = "loop" /\ userSettings' = userSettings
    BY <1>3 DEF InsertRow, memory
  <2>2. QED
    BY <1>3, <2>1, SaveCompletes
<1>4. CASE phase \in {"loop", "store"} /\ UNCHANGED <<settings, userSettings>>
  BY <1>1, <1>4 DEF RowsAgree
<1>5. ~SaveFails
  BY DEF SaveFails, Fault
<1>6. QED
  BY <1>2, <1>3, <1>4, <1>5
     DEF Next, Crash, GetUpdates, Updates, Post, HandleWithoutUser, HandlePassword, HandleRefused,
         HandleArm, HandleDisarm, Disarmed, Set, Handling, DeleteRows, HandleEvent, StoreEvent,
         vars, tables, memory, handler

LEMMA AppliedStep ==
    TypeOK /\ PhaseFits /\ RowsRead /\ LastApplied /\ [Next]_vars => LastApplied'
<1> SUFFICES ASSUME TypeOK, PhaseFits, RowsRead, LastApplied, [Next]_vars,
                    faults' \subseteq {"second", "data"}, NEW u \in Users, users'[u] = Owner,
                    \A i \in 1 .. taken' : inbox'[i].user = u => inbox'[i].what # "password",
                    NEW i \in 1 .. taken', IsLast(i, u, taken)'
             PROVE  Status(userSettings'[u]) = inbox'[i].status
  BY DEF LastApplied
<1>0. faults \subseteq {"second", "data"} /\ taken \in Nat
  BY FaultsStay, HandledIsThere
<1>1. CASE taken' = 0
  BY <1>1
<1>2. CASE /\ UNCHANGED <<users, userSettings, taken>>
           /\ \A j \in 1 .. taken : inbox'[j] = inbox[j]
  <2>1. \A j \in 1 .. taken : inbox[j].user = u => inbox[j].what # "password"
    BY <1>2
  <2>2. IsLast(i, u, taken)
    BY <1>2 DEF IsLast
  <2>3. QED
    BY <1>0, <1>2, <2>1, <2>2 DEF LastApplied
<1>3. ASSUME NEW c \in Commands, Handling(c), c.user # u,
             users'[u] = users[u], userSettings'[u] = userSettings[u]
      PROVE  Status(userSettings'[u]) = inbox'[i].status
  <2>1. inbox' = inbox /\ taken' = taken + 1 /\ inbox[taken + 1] = c
    BY <1>3, HandlingKeepsPending
  <2>2. i # taken + 1
    BY <1>3, <2>1 DEF IsLast
  <2>3. i \in 1 .. taken /\ \A j \in 1 .. taken : j \in 1 .. taken'
    BY <1>0, <2>1, <2>2
  <2>4. IsLast(i, u, taken) /\ \A j \in 1 .. taken : inbox[j].user = u => inbox[j].what # "password"
    BY <2>1, <2>3 DEF IsLast
  <2>5. QED
    BY <1>0, <1>3, <2>1, <2>3, <2>4 DEF LastApplied
<1>4. ASSUME NEW c \in Commands, Handling(c), c.user = u
      PROVE  inbox'[i] = c /\ c.what # "password"
  <2>1. taken' = taken + 1 /\ inbox'[taken'] = c
    BY <1>4, HandlingKeepsPending
  <2>2. taken' \in 1 .. taken'
    BY <1>0, <2>1
  <2>3. i = taken'
    BY <1>0, <1>4, <2>1, <2>2 DEF IsLast
  <2>4. QED
    BY <1>4, <2>1, <2>2, <2>3
<1>5. CASE Start
  BY <1>1, <1>5 DEF Start, PhaseFits, telegram
<1>6. ASSUME NEW c \in Commands, Post(c)
      PROVE  Status(userSettings'[u]) = inbox'[i].status
  <2>1. \A j \in 1 .. taken : inbox'[j] = inbox[j]
    BY <1>6, PostKeepsPending, HandledIsThere DEF TypeOK
  <2>2. QED
    BY <1>2, <1>6, <2>1 DEF Post, tables, memory, telegram
<1>7. ASSUME NEW c \in Commands, HandleWithoutUser(c)
      PROVE  FALSE
  BY <1>0, <1>7 DEF HandleWithoutUser, Handling, StatementFails, Fault, RowsRead
<1>8. ASSUME NEW c \in Commands, HandlePassword(c)
      PROVE  Status(userSettings'[u]) = inbox'[i].status
  <2>1. c.user # u
    BY <1>4, <1>8 DEF HandlePassword
  <2>2. users'[u] = users[u]
    BY <1>8, <2>1 DEF HandlePassword, TypeOK
  <2>3. QED
    BY <1>3, <1>8, <2>1, <2>2 DEF HandlePassword, memory
<1>9. ASSUME NEW c \in Commands, HandleRefused(c)
      PROVE  Status(userSettings'[u]) = inbox'[i].status
  BY <1>3, <1>9 DEF HandleRefused, tables, memory, Owner
<1>10. ASSUME NEW c \in Commands, HandleArm(c)
       PROVE  Status(userSettings'[u]) = inbox'[i].status
  <2>1. CASE c.user # u
    BY <1>3, <1>10, <2>1 DEF HandleArm, Set, tables, TypeOK
  <2>2. CASE c.user = u
    <3>1. userSettings'[u] = c.status /\ c.status # Absent
      BY <1>10, <2>2, CommandsTyped, ModesKnown DEF HandleArm, Set, TypeOK, Statuses
    <3>2. QED
      BY <1>4, <1>10, <2>2, <3>1 DEF HandleArm, Status
  <2>3. QED
    BY <2>1, <2>2
<1>11. ASSUME NEW c \in Commands, HandleDisarm(c)
       PROVE  Status(userSettings'[u]) = inbox'[i].status
  <2>1. CASE c.user # u
    BY <1>3, <1>11, <2>1 DEF HandleDisarm, Disarmed, Set, tables, TypeOK
  <2>2. CASE c.user = u
    <3>1. userSettings'[u] \in {Default, Absent} /\ c.status = Default
      BY <1>11, <2>2, CommandsTyped DEF HandleDisarm, Disarmed, Set, TypeOK
    <3>2. QED
      BY <1>4, <1>11, <2>2, <3>1 DEF HandleDisarm, Status
  <2>3. QED
    BY <2>1, <2>2
<1>12. CASE UNCHANGED <<users, userSettings, taken, inbox>>
  BY <1>2, <1>12
<1>13. QED
  BY <1>1, <1>5, <1>6, <1>7, <1>8, <1>9, <1>10, <1>11, <1>12
     DEF Next, Crash, GetUpdates, Updates, DeleteRows, InsertRow, SaveFails, HandleEvent, StoreEvent,
         vars, tables, memory, telegram

\* Of finitely many numbers one is the greatest: it is the one above which there
\* is the least set of others.
LEMMA Greatest ==
    ASSUME NEW n \in Nat, NEW S \in SUBSET (1 .. n), S # {}
    PROVE  \E i \in S : \A j \in S : j <= i
<1> DEFINE Above(i) == {j \in S : j > i}
           Aboves == {Above(i) : i \in S}
<1>1. IsWellFoundedOn(StrictSubsetOrdering(S), SUBSET S)
  <2>1. IsFiniteSet(1 .. n)
    BY FS_Interval
  <2>2. IsFiniteSet(S)
    BY <2>1, FS_Subset
  <2>3. QED
    BY <2>2, FS_StrictSubsetOrderingWellFounded, FS_FiniteSubsetsOfFinite
<1>2. PICK A \in Aboves : \A B \in Aboves : <<B, A>> \notin StrictSubsetOrdering(S)
  <2>1. Aboves \subseteq SUBSET S /\ Aboves # {}
    OBVIOUS
  <2>2. QED
    BY <1>1, <2>1, WFMin
<1>3. PICK i \in S : A = Above(i)
  OBVIOUS
<1>4. ASSUME NEW j \in S, j > i
      PROVE  FALSE
  <2>1. Above(j) \subseteq Above(i) /\ j \in Above(i) /\ j \notin Above(j)
    <3>1. S \subseteq Int
      OBVIOUS
    <3>2. \A k \in S : k > j => k > i
      BY <1>4, <3>1
    <3>3. ~(j > j)
      BY <3>1
    <3>4. QED
      BY <1>4, <3>2, <3>3
  <2>2. <<Above(j), Above(i)>> \in StrictSubsetOrdering(S)
    BY <2>1 DEF StrictSubsetOrdering
  <2>3. QED
    BY <1>2, <1>3, <2>2
<1>5. QED
  BY <1>4

\* The last command of an owner decides; without one nothing changes.
LEMMA OutcomeIs ==
    ASSUME NEW u, NEW before, NEW commands \in Seq(Commands)
    PROVE  /\ (\A i \in DOMAIN commands : ~(commands[i].user = u /\ users[u] = Owner)) =>
                  Outcome(before, u, commands) = Status(before)
           /\ users[u] = Owner =>
                \A i \in DOMAIN commands :
                  commands[i].user = u /\ (\A j \in DOMAIN commands : commands[j].user = u => j <= i) =>
                      Outcome(before, u, commands) = commands[i].status
<1> DEFINE Changes == {i \in DOMAIN commands : commands[i].user = u /\ users[u] = Owner}
<1>1. Outcome(before, u, commands) =
        IF Changes = {} THEN Status(before)
        ELSE commands[CHOOSE i \in Changes : \A j \in Changes : j <= i].status
  BY DEF Outcome, Status
<1>2. DOMAIN commands \subseteq Int
  BY LenProperties
<1>3. ASSUME users[u] = Owner, NEW i \in DOMAIN commands, commands[i].user = u,
             \A j \in DOMAIN commands : commands[j].user = u => j <= i
      PROVE  Outcome(before, u, commands) = commands[i].status
  <2>1. i \in Changes /\ \A j \in Changes : j <= i
    BY <1>3
  <2>2. \A k \in Changes : (\A j \in Changes : j <= k) => k = i
    BY <1>2, <2>1
  <2>3. (CHOOSE k \in Changes : \A j \in Changes : j <= k) = i
    BY <2>1, <2>2
  <2>4. QED
    BY <1>1, <2>1, <2>3
<1>4. (\A i \in DOMAIN commands : ~(commands[i].user = u /\ users[u] = Owner)) => Changes = {}
  OBVIOUS
<1>5. QED
  BY <1>1, <1>3, <1>4

----------------------------------------------------------------------------
(* Theorems *)

\* The invariant holds in every reachable state.
THEOREM Inductive == Spec => []IInv
<1>1. Init => IInv
  <2>1. SUFFICES ASSUME Init
                 PROVE  IInv
    OBVIOUS
  <2>2. TypeOK
    BY <2>1, TypeInit
  <2>3. \A u \in Users : told[u] = Nothing /\ settings[u] = Absent /\ userSettings[u] = Absent
    BY <2>1 DEF Init, NoRows
  <2>4. phase = "down" /\ taken = 0 /\ alerted = {} /\ row = lastEvent
    BY <2>1 DEF Init
  <2>5. PhaseFits /\ RowsInserted /\ RowsRead /\ MessageKept
    BY <2>4 DEF PhaseFits, RowsInserted, RowsRead, MessageKept
  <2>6. OwnersTold /\ OffAsTold
    BY <2>3, ModesKnown DEF OwnersTold, OffAsTold, Statuses
  <2>7. AsTold
    BY <2>3 DEF AsTold, Agrees
  <2>8. RowsAgree /\ LastApplied
    BY <2>4 DEF RowsAgree, LastApplied
  <2>9. QED
    BY <2>2, <2>5, <2>6, <2>7, <2>8 DEF IInv
<1>2. IInv /\ [Next]_vars => IInv'
  BY TypeStep, PhaseStep, OwnersStep, RowsInsertedStep, RowsReadStep, OffStep, MessageStep, ToldStep,
     AgreeStep, AppliedStep
     DEF IInv
<1>3. QED
  BY <1>1, <1>2, PTL DEF Spec

\* Every reachable state has its type; the commands that are taken are among
\* those that were delivered, and these among those that Telegram keeps.
THEOREM TypeCorrect == Spec => []TypeOK
<1>1. IInv => TypeOK
  BY DEF IInv
<1>2. QED
  BY <1>1, Inductive, PTL

\* An alert needs a setting (handleTrackerEvent).
LEMMA DueNeedsMode ==
    ASSUME NEW status, NEW k, NEW previous, Due(status, k, previous)
    PROVE  status \notin {Default, Absent}
BY DEF Due, Default, Absent

\* Whatever fails, and however often the process is restarted, only owners have
\* settings and are sent events.
THEOREM OwnersOnly == Spec => []OnlyOwnersAlerted
<1>1. IInv => OnlyOwnersAlerted
  BY DueNeedsMode DEF IInv, PhaseFits, OwnersTold, OnlyOwnersAlerted
<1>2. QED
  BY <1>1, Inductive, PTL

\* Nobody who was told that his alarm is off is disturbed, as long as the
\* settings can be read at every start.
THEOREM Quieted == Spec => []DisarmedStaysQuiet
<1>1. IInv => DisarmedStaysQuiet
  <2>1. SUFFICES ASSUME IInv, "load" \notin faults, NEW u \in alerted, Settled(u), told[u] = Default
                 PROVE  FALSE
    BY DEF DisarmedStaysQuiet
  <2>2. u \in Users /\ phase = "store" /\ Due(userSettings[u], event, lastMessage)
    BY <2>1 DEF IInv, TypeOK, PhaseFits
  <2>3. ~Off(userSettings[u])
    BY <2>2, DueNeedsMode DEF Off
  <2>4. Pending(u)
    BY <2>1, <2>2, <2>3 DEF IInv, OffAsTold
  <2>5. QED
    BY <2>1, <2>4 DEF Pending, Settled
<1>2. QED
  BY <1>1, Inductive, PTL

\* Without faults, restarts between handlers included, everybody is sent exactly
\* the events that he was told he would.
THEOREM Followed == Spec => []AlertsFollowMode
<1>1. IInv => AlertsFollowMode
  <2>1. SUFFICES ASSUME IInv, phase = "store", faults \subseteq {"users"},
                        NEW u \in Users, Settled(u), told[u] # Trouble
                 PROVE  u \in alerted <=> Due(told[u], event, lastEvent)
    BY DEF AlertsFollowMode
  <2>2. Agrees(userSettings[u], told[u])
    BY <2>1 DEF IInv, AsTold, Pending, Settled
  <2>3. u \in alerted <=> Due(userSettings[u], event, lastEvent)
    BY <2>1 DEF IInv, PhaseFits, MessageKept
  <2>4. QED
    BY <2>2, <2>3 DEF Agrees, Due, Default, Absent, Nothing
<1>2. QED
  BY <1>1, Inductive, PTL

\* A process that died between two handlers and started anew would come to the
\* same settings.
THEOREM Invisible == Spec => []CrashIsInvisible
<1>1. IInv => CrashIsInvisible
  <2> DEFINE rest == SubSeq(inbox, taken + 1, Len(inbox))
  <2>1. SUFFICES ASSUME IInv, phase = "loop", faults \subseteq {"second", "data"}, NEW u \in Users,
                        \A i \in DOMAIN inbox : inbox[i].user = u => inbox[i].what # "password"
                 PROVE  Outcome(userSettings[u], u, rest) = Outcome(settings[u], u, inbox)
    BY DEF CrashIsInvisible
  <2>2. settings = userSettings
    BY <2>1 DEF IInv, RowsAgree
  <2>3. /\ inbox \in Seq(Commands) /\ taken \in Nat /\ Len(inbox) \in Nat /\ taken <= Len(inbox)
        /\ DOMAIN inbox = 1 .. Len(inbox)
        /\ \A i \in 1 .. Len(inbox) : inbox[i] \in Commands
    BY <2>1, HandledIsThere, ElementOfSeq DEF IInv, TypeOK
  <2>4. /\ rest \in Seq(Commands)
        /\ DOMAIN rest = 1 .. Len(inbox) - taken
        /\ \A i \in 1 .. Len(inbox) - taken : rest[i] = inbox[taken + i]
    <3>1. \A i \in taken + 1 .. Len(inbox) : inbox[i] \in Commands
      BY <2>3
    <3>2. QED
      BY <2>3, <3>1, SubSeqProperties
  <2> DEFINE Mine == {i \in DOMAIN inbox : inbox[i].user = u}
  <2>5. CASE users[u] # Owner \/ Mine = {}
    <3>1. \A i \in DOMAIN inbox : ~(inbox[i].user = u /\ users[u] = Owner)
      BY <2>5
    <3>2. \A i \in DOMAIN rest : ~(rest[i].user = u /\ users[u] = Owner)
      BY <2>3, <2>4, <3>1
    <3>3. Outcome(settings[u], u, inbox) = Status(settings[u])
      BY <2>3, <3>1, OutcomeIs
    <3>4. Outcome(userSettings[u], u, rest) = Status(userSettings[u])
      <4> HIDE DEF rest
      <4>1. QED
        BY <2>4, <3>2, OutcomeIs
    <3>5. QED
      BY <2>2, <3>3, <3>4
  <2>6. CASE users[u] = Owner /\ Mine # {}
    <3>1. PICK i \in Mine : \A j \in Mine : j <= i
      BY <2>3, <2>6, Greatest
    <3>2. Outcome(settings[u], u, inbox) = inbox[i].status
      BY <2>3, <2>6, <3>1, OutcomeIs
    <3>3. CASE i <= taken
      <4>1. \A j \in DOMAIN rest : rest[j].user # u
        BY <2>3, <2>4, <3>1, <3>3
      <4>2. Outcome(userSettings[u], u, rest) = Status(userSettings[u])
        BY <2>4, <4>1, OutcomeIs
      <4>3. i \in 1 .. taken /\ IsLast(i, u, taken)
        BY <2>3, <3>1, <3>3 DEF IsLast
      <4>4. \A j \in 1 .. taken : inbox[j].user = u => inbox[j].what # "password"
        BY <2>1, <2>3
      <4>5. Status(userSettings[u]) = inbox[i].status
        BY <2>1, <2>6, <4>3, <4>4 DEF IInv, LastApplied
      <4>6. QED
        BY <3>2, <4>2, <4>5
    <3>4. CASE i > taken
      <4>1. PICK k \in DOMAIN rest : k = i - taken
        BY <2>3, <2>4, <3>1, <3>4
      <4>2. rest[k] = inbox[i] /\ inbox[i].user = u
        BY <2>3, <2>4, <3>1, <4>1
      <4>3. ASSUME NEW j \in DOMAIN rest, rest[j].user = u
            PROVE  j <= k
        <5>1. taken + j \in Mine
          BY <2>3, <2>4, <4>3
        <5>2. taken + j <= i
          BY <3>1, <5>1
        <5>3. QED
          BY <2>3, <2>4, <4>1, <5>2
      <4>4. Outcome(userSettings[u], u, rest) = rest[k].status
        <5> HIDE DEF rest
        <5>1. rest \in Seq(Commands) /\ users[u] = Owner /\ rest[k].user = u
          BY <2>4, <2>6, <4>2
        <5>2. QED
          BY <4>3, <5>1, OutcomeIs
      <4>5. QED
        BY <3>2, <4>2, <4>4
    <3>5. QED
      BY <2>3, <3>1, <3>3, <3>4
  <2>7. QED
    BY <2>5, <2>6
<1>2. QED
  BY <1>1, Inductive, PTL

\* A save that ends without a warning leaves the whole table as memory is.
THEOREM Repaired == Spec => SaveRepairs
<1>1. IInv /\ [Next]_vars =>
        [(phase \in {"delete", "insert"} /\ phase' = "loop" /\ UNCHANGED told)
            => settings' = userSettings]_vars
  <2>1. SUFFICES ASSUME IInv, Next, phase \in {"delete", "insert"}, phase' = "loop", told' = told
                 PROVE  settings' = userSettings
    BY DEF vars
  <2>2. CASE SaveFails
    <3>1. /\ told[inbox[taken].user] \in Statuses
          /\ inbox[taken].user \in Users
      BY <2>1, HandledIsThere, CommandsTyped DEF IInv, PhaseFits
    <3>2. told'[inbox[taken].user] = Trouble
      BY <2>1, <2>2, <3>1 DEF SaveFails, Tell, IInv, TypeOK
    <3>3. QED
      BY <2>1, <3>1, <3>2, ModesKnown
  <2>3. ASSUME NEW v \in Users, InsertRow(v)
        PROVE  settings' = userSettings
    BY <2>1, <2>3, SaveCompletes DEF IInv
  <2>4. SaveFails \/ \E v \in Users : InsertRow(v)
    BY <2>1 DEF Next, Crash, Start, GetUpdates, Updates, Post, HandleWithoutUser, HandlePassword,
           HandleRefused, HandleArm, HandleDisarm, Handling, DeleteRows, HandleEvent, StoreEvent, handler
  <2>5. QED
    BY <2>2, <2>3, <2>4
<1>2. QED
  BY <1>1, Inductive, PTL DEF Spec, SaveRepairs
==============================================================================
