-------------------------------- MODULE Text --------------------------------
(***************************************************************************)
(* Two loops over text whose results depend on every character before:     *)
(* Application::handleMessage, which takes a chat message apart into       *)
(* commands and words, and Device::processData, which takes the stream of  *)
(* a tracker apart into commands however TCP cuts it.  Each is compared    *)
(* with a definition of its result that does not loop.                     *)
(*                                                                         *)
(* A step is a turn of handleMessage's loop, or a call of processData with *)
(* what one read brings.  A character stands for its class: "slash" for    *)
(* every one without a meaning, "refusal" for whatever makes a command one *)
(* that Device closes the session for, "newline" for \r too.               *)
(***************************************************************************)
EXTENDS Integers, Sequences, FiniteSets
LOCAL INSTANCE FiniteSetsExt

CONSTANTS
    MaxLength,      \* bound of the model: characters of a text
    BufferLimit     \* most characters an unfinished command may have (32768)

ASSUME TextAssumption == MaxLength \in Nat /\ BufferLimit \in Nat

VARIABLES
    source,         \* "chat" or "tracker"
    text,           \* what has been read of the text
    message,        \* the variables of handleMessage
    device          \* the Device of a session

vars == <<source, text, message, device>>

ChatCharacters == {"slash", "space", "quote", "newline"}

TrackerCharacters == {"slash", "refusal", "comma", "semicolon", "newline"}

\* The numbers of a set in ascending order: n of them are up to the n-th
Ascending(S) ==
    [n \in 1 .. Cardinality(S) |-> Min({i \in S : Cardinality({j \in S : j <= i}) >= n})]

\* The values of f at the numbers of a set, in the order of the numbers
ValuesAt(S, f) == [n \in 1 .. Cardinality(S) |-> f[Ascending(S)[n]]]

\* The last before i
Before(S, i) == Max({0} \union {j \in S : j < i})

----------------------------------------------------------------------------
(* Application::handleMessage.  The calls of handleChatCommand are collected *)
(* in calls.                                                                 *)

NewMessage ==
    [calls |-> << >>, command |-> << >>, argument |-> << >>, quoted |-> FALSE, ended |-> FALSE]

PushArgument(m) == [m EXCEPT !.command = Append(@, m.argument), !.argument = << >>]

PushIfAny(m) == IF m.argument # << >> THEN PushArgument(m) ELSE m

CallHandler(m) == [m EXCEPT !.calls = Append(@, m.command), !.command = << >>]

\* One turn of the loop
Turn(m, c) ==
    CASE ~m.quoted /\ c = "newline" -> CallHandler(PushIfAny(m))
      [] ~m.quoted /\ c \in {"space", "quote"} -> [PushIfAny(m) EXCEPT !.quoted = (c = "quote")]
      [] m.quoted /\ c = "quote" -> [PushArgument(m) EXCEPT !.quoted = FALSE]
      [] OTHER -> [m EXCEPT !.argument = Append(@, c)]

\* Mutant: a quote that is never closed counts only when something follows it.
AtEnd_IfAny(m) == [CallHandler(PushIfAny(m)) EXCEPT !.ended = TRUE]

AtEnd(m) ==
    [CallHandler(IF m.quoted THEN PushArgument(m) ELSE PushIfAny(m)) EXCEPT !.ended = TRUE]

\* A message that does not begin with a slash is left alone.
HandleCharacter(c) ==
    /\ source = "chat" /\ ~message.ended
    /\ Len(text) < MaxLength
    /\ text = << >> => c = "slash"
    /\ text' = Append(text, c)
    /\ message' = Turn(message, c)
    /\ UNCHANGED <<source, device>>

HandleEnd ==
    /\ source = "chat" /\ ~message.ended
    /\ text # << >>
    /\ message' = AtEnd(message)
    /\ UNCHANGED <<source, text, device>>

(* The same without the loop.  A character is inside quotes when the quotes  *)
(* before it are odd in number; outside, a newline ends a command.           *)

Quotes(body) == {i \in DOMAIN body : body[i] = "quote"}

Inside(body, i) == Cardinality({j \in Quotes(body) : j < i}) % 2 = 1

Newlines(body) == {i \in DOMAIN body : body[i] = "newline" /\ ~Inside(body, i)}

Ends(body) == Newlines(body) \union {Len(body) + 1}

\* Where a word begins: after an opening quote, or with a letter outside quotes
\* that does not continue a word.
IsLetter(body, i) ==
    i \in DOMAIN body /\ ~Inside(body, i) /\ body[i] \notin {"space", "quote", "newline"}

Begins(body) ==
    {i + 1 : i \in {j \in Quotes(body) : ~Inside(body, j)}}
        \union {i \in DOMAIN body : IsLetter(body, i) /\ ~IsLetter(body, i - 1)}

\* A quoted word lasts until the next quote, another while there are letters.
Stops(body, i) ==
    {j \in i .. Len(body) : IF Inside(body, i) THEN j \in Quotes(body) ELSE ~IsLetter(body, j)}

WordAt(body, i) == SubSeq(body, i, Min(Stops(body, i) \union {Len(body) + 1}) - 1)

CommandTo(body, end) ==
    ValuesAt({i \in Begins(body) : Before(Newlines(body), end) < i /\ i <= end},
             [i \in Begins(body) |-> WordAt(body, i)])

CommandsOf(body) == ValuesAt(Ends(body), [i \in Ends(body) |-> CommandTo(body, i)])

----------------------------------------------------------------------------
(* Device::processData *)

NewDevice == [buffer |-> << >>, commands |-> << >>, open |-> TRUE]

Refused(command) == \E i \in DOMAIN command : command[i] = "refusal"

\* Nothing, or a first argument that is nothing
Skipped(command) == command = << >> \/ Head(command) = "comma"

Close(d) == [d EXCEPT !.open = FALSE]

Printable(data) == ValuesAt({i \in DOMAIN data : data[i] # "newline"}, data)

Semicolons(data) == {i \in DOMAIN data : data[i] = "semicolon"}

TakeCommand(d) ==
    LET end     == Min(Semicolons(d.buffer))
        command == SubSeq(d.buffer, 1, end - 1)
        rest    == [d EXCEPT !.buffer = SubSeq(@, end + 1, Len(@))]
    IN  CASE Skipped(command) -> rest
          [] ~Skipped(command) /\ Refused(command) -> Close(rest)
          [] OTHER -> [rest EXCEPT !.commands = Append(@, command)]

TakeIfAny(d) == IF d.open /\ Semicolons(d.buffer) # {} THEN TakeCommand(d) ELSE d

\* Every turn takes a character at least.
Loop(d) ==
    LET after[n \in 0 .. Len(d.buffer)] == IF n = 0 THEN d ELSE TakeIfAny(after[n - 1])
    IN  after[Len(d.buffer)]

CheckLimit(d) == IF d.open /\ Len(d.buffer) > BufferLimit THEN Close(d) ELSE d

\* Mutant: the limit is one of what has come, not of what is left of it.
ProcessData_LimitFirst(d, data) ==
    IF ~d.open THEN d
    ELSE LET checked == CheckLimit([d EXCEPT !.buffer = Printable(@ \o data)])
         IN  IF checked.open THEN Loop(checked) ELSE checked

\* Mutant: an empty command ends the loop.
ProcessData_OneCommand(d, data) ==
    IF ~d.open THEN d
    ELSE LET given == [d EXCEPT !.buffer = Printable(@ \o data)]
         IN  CheckLimit(TakeIfAny(given))

\* Once the session is closed there is no Device to give data to.
ProcessData(d, data) ==
    IF d.open THEN CheckLimit(Loop([d EXCEPT !.buffer = Printable(@ \o data)])) ELSE d

Read(data) ==
    /\ source = "tracker"
    /\ text' = text \o data
    /\ device' = ProcessData(device, data)
    /\ UNCHANGED <<source, message>>

(* The same without the loop *)

\* What stands before a semicolon, or after the last one
PieceTo(data, end) == SubSeq(data, Before(Semicolons(data), end) + 1, end - 1)

LastPiece(data) == PieceTo(data, Len(data) + 1)

Bad(piece) == ~Skipped(piece) /\ Refused(piece)

\* All commands before the first that is refused are taken
Good(data) == {i \in Semicolons(data) : \A j \in Semicolons(data) : j <= i => ~Bad(PieceTo(data, j))}

Taken(data) ==
    ValuesAt({i \in Good(data) : ~Skipped(PieceTo(data, i))},
             [i \in Semicolons(data) |-> PieceTo(data, i)])

----------------------------------------------------------------------------
Init ==
    /\ source \in {"chat", "tracker"}
    /\ text = << >>
    /\ message = NewMessage
    /\ device = NewDevice

Next ==
    \/ \E c \in ChatCharacters : HandleCharacter(c)
    \/ HandleEnd
    \/ \E n \in 1 .. MaxLength - Len(text) : \E data \in [1 .. n -> TrackerCharacters] : Read(data)

Spec == Init /\ [][Next]_vars

----------------------------------------------------------------------------
\* A chat message is taken apart as its author meant it: unquoted newlines end
\* commands, words are what stands between quotes, kept with their spaces and
\* newlines, or between spaces and quotes, and a quote that is never closed
\* lasts to the end.
WordsAsMeant == message.ended => message.calls = CommandsOf(text)

ShortPieces(data) ==
    \A i \in Semicolons(data) \union {Len(data) + 1} : Len(PieceTo(data, i)) <= BufferLimit

\* However TCP cuts the stream of a tracker, the same commands are taken from
\* it in the same order, the session is closed for the same command, and the
\* same rest waits for what is to come: as long as no command is longer than
\* the limit, which only the unfinished ones are held to.
CutsDontMatter ==
    source = "tracker" /\ ShortPieces(Printable(text)) =>
        /\ device.commands = Taken(Printable(text))
        /\ device.open <=> Good(Printable(text)) = Semicolons(Printable(text))
        /\ device.open => device.buffer = LastPiece(Printable(text))

\* Whatever a tracker sends, what waits in the buffer of an open session is the
\* printable beginning of one command and within the limit: no finished command
\* is left waiting for the next read.
OnlyAShortRestWaits ==
    device.open =>
        /\ Len(device.buffer) <= BufferLimit
        /\ \A i \in DOMAIN device.buffer : device.buffer[i] \notin {"semicolon", "newline"}
=============================================================================
