\* Seven characters: two quoted words of one command, or three commands of two
\* characters each of which one is refused; a limit of two, so that commands of
\* the limit and longer ones are among them.
CONSTANTS
    MaxLength = 7
    BufferLimit = 2
SPECIFICATION Spec
INVARIANTS
    WordsAsMeant
    CutsDontMatter
    OnlyAShortRestWaits
CHECK_DEADLOCK FALSE
