\* A buffer of three bytes, so that lines of every length up to the limit and
\* behind it are typed.
SPECIFICATION FairLine
CONSTANTS
    RecLen = 3
    Letters = {"a"}
INVARIANTS StaysInside RunsAsTyped
PROPERTY ConsoleAnswers
