\* Every cut of the default file, and two edits with a value of each sign or one
\* that a Duration cannot hold.
SPECIFICATION Spec
CONSTANTS
    Values <- Written
    MaxEdits = 2
    NumCPU = 4
    Word = 32768
    Second = 8
    Minute = 480
INVARIANTS RunningIsUsable UneditedMeansDefault
