\* Three messages in any of two channels, one of which may be created late, and
\* one reader (readers change nothing that another one sees), which counts or asks
\* for pages of one or two.
SPECIFICATION Spec
CONSTANTS
    Messages = {1, 2, 3}
    Channels = {general, news}
    Default = general
    All = All
    Readers = {r1}
    Limits = {0, 1, 2, 3}
    MaxLimit = 2
    DefaultLimit = 1
INVARIANTS StatsAreOrdered PagesMissNothing
PROPERTY UnreadIsSafe
