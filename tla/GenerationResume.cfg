\* Stages C and D, one configuration resumed until it is complete.
SPECIFICATION ResumingSpec
CONSTANTS
    c = c
    d = d
    Configs <- OneConfiguration
    QueryCount = 2
    Strict = TRUE
    Denied <- FirstQuery
    Reshaped <- NoQuery
PROPERTIES
    EveryQueryCompleted
CHECK_DEADLOCK FALSE
