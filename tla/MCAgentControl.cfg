SPECIFICATION MCSpec
CONSTANTS
    Address = {server, loopback}
    Server = server
    Fallback = loopback
    Endpoints = {TRUE, FALSE}
    NodeId = {"n1", "n2"}
    Command = {"isolate", "release", "ack"}
    InCap = 1
    MaxNftErrors = 1
    MaxAttempts = 2
    MaxCommands = 2
    MaxDeaths = 1
    MaxOutages = 2
INVARIANTS
    RunningIsNamed
    ObeysLast
    AnswerStaysTrue
PROPERTIES
    BackoffDoubles
    StreamReturns
CHECK_DEADLOCK FALSE
