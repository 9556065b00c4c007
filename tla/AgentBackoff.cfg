\* The delays alone: one outage during which the listener keeps failing.
SPECIFICATION Spec
CONSTANTS
    Address = {server, loopback}
    Server = server
    Fallback = loopback
    Endpoints = {FALSE}
    NodeId = {"n1"}
    Command = {}
    InCap = 1
    MaxNftErrors = 0
    MaxAttempts = 2
    MaxCommands = 0
    MaxDeaths = 0
    MaxOutages = 1
PROPERTY
    BackoffStartsAtBase
CHECK_DEADLOCK FALSE
