SPECIFICATION FairLiveSpec
CONSTANTS
    w1 = w1
    w2 = w2
    Sockets <- MCSockets
    AlertSockets <- MCAlertSockets
    AlertTasks = {alertTask}
    Requests = {request}
    PushTasks = {pushTask}
    Recipients = 2
    publisher = publisher
    none = none
INVARIANTS
    ClientsKnowTheSwitch
PROPERTIES
    PauseSilences
    DeadSocketsForgotten
