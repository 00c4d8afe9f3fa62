SPECIFICATION Spec
CONSTANTS
    Me = me
    Others = {u}
    MaxClients = 3
    MaxRequests = 5
    MaxEvents = 3
INVARIANT SendOnlyInRoom
CHECK_DEADLOCK FALSE
