SPECIFICATION MCSpec
CONSTANTS
    Uids = {u, v}
    Nobody = nobody
    MaxClients = 3
    MaxArms = 3
    MaxRequests = 3
    SessionRequests = 5
    MaxConnections = 3
INVARIANTS ViewsTypeOK AnswersMeetOffers ArmedUntilSent OnlyKnownCircles RoomAsBelieved
PROPERTIES UiComesBack LeftForGood
\* The bounds, a circle of waiting threads and the end of the program stop it.
CHECK_DEADLOCK FALSE
