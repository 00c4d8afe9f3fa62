SPECIFICATION Spec
CONSTANTS
    Me = me
    Others = {u}
    MaxClients = 3
    MaxRequests = 5
    MaxEvents = 3
INVARIANTS TypeOK ResponseHasSession MembershipAgrees OfferOncePerArm RemoteHasMid
\* The bounds on requests and events stop the system.
CHECK_DEADLOCK FALSE
