SPECIFICATION MCSpec
CONSTANTS
    MaxClients = 3
    Tracks = {t1, t2}
    None = none
    Widths = {2, 3}
    Heights = {2, 4}
INVARIANTS
    MediaTypeOK StreamIsIntact NothingOutlivesClient PaintsItsFrame FrameOfDeadOnlyIfCleared
PROPERTY NobodyStuck
\* The bound on the clients and the end of the renderer stop a behaviour.
CHECK_DEADLOCK FALSE
