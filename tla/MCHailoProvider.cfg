SPECIFICATION FairSpec
CONSTANTS
    Streams = {"gate", "gate-2", "yard"}
    CameraOf <- MCCameraOf
    Tables <- MCTables
    FirstFrameTimeout = 4
    Backoff = 2
    Reliable = {"cam-2"}
    MaxPause = 2
INVARIANTS
    TypeOK
    OneChild
    SessionCoversCycle
PROPERTIES
    BackoffKept
    ReliableCameraIsServed
