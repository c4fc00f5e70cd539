SPECIFICATION FairSpec
CONSTANTS
    Streams = {"gate", "yard"}
    CameraOf <- MCCameraOf
    Tables <- FewTables
    FirstFrameTimeout = 4
    Backoff = 2
    Reliable = {"cam-2"}
    MaxPause = 2
PROPERTIES
    RecoversFromStreamError
