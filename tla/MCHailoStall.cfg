SPECIFICATION Spec
CONSTANTS
    Streams = {"gate", "yard"}
    CameraOf <- MCCameraOf
    Tables <- FewTables
    FirstFrameTimeout = 4
    Backoff = 2
    Reliable = {}
    MaxPause = 2
PROPERTIES
    HealthyCamerasKeepMoving
