SPECIFICATION Spec
CONSTANTS
    Horizon = 0
    Rules = {"door", "lamp"}
    Edited = {"door"}
    Sightings = {"two", "three", "zero"}
    Outcomes = {"sent"}
    Window = 2
    CameraOf <- MCCameraOf
    Scenes <- MCScenes
    Forms <- Instant
INVARIANTS
    TypeOK
    RowMatchesLog
    WebhookNamesItsEvent
PROPERTIES
    NoRepeatedEvent
