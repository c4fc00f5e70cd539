SPECIFICATION FairSpec
CONSTANTS
    Horizon = 1
    Rules = {"door"}
    Edited = {"door"}
    Sightings = {"two", "three", "zero"}
    Outcomes = {"sent", "failed"}
    Window = 1
    CameraOf <- MCCameraOf
    Scenes <- MCScenes
    Forms <- Waiting
PROPERTIES
    LogFollowsScene
