SPECIFICATION Spec
CONSTANTS
    JobRecs = {"job"}
    FlowRecs = {"workflow"}
    Keys = {"token", "mode"}
    SecretSets = {{}, {"token"}}
    MaxVersion = 2
    MaxSaves = 2
PROPERTIES
    NoRollback
CHECK_DEADLOCK FALSE
