CONSTANTS
    Requests <- EveryRequest
    Settings <- DeployedOnly
    MaxArtifacts = 1
    Echoed = {"none"}
    Fallible = {}
SPECIFICATION Spec
CHECK_DEADLOCK FALSE
INVARIANT WithheldMeansNoFile
