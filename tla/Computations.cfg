\* All inputs of a small shape.
SPECIFICATION Spec
CONSTANTS
  Unset = Unset  NoConfig = NoConfig  NoSummary = NoSummary
  Absent = Absent  Rejected = Rejected
  Wide = 16
  Missing = Missing  Unparsable = Unparsable
  NoScores = NoScores  NoCluster = NoCluster
  Scorers <- MCScorers  Masked = {"n1"}
  NodeLists <- MCNodeLists  PodLists <- MCPodLists  MaxAmount = 6
  Types <- MCTypes  Readings <- MCReadings
  Storages <- MCStorages  Stores <- MCStores
  Endpoints <- MCEndpoints  Manifests <- MCManifests
  Rounds <- MCRounds  MaxRounds = 4
  Registrations <- MCRegistrations  MaxRegistrations = 4
INVARIANTS SummariesAreValid ScoresFollowPods ReadingsAreKept
  StorageAsAsked EndpointsAgree DeployConverges
  RegisteredAreGranted
\* A behaviour ends with its output.
CHECK_DEADLOCK FALSE
