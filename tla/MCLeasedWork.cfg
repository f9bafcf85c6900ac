CONSTANTS
  Proposals = {"day", "replan", "same", "task", "mail", "rule", "stage"}
  Devices = {"phone"}
  Proofs <- MCProofs
  Rollbacks <- MCRollbacks
  LeaseTTL = 2
  PlanOf <- MCPlanOf
  Shielded <- MCShielded
  NoEvent = NoEvent
  RequestOf <- MCRequestOf
  ClassOf <- MCClassOf
  SafePreview = {"stage"}
  NoRequest = NoRequest
  NoHandle = NoHandle
  Deployments <- AllDeployments
SPECIFICATION Spec
INVARIANTS RevertedLeavesNothing MirrorIsExact ApplicationsSpendLeases
CHECK_DEADLOCK FALSE
