SPECIFICATION Spec
CONSTANTS
  n1 = n1
  n2 = n2
  s1 = s1
  s2 = s2
  Nodes = {n1, n2}
  Shards = {s1, s2}
  Self = n1
  SelfAddr = "home"
  Addrs = {"home", "moved"}
  Bootstraps <- MCBootstraps
  Ids = {1, 2}
  ShardOf <- MCShardOf
  Distances = {1, 2}
  Ef = 2
  Limit = 2
  MaxOps = 3
INVARIANT TypeOK
INVARIANT NoStuckCandidate
INVARIANT InsertOutcome
INVARIANT LeaderIsRouted
PROPERTY DeadStaysDead
PROPERTY ScatterGatherPromise
PROPERTY EligiblePromoted
PROPERTY SearchUnblocked
CHECK_DEADLOCK FALSE
