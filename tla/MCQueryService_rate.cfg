SPECIFICATION Spec
CONSTANTS
  u1 = u1
  nobody = nobody
  HttpClients = {"h"}
  GrpcClients = {}
  Configs <- MCConfigs
  HeaderSets <- MCHeaders
  ApiKeys = {"k"}
  Texts <- MCTexts
  Entries <- MCEntries
  Ids = {1, 2}
  EmbeddedVector = 2
  Users = {u1}
  NoUser = nobody
  Clicks <- MCClicks
  ChannelCapacity = 1
  CategoryValues = {1, 2}
  categorical_fields = {"category"}
  numerical_fields = {"year", "price"}
  numerical_buckets <- MCBucketFields
  dim = 2
  Followed = 2
  default_ef_search = 2
  DistanceCost = 100
  cost_buffer = 20
  topological_alpha = 30
  Ips = {"127.0.0.1"}
  Localhost = "127.0.0.1"
  max_requests = 2
  window_duration = 1
  max_retries = 1
  MaxRequests = 4
  MaxOverlapping = 2
  MaxClicks = 1
INVARIANT SlidingWindow
CHECK_DEADLOCK FALSE
