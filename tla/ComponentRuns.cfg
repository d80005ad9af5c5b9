SPECIFICATION Spec
CONSTANTS
  Plugins = {"first", "second"}
  Priority <- MCPriority
  Admins = {1, 2}
  Firings = {1}
  MaxOps = 3
  Users = {"admin", "bob"}
  GroupAdmins = {"admin@c.us"}
  UserPart <- MCUserPart
  Langs = {"en", "es"}
  TalkCalls = {1, 2}
  MaxMessages = 3
  MaxReconnects = 2
  MaxOpens = 2
  WaMessages = {1, 2, 3}
  Limit = 2
  Puts = {1, 2}
  MaxPuts = 3
  MaxMillis = 2
  WaSessions = {"s1", "s2"}
  Clients = {"c1"}
  NoOne = "none"
  Limits = {1, 2}
  Requests = {1, 2}
  MaxOperations = 3
  Tokens = {"t1", "t2"}
  Callers = {1, 2}
  Messages = {1, 2}
  Chats = {"a", "b"}
  Own = {1}
  ChatOf <- MCChatOf
  HistoryFetches = {1, 2}
  MaxReceipts = 1
  Services <- MCServices
  Dashboards = {1, 2}
  Given <- MCGiven
  MaxSaves = 2
  MaxFailures = 1
  Senders = {"a", "b"}
  Disturbed = {1}
  Reactors = {1, 2}
  May <- MCMay
  CacheMax = 1
  MaxReactions = 2
  Restrictions = {{"s1"}}
  MaxRequests = 1
  MaxKeyChanges = 1
  Calls = {1, 2}
  MaxPageOpens = 2
  MaxCalls = 2
  Payers = {"c1", "c2"}
  MaxCounted = 2
  MaxRowChanges = 2
  Files = {"f1", "f2"}
  MaxFileFailures = 2
  MaxMoves = 3
CHECK_DEADLOCK FALSE
INVARIANT PartsTypeOK
INVARIANT HandlersFollowPlugins
INVARIANT SettingsHold
INVARIANT StoppedEnginesStayDown
INVARIANT MessagesKept
INVARIANT TenantsHold
INVARIANT PagesHold
INVARIANT InfraHolds
PROPERTY DropIsSettled
