CONSTANTS
    Nodes = {1, 2, 3, 4}
    TxIDs = {1, 2}
    BadType = BadType
    Malformed = Malformed
    MaxLen = 3
    Alphabet = {"a", "b"}
    MaxWordLen = 3
    Keys = {1, 2, 3, 4, 5, 6, 7, 8}
    Undef = Undef
    NoChild = NoChild
    CacheKeys = {1, 2, 3}
    CacheValues = {7, 8}
    CacheCapacity = 2
    MaxLines = 4
    ShardKeys = {"user1"}
    ShardValues = {"x", "y"}
    ShardIds = {"Node2", "Node4"}
    MaxShards = 4
    FileNames = {"test_file.dat"}
    Inodes = {1, 2}
    FileData <- MCFileData
    MaxOffset = 2
    MaxFileLen = 3
    DocFiles <- MCDocFiles
    MaxDocs = 2
    MaxTextLen = 3
    TableNames = {"Users", "Orders"}
    MaxPageSize = 2
    MaxRows = 4
    MaxLogLines = 3
    FwIPs = {"192.168.1.100", "192.168.1.101"}
    FwPorts = {80, 8080}
    MaxFwCalls = 4
    OAuthStates = {"s1", "s2"}
    OAuthReqs = {1, 2, 3}
    OAuthTokens = {"tokA"}
    JwtNames = {"alice"}
    JwtPasswords = {"pw1", "pw2"}
    JwtReqs = {1, 2}
    MaxClock = 12
SPECIFICATION Spec
INVARIANT DetectsExactlyCycles
INVARIANT ReplayEndStates
INVARIANT TrieAnswersMatchWords
INVARIANT TrieNoDeadNodes
INVARIANT BTreeKeysMatch
INVARIANT BTreeBalanced
INVARIANT BTreeSearchFindsKeys
INVARIANT CacheCoherent
INVARIANT ReadOwnWrite
INVARIANT TextSearchFindsDocs
INVARIANT RowStoreHoldsLiveRows
INVARIANT LogDurable
INVARIANT FirewallLogsRefusals
INVARIANT StateSingleUse
CHECK_DEADLOCK FALSE
