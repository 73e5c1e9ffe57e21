SPECIFICATION AllSpec
CONSTANTS
    Parts = {"config"}
    r1 = r1
    r2 = r2
    Kind <- Kinds
    Attr <- Attrs
    Guard <- Guards
    Takes <- Arity
    Returns <- Result
    Text <- Texts
    Nothing = "None"
    NoUser = "nobody"
    NoRealm = "none"
    Unknown = "unknown"
    Bad = "bad"
    Hidden <- Secret
    Empty = ""
    Requests <- PublisherRequests
    TableKey <- Keys4
    TableValue <- Values4
    CaseFold <- Folds4
    NatFold <- Folds4
    Letter <- Letters4
    Joined = "[]"
    Blank = ""
    BadPair <- BadTablePair
    TableConfigs <- SmallTables
    Request = {r1, r2}
    Sections <- SomeSections
    OptionKey = {"k1", "k2"}
    OptionValue = {"", "v1"}
    Phase = {"PythonAuthenHandler", "PythonHandler"}
    Ext = {".py"}
    Handler = {"h1"}
    File <- AFile
    ResolvedDir <- Matching
    SharedWrites = FALSE
    ConfigConfigs <- SmallConfigs
PROPERTY EmptyRemoved
CHECK_DEADLOCK FALSE
