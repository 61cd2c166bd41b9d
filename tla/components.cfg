SPECIFICATION Spec
CONSTANTS
    MaxNow = 4
    a = a
    b = b
    c = c
    c1 = c1
    p1 = p1
    u1 = u1
    f1 = f1
    f2 = f2
    f3 = f3
    m1 = m1
    none = none
    \* Trust
    Peers = {s1}
    KnownKeys = {s1}
    Day = 2
    QuarantineDays = 1
    Limit <- LimitDef
    MessageLife = 1
    Nonces = {n1}
    MaxViolations = 1
    MaxExcused = 1
    \* Directory
    Servers = {a, b}
    Self = a
    NatServers = {b}
    ServerTTL = 1
    CacheTTL = 2
    Asked <- AskedDef
    \* NetworkMap
    Nodes = {a, b, c}
    NodeTTL = 2
    MaxNodes = 2
    \* ProxyClients
    People = {p1, p2}
    Tokens = {t1}
    ClientIds = {c1, c2}
    Requests = {r1, r2}
    InviteLife = 0
    Month = 1
    BasicLimit = 1
    StandardLimit = 1
    OwnLimits = {0}
    MaxAnswer = 1
    Rooms = {1, 2}
    MaxActs = 1
    MaxToday = 3
    \* Accounts
    AccountProcesses = {1, 2}
    Phrases = {f1, f2, f3}
    Passwords = {w1}
    NoPassword = none
    Addresses = {a1}
    MailAddresses = {m1}
    MailIn <- MailInDef
    MaxClientAccounts = 2
    MaxServerAccounts = 1
    MaxDraws = 2
    RegistrationLimit = 1
    RegistrationPeriod = 1
    RecoveryLimit = 1
    RecoveryPeriod = 1
    LinkLife = 1
    Links = {l1}
    MaxMails = 2
    \* RotationV3
    Users = {u1, u2}
    RotationTimeout = 1
    MaxRotations = 1
    MaxAccepts = 1
    MaxFaults = 1
    \* Sessions
    Browsers = {b1}
    TokenLife = 1
    ConsentLife = 1
    e1 = e1
    e2 = e2
    \* Processes
    WebClients = {i1, i2, i3}
    MaxWebClients = 2
    Runners = {1, 2}
    \* Registry
    ServerProcesses = {1, 2}
    Main = 1
    KnownServers = {s1}
    KnownClients = {i1}
    MasterKeys = {k1, k2, k3}
    \* Dialogs
    Talkers = {"p", "q"}
    Mails = {e1, e2}
    MailFrom <- MailFromDef
    \* Files
    FileIds = {i1, i2}
    FileMessages = {e1, e2}
    Packets <- PacketsDef
    Oversized = {e2}
    \* Contacts
    PublicIds <- PublicIdsDef
    Me <- MeDef
    Chatted <- ChattedDef
    Names = {"own", "other"}
    DefaultName = "own"
    ContactProcesses = {1, 2}
    NoContact = none
    \* Padding
    Directions = {"pq"}
    KeyLength = 2
    KeyByte <- KeyByteDef
    Texts <- TextsDef
    Passphrases = {f1}
    NoPassphrase = none
    NoText = none
    PadMin = 32
    PadRange = 96
    PadBoost = 32
    PadMax = 192
    LongText = 200
    MaxCounter = 3
INVARIANTS
    ComponentsTypeOK
    AllowancePaid
    GossipOnce
    ToldWereAlive
    OwnEntryCurrent
    MapStored
    OvershootBounded
    InviteOnce
    WindowsLimited
    PhraseRegistersOnce
    WaitsForKnown
    ConfirmedAgree
    OneServer
    ClientsOwned
    SessionKeyOwned
    RowsReadable
    ReportedIsRead
    FilesWhole
PROPERTIES
    BlockOutlivesTraffic
    OffenderStaysOut
    BeatingStays
    TableLeases
CHECK_DEADLOCK FALSE
