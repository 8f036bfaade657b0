SPECIFICATION MembersSpec
CONSTANTS
    LastDate = 4
    MonthOf <- MCMonthOf
    Threshold = 1
    DayCap = 1
    FreeLimit = 1
    VipLimit = 2
    MaxResets = 1
    MaxAborts = 1
    Transactions = {x1, x2}
    Chats <- MCChats
    LiveCodes <- MCLiveCodes
    RankingCodes <- MCRankingCodes
    WeeklyCodes <- MCWeeklyCodes
    GlobalCodes = {"level", "days"}
    Global = Global
    MaxStarted = 3
    Selections = {q1, q2, q3}
    Items = {i1, i2}
    MaxFeatured = 2
    Handlers = {h1, h2}
    Statuses = {"member", "administrator", "left"}
    Active = {"member", "administrator"}
    Privileged = {"administrator"}
    Member = "member"
    Unknown = Unknown
    MaxWrites = 5
    AdminRequests = {a1, a2}
    Roles = {admin, support}
    Tags = {tag1, tag2}
    MaxTags = 1
    MaxRequests = 3
    None = None
    Unsent = Unsent
    NoOne = NoOne
    WeekKey = WeekKey
    NearKey = NearKey
    StreakKey <- MCStreakKey
    Expiry <- MCExpiry
    Senders = {s1, s2}
    Users = {u1}
    WarnBefore = 1
    Cooldown = 2
    LastHour = 2
    MaxJobs = 3
    MaxFailures = 1
    Persons = {o, a}
    AllowedOwner = o
    NoPerson = NoPerson
    StaffCalls = {r1, r2}
    MaxCalls = 4
    MaxTries = 2
    MenuOrder <- MCOrder
    Premium <- MCPremium
    PanelFields = {"is_paused", "report_card_theme"}
    DayHours = 2
    HourMinutes = 2
    Shifts <- MCShifts
    SettingRequests = {w1, w2}
    MaxSettings = 3
    RuleMessages <- MCRuleMessages
    MessageDate <- MCMessageDate
    Content <- MCContent
    NoPrint = NoPrint
    NearHashes <- MCNearHashes
    XpCooldown = 2
    BurstWindow = 3
    BurstSteps <- MCBurstSteps
    XpCap = 8
    LevelUnit = 1
    Changers = {c1}
    MaxRedeliveries = 2
    MaxXpChanges = 2
INVARIANTS
    MembersTypeOK
    StreakIsEarned
    GapsArePaid
    UnlocksSettled
    FeaturedWhole
    PrivilegeKept
    AuditExplainsAccess
    RemindersSpaced
    DeliveredOnce
    OwnerUntouchable
    SettingsAddUp
    XpIsEarned
CHECK_DEADLOCK FALSE
