SPECIFICATION Spec
CONSTANTS
    Builds = {app, dev}
    Bridge = bridge
    Resumers = {r1, r2}
    Nobody = nobody
    Dog = dog
    MaxAttempts = 2
    Blocks = {b1, b2}
    MaxSize = 2
    Slack = 1
    MaxLost = 3
    Width = 8
    Pings = {p1, p2}
    Numbers = {1, 2, 3}
    TagMod = 2
    Lower <- MCLower
    MaxLength = 6
    Patterns <- MCPatterns
    Hosts <- MCHosts
    PatternLists <- MCPatternLists
    Texts <- MCTexts
    Needles <- MCNeedles
    Substitutes <- MCSubstitutes
    Packets <- MCPackets
    Identifiers <- MCIdentifiers
    HeadLength = 2
    BodyLengths = {0, 1}
    Declared <- MCDeclared
    MaxInt = 7
    Tabs = {t1, t2}
    Openers = {o1, o2}
    Pages <- MCPages
    Origin <- MCOrigin
INVARIANTS
    TypeOK
    RuntimeIsFound
    StateKeptWhileUsed
    TotalIsTrue
    WokenAndUnpinnedOnce
    NoStaleContext
    OpensOneTab
    WildcardsAsPromised
    StringsAreUndone
PROPERTIES
    ProgressSurvives
    HostEnds
    PingEnds
    RequestIsAnswered
CHECK_DEADLOCK FALSE
