SPECIFICATION SpecMC
CONSTANTS
    Locals <- MCLocals
    Exported = {"x", "default"}
    Default = "default"
    Anonymous = "-"
    Unnoticed = {}
    MaxStatements = 4
    A = A
    B = B
    C = C
    o = o
    p = p
    Bindings <- MCBindings
    NotExported = "-"
    Overlooked = {}
    MaxWords = 7
    Names = {"z", "Schema", "lib", "Date", "v"}
    Imports = {"z", "Schema", "lib"}
    Zod = {"z"}
    OldZod = {}
    Patterned = {"Schema"}
    Globals = {"Date"}
    NoName = "-"
    Blind = {}
    MaxParts = 3
    Sources = {"e", "b", "b/index"}
    Specifiers = {"./b", "lib"}
    Probes <- MCProbes
    Strict = {"./b"}
    Hidden = {}
    Texts <- MCTexts
    Unknown = "unknown"
    OutOfScope = "out of scope"
    Unresolved = "unresolved"
    MaxFiles = 2
    MaxChanges = 1
SYMMETRY Symmetry
INVARIANTS
    FileTypeOK
    HoistIsSafe
    OutputInitialises
    OwnValidator
    FilterIsSound
    CrawlCovers
CHECK_DEADLOCK FALSE
