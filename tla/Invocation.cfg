\* The three handlers, the parsing of events and the redaction.
CONSTANTS
    Partners <- MCPartners
    Blocks <- MCBlocks
    Entries <- MCEntries
    AnyPort <- MCAnyPort
    FlowPorts <- MCFlowPorts
    MaxRules = 3
    Happenings <- MCHappenings
    PacNames <- MCPacNames
    MaxDeliveries = 2
    Sensitive = {"password"}
    TokenKeys = {"xoxb"}
    Values <- MCValues
    Texts <- MCTexts
SPECIFICATION InvocationSpec
INVARIANTS
    RemediatedIsClosed
    BenignIsTrue
    AppliedIsTrue
    ExclusionHonoured
    AppliedIsOurs
    KeyIsDisabled
    RecordsKeptApart
    OneRecord
    GuardGoesByName
    ScrubbedIsClean
    EvidenceStays
PROPERTIES
    Surgical
    ResetIsEvidenced
CHECK_DEADLOCK FALSE
