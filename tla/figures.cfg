SPECIFICATION MCSpec
CONSTANTS
    Versions <- AllVersions
    Scenarios = {"life", "volume", "disputes", "fees", "rates", "market", "address"}
    Questions <- AllQuestions
    Spans <- TheSpans
    Segments <- Words
    Clocks = {9, 13}
    Reference = 1
    RATES_BUCKET = 2
    DAY = 2
    WEEK = 2
    MONDAY = 1
    YEAR = 2
    MonthStart <- FourMonths
    DEFAULT_WINDOW = 6
    MAX_WINDOW = 14
    None = None
    MAX_AGE = 3
    IndexedFrom <- Asked
    SINGLE_COPY_KINDS = {"info", "rates", "relay_list"}
    DEAD_AFTER = 5
    I64_MAX = 9
    FLOAT_MAX = 40
    SIZES <- Limits
    SCALE = 4
    SILENT_AFTER = 3
    YearText <- Years
    MonthText <- MonthNames
    Hex <- Digits
    Absent = None
    MAX_BUCKETS = 6
    SpanDays <- Days
    NetworksSetting = {}
    PctSetting <- Shares
    Letters <- Spellings
    NameOf <- Nicknames
INVARIANTS
    TypeOK
    ColumnsAddUp
    EventsPlotted
    NeighbourCompared
    LoadedEnough
    PaidOnce
    SightedOnce
    CurrenciesPartition
    AnswersAgree
    AddressesParse
PROPERTIES
    OnlyEventsMoveFigures
    NoHindsight
    EndIsFinal
