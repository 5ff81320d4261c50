SPECIFICATION MCSpec
CONSTANTS
    MinLength = 2
    MaxLength = 3
    Lead = 2
    Latest = 10
    MaxOvershoot = 2
    Limit = 16
    screen_width = 9
    Windows = {w1}
    NULL = null
    DefaultRate = 3
    Edits = {0, 15}
    Widths = {4, 5}
    MaxEdits = 2
    Lists = {l1, l2}
    Nodes = {n1, n2, n3}
    Data = {a, b, c}
    Null = null
    iCacheSize = 1
    Pins = {p1, p2}
    Enums = {e1, e2}
    MaxAsk = 2
    MaxVersion = 2
    MaxPins = 2
    MediaTypes = {t1, t2}
    MaxTypes = 2
    MaxPosition = 2
    Impls = {"screencam", "mapper2", "mapper1", "objects"}
    MaxCalls = 4
    Blocks = {1, 2, 3, 4}
    Formats = {"f", "g"}
    W = 3
INVARIANTS
    FramesPaced
    SettingsKept
    PinConsistent
    ListsSound
    ToolsSound
PROPERTY TimesInOrder
CHECK_DEADLOCK FALSE
