SPECIFICATION RenderingSpec
CONSTANTS
    Clients = {renderEvent, other}
    RenderEvent = renderEvent
    Other = other
    Period = 2
    OtherTimes = {2}
    MaxCookie = 3
    MaxNow = 4
    SampleTimes = {0}
    Duration = 2500000
    Leads = {10000000, 0}
    Lags = {3000000, 12000000}
    Renders = {10000, 3000000}
    MaxFrames = 5
INVARIANTS
    RenderingSound
    AdvisesWake
PROPERTIES
    DropsAreJustified
    RenderingGoesOn
CHECK_DEADLOCK FALSE
