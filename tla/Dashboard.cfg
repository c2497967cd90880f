SPECIFICATION DashboardSpec
CONSTANTS
    MaxLines = 2
    MaxOutput = 1
    MaxPolls = 2
    MaxFailures = 1
    Conns = {c1, c2}
    ClientBuf = 1
    WireCap = 1
    MaxVersion = 1
    MaxBreaks = 2
    MaxFetches = 2
INVARIANT NoLineSkipped
PROPERTIES LogCatchesUp LiveViewConverges GoneIsUnregistered
CHECK_DEADLOCK FALSE
