CONSTANTS
    Threads = {t1, t2, t3, t4}
    Clicks = 2
    Closes = TRUE
SPECIFICATION TerminalSpec
INVARIANTS OneDmdUncrossed SettingsKept
PROPERTIES OffIsOff RestartTakesLine
CHECK_DEADLOCK FALSE
