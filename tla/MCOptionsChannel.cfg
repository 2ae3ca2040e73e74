\* Serial launches against a started server; the server may stop idle.
CONSTANTS
    a1 = a1  a2 = a2  a3 = a3  a4 = a4  f1 = f1  f2 = f2
    None = None
    Admins <- MCAdmins
    Launch <- MCLaunch
    Vals = {0, 1, 2}
    Files = {f1, f2}
    IniMaint = 0
    ServerMaintOpt = None
    IniFile = f1
    Serial = TRUE
    SlowReader = FALSE
SPECIFICATION Spec
INVARIANTS TypeOK OptionSectionsExclusive LastMaintApplied
PROPERTIES KillStopsServer
CHECK_DEADLOCK FALSE
