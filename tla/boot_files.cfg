SPECIFICATION Spec
CONSTANTS
    h1 = h1
    r1 = r1
    m1 = m1
    m2 = m2
    Handler = {h1}
    Refresher = {r1}
    Module = {m1, m2}
    Latest = 2
    OsOf <- MCOsOf
    ModulesOf <- MCModulesOf
    Tagged = {1, 2}
    SizeOf <- MCSizeOf
    DisableBootTimeFiles = FALSE
    MaxFaults = 1
    NoImage = NoImage
INVARIANTS TypeOK ScriptsListFiles FilesMatchAnswer
PROPERTIES ImplementsWriteAll
CHECK_DEADLOCK FALSE
