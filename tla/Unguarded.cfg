\* A close of a run that settles between its two looks.
CONSTANTS
    r1 = r1
    r2 = r2
    g1 = g1
    g2 = g2
    s1 = s1
    s2 = s2
    k1 = k1
    k2 = k2
    Run <- ServicesRun
    NoRun = NoRun
    Workspace = {w1, w2}
    NoWorkspace = NoWorkspace
    MaxRespawns = 1
    MaxLaunches = 2
    RunTask = {t1}
    Gate <- ServicesGate
    Closer = {closer}
    HasPr = TRUE
    MaxTip = 1
    Mail = {wake, report}
    Note = {wake}
    Budgeted = {report}
    Report = {report}
    Courier = {c1, c2}
    NoCourier = NoCourier
    MaxFailures = 0
    Spawner <- ServicesSpawner
    NoSpawner = NoSpawner
    Record <- ServicesRecord
    NoRecord = NoRecord
    Role = {dev}
SPECIFICATION WorkAloneSpec
PROPERTY CloseIsGuarded
CHECK_DEADLOCK FALSE
