\* One pass of a report that was typed and recorded, no process dies.
CONSTANTS
    p1 = p1
    p2 = p2
    p3 = p3
    limit = limit
    reviews = reviews
    d1 = d1
    d2 = d2
    r1 = r1
    wake = wake
    report = report
    c1 = c1
    t1 = t1
    l1 = l1
    l2 = l2
    dev = dev
    nil = nil
    Cause <- AnswersCause
    Question = {limit}
    Reviews = {reviews}
    Drainer <- AnswersDrainer
    NoDrainer = NoDrainer
    MaxRound = 1
    MaxId = 2
    MaxFaults = 1
    Proc <- AnswersProc
    NoProc = NoProc
    MaxAges = 1
    Run <- AnswersRun
    NoRun = NoRun
    Workspace = {w1}
    NoWorkspace = NoWorkspace
    MaxRespawns = 1
    MaxLaunches = 3
    Mail <- AnswersMail
    Note = {wake}
    Budgeted = {report}
    Report = {report}
    Courier <- AnswersCourier
    NoCourier = NoCourier
    MaxFailures = 0
SPECIFICATION MailAloneSpec
PROPERTY DueMailIsResent
CHECK_DEADLOCK FALSE
