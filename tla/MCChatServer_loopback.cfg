\* One client that sends \nickname and \private with its new name as two reads, one slow worker: the \private must be refused.
CONSTANTS
    c1 = c1
    c2 = c2
    f1 = f1
    s1 = s1
    None = None
    Invalid = Invalid
    Server = Server
    Nick = Nick
    Listen = Listen
    Clients = {c1}
    FDs <- MCOneFD
    FastWorkers <- MCOneFast
    SlowWorkers <- MCSlowWorkers
    MaxLines = 2
    LineKinds = {"nick", "private"}
    Hangups = FALSE
SPECIFICATION Spec
INVARIANT NoPrivateLoopBack
