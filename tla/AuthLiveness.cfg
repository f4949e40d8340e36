SPECIFICATION FairSpec
CONSTANTS
    Device = {d1}
    Task = {t1, t2}
    Answer = {"error"}
    None = None
    Corrupt = Corrupt
    MaxLoops = 1
    MaxRestarts = 0
PROPERTIES SignInSettles
