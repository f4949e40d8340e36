SPECIFICATION Spec
CONSTANTS
    Device = {d1}
    Task = {t1, t2}
    Answer = {"needs_2fa"}
    None = None
    Corrupt = Corrupt
    MaxLoops = 2
    MaxRestarts = 1
INVARIANTS SpawnedOnce
