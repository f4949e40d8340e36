SPECIFICATION Spec
CONSTANTS
    Device = {d1}
    Task = {t1, t2}
    Answer = {"needs_2fa"}
    None = None
    Corrupt = Corrupt
    MaxLoops = 0
    MaxRestarts = 1
SYMMETRY Symmetric
INVARIANTS PairingSurvives RestartRestores WindowAgrees ReadyIsEarned
