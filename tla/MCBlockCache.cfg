SPECIFICATION BlocksSpec
CONSTANTS
    Others = {mallory, trent}
    Reads = {r1, r2}
    Writes = {w1, w2}
SYMMETRY Symmetry
INVARIANT StaleOnlyByRace
