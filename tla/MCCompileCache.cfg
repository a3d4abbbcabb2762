SPECIFICATION CacheSpec
CONSTANTS
    p1 = p1
    p2 = p2
    p3 = p3
    Process <- MCProcess
SYMMETRY ProcessSymmetry
INVARIANT CacheTypeOK
INVARIANT NeverPartial
INVARIANT SoundUnlessConcurrent
