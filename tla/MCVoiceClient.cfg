SPECIFICATION VoiceSpec
CONSTANTS
    a = a
    b = b
    k1 = k1
    k2 = k2
    Nobody = Nobody
    Clients = {a, b}
    Calls = {k1}
    MaxHeard = 2
SYMMETRY Symmetry
INVARIANTS
    CallsFollowWords
    OnlyInterruptedLeak
    ShownIsThere
