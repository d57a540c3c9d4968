SPECIFICATION SpecAny
CONSTANTS
    Setter = {s1}
    Rotator = {r1}
    Sender = {e1}
    Key = {k1}
    Zero = zero
    NoKey = nokey
    Torn = torn
    NoOne = noone
    NoFrame = noframe
    MaxRot = 2
INVARIANTS InstallExclusive RotationKeepsStep LabelAtMostOneAhead CounterDebt
