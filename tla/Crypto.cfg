SPECIFICATION FairSpec
CONSTANTS
    Setter = {s1}
    Rotator = {}
    Sender = {e1, e2, e3}
    Key = {k1, k2}
    Zero = zero
    NoKey = nokey
    Torn = torn
    NoOne = noone
    NoFrame = noframe
    MaxRot = 0
PROPERTIES OneMaster CallsReturn
