SPECIFICATION EfficacySpec
CONSTANTS
    HeldOut = 1
    Treatments = 1
    Controls = 1
    Judges = 2
    Marks = {1, 3}
    Floors = {0, 67}
    Deltas = {33}
    Directions = {"treatment-greater"}
    NoVerdict = none
    MaxProtocolMoves = 1
INVARIANT
    DecidedAsSealed
CHECK_DEADLOCK FALSE
