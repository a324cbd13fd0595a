SPECIFICATION MoveSpec
CONSTANT
    Caller = {g1, g2, g3}
PROPERTY CallsReturn
CHECK_DEADLOCK FALSE
