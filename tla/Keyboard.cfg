SPECIFICATION Spec
CONSTANTS
    Keys = {"LSHIFT", "RSHIFT", "RCTL", "ALT", "P", "C", "S", "D", "E", "H", "SPACE"}
    MaxHeld = 4
    MaxBytes = 1
    MaxTicks = 1
    DOUBLE_PRESS = 2
    SK_tq = 1
INVARIANTS NoStuckModifier OneCaseMode AnomalyIsDevil
PROPERTIES CipherHidesKeys
