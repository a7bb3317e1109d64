SPECIFICATION GetterSpec
CONSTANTS
    Significand = 8
    SafeDigits = 2
    MaxPrecision = 4
    Word = 10
    Largest = 13
    Smallest = 10
CHECK_DEADLOCK FALSE
INVARIANT AlwaysExplicitIsAlways
