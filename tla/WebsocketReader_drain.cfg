SPECIFICATION Spec
CONSTANTS
    Scripts <- OneMessage
    Habits = {"try"}
INVARIANTS
    UnmaskedOnce
CHECK_DEADLOCK FALSE
