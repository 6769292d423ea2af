SPECIFICATION Spec
CONSTANTS
    Workers = {w1}
    MaxCommands = 1
    Malformed = {}
    Announcer = Announcer
    MaxPublishes = 0
    MaxDirectives = 0
    MaxLosses = 0
    MaxWire = 1
    Intervals = 0
    Nothing = Nothing
    MaxLines = 0
    OptionNames <- MCOptionNames
    ToUpper <- MCToUpper
    Digits <- MCDigits
    MaxItems = 2
    MaxList = 0
INVARIANT AssignedKept
CHECK_DEADLOCK FALSE
