SPECIFICATION FairSpec
CONSTANTS
    Workers = {w1}
    MaxCommands = 4
    Malformed = {}
    Announcer = Announcer
    MaxPublishes = 0
    MaxDirectives = 0
    MaxLosses = 0
    MaxWire = 4
    Intervals = 0
    Nothing = Nothing
    MaxLines = 0
    OptionNames <- MCOptionNames
    ToUpper <- MCToUpper
    Digits <- MCDigits
    MaxItems = 2
    MaxList = 0
PROPERTY Answered
CHECK_DEADLOCK FALSE
