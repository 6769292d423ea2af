SPECIFICATION FairSpec
CONSTANTS
    Workers = {w1}
    MaxCommands = 3
    Malformed = {2}
    Announcer = Announcer
    MaxPublishes = 1
    MaxDirectives = 2
    MaxLosses = 1
    MaxWire = 2
    Intervals = 1
    Nothing = Nothing
    MaxLines = 4
    OptionNames <- MCOptionNames
    ToUpper <- MCToUpper
    Digits <- MCDigits
    MaxItems = 2
    MaxList = 3
INVARIANTS
    TypeOK
    OnePlace
    StallCause
    CommandsInformed
    ResponsesMeant
    StartsAsConfigured
PROPERTIES
    Served
    ListensAgain
CHECK_DEADLOCK FALSE
