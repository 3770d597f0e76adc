SPECIFICATION SymSpec
CHECK_DEADLOCK FALSE
CONSTANTS
    Databases <- DBs
    Numbers = {2}
    MaxSets = 1
PROPERTY OnlyOneSet
