SPECIFICATION Spec
CONSTANTS
    k1 = k1
    k2 = k2
    short = short
    long = long
    Columns <- MCColumns
    SortedColumns <- MCSortedColumns
    Key = {"id"}
    Texts <- MCTexts
    Toasted = {long}
    Null = Null
    Kinds = {"default"}
    Truncates = FALSE
    MaxChanges = 3
    MaxCopies = 2
    MaxRedeliveries = 0
SYMMETRY Symmetry
INVARIANT
    Converges
CHECK_DEADLOCK FALSE
