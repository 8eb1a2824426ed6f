SPECIFICATION Spec
CONSTANTS
    k1 = k1
    k2 = k2
    short = short
    long = long
    Columns <- MCColumns
    SortedColumns <- MCSortedColumns
    Key = {"id"}
    Texts <- MCTexts
    Toasted = {long}
    Null = Null
    Kinds = {"full", "default", "keyless"}
    Truncates = TRUE
    MaxChanges = 4
    MaxCopies = 2
    MaxRedeliveries = 2
SYMMETRY Symmetry
INVARIANTS
    ConvergesUnlessLossy
    RowsAreImages
CHECK_DEADLOCK FALSE
