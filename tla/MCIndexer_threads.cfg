CONSTANTS
    Workers = {w1, w2}
    Paths = {p1, p2}
    Contents <- TwoContents
    Indexable <- TwoContents
    CanFail = TRUE
    CanCrash = TRUE
    MaxOps = 3
    Missing = Missing
    NoPath = NoPath
    Zero = Zero
SPECIFICATION Spec
INVARIANT RowsInRange
SYMMETRY FullSymmetry
