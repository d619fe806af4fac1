CONSTANTS
    Workers = {w1}
    Paths = {p1, p2}
    Contents <- TwoContents
    Indexable <- TwoContents
    CanFail = TRUE
    CanCrash = FALSE
    MaxOps = 4
    Missing = Missing
    NoPath = NoPath
    Zero = Zero
SPECIFICATION Spec
PROPERTY ScanIndexesAll
SYMMETRY PathSymmetry
