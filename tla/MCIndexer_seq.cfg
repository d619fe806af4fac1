CONSTANTS
    Workers = {w1}
    Paths = {p1, p2}
    Contents <- MixedContents
    Indexable <- PlainContents
    CanFail = FALSE
    CanCrash = FALSE
    MaxOps = 4
    Missing = Missing
    NoPath = NoPath
    Zero = Zero
SPECIFICATION Spec
INVARIANT HashDescribesChunks
INVARIANT RowsMatchChunks
PROPERTY ScanIndexesAll
SYMMETRY PathSymmetry
