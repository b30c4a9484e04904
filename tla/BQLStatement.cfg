SPECIFICATION StmtSpec
CONSTANTS
    MaxInt = 127
    MaxExact = 32
    Names <- MCNames
    Texts <- MCTexts
    Tuples <- MCTuples
    MaxRows = 3
    MaxRange <- MCMaxRange
CHECK_DEADLOCK FALSE
INVARIANTS TextsAreStatements OperatorsBindByPrecedence StringParsesBack
     ReferencesAreKnown 
