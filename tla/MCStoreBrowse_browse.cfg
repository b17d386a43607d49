CONSTANTS
    s1 = s1
    s2 = s2
    s3 = s3
    t1 = t1
    t2 = t2
    Stores <- MCStores
    Texts <- MCTexts
    Matching <- MCMatching
    EmptyText = EmptyText
    Nothing = Nothing
SPECIFICATION Spec
INVARIANTS
    TypeOK
    RowsExist
    TappedIsShown
    ListIsComplete
