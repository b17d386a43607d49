CONSTANTS
    i1 = i1
    i2 = i2
    i3 = i3
    Items <- MCItems
    Pictured <- MCPictured
    StoreCells = {c1}
    GroceryCells = {c2}
    Slots = {s1, s2, s3}
    Nothing = Nothing
SPECIFICATION Spec
SYMMETRY Symmetry
INVARIANTS
    TypeOK
    ForeignImageIsExplained
