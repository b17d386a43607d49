CONSTANTS
    s1 = s1
    s2 = s2
    g1 = g1
    g2 = g2
    Offers <- MCOffers
    Nothing = Nothing
    MaxQuantity = 2
    MaxTaps = 3
SPECIFICATION Spec
PROPERTIES
    PlacingGoesOn
