CONSTANTS
    Groups = {g1, g2}
    MaxNodes = 2
    NoValue = NoValue
SPECIFICATION Spec
SYMMETRY MCGroupSymmetry
INVARIANT GroupEntryMatchesRow
