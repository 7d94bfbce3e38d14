SPECIFICATION Spec
CONSTANTS
    e1 = e1
    e2 = e2
    Editors = {e1, e2}
    Generators = {g1}
    Omitted = Omitted
    Schools <- MCSchools
    MaxEdits = 2
SYMMETRY MCSymmetry
CHECK_DEADLOCK FALSE
INVARIANTS TypeOK StoredAsAsked CurriculumStored EntriesStand
