SPECIFICATION Spec
CONSTANTS
    r1 = r1
    r2 = r2
    Requests = {r1, r2}
    Emails <- MCEmails
    MaxStaff = 2
    MaxUsers = 2
SYMMETRY MCSymmetry
INVARIANTS
    TypeOK
    OneStaffPerUser
    LinkFreeUnlessRaced
PROPERTIES
    StartOnlyAddsLinks
