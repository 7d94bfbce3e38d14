SPECIFICATION Spec
CONSTANTS
    r1 = r1
    r2 = r2
    Requests = {r1}
    Emails <- MCEmails
    MaxStaff = 3
    MaxUsers = 2
INVARIANTS
    StartSucceeds
