CONSTANTS
    NLine = 1
    Borrowers = {b1, b2}
    Users = {b1, b2, "tab"}
    NCmd = 1
    MaxGreets = 2
    MaxDials = 2
    MaxUnread = 1
SPECIFICATION Spec
INVARIANTS LinesAccounted NoShellInherited LoggedOutMeansDone
PROPERTY LinesReturn
