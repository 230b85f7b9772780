CONSTANTS
    Names = {a, b}
    MaxObj = 2
    NFid = 6
    NTag = 2
SPECIFICATION Spec
INVARIANTS FidsAgree FidOwners TwoFids DataOfItsOwn FidsSuffice
PROPERTIES CallsEnd
