CONSTANTS
    NName = 2
    Objects = {o1, o2}
    NTag = 2
    Procs = {p1, p2}
SPECIFICATION Spec
SYMMETRY Symmetry
INVARIANTS TagsAgree TagsKeepFile
PROPERTY NamesMeant
