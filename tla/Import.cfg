\* Two imports and a post at once; the same file may run again.
SPECIFICATION Spec
CONSTANTS
    Importers = {i1, i2}
    Posters = {p1}
    Refs = {a1, a2}
    Imos = {v1}
    Names = {ann}
    Emails = {mail}
    Keys = {k1}
    Files <- MCFiles
    MaxStarts = 4
    a1 = a1
    a2 = a2
    v1 = v1
    ann = ann
    mail = mail
    k1 = k1
INVARIANTS ImportedOnce RerunDuplicatesNothing
PROPERTY VesselIsTheAccounts
SYMMETRY Symmetric
CHECK_DEADLOCK FALSE
