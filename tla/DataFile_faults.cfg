SPECIFICATION Spec
CONSTANTS
    Docs = {d0, d1}
    Default = d0
    Absent = Absent
    Garbage = Garbage
    MaxErrors = 1
    MaxDamage = 1
    MaxCuts = 1
INVARIANTS
    
    OneCopyWhole

    
