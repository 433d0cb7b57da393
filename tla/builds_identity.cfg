SPECIFICATION Spec
CONSTANTS
    t1 = t1
    t2 = t2
    u1 = u1
    u2 = u2
    u3 = u3
    elf = elf
    axf = axf
    None = None
    Gone = Gone
    Session = {t1, t2}
    Upload = {u1, u2, u3}
    Suffix = {elf, axf}
    SuffixOf <- MixedSuffix
    HasSymbols = {u1, u2}
    Versioned = FALSE
    MaxDeletes = 3
INVARIANTS
    OneBuildPerIdentity
CHECK_DEADLOCK FALSE
