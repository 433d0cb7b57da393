SPECIFICATION Spec
CONSTANTS
    t1 = t1
    t2 = t2
    r1 = r1
    r2 = r2
    r3 = r3
    f1 = f1
    f2 = f2
    d1 = d1
    d2 = d2
    raw = raw
    sym = sym
    other = other
    None = None
    Report = {r1, r2, r3}
    Session = {t1}
    Sig = {raw, sym, other}
    Firmware = {f1, f2}
    Device = {d1, d2}
    FirmwareOf <- SerialFirmware
    DeviceOf <- SerialDevice
    OccurredAt <- SerialTime
    ParsedSeverity <- SerialSeverity
    RawSignature <- SerialRaw
    SymbolSignature <- SerialSym
    Does <- AllRequests
    TriageStatus = {}
    TriageSeverity = {}
    Deletes = TRUE
    Unbuilt = {f1, f2}
    OneAtATime = TRUE
INVARIANTS
    TallyExact
