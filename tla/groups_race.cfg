SPECIFICATION Spec
CONSTANTS
    t1 = t1
    t2 = t2
    r1 = r1
    r2 = r2
    r3 = r3
    f1 = f1
    f2 = f2
    d1 = d1
    d2 = d2
    raw = raw
    sym = sym
    other = other
    None = None
    Report = {r1, r2}
    Session = {t1, t2}
    Sig = {raw, sym}
    Firmware = {f1}
    Device = {d1}
    FirmwareOf <- RaceFirmware
    DeviceOf <- RaceDevice
    OccurredAt <- RaceTime
    ParsedSeverity <- RaceSeverity
    RawSignature <- RaceRaw
    SymbolSignature <- RaceSym
    Does <- MixedRequests
    TriageStatus = {}
    TriageSeverity = {}
    Deletes = FALSE
    Unbuilt = {}
    OneAtATime = FALSE
INVARIANTS
    TallyExact
