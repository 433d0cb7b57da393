---------------------------- MODULE CrashParser -----------------------------
(* What a device's payload becomes: a normalised crash report with the       *)
(* warnings raised on the way, or a rejection.                              *)
(*                                                                          *)
(* A payload is a function from its keys to JSON values.  A value is a       *)
(* record of its type t and its contents; an object is the sequence of its   *)
(* pairs.  What Python reads in a text is the constant Reading: the number   *)
(* it is in hexadecimal, the instant or the number it is as a time, the      *)
(* fault it names, the fault patterns it contains, the words it splits into. *)
EXTENDS Selection, Optional

CONSTANTS
    Reading,        \* text -> [hex, instant, number, fault, holds, words]
    Now,            \* the time of receipt
    MaxClockSkew,   \* bound: how far ahead a device's clock may be
    MillisAbove,    \* bound: an epoch value above it is in milliseconds
    Millis,         \* milliseconds of a second
    LastInstant,    \* bound: the last second a datetime holds (year 9999)
    MaxAddress,     \* bound: the address space
    MaxRegisters, MaxStackWords     \* bounds of one report's dumps

\* The accepted spellings of each field; the first present wins.
FieldAliases ==
    [device_identifier |-> <<"device_id", "deviceId", "device", "serial_number", "serial", "uid">>,
     firmware_version |-> <<"firmware_version", "firmwareVersion", "fw_version", "fw", "version">>,
     build_version |-> <<"build_version", "buildVersion", "build", "build_id", "git_sha", "commit">>,
     occurred_at |-> <<"timestamp", "occurred_at", "occurredAt", "time", "ts", "crash_time">>,
     fault_type |-> <<"fault_type", "faultType", "fault", "type", "reason", "crash_type">>,
     exception_type |-> <<"exception_type", "exceptionType", "exception", "exc">>,
     task_name |-> <<"task_name", "taskName", "task", "thread", "thread_name">>,
     program_counter |-> <<"program_counter", "programCounter", "pc", "PC">>,
     link_register |-> <<"link_register", "linkRegister", "lr", "LR">>,
     stack_pointer |-> <<"stack_pointer", "stackPointer", "sp", "SP", "msp", "MSP">>,
     registers |-> <<"register_dump", "registerDump", "registers", "regs", "core_registers">>,
     stack |-> <<"stack_dump", "stackDump", "stack", "stack_trace", "stack_words">>,
     severity |-> <<"severity", "level", "priority">>]

\* Specific patterns before general ones.
FaultPatterns ==
    <<<<"stackoverflow", "stack_overflow">>, <<"stackovf", "stack_overflow">>,
      <<"memmanage", "mem_manage_fault">>, <<"memfault", "mem_manage_fault">>,
      <<"mpu", "mem_manage_fault">>, <<"busfault", "bus_fault">>, <<"buserror", "bus_fault">>,
      <<"usagefault", "usage_fault">>, <<"hardfault", "hard_fault">>,
      <<"watchdog", "watchdog_reset">>, <<"wdt", "watchdog_reset">>, <<"iwdg", "watchdog_reset">>,
      <<"assert", "assertion_failed">>, <<"malloc", "malloc_failed">>,
      <<"outofmemory", "malloc_failed">>, <<"oom", "malloc_failed">>, <<"heap", "malloc_failed">>,
      <<"panic", "panic">>, <<"abort", "panic">>>>

SeverityByFault(fault) ==
    CASE fault \in {"hard_fault", "mem_manage_fault", "stack_overflow"} -> "critical"
      [] fault \in {"assertion_failed", "unknown"} -> "medium"
      [] OTHER -> "high"

SeverityWords ==
    [low |-> "low", medium |-> "medium", high |-> "high", critical |-> "critical",
     info |-> "low", debug |-> "low", warn |-> "medium", warning |-> "medium",
     error |-> "high", err |-> "high", fatal |-> "critical", emergency |-> "critical"]

Registers == {"r0", "r1", "r2", "r3", "r4", "r5", "r6", "r7", "r8", "r9", "r10", "r11", "r12",
    "r13", "r14", "r15", "sp", "lr", "pc", "psr", "msp", "psp", "primask", "basepri",
    "control", "cfsr", "hfsr", "mmfar", "bfar", "dfsr", "afsr", "shcsr"}

RegisterAliases ==
    [xpsr |-> "psr", apsr |-> "psr", ipsr |-> "psr", epsr |-> "psr",
     fp |-> "r11", ip |-> "r12", sl |-> "r10"]

-----------------------------------------------------------------------------
(* Field lookup.                                                           *)

Null == [t |-> "null"]

Lookup(payload, field) ==
    LET aliases == FieldAliases[field]
        present == {i \in DOMAIN aliases :
                       aliases[i] \in DOMAIN payload /\ payload[aliases[i]] # Null}
    IN  IF present = {} THEN Null ELSE payload[aliases[Min(present)]]

\* A text is given without the blanks around it; anything else is printed.
TextOf(value) == IF value.t = "text" THEN value.w ELSE "printed"

OptionalText(payload, field) ==
    LET value == Lookup(payload, field)
    IN  IF value = Null \/ TextOf(value) = "" THEN None ELSE TextOf(value)

-----------------------------------------------------------------------------
(* Addresses.                                                              *)

\* Mutant of InRange: negative numbers are addresses.
InRangeSigned(n) == IF n # None /\ n <= MaxAddress THEN n ELSE None

InRange(n) == IF n # None /\ n >= 0 /\ n <= MaxAddress THEN n ELSE None

\* Bare digits in a text are hexadecimal.
ParseAddress(value) ==
    CASE value.t = "int" -> InRange(value.v)
      [] value.t = "float" /\ value.whole -> InRange(value.v)
      [] value.t = "text" -> InRange(Reading[value.w].hex)
      [] OTHER -> None

AddressField(payload, field) ==
    LET value == Lookup(payload, field)
    IN  IF value = Null THEN None ELSE ParseAddress(value)

Unread(payload, field) ==
    Lookup(payload, field) # Null /\ AddressField(payload, field) = None

-----------------------------------------------------------------------------
(* Timestamps.                                                             *)

FromEpoch(n) ==
    LET seconds == IF n > MillisAbove THEN n \div Millis ELSE n
    IN  IF n = None \/ n <= 0 \/ seconds > LastInstant THEN None ELSE seconds

Instant(value) ==
    CASE value.t \in {"int", "float"} -> FromEpoch(value.v)
      [] value.t = "text" -> IF Reading[value.w].instant # None THEN Reading[value.w].instant
                             ELSE FromEpoch(Reading[value.w].number)
      [] OTHER -> None

\* Missing and unreadable times become the time of receipt.
OccurredAt(payload) ==
    LET at == Instant(Lookup(payload, "occurred_at")) IN IF at = None THEN Now ELSE at

TooFarAhead(payload) == OccurredAt(payload) > Now + MaxClockSkew

-----------------------------------------------------------------------------
(* Fault type and severity.                                                *)

ClassifyFault(text) ==
    LET matching == IF text = "" THEN {} ELSE
            {i \in DOMAIN FaultPatterns : FaultPatterns[i][1] \in Reading[text].holds}
    IN  IF Reading[text].fault # None THEN Reading[text].fault
        ELSE IF matching = {} THEN "unknown"
        ELSE FaultPatterns[Min(matching)][2]

\* The exception field answers when there is no fault field.
FaultType(payload) ==
    LET fault == Lookup(payload, "fault_type")
        value == IF fault = Null THEN Lookup(payload, "exception_type") ELSE fault
    IN  IF value = Null THEN "unknown" ELSE ClassifyFault(TextOf(value))

\* The device's word for it, else what the fault deserves.
Severity(payload) ==
    LET value == Lookup(payload, "severity")
    IN  IF value # Null /\ TextOf(value) \in DOMAIN SeverityWords
        THEN SeverityWords[TextOf(value)]
        ELSE SeverityByFault(FaultType(payload))

UnknownSeverity(payload) ==
    /\ Lookup(payload, "severity") # Null
    /\ TextOf(Lookup(payload, "severity")) \notin DOMAIN SeverityWords

-----------------------------------------------------------------------------
(* Register and stack dumps.                                               *)

CanonicalRegister(name) ==
    LET cleaned == IF name \in DOMAIN RegisterAliases THEN RegisterAliases[name] ELSE name
    IN  IF cleaned \in Registers THEN cleaned ELSE None

Positional(i) ==
    LET names == <<"r0", "r1", "r2", "r3", "r4", "r5", "r6", "r7", "r8", "r9", "r10",
                   "r11", "r12", "r13", "r14", "r15">>
    IN  IF i \in DOMAIN names THEN names[i] ELSE "beyond r15"

\* Name and value of each entry; only an array is cut.
RegisterPairs(value) ==
    CASE value.t = "object" -> value.pairs
      [] value.t = "list" ->
             [i \in 1..Min({Len(value.items), MaxRegisters}) |-> <<Positional(i), value.items[i]>>]
      [] OTHER -> <<>>

UsableEntries(pairs) ==
    {i \in DOMAIN pairs :
        CanonicalRegister(pairs[i][1]) # None /\ ParseAddress(pairs[i][2]) # None}

\* Of several entries for one register the last wins.
RegisterDump(payload) ==
    LET pairs == RegisterPairs(Lookup(payload, "registers"))
        usable == UsableEntries(pairs)
        For(r) == {i \in usable : CanonicalRegister(pairs[i][1]) = r}
    IN  [r \in {r \in Registers : For(r) # {}} |-> ParseAddress(pairs[Max(For(r))][2])]

RegisterLoss(payload) ==
    LET value == Lookup(payload, "registers")
    IN  \/ value.t \notin {"null", "object", "list"}
        \/ value.t = "list" /\ Len(value.items) > MaxRegisters
        \/ UsableEntries(RegisterPairs(value)) # DOMAIN RegisterPairs(value)

\* The value under the first of the keys the object has.
FirstOf(object, keys) ==
    LET has == {i \in DOMAIN keys : \E j \in DOMAIN object.pairs : object.pairs[j][1] = keys[i]}
        key == keys[Min(has)]
        at == CHOOSE j \in DOMAIN object.pairs : object.pairs[j][1] = key
    IN  IF has = {} THEN Null ELSE object.pairs[at][2]

WordsField(value) ==
    IF value.t = "object" THEN FirstOf(value, <<"words", "data", "stack", "values", "dump">>)
    ELSE value

StartAddress(value) ==
    IF value.t = "object"
    THEN ParseAddress(FirstOf(value, <<"start_address", "startAddress", "address", "base", "sp">>))
    ELSE None

\* The tokens of the dump, before any is cut or skipped.
StackTokens(payload) ==
    LET words == WordsField(Lookup(payload, "stack"))
    IN  CASE words.t = "list" -> words.items
          [] words.t = "text" -> Reading[words.w].words
          [] OTHER -> <<>>

KeptTokens(payload) ==
    LET tokens == StackTokens(payload)
    IN  SubSeq(tokens, 1, Min({Len(tokens), MaxStackWords}))

StackWords(payload) ==
    LET tokens == KeptTokens(payload)
    IN  Select([i \in DOMAIN tokens |-> ParseAddress(tokens[i])], 0..MaxAddress)

\* Mutant of StackLoss: a dump that is cut raises no warning.
StackLossUncut(payload) == Len(StackWords(payload)) < Len(KeptTokens(payload))

StackLoss(payload) ==
    LET value == Lookup(payload, "stack")
    IN  \/ value # Null /\ WordsField(value).t \notin {"list", "text"}
        \/ Len(StackTokens(payload)) > MaxStackWords
        \/ Len(StackWords(payload)) < Len(KeptTokens(payload))

-----------------------------------------------------------------------------
(* The report.                                                             *)

\* A key register missing from its field is taken from the dump.
Backfilled(payload, field, register) ==
    /\ AddressField(payload, field) = None
    /\ register \in DOMAIN RegisterDump(payload)

KeyRegister(payload, field, register) ==
    IF Backfilled(payload, field, register) THEN RegisterDump(payload)[register]
    ELSE AddressField(payload, field)

Warnings(payload) ==
    LET addresses == {<<"program_counter", "pc">>, <<"link_register", "lr">>,
                      <<"stack_pointer", "sp">>}
    IN  {f[1] : f \in {g \in addresses : Unread(payload, g[1])}} \cup
        {f[2] : f \in {g \in addresses : Backfilled(payload, g[1], g[2])}} \cup
        {w \in {"timestamp"} : Instant(Lookup(payload, "occurred_at")) = None} \cup
        {w \in {"ahead"} : OccurredAt(payload) > Now} \cup
        {w \in {"fault_type"} : FaultType(payload) = "unknown"} \cup
        {w \in {"severity"} : UnknownSeverity(payload)} \cup
        {w \in {"registers"} : RegisterLoss(payload)} \cup
        {w \in {"stack"} : StackLoss(payload)}

Rejected(payload) ==
    OptionalText(payload, "firmware_version") = None \/ TooFarAhead(payload)

Parse(payload) ==
    [device |-> OptionalText(payload, "device_identifier"),
     firmware_version |-> OptionalText(payload, "firmware_version"),
     build_version |-> OptionalText(payload, "build_version"),
     occurred_at |-> OccurredAt(payload),
     fault_type |-> FaultType(payload),
     severity |-> Severity(payload),
     task_name |-> OptionalText(payload, "task_name"),
     pc |-> KeyRegister(payload, "program_counter", "pc"),
     lr |-> KeyRegister(payload, "link_register", "lr"),
     sp |-> KeyRegister(payload, "stack_pointer", "sp"),
     registers |-> RegisterDump(payload),
     start |-> IF StackWords(payload) = <<>> THEN None
               ELSE StartAddress(Lookup(payload, "stack")),
     words |-> StackWords(payload),
     warnings |-> Warnings(payload)]
=============================================================================
