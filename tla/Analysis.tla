------------------------------ MODULE Analysis ------------------------------
(* The analysis of one crash against the artifacts uploaded for its          *)
(* firmware: artifacts arrive, replace each other and are pruned from disk;  *)
(* a device's payload is parsed; the report is symbolicated, and again later. *)
EXTENDS CrashParser, Symbolizer

CONSTANTS
    Uploads,    \* the artifacts that may be uploaded: [file, firmware, version]
    Payloads,   \* the payloads a device may send
    Shifts,     \* how far a rebuild may move the code
    MaxBuilds   \* bound: artifacts stored

VARIABLES
    builds,     \* the rows of firmware_builds, oldest first
    payload,    \* the raw payload the report keeps
    report,     \* the parsed report, None while there is none or it was rejected
    trace       \* what symbolicate_report stored, with the build it was stored for

-----------------------------------------------------------------------------
(* What files and payloads consist of.                                     *)

IsList(s) == s \in Seq(ToSet(s))

\* A function's name; None is no such name, and no symbol.
IsName(n) ==
    /\ n.clones \in Seq(CloneSuffix) /\ n = [fn |-> n.fn, clones |-> n.clones]
    /\ None \notin [fn : {n.fn}, clones : Seq(CloneSuffix)]
    /\ None \notin [name : [fn : {n.fn}, clones : Seq(CloneSuffix)], address : Nat, size : Nat]

IsTable(table) ==
    IsList(table) /\ \A e \in ToSet(table) :
        e.value \in Nat /\ e.size \in Nat /\ (e.name # None => IsName(e.name))

IsElf(file) ==
    /\ file.symtab # None => IsTable(file.symtab)
    /\ file.dynsym # None => IsTable(file.dynsym)
    /\ IsList(file.sections) /\ \A s \in ToSet(file.sections) :
        /\ s.start \in Nat /\ s.size \in Nat
        /\ s = [start |-> s.start, size |-> s.size, alloc |-> s.alloc, exec |-> s.exec]
    /\ IsList(file.rows) /\ \A r \in ToSet(file.rows) : r.address \in Nat /\ r.file \in Nat
    /\ file.dwarf \in Nat

IsMap(file) ==
    IsList(file.labels) /\ \A l \in ToSet(file.labels) : l.value \in Nat /\ IsName(l.name)

IsScalar(v) ==
    /\ v.t \in {"int", "float"} => v.v \in Int
    /\ v.t = "text" => v.w \in DOMAIN Reading

HoldsScalars(v) ==
    IsScalar(v) /\ (v.t = "list" => IsList(v.items) /\ \A i \in ToSet(v.items) : IsScalar(i))

IsValue(v) ==
    /\ HoldsScalars(v)
    /\ v.t = "object" => IsList(v.pairs) /\ \A p \in ToSet(v.pairs) : HoldsScalars(p[2])

ASSUME AnalysisConstants ==
    /\ None \notin Int \cup Payloads
    /\ {MaxSymbols, MaxFrames, MaxAddress, MaxRegisters, MaxStackWords, MaxBuilds} \subseteq Nat
    /\ {Now, MaxClockSkew, MillisAbove, LastInstant} \subseteq Int /\ Millis \in Nat \ {0}
    /\ \A u \in Uploads : IF DetectKind(u.file) = "map" THEN IsMap(u.file)
                         ELSE u.file.magic => IsElf(u.file)
    /\ \A p \in Payloads : \A key \in DOMAIN p : IsValue(p[key])
    /\ \A w \in DOMAIN Reading :
          /\ {Reading[w].hex, Reading[w].instant, Reading[w].number} \subseteq Int \cup {None}
          /\ IsList(Reading[w].words) /\ \A v \in ToSet(Reading[w].words) : IsScalar(v)

-----------------------------------------------------------------------------
vars == <<builds, payload, report, trace>>

Init == builds = <<>> /\ payload = None /\ report = None /\ trace = None

-----------------------------------------------------------------------------
(* Operations.                                                             *)

\* A file the parser cannot read is refused, and nothing is stored of it.
Readable == {u \in Uploads : ParseArtifact(u.file) # Unreadable}

\* A file without symbols is kept as a row without any.  (MAX_INDEXED_SYMBOLS, which
\* cuts the table once more, has the parser's own limit as its default.)
RowOf(u) ==
    LET info == ParseArtifact(u.file)
    IN  [firmware |-> u.firmware, version |-> u.version, kind |-> DetectKind(u.file),
         arch |-> info.arch, symbols |-> info.symbols, sections |-> info.sections,
         disk |-> TRUE, file |-> u.file]

SameIdentity(b, c) ==
    b.firmware = c.firmware /\ b.version = c.version /\ b.kind = c.kind

\* An artifact of the same identity is replaced in its row.
Upload ==
    \E u \in Readable :
        LET held == {i \in DOMAIN builds : SameIdentity(builds[i], RowOf(u))}
        IN  /\ IF held = {} THEN Len(builds) < MaxBuilds /\ builds' = Append(builds, RowOf(u))
               ELSE builds' = [builds EXCEPT ![Min(held)] = RowOf(u)]
            /\ UNCHANGED <<payload, report, trace>>

\* The operator of the server removes an artifact from the volume.
Prune ==
    \E i \in DOMAIN builds :
        /\ builds[i].disk
        /\ builds' = [builds EXCEPT ![i].disk = FALSE]
        /\ UNCHANGED <<payload, report, trace>>

Receive ==
    /\ payload = None
    /\ \E p \in Payloads :
        /\ payload' = p
        /\ report' = IF Rejected(p) THEN None ELSE Parse(p)
    /\ UNCHANGED <<builds, trace>>

\* A query without an order returns the rows of a build in any.
Arrangements(symbols) ==
    {[i \in DOMAIN symbols |-> symbols[p[i]]] :
        p \in Surjection(DOMAIN symbols, DOMAIN symbols)}

Loaded(build) == IF build = None THEN {<<>>} ELSE Arrangements(build.symbols)

Symbolicate ==
    /\ report # None
    /\ LET build == FindForCrash(builds, report)
       IN  \E symbols \in Loaded(build) :
               trace' = [result |-> TraceOf(build, symbols, report), from |-> build]
    /\ UNCHANGED <<builds, payload, report>>

Next == Upload \/ Prune \/ Receive \/ Symbolicate

Spec == Init /\ [][Next]_vars

-----------------------------------------------------------------------------
(* Properties.                                                             *)

Accepted == report # None
Symbolicated == trace # None /\ trace.from # None
Frames == ToSet(trace.result.frames)

\* Types and bounds: stored addresses fit the address space, dumps and chains
\* their limits, and no accepted report lies further ahead than the skew.
TypeOK ==
    /\ Len(builds) <= MaxBuilds
    /\ \A i \in DOMAIN builds :
          builds[i].kind = "elf" => Len(builds[i].symbols) <= MaxSymbols
    /\ Accepted =>
        /\ {report.pc, report.lr, report.sp, report.start} \subseteq 0..MaxAddress \cup {None}
        /\ Range(report.registers) \cup ToSet(report.words) \subseteq 0..MaxAddress
        /\ Len(report.words) <= MaxStackWords
        /\ report.occurred_at <= Now + MaxClockSkew
    /\ Symbolicated => Len(trace.result.frames) <= MaxFrames

\* The code of a file by its own tables: name, start and length of each function.
Code(file) ==
    LET table == IF file.symtab # None THEN file.symtab ELSE file.dynsym
    IN  {[name |-> table[i].name, size |-> table[i].size,
          start |-> IF file.arch = "ARM" THEN 2 * (table[i].value \div 2)
                    ELSE table[i].value] :
            i \in {j \in DOMAIN table :
                      table[j].type \in {"func", "object"} /\ table[j].name # None}}

Holds(c, address) ==
    c.start <= address /\ (address < c.start + c.size \/ address = c.start)

\* "Confidently wrong function names" never appear: a frame names a function only
\* if the artifact it was resolved against has code of that name at the frame's
\* address, at the offset the frame says; in a map, the nearest label below it.
FramesTruthful ==
    Symbolicated => \A f \in Frames : f.function # None =>
        IF trace.from.kind = "elf"
        THEN \E c \in Code(trace.from.file) :
                c.name = f.function /\ c.start + f.offset = f.address /\ Holds(c, f.address)
        ELSE LET Label(l) == 2 * (trace.from.file.labels[l].value \div 2)
                 labels == DOMAIN trace.from.file.labels
             IN  \E i \in labels :
                    /\ trace.from.file.labels[i].name = f.function
                    /\ Label(i) + f.offset = f.address
                    /\ \A j \in labels : Label(j) <= Label(i) \/ Label(j) > f.address

\* And none is missed: in an artifact whose functions neither overlap nor lie at
\* address zero, every address that is in a function gets a name.
CoveredResolves ==
    Symbolicated /\ trace.from.kind = "elf" =>
        LET code == Code(trace.from.file)
            flat == /\ Cardinality({c \in code : c.start # 0}) <= MaxSymbols
                    /\ \A c, d \in code : c # d => ~Holds(c, d.start)
        IN  flat => \A f \in Frames :
                f.function = None => ~\E c \in code : c.start # 0 /\ Holds(c, f.address)

\* The chain is the program counter, the link register and the words of the stack
\* that are return addresses, innermost first and in the order of the stack, each
\* run of one address once, recursion kept, up to the limit.
ChainInOrder ==
    Symbolicated =>
        LET words == Select(report.words, ReturnAddresses(report.words, trace.from))
            all == HeadOf(report) \o OnStack(words)
            Even(n) == 2 * (all[n].address \div 2)
            chain == Select([i \in DOMAIN all |-> i],
                            {i \in DOMAIN all : i = 1 \/ Even(i) # Even(i - 1)})
            length == Min({Len(chain), MaxFrames})
        IN  /\ Len(trace.result.frames) = length
            /\ \A k \in 1..length :
                /\ trace.result.frames[k].origin = all[chain[k]].origin
                /\ 2 * (trace.result.frames[k].address \div 2) = Even(chain[k])

\* A frame's source line is a line of the function it names, when the line table
\* has a row at that function's first address.
LinesOfOwnFunction ==
    Symbolicated => \A f \in Frames :
        LET start == f.address - f.offset
            rows == LineRows(trace.from.file)
        IN  (/\ f.function # None /\ f.at # None
             /\ \E i \in DOMAIN rows : rows[i].address = start)
            => \E i \in DOMAIN rows :
                /\ rows[i].address \in start..f.address /\ rows[i].line = f.at.line
                /\ f.at.file = trace.from.file.names[
                    rows[i].file + IF trace.from.file.dwarf < 5 THEN 0 ELSE 1]

CloneOf(name) == IF name.clones = <<>> THEN [name EXCEPT !.clones = <<"isra">>] ELSE name

MovedSymbol(s, d) == [s EXCEPT !.address = @ + d, !.name = CloneOf(@)]

MovedSection(s, d) == [s EXCEPT !.start = @ + d]

\* The same program linked elsewhere, its functions cloned by the compiler.
Rebuilt(b, d) ==
    [b EXCEPT !.symbols = [k \in DOMAIN @ |-> MovedSymbol(@[k], d)],
              !.sections = [i \in DOMAIN @ |-> MovedSection(@[i], d)]]

\* The same crash in it.
Moved(r, b, d) ==
    LET Add(a) == IF a = None THEN None ELSE a + d
        code == ExecutableRanges(b)
    IN  [r EXCEPT !.pc = Add(@), !.lr = Add(@), !.firmware_version = "rebuilt",
            !.words = [i \in DOMAIN @ |->
                IF LooksLikeReturnAddress(@[i], code) THEN @[i] + d ELSE @[i]]]

\* "Addresses move with every build; names do not": a crash that resolved has the
\* signature it would have in a rebuild at other addresses, unless data on its
\* stack happens to look like the rebuild's code.
SameBugSameSignature ==
    Symbolicated /\ trace.result.top # None => \A d \in Shifts :
        LET there == Rebuilt(trace.from, d)
            stray == {w \in ToSet(report.words) :
                        /\ ~LooksLikeReturnAddress(w, ExecutableRanges(trace.from))
                        /\ LooksLikeReturnAddress(w, ExecutableRanges(there))}
        IN  stray = {} =>
            \E symbols \in Arrangements(there.symbols) :
                TraceOf(there, symbols, Moved(report, trace.from, d)).signature
                    = trace.result.signature

\* Nothing the device said is dropped in silence: what is not in the report of
\* its stack, its registers and its key addresses is warned of.
DropsAreTold ==
    Accepted =>
        /\ Len(report.words) < Len(StackTokens(payload)) => "stack" \in report.warnings
        /\ LET given == Lookup(payload, "registers")
               entry(n) == IF given.t = "list" THEN Positional(n) ELSE given.pairs[n][1]
               all == CASE given.t = "list" -> DOMAIN given.items
                        [] given.t = "object" -> DOMAIN given.pairs
                        [] OTHER -> {}
           IN  \A i \in all : \/ CanonicalRegister(entry(i)) \in DOMAIN report.registers
                              \/ "registers" \in report.warnings
        /\ \A f \in {<<"program_counter", report.pc>>, <<"link_register", report.lr>>,
                      <<"stack_pointer", report.sp>>} :
            LET given == Lookup(payload, f[1])
            IN  given # Null /\ ParseAddress(given) # f[2] => f[1] \in report.warnings

\* Two symbols at one place.
Twins(b) ==
    \E i, j \in DOMAIN b.symbols : /\ i # j
                                   /\ b.symbols[i].address = b.symbols[j].address
                                   /\ b.symbols[i].size = b.symbols[j].size

Named(t) == [t.result EXCEPT !.frames =
                [i \in DOMAIN @ |-> [@[i] EXCEPT !.at = None]]]

\* Symbolication is repeatable: against the artifact it used before it gives the
\* report the frames and the signature it has, and when the file has been pruned
\* from disk "only source lines are lost"; unless two symbols share one place.
ReanalysisStable ==
    [][(Symbolicated /\ Symbolicated' /\ [trace.from EXCEPT !.disk = TRUE]
                                           = [trace.from' EXCEPT !.disk = TRUE]
        /\ ~Twins(trace.from))
       => Named(trace') = Named(trace)]_vars
=============================================================================
