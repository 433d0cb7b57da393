----------------------------- MODULE Symbolizer -----------------------------
(* From a crash report's addresses to a call chain and a signature: which   *)
(* build answers for the crash, how an address becomes a frame, which words  *)
(* of the stack are return addresses, and what two reports of one bug share. *)
(*                                                                          *)
(* A build is what ElfParser read from its file, with the versions it was    *)
(* uploaded for, whether the file is still on disk, and the file itself,     *)
(* from which source lines are read.                                        *)
EXTENDS ElfParser

CONSTANTS
    MaxFrames,      \* bound: MAX_STACK_FRAMES
    SignatureDepth, \* bound: SIGNATURE_FRAME_DEPTH
    RawWords,       \* bound: the words kept as frames without symbols (8)
    RequireThumb,   \* REQUIRE_THUMB_BIT
    Addr2Line       \* the locations an external addr2line answers, by file and address

-----------------------------------------------------------------------------
(* Choosing the build.                                                     *)

\* The first in order of artifact type, the newest upload among equals.
Preferred(builds, indices) ==
    LET elves == {i \in indices : builds[i].kind = "elf"}
    IN  builds[IF elves # {} THEN Max(elves) ELSE Max(indices)]

\* The crash's own build, else one of the version that names no build, else any
\* of the version.
FindForCrash(builds, report) ==
    LET usable == {i \in DOMAIN builds : /\ builds[i].firmware = report.firmware_version
                                         /\ builds[i].symbols # <<>>}
        Of(version) == {i \in usable : builds[i].version = version}
        choices == <<IF report.build_version = None THEN {} ELSE Of(report.build_version),
                     Of(None), usable>>
        some == {k \in DOMAIN choices : choices[k] # {}}
    IN  IF some = {} THEN None ELSE Preferred(builds, choices[Min(some)])

-----------------------------------------------------------------------------
(* Source lines.                                                           *)

\* Mutant of FileName: DWARF 5 files are numbered from 1 too.
FileNameFromOne(file, number) ==
    IF number \in DOMAIN file.names THEN file.names[number] ELSE None

\* DWARF 5 numbers its files from 0, earlier versions from 1.
FileName(file, number) ==
    LET i == IF file.dwarf >= 5 THEN number + 1 ELSE number
    IN  IF i \in DOMAIN file.names THEN file.names[i] ELSE None

\* The rows of the line program, without those that end a sequence.
LineRows(file) ==
    IF file.magic
    THEN Select(file.rows, {r \in ToSet(file.rows) : ~r.end /\ FileName(file, r.file) # None})
    ELSE <<>>

\* The last row at or below the address, of the rows sorted by address.
LineAt(file, address) ==
    LET rows == LineRows(file)
        below == {i \in DOMAIN rows : rows[i].address <= address}
        row == rows[CHOOSE i \in below : \A j \in below \ {i} :
                        \/ rows[j].address < rows[i].address
                        \/ rows[j].address = rows[i].address /\ j < i]
    IN  IF below = {} THEN None ELSE [file |-> FileName(file, row.file), line |-> row.line]

\* The external tool when it answers, else the line table; nothing without the file.
ResolveLine(build, address) ==
    IF ~build.disk THEN None
    ELSE IF <<build.file, address>> \in DOMAIN Addr2Line THEN Addr2Line[<<build.file, address>>]
    ELSE LineAt(build.file, address)

-----------------------------------------------------------------------------
(* Frames.                                                                 *)

Unresolved(address, origin) ==
    [address |-> address, origin |-> origin, function |-> None, offset |-> None, at |-> None]

\* Runtime addresses follow the rule by which the ELF parser stored the symbols.
CleanAddress(build, address) == IF IsArm(build.arch) THEN NormalizeThumb(address) ELSE address

Resolve(build, symbols, address, origin) ==
    LET clean == CleanAddress(build, address)
        symbol == LookupSymbol(clean, symbols)
    IN  IF symbol = None THEN Unresolved(clean, origin)
        ELSE [address |-> clean, origin |-> origin, function |-> symbol.name,
              offset |-> clean - symbol.address, at |-> ResolveLine(build, clean)]

LooksLikeReturnAddress(word, ranges) ==
    /\ RequireThumb => IsThumb(word)
    /\ NormalizeThumb(word) # 0
    /\ ranges = {} \/ \E s \in ranges : Within(s, NormalizeThumb(word))

ReturnAddresses(words, build) ==
    {w \in ToSet(words) : LooksLikeReturnAddress(w, ExecutableRanges(build))}

\* The program counter and the link register, where the report has them.
HeadOf(report) ==
    (IF report.pc = None THEN <<>> ELSE <<[address |-> report.pc, origin |-> "pc"]>>) \o
    (IF report.lr = None THEN <<>> ELSE <<[address |-> report.lr, origin |-> "lr"]>>)

OnStack(words) == [i \in DOMAIN words |-> [address |-> words[i], origin |-> "stack"]]

\* Mutant of Push: an address seen anywhere before is not a frame again.
PushUnseen(build, symbols, chain, a) ==
    IF NormalizeThumb(a.address) \in {NormalizeThumb(f.address) : f \in ToSet(chain.frames)}
       \/ Len(chain.frames) >= MaxFrames
    THEN chain
    ELSE [last |-> NormalizeThumb(a.address),
          frames |-> Append(chain.frames, Resolve(build, symbols, a.address, a.origin))]

\* An address that repeats the one before it is the same frame; a full chain
\* takes no more.
Push(build, symbols, chain, a) ==
    IF NormalizeThumb(a.address) = chain.last \/ Len(chain.frames) >= MaxFrames THEN chain
    ELSE [last |-> NormalizeThumb(a.address),
          frames |-> Append(chain.frames, Resolve(build, symbols, a.address, a.origin))]

\* Innermost first, the stack in its order.
ReconstructStack(build, symbols, report) ==
    LET words == Select(report.words, ReturnAddresses(report.words, build))
    IN  FoldLeft(LAMBDA chain, a : Push(build, symbols, chain, a),
                 [last |-> None, frames |-> <<>>],
                 HeadOf(report) \o OnStack(words)).frames

\* Without symbols the chain of addresses is kept as it is.
RawFrames(report) ==
    LET kept == SubSeq(report.words, 1, Min({Len(report.words), RawWords}))
        all == HeadOf(report) \o OnStack(kept)
    IN  [i \in DOMAIN all |-> Unresolved(all[i].address, all[i].origin)]

\* symbols are the build's rows in the order the database returned them.
ResolveFrames(build, symbols, report) ==
    IF build = None THEN RawFrames(report) ELSE ReconstructStack(build, symbols, report)

-----------------------------------------------------------------------------
(* Signatures.                                                             *)

\* What the compiler appends to the name of a clone, without its number.
CloneSuffix == {"constprop", "isra", "part", "cold", "lto_priv", "clone"}

\* Mutant of NormalizeFunctionName: clones keep their names.
FunctionNameAsIs(name) == name

\* Strips the last of the suffixes a compiler gives to clones.
NormalizeFunctionName(name) ==
    IF name.clones = <<>> THEN name ELSE [name EXCEPT !.clones = Front(@)]

\* The names of the resolved frames, repeats of the one before collapsed.
NamesOf(frames) ==
    LET resolved == Select(frames, {f \in ToSet(frames) : f.function # None})
        names == [i \in DOMAIN resolved |-> NormalizeFunctionName(resolved[i].function)]
        Collapse(chain, name) ==
            IF Len(chain) >= SignatureDepth \/ (chain # <<>> /\ Last(chain) = name)
            THEN chain ELSE Append(chain, name)
    IN  FoldLeft(Collapse, <<>>, names)

\* What is hashed: the names, or without any the place in this firmware.
SignatureOf(report, frames) ==
    [fault |-> report.fault_type, task |-> report.task_name, names |-> NamesOf(frames),
     place |-> IF NamesOf(frames) # <<>> THEN None
               ELSE [pc |-> report.pc, firmware |-> report.firmware_version]]

TopFunction(frames) ==
    IF NamesOf(frames) = <<>> THEN None ELSE NamesOf(frames)[1]

\* What symbolicate_report stores of a report.
TraceOf(build, symbols, report) ==
    LET frames == ResolveFrames(build, symbols, report)
    IN  [frames |-> frames, top |-> TopFunction(frames),
         signature |-> SignatureOf(report, frames)]
=============================================================================
