----------------------------- MODULE ElfParser ------------------------------
(* What an uploaded build artifact becomes: an ELF or a GNU ld map, read    *)
(* into symbols and sections, and the lookup of an address among them.      *)
(*                                                                          *)
(* A file is a record: whether its first bytes are the ELF magic, its       *)
(* suffix, and its contents (the tables pyelftools reads, or the lines of   *)
(* a map).  A function's name is its source name and the suffixes the       *)
(* compiler added when it cloned the function.                              *)
EXTENDS Selection, Optional

CONSTANT
    MaxSymbols      \* bound: MAX_SYMBOLS, the most symbols read from one ELF

IsThumb(address) == address % 2 = 1

\* Clears the Thumb state bit.
NormalizeThumb(address) == address - (address % 2)

IsArm(arch) == arch = "ARM"

-----------------------------------------------------------------------------
(* Symbols and sections.                                                   *)

\* Exclusive; a symbol of size zero covers one byte.
EndAddress(symbol) == symbol.address + Max({symbol.size, 1})

\* Mutant of Covers: the nearest symbol answers however far it ends.
CoversAllAbove(symbol, address) == symbol.address <= address

Covers(symbol, address) == symbol.address <= address /\ address < EndAddress(symbol)

Within(section, address) ==
    section.start <= address /\ address < section.start + section.size

ExecutableRanges(info) == {s \in ToSet(info.sections) : s.exec}

-----------------------------------------------------------------------------
(* ELF files.                                                              *)

\* Sections resident at run time.
ReadSections(elf) ==
    Select(elf.sections, {s \in ToSet(elf.sections) : s.alloc /\ s.size > 0})

\* Mutant of StoredAddress: the Thumb bit stays in the symbol table.
StoredAddressRaw(elf, entry) == entry.value

StoredAddress(elf, entry) ==
    IF IsArm(elf.arch) THEN NormalizeThumb(entry.value) ELSE entry.value

\* A named function or object at an address other than zero.
Wanted(elf, entry) ==
    /\ entry.type \in {"func", "object"}
    /\ entry.name # None
    /\ StoredAddress(elf, entry) # 0

SymbolFrom(elf, entry) ==
    [name |-> entry.name, address |-> StoredAddress(elf, entry), size |-> entry.size]

Listed(symbols, symbol) ==
    \E s \in ToSet(symbols) : s.name = symbol.name /\ s.address = symbol.address

\* The symbol table, or the dynamic one of a stripped file: one symbol for each
\* name and address, the first MaxSymbols of them.
ReadSymbols(elf) ==
    LET table == IF elf.symtab # None THEN elf.symtab
                 ELSE IF elf.dynsym # None THEN elf.dynsym ELSE <<>>
        Keep(symbols, entry) ==
            IF Wanted(elf, entry) /\ ~Listed(symbols, SymbolFrom(elf, entry))
            THEN Append(symbols, SymbolFrom(elf, entry))
            ELSE symbols
        all == FoldLeft(Keep, <<>>, table)
    IN  SubSeq(all, 1, Min({Len(all), MaxSymbols}))

Unreadable == [kind |-> None]

\* Line rows belong to the file, not to the parsed result; they are read again
\* from the file by the symbolizer.
ParseElf(file) ==
    IF ~file.magic THEN Unreadable
    ELSE [kind |-> "elf", arch |-> file.arch,
          symbols |-> ReadSymbols(file), sections |-> ReadSections(file)]

-----------------------------------------------------------------------------
(* Map files.                                                              *)

\* Each address keeps the first name given to it and runs to the next address.
\* The Thumb bit is cleared whatever the architecture, which a map does not name.
SymbolsOfMap(labels) ==
    LET At(i) == NormalizeThumb(labels[i].value)
        addresses == {At(i) : i \in DOMAIN labels} \ {0}
        First(a) == labels[Min({i \in DOMAIN labels : At(i) = a})].name
        Size(a) == LET above == {b \in addresses : b > a}
                   IN  IF above = {} THEN 0 ELSE Min(above) - a
    IN  [i \in 1..Cardinality(addresses) |->
            LET a == CHOOSE a \in addresses : Cardinality({b \in addresses : b < a}) = i - 1
            IN  [name |-> First(a), address |-> a, size |-> Size(a)]]

\* A map of no symbol is refused.
ParseMap(file) ==
    IF SymbolsOfMap(file.labels) = <<>> THEN Unreadable
    ELSE [kind |-> "map", arch |-> None,
          symbols |-> SymbolsOfMap(file.labels), sections |-> <<>>]

\* Content wins over the file's name.
DetectKind(file) ==
    IF file.magic \/ file.suffix \in {".elf", ".axf", ".out", ""} THEN "elf" ELSE "map"

ParseArtifact(file) == IF DetectKind(file) = "elf" THEN ParseElf(file) ELSE ParseMap(file)

-----------------------------------------------------------------------------
(* Lookup.  build_address_index sorts by address, larger first among those  *)
(* of one address, and is stable; lookup_symbol takes the last at or below  *)
(* the address.                                                            *)

\* Mutant of SortsBefore: sizes do not count.
SortsBeforeByAddress(symbols, i, j) ==
    \/ symbols[i].address < symbols[j].address
    \/ symbols[i].address = symbols[j].address /\ i < j

SortsBefore(symbols, i, j) ==
    \/ symbols[i].address < symbols[j].address
    \/ /\ symbols[i].address = symbols[j].address
       /\ \/ symbols[i].size > symbols[j].size
          \/ symbols[i].size = symbols[j].size /\ i < j

LookupSymbol(address, symbols) ==
    LET below == {i \in DOMAIN symbols : symbols[i].address <= address}
        nearest == CHOOSE i \in below : \A j \in below \ {i} : SortsBefore(symbols, j, i)
    IN  IF below # {} /\ Covers(symbols[nearest], address) THEN symbols[nearest] ELSE None
=============================================================================
