----------------------------- MODULE MCAnalysis -----------------------------
(* A small address space: code at 8..31, 40..63 after a rebuild, data at 96.  *)
EXTENDS Analysis

Name(f) == [fn |-> f, clones |-> <<>>]
Clone(f, suffixes) == [fn |-> f, clones |-> suffixes]
Function(n, value, size) == [type |-> "func", name |-> n, value |-> value, size |-> size]
Section(start, size, exec) == [start |-> start, size |-> size, alloc |-> TRUE, exec |-> exec]
Row(address, file, line, end) == [address |-> address, file |-> file, line |-> line, end |-> end]

Text == Section(8, 24, TRUE)
Data == Section(96, 8, FALSE)

\* main at 8, loop at 16, handler at 24 (without lines), a buffer at 96.
Application ==
    [magic |-> TRUE, suffix |-> ".elf", arch |-> "ARM", dwarf |-> 4,
     names |-> <<"main.c", "loop.c">>,
     symtab |-> <<[type |-> "notype", name |-> Name("$t"), value |-> 8, size |-> 0],
                  Function(Name("main"), 9, 8), Function(Name("main"), 9, 8),
                  Function(Clone("loop", <<"part">>), 17, 8), Function(None, 21, 2),
                  Function(Name("absent"), 0, 4), Function(Name("handler"), 25, 8),
                  [type |-> "object", name |-> Name("buffer"), value |-> 96, size |-> 8]>>,
     dynsym |-> None, sections |-> <<Text, Data,
         [start |-> 0, size |-> 40, alloc |-> FALSE, exec |-> FALSE]>>,
     rows |-> <<Row(16, 2, 20, FALSE), Row(8, 1, 10, FALSE), Row(12, 1, 11, FALSE),
                Row(16, 3, 99, FALSE), Row(24, 2, 29, TRUE)>>]

\* Handlers that are aliases of one; entries inside a larger function.
Aliases ==
    [Application EXCEPT
        !.symtab = <<Function(Name("main"), 9, 8), Function(Name("default"), 17, 8),
                     Function(Name("irq"), 17, 8)>>,
        !.rows = <<>>]

Nested ==
    [Application EXCEPT
        !.symtab = <<Function(Name("main"), 9, 24), Function(Name("inner"), 13, 2),
                     Function(Clone("start", <<"isra", "cold">>), 9, 2)>>,
        !.dwarf = 5, !.rows = <<Row(8, 0, 10, FALSE), Row(12, 1, 20, FALSE)>>]

\* A hosted build: functions may start at odd addresses; stripped but for .dynsym.
Hosted ==
    [Application EXCEPT !.arch = "x86", !.symtab = None, !.suffix = ".map",
        !.dynsym = <<Function(Name("main"), 9, 6), Function(Name("loop"), 15, 0)>>,
        !.rows = <<Row(9, 1, 10, FALSE), Row(15, 2, 20, FALSE)>>]

Labels ==
    [magic |-> FALSE, suffix |-> ".map", dwarf |-> 0, names |-> <<>>, rows |-> <<>>,
     labels |-> <<[value |-> 24, name |-> Name("handler")], [value |-> 9, name |-> Name("main")],
                  [value |-> 16, name |-> Name("loop")], [value |-> 17, name |-> Name("alias")],
                  [value |-> 0, name |-> Name("zero")]>>]

Stripped == [Application EXCEPT !.symtab = None]
NotAnElf == [Application EXCEPT !.magic = FALSE]

Of(file, firmware, version) == [file |-> file, firmware |-> firmware, version |-> version]

SomeUploads ==
    {Of(Application, "1.0", "a"), Of(Aliases, "1.0", None), Of(Nested, "1.0", "b"),
     Of(Hosted, "1.0", "a"), Of(Labels, "1.0", "a"), Of(Labels, "1.0", None),
     Of(Stripped, "1.0", "b"), Of(NotAnElf, "1.0", None)}

-----------------------------------------------------------------------------
I(v) == [t |-> "int", v |-> v]
Txt(w) == [t |-> "text", w |-> w]
List(items) == [t |-> "list", items |-> items]
Object(pairs) == [t |-> "object", pairs |-> pairs]
Ints(s) == List([i \in DOMAIN s |-> I(s[i])])

Plain == [hex |-> None, instant |-> None, number |-> None, fault |-> None,
          holds |-> {}, words |-> <<>>]
Readings ==
    [w \in {"", "printed", "1.0", "a", "b", "fatal", "loud", "0x19", "0xFFF", "dump",
            "2030-01-01", "95", "HardFault", "stack overflow on the heap"} |->
        CASE w = "0x19" -> [Plain EXCEPT !.hex = 25]
          [] w = "0xFFF" -> [Plain EXCEPT !.hex = 4095]
          [] w = "dump" -> [Plain EXCEPT !.words = <<Txt("0x19"), Txt("a"), Txt("0xFFF")>>]
          [] w = "a" -> [Plain EXCEPT !.hex = 10]
          [] w = "b" -> [Plain EXCEPT !.hex = 11]
          [] w = "2030-01-01" -> [Plain EXCEPT !.instant = 130]
          [] w = "95" -> [Plain EXCEPT !.number = 95, !.hex = 149]
          [] w = "HardFault" -> [Plain EXCEPT !.fault = "hard_fault", !.holds = {"hardfault"}]
          [] w = "stack overflow on the heap" ->
                 [Plain EXCEPT !.holds = {"heap", "stackoverflow"}]
          [] OTHER -> Plain]

Base == [fw |-> Txt("1.0"), reason |-> Txt("HardFault"), ts |-> I(100)]
With(more) == more @@ Base

\* Crashes whose addresses matter, of a build that is named or not.
Crashes ==
    {With([build |-> b, pc |-> I(pc), lr |-> I(lr), stack |-> Ints(s)]) :
        b \in {Txt("a"), Txt("b"), [t |-> "null"]},
        pc \in {8, 15}, lr \in {13},
        s \in {<<25, 97, 19, 18, 19, 9, 19>>, <<15, 17, 1, 21, 43>>}}

\* Payloads that are incomplete, misspelt or wrong.
Messy ==
    {With([deviceId |-> Txt("b"), ts |-> time]) :
        time \in {I(101), I(106), I(0), I(1100), I(30000), Txt("2030-01-01"), Txt("95"),
                  Txt("a"), [t |-> "bool"]}} \cup
    {With([regs |-> r, PC |-> Txt("0xFFF"), stack |-> s]) :
        r \in {Object(<<<<"pc", I(13)>>, <<"xpsr", I(1)>>, <<"psr", I(3)>>>>),
               Object(<<<<"lr", Txt("0x19")>>, <<"r16", I(1)>>>>),
               Ints(<<1, 2, 3>>), Ints(<<1, -2>>), Txt("dump")},
        s \in {Txt("dump"), Ints(<<9, 17, 25, 9, 17, 25, 9, 17, 25>>), I(9),
               Object(<<<<"sp", I(40)>>, <<"data", Ints(<<17, 300>>)>>>>),
               Object(<<<<"base", I(-1)>>>>)}} \cup
    {[fw |-> Txt(""), pc |-> I(9)],
     [version |-> Txt("1.0"), exc |-> Txt("stack overflow on the heap"), level |-> Txt("loud")],
     With([priority |-> Txt("fatal"), fault |-> Txt("a"), pc |-> [t |-> "float", v |-> 9, whole |-> TRUE],
           lr |-> [t |-> "float", v |-> 9, whole |-> FALSE]]),
     With([sp |-> I(-4), regs |-> Object(<<<<"sp", I(48)>>>>)])}

AllPayloads == Crashes \cup Messy

\* The tool knows the lines of handler, which the file has none of, and agrees elsewhere.
Locations ==
    (<<Application, 24>> :> [file |-> "asm.s", line |-> 7]) @@
    (<<Application, 18>> :> [file |-> "loop.c", line |-> 20])
=============================================================================
