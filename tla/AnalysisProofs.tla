--------------------------- MODULE AnalysisProofs ---------------------------
(* Every property of Analysis that its run checks, for every artifact,       *)
(* payload, order of rows and bound.  The inductive invariant says what a    *)
(* row, the report and the trace are made of: a row is an upload with or     *)
(* without its file, the report is the payload parsed, and the trace is what *)
(* symbolicate_report stores of the report for one usable row.  The          *)
(* properties follow from what the parser, the readers of symbols, the       *)
(* lookup and the chain do to all inputs, which the lemmas say.              *)
EXTENDS Analysis, DataLemmas, TLAPS

-----------------------------------------------------------------------------
(* Values of a payload.                                                    *)

LEMMA ListFacts ==
    ASSUME NEW s, IsList(s)
    PROVE  Len(s) \in Nat /\ DOMAIN s = 1..Len(s) /\ \A i \in 1..Len(s) : s[i] \in ToSet(s)
BY DEF IsList, ToSet

Field == {"occurred_at", "program_counter", "link_register", "stack_pointer", "registers", "stack"}

LEMMA AliasesAreLists ==
    ASSUME NEW field \in Field
    PROVE  DOMAIN FieldAliases[field] \subseteq Nat
<1>1. CASE field = "occurred_at"
  BY <1>1 DEF FieldAliases
<1>2. CASE field = "program_counter"
  BY <1>2 DEF FieldAliases
<1>3. CASE field = "link_register"
  BY <1>3 DEF FieldAliases
<1>4. CASE field = "stack_pointer"
  BY <1>4 DEF FieldAliases
<1>5. CASE field = "registers"
  BY <1>5 DEF FieldAliases
<1>6. CASE field = "stack"
  BY <1>6 DEF FieldAliases
<1> QED
  BY <1>1, <1>2, <1>3, <1>4, <1>5, <1>6 DEF Field

\* What _lookup finds is a value of the payload, or null.
LEMMA LookupFinds ==
    ASSUME NEW p \in Payloads, NEW field \in Field
    PROVE  IsValue(Lookup(p, field))
<1> DEFINE aliases == FieldAliases[field]
           present == {i \in DOMAIN aliases :
                          aliases[i] \in DOMAIN p /\ p[aliases[i]] # Null}
<1>1. DOMAIN aliases \subseteq Nat
  BY AliasesAreLists
<1>2. IsValue(Null)
  BY DEF IsValue, HoldsScalars, IsScalar, Null
<1>3. CASE present = {}
  BY <1>2, <1>3 DEF Lookup
<1>4. CASE present # {}
  <2>1. Min(present) \in present
    BY <1>1, <1>4, SmallestIndex
  <2>2. IsValue(p[aliases[Min(present)]])
    BY <2>1, AnalysisConstants
  <2> QED
    BY <1>4, <2>2 DEF Lookup
<1> QED
  BY <1>3, <1>4

LEMMA FirstOfHolds ==
    ASSUME NEW v, IsValue(v), v.t = "object", NEW keys, DOMAIN keys \subseteq Nat
    PROVE  HoldsScalars(FirstOf(v, keys))
<1> DEFINE has == {i \in DOMAIN keys : \E j \in DOMAIN v.pairs : v.pairs[j][1] = keys[i]}
           key == keys[Min(has)]
           at == CHOOSE j \in DOMAIN v.pairs : v.pairs[j][1] = key
<1>1. CASE has = {}
  BY <1>1 DEF FirstOf, HoldsScalars, IsScalar, Null
<1>2. CASE has # {}
  <2>1. Min(has) \in has
    <3>1. has \in SUBSET Nat
      OBVIOUS
    <3> HIDE DEF has
    <3> QED
      BY <1>2, <3>1, SmallestIndex
  <2>2. at \in DOMAIN v.pairs
    BY <2>1
  <2>3. FirstOf(v, keys) = v.pairs[at][2]
    BY <1>2 DEF FirstOf
  <2> HIDE DEF at
  <2>4. v.pairs[at] \in ToSet(v.pairs)
    BY <2>2 DEF ToSet
  <2> QED
    BY <2>3, <2>4 DEF IsValue
<1> QED
  BY <1>1, <1>2

\* An address that is read is one.
LEMMA AddressesInRange ==
    ASSUME NEW v, IsScalar(v)
    PROVE  ParseAddress(v) \in 0..MaxAddress \cup {None}
<1>1. \A n \in Int \cup {None} : InRange(n) \in 0..MaxAddress \cup {None}
  BY AnalysisConstants DEF InRange
<1> QED
  BY <1>1, AnalysisConstants DEF ParseAddress, IsScalar

LEMMA FieldInRange ==
    ASSUME NEW p \in Payloads, NEW field \in Field
    PROVE  AddressField(p, field) \in 0..MaxAddress \cup {None}
<1>1. IsScalar(Lookup(p, field))
  BY LookupFinds DEF IsValue, HoldsScalars
<1> QED
  BY <1>1, AddressesInRange DEF AddressField

-----------------------------------------------------------------------------
(* Dumps.                                                                  *)

WordKeys == <<"words", "data", "stack", "values", "dump">>

LEMMA TokensAreScalars ==
    ASSUME NEW p \in Payloads
    PROVE  IsList(StackTokens(p)) /\ \A v \in ToSet(StackTokens(p)) : IsScalar(v)
<1> DEFINE value == Lookup(p, "stack")
           words == WordsField(value)
<1>1. IsValue(value)
  BY LookupFinds DEF Field
<1>2. HoldsScalars(words)
  <2>1. <<"words", "data", "stack", "values", "dump">> = WordKeys /\ DOMAIN WordKeys \subseteq Nat
    BY DEF WordKeys
  <2> QED
    BY <1>1, <2>1, FirstOfHolds DEF WordsField, IsValue
<1> HIDE DEF words
<1>3. IsList(<<>>) /\ ToSet(<<>>) = {}
  BY DEF IsList, ToSet
<1>4. CASE words.t = "list"
  BY <1>2, <1>4 DEF HoldsScalars, StackTokens, words
<1>5. CASE words.t = "text"
  BY <1>2, <1>5, AnalysisConstants DEF HoldsScalars, IsScalar, StackTokens, words
<1>6. CASE words.t \notin {"list", "text"}
  BY <1>3, <1>6 DEF StackTokens, words
<1> QED
  BY <1>4, <1>5, <1>6

LEMMA KeptTokensFacts ==
    ASSUME NEW p \in Payloads
    PROVE  /\ Len(KeptTokens(p)) \in Nat /\ Len(KeptTokens(p)) <= MaxStackWords
           /\ KeptTokens(p) \in Seq(ToSet(StackTokens(p)))
           /\ Len(StackTokens(p)) \in Nat
           /\ Len(StackTokens(p)) <= MaxStackWords => Len(KeptTokens(p)) = Len(StackTokens(p))
<1> DEFINE tokens == StackTokens(p)
           n == Min({Len(tokens), MaxStackWords})
<1>1. Len(tokens) \in Nat /\ tokens \in Seq(ToSet(tokens)) /\ MaxStackWords \in Nat
  BY TokensAreScalars, ListFacts, AnalysisConstants DEF IsList
<1>0. KeptTokens(p) = SubSeq(tokens, 1, n)
  BY DEF KeptTokens
<1> HIDE DEF tokens
<1>2. n \in {Len(tokens), MaxStackWords} /\ n <= Len(tokens) /\ n <= MaxStackWords
  <2>1. {Len(tokens), MaxStackWords} \in SUBSET Nat /\ {Len(tokens), MaxStackWords} # {}
    BY <1>1
  <2> QED
    BY <2>1, SmallestIndex
<1> HIDE DEF n
<1>3. n \in Nat /\ \A i \in 1..n : tokens[i] \in ToSet(tokens)
  BY <1>1, <1>2
<1>4. Len(SubSeq(tokens, 1, n)) = n /\ SubSeq(tokens, 1, n) \in Seq(ToSet(tokens))
  BY <1>3, SubSeqProperties
<1> QED
  <2>1. /\ Len(KeptTokens(p)) \in Nat /\ Len(KeptTokens(p)) <= MaxStackWords
        /\ KeptTokens(p) \in Seq(ToSet(tokens)) /\ Len(tokens) \in Nat
        /\ Len(tokens) <= MaxStackWords => Len(KeptTokens(p)) = Len(tokens)
    BY <1>0, <1>1, <1>2, <1>3, <1>4
  <2> QED
    BY <2>1 DEF tokens

\* The words are addresses, no more than there were tokens, nor than the limit.
LEMMA WordsInRange ==
    ASSUME NEW p \in Payloads
    PROVE  /\ StackWords(p) \in Seq(0..MaxAddress)
           /\ Len(StackWords(p)) \in Nat /\ Len(StackWords(p)) <= Len(KeptTokens(p))
           /\ Len(StackWords(p)) <= MaxStackWords
<1> DEFINE tokens == KeptTokens(p)
           s == [i \in DOMAIN tokens |-> ParseAddress(tokens[i])]
           A == 0..MaxAddress \cup {None}
           words == Select(s, 0..MaxAddress)
<1>1. tokens \in Seq(ToSet(StackTokens(p))) /\ Len(tokens) \in Nat /\ Len(tokens) <= MaxStackWords
  BY KeptTokensFacts
<1>2. \A i \in DOMAIN tokens : IsScalar(tokens[i])
  BY <1>1, TokensAreScalars
<1>3. s \in Seq(A) /\ Len(s) = Len(tokens)
  <2>1. \A i \in DOMAIN tokens : s[i] \in A
    BY <1>2, AddressesInRange
  <2> HIDE DEF A
  <2> QED
    BY <1>1, <2>1
<1>4. StackWords(p) = words
  BY DEF StackWords
<1> HIDE DEF s, A
<1>5. /\ words \in Seq(A) /\ Len(words) \in Nat /\ Len(words) <= Len(s)
      /\ \A k \in 1..Len(words) : words[k] \in 0..MaxAddress
  BY <1>3, SelectFacts
<1> HIDE DEF words, tokens
<1>6. words \in Seq(0..MaxAddress)
  BY <1>5, SeqOver
<1>7. MaxStackWords \in Nat
  BY AnalysisConstants
<1> QED
  BY <1>1, <1>3, <1>4, <1>5, <1>6, <1>7 DEF tokens

-----------------------------------------------------------------------------
(* Reports.                                                                *)

\* Register dumps hold addresses.
LEMMA RegistersInRange ==
    ASSUME NEW p \in Payloads
    PROVE  \A r \in DOMAIN RegisterDump(p) : RegisterDump(p)[r] \in 0..MaxAddress
<1> DEFINE pairs == RegisterPairs(Lookup(p, "registers"))
           usable == UsableEntries(pairs)
           For(r) == {i \in usable : CanonicalRegister(pairs[i][1]) = r}
<1>0. IsValue(Lookup(p, "registers"))
  BY LookupFinds DEF Field
<1>1. /\ \E L \in Nat : DOMAIN pairs = 1..L
      /\ \A i \in DOMAIN pairs : IsScalar(pairs[i][2])
  <2> DEFINE value == Lookup(p, "registers")
  <2> HIDE DEF value
  <2>1. CASE value.t = "object"
    <3>1. /\ RegisterPairs(value) = value.pairs /\ IsList(value.pairs)
          /\ \A w \in ToSet(value.pairs) : IsScalar(w[2])
      BY <1>0, <2>1 DEF IsValue, HoldsScalars, RegisterPairs, value
    <3> QED
      BY <3>1, ListFacts DEF value
  <2>2. CASE value.t = "list"
    <3>1. IsList(value.items) /\ \A w \in ToSet(value.items) : IsScalar(w)
      BY <1>0, <2>2 DEF IsValue, HoldsScalars, value
    <3> DEFINE n == Min({Len(value.items), MaxRegisters})
    <3>2. n \in Nat /\ n <= Len(value.items)
      <4>1. {Len(value.items), MaxRegisters} \in SUBSET Nat /\ {Len(value.items), MaxRegisters} # {}
        BY <3>1, ListFacts, AnalysisConstants
      <4> QED
        BY <4>1, SmallestIndex
    <3>3. RegisterPairs(value) = [i \in 1..n |-> <<Positional(i), value.items[i]>>]
      BY <2>2 DEF RegisterPairs
    <3> HIDE DEF n
    <3>4. /\ DOMAIN RegisterPairs(value) = 1..n
          /\ \A i \in 1..n : RegisterPairs(value)[i][2] = value.items[i]
      BY <3>3
    <3>5. \A i \in 1..n : IsScalar(value.items[i])
      BY <3>1, <3>2, ListFacts
    <3> QED
      BY <3>2, <3>4, <3>5 DEF value
  <2>3. CASE value.t \notin {"object", "list"}
    <3>1. RegisterPairs(value) = <<>>
      BY <2>3 DEF RegisterPairs
    <3>2. DOMAIN RegisterPairs(value) = 1..0
      BY <3>1
    <3> QED
      BY <3>2 DEF value
  <2> QED
    BY <2>1, <2>2, <2>3
<1> HIDE DEF pairs
<1> SUFFICES ASSUME NEW r \in Registers, For(r) # {}
             PROVE  ParseAddress(pairs[Max(For(r))][2]) \in 0..MaxAddress
  BY Zenon DEF RegisterDump, pairs
<1>2. PICK L \in Nat : DOMAIN pairs = 1..L
  BY <1>1
<1>3. For(r) \in SUBSET (1..L)
  BY <1>2 DEF UsableEntries
<1>4. Max(For(r)) \in For(r)
  <2> HIDE DEF For
  <2> QED
    BY <1>3, LargestIndex
<1> DEFINE value == pairs[Max(For(r))][2]
<1>5. IsScalar(value) /\ ParseAddress(value) # None
  BY <1>1, <1>4 DEF UsableEntries
<1> HIDE DEF value
<1>6. ParseAddress(value) \in 0..MaxAddress
  BY <1>5, AddressesInRange
<1> QED
  BY <1>6 DEF value

LEMMA KeysInRange ==
    ASSUME NEW p \in Payloads, NEW field \in Field, NEW register
    PROVE  KeyRegister(p, field, register) \in 0..MaxAddress \cup {None}
BY FieldInRange, RegistersInRange DEF KeyRegister, Backfilled

LEMMA StartInRange ==
    ASSUME NEW p \in Payloads
    PROVE  StartAddress(Lookup(p, "stack")) \in 0..MaxAddress \cup {None}
<1> DEFINE value == Lookup(p, "stack")
           keys == <<"start_address", "startAddress", "address", "base", "sp">>
<1>1. IsValue(value)
  BY LookupFinds DEF Field
<1>2. DOMAIN keys \subseteq Nat
  OBVIOUS
<1>3. StartAddress(value) = IF value.t = "object" THEN ParseAddress(FirstOf(value, keys)) ELSE None
  BY DEF StartAddress
<1> HIDE DEF value, keys
<1>4. value.t = "object" => IsScalar(FirstOf(value, keys))
  BY <1>1, <1>2, FirstOfHolds DEF HoldsScalars
<1>5. StartAddress(value) \in 0..MaxAddress \cup {None}
  BY <1>3, <1>4, AddressesInRange
<1> QED
  BY <1>5 DEF value

LEMMA TimeIsInt ==
    ASSUME NEW p \in Payloads
    PROVE  OccurredAt(p) \in Int
<1> DEFINE value == Lookup(p, "occurred_at")
<1>1. IsScalar(value)
  BY LookupFinds DEF IsValue, HoldsScalars, Field
<1>2. \A n \in Int \cup {None} : FromEpoch(n) \in Int \cup {None}
  BY AnalysisConstants DEF FromEpoch
<1>3. OccurredAt(p) = IF Instant(value) = None THEN Now ELSE Instant(value)
  BY DEF OccurredAt
<1> HIDE DEF value
<1>4. Instant(value) \in Int \cup {None}
  BY <1>1, <1>2, AnalysisConstants DEF Instant, IsScalar
<1> QED
  BY <1>3, <1>4, AnalysisConstants

\* A report comes from a payload that was sent, and was not rejected.
ReportInv ==
    report # None => payload \in Payloads /\ ~Rejected(payload) /\ report = Parse(payload)

LEMMA ReportKept == Spec => []ReportInv
<1>1. Init => ReportInv
  BY DEF Init, ReportInv
<1>2. ReportInv /\ [Next]_vars => ReportInv'
  <2> SUFFICES ASSUME ReportInv, [Next]_vars PROVE ReportInv'
    OBVIOUS
  <2>1. ASSUME UNCHANGED <<payload, report>> PROVE ReportInv'
    BY <2>1 DEF ReportInv
  <2>2. CASE Receive
    BY <2>2 DEF Receive, ReportInv
  <2>3. CASE Upload
    BY <2>1, <2>3, Zenon DEF Upload
  <2>4. CASE Prune
    BY <2>1, <2>4 DEF Prune
  <2>5. CASE Symbolicate
    BY <2>1, <2>5, Zenon DEF Symbolicate
  <2> QED
    BY <2>1, <2>2, <2>3, <2>4, <2>5 DEF Next, vars
<1> QED
  BY <1>1, <1>2, PTL DEF Spec

\* What TypeOK says of a report.
LEMMA ReportTypes ==
    ASSUME NEW p \in Payloads, ~Rejected(p)
    PROVE  LET r == Parse(p)
           IN  /\ {r.pc, r.lr, r.sp, r.start} \subseteq 0..MaxAddress \cup {None}
               /\ Range(r.registers) \cup ToSet(r.words) \subseteq 0..MaxAddress
               /\ Len(r.words) <= MaxStackWords
               /\ r.occurred_at <= Now + MaxClockSkew
<1>1. {Parse(p).pc, Parse(p).lr, Parse(p).sp, Parse(p).start} \subseteq 0..MaxAddress \cup {None}
  BY KeysInRange, StartInRange DEF Parse, Field
<1>2. Range(Parse(p).registers) \subseteq 0..MaxAddress
  BY RegistersInRange DEF Parse, Range
<1>3. ToSet(Parse(p).words) \subseteq 0..MaxAddress /\ Len(Parse(p).words) <= MaxStackWords
  <2>1. Parse(p).words = StackWords(p)
    BY DEF Parse
  <2>2. StackWords(p) \in Seq(0..MaxAddress) /\ Len(StackWords(p)) <= MaxStackWords
    BY WordsInRange
  <2>3. \A A, s : s \in Seq(A) => ToSet(s) \subseteq A
    BY DEF ToSet
  <2> QED
    BY <2>1, <2>2, <2>3
<1>4. Parse(p).occurred_at <= Now + MaxClockSkew
  BY TimeIsInt, AnalysisConstants DEF Parse, Rejected, TooFarAhead
<1> QED
  BY <1>1, <1>2, <1>3, <1>4

-----------------------------------------------------------------------------
(* Warnings.                                                               *)

LEMMA CutsAreTold ==
    ASSUME NEW p \in Payloads, Len(StackWords(p)) < Len(StackTokens(p))
    PROVE  "stack" \in Warnings(p)
<1>1. StackLoss(p)
  BY WordsInRange, KeptTokensFacts, AnalysisConstants DEF StackLoss
<1> QED
  BY <1>1 DEF Warnings

\* A usable entry is in the dump.
LEMMA UsableIsDumped ==
    ASSUME NEW p \in Payloads, NEW i \in UsableEntries(RegisterPairs(Lookup(p, "registers")))
    PROVE  CanonicalRegister(RegisterPairs(Lookup(p, "registers"))[i][1]) \in DOMAIN RegisterDump(p)
<1> DEFINE pairs == RegisterPairs(Lookup(p, "registers"))
           usable == UsableEntries(pairs)
           For(r) == {j \in usable : CanonicalRegister(pairs[j][1]) = r}
           here == CanonicalRegister(pairs[i][1])
<1>1. DOMAIN RegisterDump(p) = {r \in Registers : For(r) # {}}
  BY DEF RegisterDump
<1>2. i \in For(here)
  OBVIOUS
<1>3. here # None
  BY DEF UsableEntries
<1>4. here \in Registers
  BY <1>3 DEF CanonicalRegister
<1> QED
  BY <1>1, <1>2, <1>4

LEMMA RegistersAreTold ==
    ASSUME NEW p \in Payloads, ~RegisterLoss(p)
    PROVE  LET given == Lookup(p, "registers")
               entry(n) == IF given.t = "list" THEN Positional(n) ELSE given.pairs[n][1]
               all == CASE given.t = "list" -> DOMAIN given.items
                        [] given.t = "object" -> DOMAIN given.pairs
                        [] OTHER -> {}
           IN  \A i \in all : CanonicalRegister(entry(i)) \in DOMAIN RegisterDump(p)
<1> DEFINE given == Lookup(p, "registers")
           pairs == RegisterPairs(given)
<1>1. IsValue(given)
  BY LookupFinds DEF Field
<1>2. UsableEntries(pairs) = DOMAIN pairs
  BY DEF RegisterLoss
<1>3. \A i \in DOMAIN pairs : CanonicalRegister(pairs[i][1]) \in DOMAIN RegisterDump(p)
  BY <1>2, UsableIsDumped
<1>4. given.t = "list" => ~(Len(given.items) > MaxRegisters)
  BY DEF RegisterLoss
<1> HIDE DEF given
<1>5. CASE given.t = "list"
  <2> DEFINE n == Min({Len(given.items), MaxRegisters})
  <2>1. Len(given.items) \in Nat /\ DOMAIN given.items = 1..Len(given.items) /\ MaxRegisters \in Nat
    BY <1>1, <1>5, ListFacts, AnalysisConstants DEF IsValue, HoldsScalars
  <2>2. n \in {Len(given.items), MaxRegisters} /\ n <= Len(given.items) /\ n <= MaxRegisters
    <3>1. {Len(given.items), MaxRegisters} \in SUBSET Nat /\ {Len(given.items), MaxRegisters} # {}
      BY <2>1
    <3> QED
      BY <3>1, SmallestIndex
  <2>3. pairs = [i \in 1..n |-> <<Positional(i), given.items[i]>>]
    BY <1>5 DEF RegisterPairs
  <2> HIDE DEF n
  <2>4. n = Len(given.items)
    BY <1>4, <1>5, <2>1, <2>2
  <2>5. \A i \in DOMAIN given.items : i \in DOMAIN pairs /\ pairs[i][1] = Positional(i)
    BY <2>1, <2>3, <2>4
  <2>6. \A i \in DOMAIN given.items : CanonicalRegister(Positional(i)) \in DOMAIN RegisterDump(p)
    BY <1>3, <2>5
  <2> QED
    BY <1>5, <2>6 DEF given
<1>6. CASE given.t = "object"
  <2>1. pairs = given.pairs
    BY <1>6 DEF RegisterPairs
  <2> QED
    BY <1>3, <1>6, <2>1 DEF given
<1>7. CASE given.t \notin {"list", "object"}
  BY <1>7 DEF given
<1> QED
  BY <1>5, <1>6, <1>7

LEMMA UnreadIsTold ==
    ASSUME NEW p, NEW field \in {"program_counter", "link_register", "stack_pointer"},
           Unread(p, field)
    PROVE  field \in Warnings(p)
<1> DEFINE addresses == {<<"program_counter", "pc">>, <<"link_register", "lr">>,
                         <<"stack_pointer", "sp">>}
           unread == {g \in addresses : Unread(p, g[1])}
<1>1. PICK f \in addresses : f[1] = field
  OBVIOUS
<1>2. f \in unread
  BY <1>1
<1>3. {g[1] : g \in unread} \subseteq Warnings(p)
  BY Zenon DEF Warnings
<1> HIDE DEF unread
<1> QED
  BY <1>1, <1>2, <1>3

LEMMA KeysAreTold ==
    ASSUME NEW p \in Payloads, NEW field \in Field, NEW register,
           Lookup(p, field) # Null,
           ParseAddress(Lookup(p, field)) # KeyRegister(p, field, register)
    PROVE  Unread(p, field)
BY DEF KeyRegister, Backfilled, AddressField, Unread

\* Nothing the device said is dropped in silence, whatever it sent: words of its stack
\* that are cut or unreadable, registers that cannot be used and key addresses that were
\* replaced from the dump each leave a warning in the report.
THEOREM NothingDroppedInSilence == Spec => []DropsAreTold
<1>1. ReportInv => DropsAreTold
  <2> SUFFICES ASSUME report # None, payload \in Payloads, report = Parse(payload)
               PROVE  DropsAreTold
    BY DEF ReportInv, DropsAreTold, Accepted
  <2>1. /\ report.words = StackWords(payload) /\ report.warnings = Warnings(payload)
        /\ report.registers = RegisterDump(payload)
        /\ report.pc = KeyRegister(payload, "program_counter", "pc")
        /\ report.lr = KeyRegister(payload, "link_register", "lr")
        /\ report.sp = KeyRegister(payload, "stack_pointer", "sp")
    BY DEF Parse
  <2>2. RegisterLoss(payload) => "registers" \in Warnings(payload)
    BY DEF Warnings
  <2>3. /\ Unread(payload, "program_counter") => "program_counter" \in Warnings(payload)
        /\ Unread(payload, "link_register") => "link_register" \in Warnings(payload)
        /\ Unread(payload, "stack_pointer") => "stack_pointer" \in Warnings(payload)
    BY UnreadIsTold
  <2>5. Len(report.words) < Len(StackTokens(payload)) => "stack" \in report.warnings
    BY <2>1, CutsAreTold
  <2>6. LET given == Lookup(payload, "registers")
            entry(n) == IF given.t = "list" THEN Positional(n) ELSE given.pairs[n][1]
            all == CASE given.t = "list" -> DOMAIN given.items
                     [] given.t = "object" -> DOMAIN given.pairs
                     [] OTHER -> {}
        IN  \A i \in all : \/ CanonicalRegister(entry(i)) \in DOMAIN report.registers
                           \/ "registers" \in report.warnings
    <3>1. CASE RegisterLoss(payload)
      BY <2>1, <2>2, <3>1
    <3>2. CASE ~RegisterLoss(payload)
      BY <2>1, <3>2, RegistersAreTold
    <3> QED
      BY <3>1, <3>2
  <2>7. \A f \in {<<"program_counter", report.pc>>, <<"link_register", report.lr>>,
                   <<"stack_pointer", report.sp>>} :
            LET given == Lookup(payload, f[1])
            IN  given # Null /\ ParseAddress(given) # f[2] => f[1] \in report.warnings
    BY <2>1, <2>3, KeysAreTold DEF Field
  <2> QED
    BY <2>5, <2>6, <2>7 DEF DropsAreTold
<1> QED
  BY <1>1, ReportKept, PTL

-----------------------------------------------------------------------------
(* Symbols of an ELF.                                                      *)

TableOf(elf) == IF elf.symtab # None THEN elf.symtab
                ELSE IF elf.dynsym # None THEN elf.dynsym ELSE <<>>

SymbolsOf(elf) == {SymbolFrom(elf, e) : e \in ToSet(TableOf(elf))}

\* What has been kept of the first n entries of the table.
Keeps(elf, n, symbols) ==
    /\ \A k \in 1..Len(symbols) : \E i \in 1..n :
          Wanted(elf, TableOf(elf)[i]) /\ symbols[k] = SymbolFrom(elf, TableOf(elf)[i])
    /\ \A i \in 1..n : Wanted(elf, TableOf(elf)[i]) => Listed(symbols, SymbolFrom(elf, TableOf(elf)[i]))
    /\ \A j, k \in 1..Len(symbols) :
          symbols[j].name = symbols[k].name /\ symbols[j].address = symbols[k].address => j = k

\* All symbols of a table, before they are cut.
ReadsOf(elf) ==
    {all \in Seq(SymbolsOf(elf)) :
        /\ Keeps(elf, Len(TableOf(elf)), all)
        /\ ReadSymbols(elf) = SubSeq(all, 1, Min({Len(all), MaxSymbols}))}

LEMMA TableFacts ==
    ASSUME NEW elf, IsElf(elf)
    PROVE  IsTable(TableOf(elf))
<1>1. IsTable(<<>>)
  BY DEF IsTable, IsList, ToSet
<1> QED
  BY <1>1 DEF IsElf, TableOf

\* One entry more.
LEMMA KeepsNext ==
    ASSUME NEW elf, NEW A, NEW n \in Nat, NEW symbols \in Seq(A), Keeps(elf, n, symbols),
           NEW next, NEW entry, entry = TableOf(elf)[n + 1],
           next = IF Wanted(elf, entry) /\ ~Listed(symbols, SymbolFrom(elf, entry))
                  THEN Append(symbols, SymbolFrom(elf, entry)) ELSE symbols
    PROVE  Keeps(elf, n + 1, next)
<1> DEFINE new == SymbolFrom(elf, entry)
           Same(s, t) == s.name = t.name /\ s.address = t.address
<1> HIDE DEF new
<1>1. /\ \A k \in 1..Len(symbols) : \E i \in 1..n :
             Wanted(elf, TableOf(elf)[i]) /\ symbols[k] = SymbolFrom(elf, TableOf(elf)[i])
      /\ \A i \in 1..n : Wanted(elf, TableOf(elf)[i]) => Listed(symbols, SymbolFrom(elf, TableOf(elf)[i]))
      /\ \A j, k \in 1..Len(symbols) : Same(symbols[j], symbols[k]) => j = k
  BY DEF Keeps
<1>2. CASE Wanted(elf, entry) /\ ~Listed(symbols, new)
  <2>1. next = Append(symbols, new)
    BY <1>2 DEF new
  <2>2. /\ Len(next) = Len(symbols) + 1 /\ next[Len(symbols) + 1] = new /\ Len(symbols) \in Nat
        /\ \A k \in 1..Len(symbols) : next[k] = symbols[k]
    BY <2>1
  <2>3. \A k \in 1..Len(symbols) : ~Same(symbols[k], new)
    BY <1>2 DEF Listed, ToSet
  <2>4. \A k \in 1..Len(next) : k = Len(symbols) + 1 \/ k \in 1..Len(symbols)
    BY <2>2
  <2>5. \A k \in 1..Len(next) : \E i \in 1..n + 1 :
            Wanted(elf, TableOf(elf)[i]) /\ next[k] = SymbolFrom(elf, TableOf(elf)[i])
    <3> SUFFICES ASSUME NEW k \in 1..Len(next)
                 PROVE  \E i \in 1..n + 1 : Wanted(elf, TableOf(elf)[i])
                                            /\ next[k] = SymbolFrom(elf, TableOf(elf)[i])
      OBVIOUS
    <3>1. CASE k = Len(symbols) + 1
      <4>1. n + 1 \in 1..n + 1
        OBVIOUS
      <4> QED
        BY <1>2, <2>2, <3>1, <4>1 DEF new
    <3>2. CASE k \in 1..Len(symbols)
      BY <1>1, <2>2, <3>2
    <3> QED
      BY <2>4, <3>1, <3>2
  <2>6. \A s : Listed(symbols, s) => Listed(next, s)
    <3> SUFFICES ASSUME NEW s, Listed(symbols, s) PROVE Listed(next, s)
      OBVIOUS
    <3>1. PICK k \in 1..Len(symbols) : Same(symbols[k], s)
      BY DEF Listed, ToSet
    <3>2. k \in DOMAIN next /\ next[k] = symbols[k]
      BY <2>1, <2>2, <3>1
    <3> QED
      BY <3>1, <3>2 DEF Listed, ToSet
  <2>7. Listed(next, new)
    <3>1. Len(symbols) + 1 \in DOMAIN next
      BY <2>1, <2>2
    <3> QED
      BY <2>2, <3>1 DEF Listed, ToSet
  <2>8. \A i \in 1..n + 1 : Wanted(elf, TableOf(elf)[i]) => Listed(next, SymbolFrom(elf, TableOf(elf)[i]))
    <3>1. \A i \in 1..n + 1 : i = n + 1 \/ i \in 1..n
      OBVIOUS
    <3> QED
      BY <1>1, <2>6, <2>7, <3>1 DEF new
  <2>9. \A j, k \in 1..Len(next) : Same(next[j], next[k]) => j = k
    BY <1>1, <2>2, <2>3, <2>4
  <2> QED
    BY <2>5, <2>8, <2>9 DEF Keeps
<1>3. CASE ~(Wanted(elf, entry) /\ ~Listed(symbols, new))
  <2>1. next = symbols
    BY <1>3 DEF new
  <2>2. \A i \in 1..n + 1 : i = n + 1 \/ i \in 1..n
    OBVIOUS
  <2>3. \A i \in 1..n + 1 : Wanted(elf, TableOf(elf)[i]) => Listed(next, SymbolFrom(elf, TableOf(elf)[i]))
    BY <1>1, <1>3, <2>1, <2>2 DEF new
  <2>4. \A i \in 1..n : i \in 1..n + 1
    OBVIOUS
  <2> QED
    BY <1>1, <2>1, <2>3, <2>4 DEF Keeps
<1> QED
  BY <1>2, <1>3

LEMMA SymbolsRead ==
    ASSUME NEW elf, IsElf(elf)
    PROVE  ReadsOf(elf) # {}
<1> DEFINE s == TableOf(elf)
           L == Len(s)
           C == Seq(SymbolsOf(elf))
           Keep(symbols, entry) ==
               IF Wanted(elf, entry) /\ ~Listed(symbols, SymbolFrom(elf, entry))
               THEN Append(symbols, SymbolFrom(elf, entry)) ELSE symbols
           all == FoldLeft(Keep, <<>>, s)
           step == [p \in (1..L) \X C |-> Keep(p[2], s[p[1]])]
           Body(h) == [u \in SUBSET (1..L) |->
               IF u = {} THEN <<>> ELSE Keep(h[u \ {Max(u)}], s[Max(u)])]
           iter == CHOOSE h : h = Body(h)
           run == [n \in 0..L |-> iter[1..n]]
<1>0. ReadSymbols(elf) = SubSeq(all, 1, Min({Len(all), MaxSymbols}))
  BY DEF ReadSymbols, TableOf
<1>1. L \in Nat /\ DOMAIN s = 1..L /\ \A n \in 1..L : SymbolFrom(elf, s[n]) \in SymbolsOf(elf)
  BY TableFacts DEF IsTable, IsList, SymbolsOf, ToSet
<1>2. \A n \in 1..L, c \in C : Keep(c, s[n]) \in C
  BY <1>1
<1>3. step \in [(1..L) \X C -> C] /\ <<>> \in C
  <2> HIDE DEF Keep, C
  <2>1. step \in [(1..L) \X C -> C]
    BY <1>2
  <2>2. <<>> \in C
    BY DEF C
  <2> QED
    BY <2>1, <2>2
<1>4. FoldsOf(L, C, <<>>, step) # {}
  <2> HIDE DEF C, step, L
  <2> QED
    BY <1>1, <1>3, FoldTable
<1>5. PICK g : g \in FoldsOf(L, C, <<>>, step)
  BY <1>4
<1>6. /\ g \in [SUBSET (1..L) -> C]
      /\ \A u \in SUBSET (1..L) :
            g[u] = IF u = {} THEN <<>> ELSE step[<<Max(u), g[u \ {Max(u)}]>>]
  <2> HIDE DEF C, step, L
  <2> QED
    BY <1>5 DEF FoldsOf
<1>7. g = Body(g)
  <2>1. ASSUME NEW u \in SUBSET (1..L), u # {}
        PROVE  g[u] = Keep(g[u \ {Max(u)}], s[Max(u)])
    <3>1. Max(u) \in 1..L
      BY <1>1, <2>1, LargestIndex
    <3>2. u \ {Max(u)} \in SUBSET (1..L)
      BY <2>1
    <3>3. g[u \ {Max(u)}] \in C
      BY <1>6, <3>2
    <3> HIDE DEF C, L, Keep
    <3> QED
      BY <1>6, <2>1, <3>1, <3>3
  <2> HIDE DEF C, L, step, Keep
  <2> QED
    BY <1>6, <2>1
<1>8. iter = Body(iter)
  <2> HIDE DEF Body
  <2> QED
    BY <1>7
<1>9. all = iter[1..L]
  BY <1>1 DEF FoldLeft, MapThenFoldSet
<1> HIDE DEF iter, all, Keep
<1>10. \A u \in SUBSET (1..L) :
          iter[u] = IF u = {} THEN <<>> ELSE Keep(iter[u \ {Max(u)}], s[Max(u)])
  BY <1>8
<1>11. run[0] = <<>> /\ run[L] = iter[1..L]
  <2>1. 1..0 = {} /\ {} \in SUBSET (1..L) /\ 0 \in 0..L /\ L \in 0..L
    BY <1>1
  <2>2. iter[{}] = <<>>
    BY <1>10, <2>1
  <2> QED
    BY <2>1, <2>2
<1>12. ASSUME NEW n \in 1..L PROVE run[n] = Keep(run[n - 1], s[n])
  <2>1. /\ 1..n \in SUBSET (1..L) /\ 1..n # {} /\ n \in 0..L /\ n - 1 \in 0..L
        /\ Max(1..n) = n /\ (1..n) \ {Max(1..n)} = 1..n - 1
    BY <1>1, UpToIndex
  <2> HIDE DEF L
  <2> QED
    BY <1>10, <2>1
<1> DEFINE T == {n \in 0..L : run[n] \in C /\ Keeps(elf, n, run[n])}
<1> HIDE DEF run, C, L
<1>13. 0 \in T
  <2>1. 0 \in 0..L /\ run[0] \in C
    BY <1>1, <1>3, <1>11
  <2>2. Keeps(elf, 0, <<>>)
    BY DEF Keeps
  <2> QED
    BY <1>11, <2>1, <2>2
<1>14. ASSUME NEW n \in 0..L - 1, n \in T PROVE n + 1 \in T
  <2>1. n \in Nat /\ n + 1 \in 1..L /\ n + 1 \in 0..L /\ (n + 1) - 1 = n
    BY <1>1
  <2>2. run[n + 1] = Keep(run[n], s[n + 1]) /\ run[n] \in C /\ Keeps(elf, n, run[n])
    BY <1>12, <1>14, <2>1
  <2>3. run[n + 1] \in C
    BY <1>2, <2>1, <2>2
  <2>4. Keeps(elf, n + 1, run[n + 1])
    BY <2>1, <2>2, KeepsNext DEF Keep, C
  <2> QED
    BY <2>1, <2>3, <2>4
<1> HIDE DEF T
<1>15. \A n \in 0..L : n \in T
  BY <1>1, <1>13, <1>14, BoundedInduction
<1>16. L \in T
  BY <1>1, <1>15
<1>17. all \in C /\ Keeps(elf, L, all)
  BY <1>9, <1>11, <1>16 DEF T
<1> QED
  BY <1>0, <1>17 DEF ReadsOf, C, L
\* What is read of a table is cut to the limit, and keeps what was kept.
LEMMA SymbolsCut ==
    ASSUME NEW elf, IsElf(elf)
    PROVE  /\ ReadSymbols(elf) \in Seq(SymbolsOf(elf)) /\ Len(ReadSymbols(elf)) <= MaxSymbols
           /\ \A k \in 1..Len(ReadSymbols(elf)) : \E e \in ToSet(TableOf(elf)) :
                 Wanted(elf, e) /\ ReadSymbols(elf)[k] = SymbolFrom(elf, e)
<1>1. ReadsOf(elf) # {}
  BY SymbolsRead
<1>2. PICK all : all \in ReadsOf(elf)
  BY <1>1
<1> DEFINE n == Min({Len(all), MaxSymbols})
           symbols == SubSeq(all, 1, n)
<1>3. all \in Seq(SymbolsOf(elf)) /\ Keeps(elf, Len(TableOf(elf)), all) /\ ReadSymbols(elf) = symbols
  BY <1>2 DEF ReadsOf
<1>4. n \in Nat /\ n <= Len(all) /\ n <= MaxSymbols
  <2>1. {Len(all), MaxSymbols} \in SUBSET Nat /\ {Len(all), MaxSymbols} # {}
    BY <1>3, AnalysisConstants
  <2> QED
    BY <2>1, SmallestIndex
<1> HIDE DEF n
<1>5. Len(all) \in Nat /\ \A i \in 1..n : all[i] \in SymbolsOf(elf)
  BY <1>3, <1>4
<1>6. /\ symbols \in Seq(SymbolsOf(elf)) /\ Len(symbols) = n
      /\ \A k \in 1..n : symbols[k] = all[k]
  BY <1>3, <1>4, <1>5, SubSeqProperties
<1> HIDE DEF symbols
<1>7. ASSUME NEW k \in 1..Len(symbols)
      PROVE  \E e \in ToSet(TableOf(elf)) : Wanted(elf, e) /\ symbols[k] = SymbolFrom(elf, e)
  <2>1. k \in 1..Len(all) /\ symbols[k] = all[k]
    BY <1>4, <1>5, <1>6, <1>7
  <2>2. PICK i \in 1..Len(TableOf(elf)) :
            Wanted(elf, TableOf(elf)[i]) /\ all[k] = SymbolFrom(elf, TableOf(elf)[i])
    BY <1>3, <2>1 DEF Keeps
  <2>3. TableOf(elf)[i] \in ToSet(TableOf(elf))
    BY TableFacts, ListFacts DEF IsTable
  <2> QED
    BY <2>1, <2>2, <2>3
<1> QED
  BY <1>3, <1>4, <1>6, <1>7

-----------------------------------------------------------------------------
(* Chains.                                                                 *)

\* An address with where it was found.
AddressedIn(A) == [address : A, origin : {"pc", "lr", "stack"}]

Addressed == AddressedIn(Int)

EvenAt(all, n) == 2 * (all[n].address \div 2)

\* Where the even address is not that of the element before.
Changes(all) == {i \in DOMAIN all : i = 1 \/ EvenAt(all, i) # EvenAt(all, i - 1)}

FrameAt(build, symbols, all, i) == Resolve(build, symbols, all[i].address, all[i].origin)

\* The chain after the first n addresses: at is where it changed.
ChainUpTo(build, symbols, all, n, at, chain) ==
    /\ Len(chain.frames) <= Len(at) /\ Len(chain.frames) <= MaxFrames
    /\ Len(chain.frames) < MaxFrames => /\ Len(chain.frames) = Len(at)
                                        /\ chain.last = IF n = 0 THEN None ELSE EvenAt(all, n)
    /\ \A k \in 1..Len(chain.frames) : chain.frames[k] = FrameAt(build, symbols, all, at[k])

LEMMA Halves ==
    ASSUME NEW a \in Int
    PROVE  NormalizeThumb(a) = 2 * (a \div 2) /\ NormalizeThumb(a) <= a /\ NormalizeThumb(a) \in Int
           /\ (a >= 0 => NormalizeThumb(a) >= 0) /\ (a > 1 => NormalizeThumb(a) > 0)
BY DEF NormalizeThumb

LEMMA ChainNext ==
    ASSUME NEW build, NEW symbols, NEW all \in Seq(Addressed), NEW n \in 0..Len(all) - 1,
           NEW at \in Seq(Int), NEW F, NEW chain, chain.frames \in Seq(F),
           ChainUpTo(build, symbols, all, n, at, chain)
    PROVE  ChainUpTo(build, symbols, all, n + 1,
                     IF n + 1 \in Changes(all) THEN Append(at, n + 1) ELSE at,
                     Push(build, symbols, chain, all[n + 1]))
<1> DEFINE new == FrameAt(build, symbols, all, n + 1)
           a == all[n + 1]
           even == EvenAt(all, n + 1)
           at1 == IF n + 1 \in Changes(all) THEN Append(at, n + 1) ELSE at
           next == Push(build, symbols, chain, a)
           frames == chain.frames
<1>1. /\ n \in Nat /\ n + 1 \in 1..Len(all) /\ n + 1 \in DOMAIN all
      /\ n = 0 \/ n \in 1..Len(all)
      /\ (n + 1) - 1 = n /\ (n + 1 = 1 <=> n = 0) /\ MaxFrames \in Nat
  BY AnalysisConstants
<1>2. a \in Addressed /\ a.address \in Int
  <2>1. a \in Addressed
    BY <1>1
  <2> HIDE DEF a
  <2> QED
    BY <2>1 DEF Addressed, AddressedIn
<1>3. even = NormalizeThumb(a.address) /\ even \in Int
  BY <1>2, Halves DEF EvenAt
<1>4. new = Resolve(build, symbols, a.address, a.origin)
  BY DEF FrameAt
<1>5. n + 1 \in Changes(all) <=> n = 0 \/ even # EvenAt(all, n)
  BY <1>1 DEF Changes
<1>6. even # None
  BY <1>3, AnalysisConstants
<1>7. next = IF even = chain.last \/ Len(frames) >= MaxFrames THEN chain
             ELSE [last |-> even, frames |-> Append(frames, new)]
  BY <1>3, <1>4 DEF Push
<1>8. /\ Len(frames) <= Len(at) /\ Len(frames) <= MaxFrames
      /\ Len(frames) < MaxFrames => /\ Len(frames) = Len(at)
                                    /\ chain.last = IF n = 0 THEN None ELSE EvenAt(all, n)
      /\ \A k \in 1..Len(frames) : frames[k] = FrameAt(build, symbols, all, at[k])
  BY DEF ChainUpTo
<1>9. Len(frames) \in Nat /\ Len(at) \in Nat
  OBVIOUS
<1> HIDE DEF new, a, even, next, frames, at1
<1>10. /\ Len(at1) = IF n + 1 \in Changes(all) THEN Len(at) + 1 ELSE Len(at)
       /\ \A k \in 1..Len(at) : at1[k] = at[k]
       /\ n + 1 \in Changes(all) => at1[Len(at) + 1] = n + 1
  BY <1>9 DEF at1
<1>11. \A k \in 1..Len(frames) : frames[k] = FrameAt(build, symbols, all, at1[k])
  <2> SUFFICES ASSUME NEW k \in 1..Len(frames) PROVE frames[k] = FrameAt(build, symbols, all, at1[k])
    OBVIOUS
  <2>1. k \in 1..Len(at)
    BY <1>8, <1>9
  <2>2. at1[k] = at[k]
    BY <1>10, <2>1
  <2> QED
    BY <1>8, <2>2
<1>12. CASE Len(frames) >= MaxFrames
  <2>1. next = chain
    BY <1>7, <1>12
  <2>2. Len(frames) <= Len(at1) /\ Len(frames) <= MaxFrames /\ ~(Len(frames) < MaxFrames)
    BY <1>1, <1>8, <1>9, <1>10, <1>12
  <2> QED
    BY <1>11, <2>1, <2>2 DEF ChainUpTo, frames, at1, next, a
<1>13. CASE Len(frames) < MaxFrames /\ n + 1 \in Changes(all)
  <2>1. even # chain.last
    BY <1>5, <1>6, <1>8, <1>13
  <2>2. next = [last |-> even, frames |-> Append(frames, new)]
    BY <1>1, <1>7, <1>9, <1>13, <2>1
  <2>3. next.last = EvenAt(all, n + 1) /\ next.frames = Append(frames, new)
    BY <2>2 DEF even
  <2>4. frames \in Seq(F) /\ Len(frames) = Len(at)
    BY <1>8, <1>13 DEF frames
  <2>5. /\ Len(next.frames) = Len(frames) + 1 /\ next.frames[Len(frames) + 1] = new
        /\ \A k \in 1..Len(frames) : next.frames[k] = frames[k]
    BY <2>3, <2>4
  <2>6. at1[Len(frames) + 1] = n + 1
    BY <1>10, <1>13, <2>4
  <2>7. \A k \in 1..Len(next.frames) : next.frames[k] = FrameAt(build, symbols, all, at1[k])
    <3>1. \A k \in 1..Len(next.frames) : k \in 1..Len(frames) \/ k = Len(frames) + 1
      BY <1>9, <2>5
    <3> QED
      BY <1>11, <2>5, <2>6, <3>1 DEF new
  <2>8. Len(next.frames) = Len(at1) /\ Len(next.frames) <= MaxFrames
    BY <1>1, <1>9, <1>10, <1>13, <2>4, <2>5
  <2>9. n + 1 # 0
    BY <1>1
  <2>10. Len(at1) <= Len(at1)
    BY <1>9, <1>10, <1>13
  <2> QED
    BY <2>3, <2>7, <2>8, <2>9, <2>10 DEF ChainUpTo, at1, next, a
<1>14. CASE Len(frames) < MaxFrames /\ n + 1 \notin Changes(all)
  <2>1. n # 0 /\ even = chain.last
    BY <1>5, <1>8, <1>14
  <2>2. next = chain
    BY <1>7, <2>1
  <2>3. Len(frames) = Len(at1) /\ Len(frames) <= Len(at1)
    BY <1>8, <1>9, <1>10, <1>14
  <2>4. n + 1 # 0
    BY <1>1
  <2> QED
    BY <1>8, <1>11, <1>14, <2>1, <2>2, <2>3, <2>4 DEF ChainUpTo, frames, at1, next, a, even
<1> QED
  BY <1>1, <1>9, <1>12, <1>13, <1>14 DEF at1, next, a

\* What ReconstructStack folds.
ChainOf(build, symbols, all) ==
    FoldLeft(LAMBDA chain, a : Push(build, symbols, chain, a),
             [last |-> None, frames |-> <<>>], all)

\* A reconstructed chain: a frame for each change, up to the limit.
IsChain(build, symbols, all, frames) ==
    /\ IsList(frames) /\ Len(frames) \in Nat /\ DOMAIN frames = 1..Len(frames)
    /\ LET at == Chosen(Len(all), Changes(all))
       IN  /\ Len(frames) <= Len(at) /\ Len(frames) <= MaxFrames
           /\ Len(frames) < MaxFrames => Len(frames) = Len(at)
           /\ \A k \in 1..Len(frames) : frames[k] = FrameAt(build, symbols, all, at[k])

LEMMA ChainsReconstruct ==
    ASSUME NEW build, NEW symbols, NEW s \in Seq(Addressed)
    PROVE  IsChain(build, symbols, s, ChainOf(build, symbols, s).frames)
<1> DEFINE L == Len(s)
           F == {FrameAt(build, symbols, s, i) : i \in 1..L}
           C == [last : Int \cup {None}, frames : Seq(F)]
           base == [last |-> None, frames |-> <<>>]
           all == ChainOf(build, symbols, s)
           step == [p \in (1..L) \X C |-> Push(build, symbols, p[2], s[p[1]])]
           Body(h) == [u \in SUBSET (1..L) |->
               IF u = {} THEN base ELSE Push(build, symbols, h[u \ {Max(u)}], s[Max(u)])]
           iter == CHOOSE h : h = Body(h)
           run == [n \in 0..L |-> iter[1..n]]
           I == Changes(s)
           ids == [i \in 1..L |-> i]
<1>1. L \in Nat /\ DOMAIN s = 1..L /\ \A n \in 1..L : s[n] \in Addressed
  OBVIOUS
<1>2. ASSUME NEW n \in 1..L, NEW c \in C PROVE Push(build, symbols, c, s[n]) \in C
  <2> DEFINE new == FrameAt(build, symbols, s, n)
             even == NormalizeThumb(s[n].address)
  <2>1. new \in F /\ s[n].address \in Int
    BY <1>1 DEF Addressed, AddressedIn
  <2>2. even \in Int
    BY <2>1, Halves
  <2>3. Push(build, symbols, c, s[n]) = IF even = c.last \/ Len(c.frames) >= MaxFrames THEN c
                                        ELSE [last |-> even, frames |-> Append(c.frames, new)]
    BY DEF Push, FrameAt
  <2> HIDE DEF new, even, F
  <2>4. Append(c.frames, new) \in Seq(F)
    BY <2>1
  <2> QED
    BY <2>2, <2>3, <2>4
<1>3. step \in [(1..L) \X C -> C] /\ base \in C
  <2>1. step \in [(1..L) \X C -> C]
    <3> HIDE DEF C
    <3> QED
      BY <1>2
  <2>2. <<>> \in Seq(F)
    OBVIOUS
  <2> HIDE DEF F
  <2> QED
    BY <2>1, <2>2
<1>4. FoldsOf(L, C, base, step) # {}
  <2> HIDE DEF C, step, L, base
  <2> QED
    BY <1>1, <1>3, FoldTable
<1>5. PICK g : g \in FoldsOf(L, C, base, step)
  BY <1>4
<1>6. /\ g \in [SUBSET (1..L) -> C]
      /\ \A u \in SUBSET (1..L) :
            g[u] = IF u = {} THEN base ELSE step[<<Max(u), g[u \ {Max(u)}]>>]
  <2> HIDE DEF C, step, L, base
  <2> QED
    BY <1>5 DEF FoldsOf
<1>7. g = Body(g)
  <2>1. ASSUME NEW u \in SUBSET (1..L), u # {}
        PROVE  g[u] = Push(build, symbols, g[u \ {Max(u)}], s[Max(u)])
    <3>1. Max(u) \in 1..L
      BY <1>1, <2>1, LargestIndex
    <3>2. u \ {Max(u)} \in SUBSET (1..L)
      BY <2>1
    <3>3. g[u \ {Max(u)}] \in C
      BY <1>6, <3>2
    <3> HIDE DEF C, L, base
    <3> QED
      BY <1>6, <2>1, <3>1, <3>3
  <2> HIDE DEF C, L, step, base
  <2> QED
    BY <1>6, <2>1
<1>8. iter = Body(iter)
  <2> HIDE DEF Body
  <2> QED
    BY <1>7
<1>9. all = iter[1..L]
  BY <1>1 DEF ChainOf, FoldLeft, MapThenFoldSet
<1> HIDE DEF iter, all
<1>10. \A u \in SUBSET (1..L) :
          iter[u] = IF u = {} THEN base ELSE Push(build, symbols, iter[u \ {Max(u)}], s[Max(u)])
  BY <1>8
<1>11. run[0] = base /\ run[L] = iter[1..L]
  <2>1. 1..0 = {} /\ {} \in SUBSET (1..L) /\ 0 \in 0..L /\ L \in 0..L
    BY <1>1
  <2>2. iter[{}] = base
    BY <1>10, <2>1
  <2> HIDE DEF base
  <2> QED
    BY <2>1, <2>2
<1>12. ASSUME NEW n \in 1..L PROVE run[n] = Push(build, symbols, run[n - 1], s[n])
  <2>1. /\ 1..n \in SUBSET (1..L) /\ 1..n # {} /\ n \in 0..L /\ n - 1 \in 0..L
        /\ Max(1..n) = n /\ (1..n) \ {Max(1..n)} = 1..n - 1
    BY <1>1, UpToIndex
  <2> HIDE DEF L, base
  <2> QED
    BY <1>10, <2>1
<1>13. ids \in Seq(1..L) /\ Len(ids) = L /\ \A i \in 1..L : ids[i] = i
  BY <1>1
<1> HIDE DEF run, C, ids, I
<1>14. SelectRuns(1..L, ids, I) # {}
  BY <1>13, SelectRun
<1>15. PICK ats : ats \in SelectRuns(1..L, ids, I)
  BY <1>14
<1>16. /\ ats \in [0..L -> Seq(1..L)] /\ ats[0] = <<>> /\ Chosen(L, I) = ats[L]
       /\ \A n \in 1..L : ats[n] = IF n \in I THEN Append(ats[n - 1], n) ELSE ats[n - 1]
  BY <1>13, <1>15 DEF SelectRuns, Chosen, ids
<1> DEFINE T == {n \in 0..L : /\ run[n] \in C
                              /\ ChainUpTo(build, symbols, s, n, ats[n], run[n])}
<1>17. 0 \in T
  <2>1. 0 \in 0..L /\ run[0] \in C
    BY <1>1, <1>3, <1>11
  <2>2. run[0].frames = <<>> /\ run[0].last = None /\ ats[0] = <<>>
    BY <1>11, <1>16
  <2>3. Len(<<>>) = 0 /\ MaxFrames \in Nat
    BY AnalysisConstants
  <2>4. ChainUpTo(build, symbols, s, 0, ats[0], run[0])
    BY <2>2, <2>3 DEF ChainUpTo
  <2> QED
    BY <2>1, <2>4
<1> HIDE DEF L
<1>18. ASSUME NEW n \in 0..L - 1, n \in T PROVE n + 1 \in T
  <2>1. n + 1 \in 1..L /\ n + 1 \in 0..L /\ (n + 1) - 1 = n /\ n \in 0..L
    BY <1>1
  <2>2. run[n + 1] = Push(build, symbols, run[n], s[n + 1])
    BY <1>12, <2>1
  <2>3. ats[n + 1] = IF n + 1 \in I THEN Append(ats[n], n + 1) ELSE ats[n]
    BY <1>16, <2>1
  <2>4. run[n] \in C /\ ChainUpTo(build, symbols, s, n, ats[n], run[n])
    BY <1>18
  <2>5. run[n + 1] \in C
    BY <1>2, <2>1, <2>2, <2>4
  <2>6. run[n].frames \in Seq(F) /\ ats[n] \in Seq(Int)
    <3>1. ats[n] \in Seq(1..L)
      BY <1>16, <2>1
    <3>2. 1..L \subseteq Int
      BY <1>1
    <3>3. \A k \in 1..Len(ats[n]) : ats[n][k] \in Int
      BY <3>1, <3>2, SeqElements
    <3>5. ats[n] \in Seq(Int)
      BY <3>1, <3>3, SeqOver
    <3>4. run[n].frames \in Seq(F)
      <4> HIDE DEF F
      <4> QED
        BY <2>4 DEF C
    <3> QED
      BY <3>4, <3>5
  <2> HIDE DEF F
  <2>7. ChainUpTo(build, symbols, s, n + 1, ats[n + 1], run[n + 1])
    BY <2>2, <2>3, <2>4, <2>6, ChainNext DEF I, L
  <2> QED
    BY <2>1, <2>5, <2>7
<1> HIDE DEF T
<1>19. \A n \in 0..L : n \in T
  BY <1>1, <1>17, <1>18, BoundedInduction
<1>20. L \in T
  BY <1>1, <1>19
<1>21. all \in C /\ ChainUpTo(build, symbols, s, L, Chosen(L, I), all)
  BY <1>9, <1>11, <1>16, <1>20 DEF T
<1> HIDE DEF F
<1>22. IsList(all.frames) /\ Len(all.frames) \in Nat /\ DOMAIN all.frames = 1..Len(all.frames)
  <2>1. all.frames \in Seq(F)
    BY <1>21 DEF C
  <2>2. Len(all.frames) \in Nat /\ DOMAIN all.frames = 1..Len(all.frames)
    BY <2>1
  <2>3. \A k \in 1..Len(all.frames) : all.frames[k] \in ToSet(all.frames)
    BY <2>2 DEF ToSet
  <2>4. all.frames \in Seq(ToSet(all.frames))
    BY <2>1, <2>3, SeqOver
  <2> QED
    BY <2>2, <2>4 DEF IsList
<1>23. IsChain(build, symbols, s, all.frames)
  BY <1>21, <1>22, Zenon DEF ChainUpTo, IsChain, I, L
<1> QED
  BY <1>23 DEF all

-----------------------------------------------------------------------------
(* Rows.                                                                   *)

Pruned(u) == [RowOf(u) EXCEPT !.disk = FALSE]

Rows == {RowOf(u) : u \in Readable} \cup {Pruned(u) : u \in Readable}

\* A row from which a crash can be resolved.
IsUsable(b) ==
    /\ b.symbols # <<>>
    /\ \/ /\ b.kind = "elf" /\ IsElf(b.file) /\ b.file.magic /\ b.arch = b.file.arch
          /\ b.symbols = ReadSymbols(b.file) /\ b.sections = ReadSections(b.file)
       \/ /\ b.kind = "map" /\ IsMap(b.file) /\ b.arch = None
          /\ b.symbols = SymbolsOfMap(b.file.labels) /\ b.sections = <<>>

LEMMA RowFacts ==
    ASSUME NEW b \in Rows, b.symbols # <<>>
    PROVE  IsUsable(b)
<1>1. PICK u \in Readable : b = RowOf(u) \/ b = Pruned(u)
  BY DEF Rows
<1> DEFINE info == ParseArtifact(u.file)
<1>2. /\ b.kind = DetectKind(u.file) /\ b.file = u.file
      /\ b.arch = info.arch /\ b.symbols = info.symbols /\ b.sections = info.sections
  BY <1>1 DEF Pruned, RowOf
<1>4. u \in Uploads /\ info # Unreadable
  BY <1>1 DEF Readable
<1>5. CASE DetectKind(u.file) = "elf"
  <2>1. info = ParseElf(u.file)
    BY <1>5 DEF ParseArtifact
  <2>2. u.file.magic /\ info = [kind |-> "elf", arch |-> u.file.arch,
                                symbols |-> ReadSymbols(u.file), sections |-> ReadSections(u.file)]
    BY <1>4, <2>1 DEF ParseElf
  <2>3. IsElf(u.file)
    BY <1>4, <1>5, <2>2, AnalysisConstants
  <2> HIDE DEF info
  <2> QED
    BY <1>2, <1>5, <2>2, <2>3 DEF IsUsable
<1>6. CASE DetectKind(u.file) = "map"
  <2>1. info = ParseMap(u.file)
    BY <1>6 DEF ParseArtifact
  <2>2. info = [kind |-> "map", arch |-> None,
                symbols |-> SymbolsOfMap(u.file.labels), sections |-> <<>>]
    BY <1>4, <2>1 DEF ParseMap
  <2>3. IsMap(u.file)
    BY <1>4, <1>6, AnalysisConstants
  <2> HIDE DEF info
  <2> QED
    BY <1>2, <1>6, <2>2, <2>3 DEF IsUsable
<1> QED
  BY <1>5, <1>6 DEF DetectKind

LEMMA RowMayLoseFile ==
    ASSUME NEW b \in Rows
    PROVE  [b EXCEPT !.disk = FALSE] \in Rows
<1>1. PICK u \in Readable : b = RowOf(u) \/ b = Pruned(u)
  BY DEF Rows
<1>2. [b EXCEPT !.disk = FALSE] = Pruned(u)
  BY <1>1 DEF Pruned, RowOf
<1> QED
  BY <1>2 DEF Rows

LEMMA RowsAreMade ==
    ASSUME NEW u \in Readable
    PROVE  RowOf(u) \in Rows
BY DEF Rows

\* find_for_crash finds a row with symbols, if it finds one.
LEMMA FoundIsUsable ==
    ASSUME NEW rows \in Seq(Rows), NEW r, FindForCrash(rows, r) # None
    PROVE  FindForCrash(rows, r) \in Rows /\ IsUsable(FindForCrash(rows, r))
<1> DEFINE usable == {i \in DOMAIN rows : /\ rows[i].firmware = r.firmware_version
                                          /\ rows[i].symbols # <<>>}
           Of(version) == {i \in usable : rows[i].version = version}
           own == IF r.build_version = None THEN {} ELSE Of(r.build_version)
           none == Of(None)
           choices == <<own, none, usable>>
           some == {k \in DOMAIN choices : choices[k] # {}}
<1>1. own \subseteq usable /\ none \subseteq usable
  OBVIOUS
<1>2. FindForCrash(rows, r) = IF some = {} THEN None ELSE Preferred(rows, choices[Min(some)])
  BY DEF FindForCrash
<1>3. Len(rows) \in Nat /\ usable \in SUBSET (1..Len(rows))
  OBVIOUS
<1>4. \A i \in usable : rows[i] \in Rows /\ rows[i].symbols # <<>>
  OBVIOUS
<1> HIDE DEF own, none, usable
<1>5. some \in SUBSET Nat
  OBVIOUS
<1>6. some # {}
  BY <1>2
<1> DEFINE k == Min(some)
<1>7. k \in some
  <2> HIDE DEF some
  <2> QED
    BY <1>5, <1>6, SmallestIndex
<1> HIDE DEF k
<1>8. choices[k] \subseteq usable /\ choices[k] # {}
  <2>1. k \in 1..3
    BY <1>7
  <2>2. choices[1] = own /\ choices[2] = none /\ choices[3] = usable
    OBVIOUS
  <2> QED
    BY <1>1, <1>7, <2>1, <2>2
<1> DEFINE indices == choices[k]
<1>9. FindForCrash(rows, r) = Preferred(rows, indices)
  BY <1>2, <1>6 DEF k
<1> HIDE DEF indices, some, choices
<1> DEFINE elves == {i \in indices : rows[i].kind = "elf"}
<1>10. elves \in SUBSET (1..Len(rows)) /\ indices \in SUBSET (1..Len(rows)) /\ indices # {}
  BY <1>3, <1>8 DEF indices
<1>11. Max(indices) \in indices /\ (elves # {} => Max(elves) \in elves)
  <2> HIDE DEF elves
  <2> QED
    BY <1>3, <1>10, LargestIndex
<1>12. PICK i \in indices : Preferred(rows, indices) = rows[i]
  BY <1>11 DEF Preferred
<1>13. rows[i] \in Rows /\ rows[i].symbols # <<>>
  BY <1>4, <1>8, <1>12 DEF indices
<1> QED
  BY <1>9, <1>12, <1>13, RowFacts

-----------------------------------------------------------------------------
(* The inductive invariant.                                                *)

BuildsInv == builds \in Seq(Rows) /\ Len(builds) <= MaxBuilds

\* What was stored is what the report and some usable build lead to.
TraceInv ==
    trace # None =>
        /\ report # None
        /\ \E symbols \in Loaded(trace.from) : trace.result = TraceOf(trace.from, symbols, report)
        /\ trace.from # None => trace.from \in Rows /\ IsUsable(trace.from)

IInv == ReportInv /\ BuildsInv /\ TraceInv

LEMMA UploadKeepsRows ==
    ASSUME BuildsInv, Upload
    PROVE  BuildsInv'
<1>1. PICK u \in Readable :
          IF {i \in DOMAIN builds : SameIdentity(builds[i], RowOf(u))} = {}
          THEN Len(builds) < MaxBuilds /\ builds' = Append(builds, RowOf(u))
          ELSE builds' = [builds EXCEPT ![Min({i \in DOMAIN builds : SameIdentity(builds[i], RowOf(u))})]
                              = RowOf(u)]
  BY Zenon DEF Upload
<1> DEFINE held == {i \in DOMAIN builds : SameIdentity(builds[i], RowOf(u))}
           row == RowOf(u)
<1>2. row \in Rows
  BY RowsAreMade
<1>3. builds \in Seq(Rows) /\ Len(builds) <= MaxBuilds /\ Len(builds) \in Nat /\ MaxBuilds \in Nat
  BY AnalysisConstants DEF BuildsInv
<1> HIDE DEF row
<1>4. CASE held = {}
  <2>1. Len(builds) < MaxBuilds /\ builds' = Append(builds, row)
    BY <1>1, <1>4 DEF row
  <2>2. builds' \in Seq(Rows) /\ Len(builds') = Len(builds) + 1
    BY <1>2, <1>3, <2>1
  <2> QED
    BY <1>3, <2>1, <2>2 DEF BuildsInv
<1>5. CASE held # {}
  <2>1. builds' = [builds EXCEPT ![Min(held)] = row]
    BY <1>1, <1>5 DEF row
  <2> HIDE DEF held
  <2>2. \A m : [builds EXCEPT ![m] = row] \in Seq(Rows) /\ Len([builds EXCEPT ![m] = row]) = Len(builds)
    <3> SUFFICES ASSUME NEW m PROVE [builds EXCEPT ![m] = row] \in Seq(Rows)
                                    /\ Len([builds EXCEPT ![m] = row]) = Len(builds)
      OBVIOUS
    <3>1. builds \in [1..Len(builds) -> Rows]
      BY <1>3
    <3>2. [builds EXCEPT ![m] = row] \in [1..Len(builds) -> Rows]
      BY <1>2, <3>1
    <3>3. \A n \in Nat : \A f \in [1..n -> Rows] : f \in Seq(Rows) /\ Len(f) = n
      OBVIOUS
    <3> QED
      BY <1>3, <3>2, <3>3
  <2>3. builds' \in Seq(Rows) /\ Len(builds') = Len(builds)
    BY <2>1, <2>2
  <2> QED
    BY <1>3, <2>3 DEF BuildsInv
<1> QED
  BY <1>4, <1>5

LEMMA Invariant == Spec => []IInv
<1>1. Init => BuildsInv /\ TraceInv
  BY AnalysisConstants DEF Init, BuildsInv, TraceInv
<1>2. ReportInv /\ (BuildsInv /\ TraceInv) /\ [Next]_vars => (BuildsInv /\ TraceInv)'
  <2> SUFFICES ASSUME ReportInv, BuildsInv, TraceInv, [Next]_vars
               PROVE  BuildsInv' /\ TraceInv'
    OBVIOUS
  <2>1. ASSUME UNCHANGED <<report, trace>> PROVE TraceInv'
    BY <2>1 DEF TraceInv
  <2>2. ASSUME UNCHANGED builds PROVE BuildsInv'
    BY <2>2 DEF BuildsInv
  <2>3. CASE Upload
    <3>1. UNCHANGED <<report, trace>>
      BY <2>3, Zenon DEF Upload
    <3> QED
      BY <2>1, <2>3, <3>1, UploadKeepsRows
  <2>4. CASE Prune
    <3>1. PICK i \in DOMAIN builds : builds' = [builds EXCEPT ![i].disk = FALSE]
      BY <2>4 DEF Prune
    <3>2. [builds[i] EXCEPT !.disk = FALSE] \in Rows
      BY RowMayLoseFile DEF BuildsInv
    <3>3. builds' \in Seq(Rows) /\ Len(builds') = Len(builds)
      BY <3>1, <3>2 DEF BuildsInv
    <3> QED
      BY <2>1, <2>4, <3>3 DEF BuildsInv, Prune
  <2>5. CASE Receive
    <3>1. UNCHANGED <<builds, trace>> /\ payload = None
      BY <2>5 DEF Receive
    <3>2. trace = None
      BY <3>1, AnalysisConstants DEF TraceInv, ReportInv
    <3> QED
      BY <2>2, <3>1, <3>2 DEF TraceInv
  <2>6. CASE Symbolicate
    <3> DEFINE build == FindForCrash(builds, report)
    <3>1. /\ report # None /\ UNCHANGED <<builds, payload, report>>
          /\ \E symbols \in Loaded(build) :
                 trace' = [result |-> TraceOf(build, symbols, report), from |-> build]
      BY <2>6, Zenon DEF Symbolicate
    <3>2. PICK symbols \in Loaded(build) :
              trace' = [result |-> TraceOf(build, symbols, report), from |-> build]
      BY <3>1
    <3>3. build # None => build \in Rows /\ IsUsable(build)
      BY FoundIsUsable DEF BuildsInv
    <3> HIDE DEF build
    <3>4. trace'.result = TraceOf(build, symbols, report) /\ trace'.from = build
      BY <3>2
    <3>5. trace'.result = TraceOf(trace'.from, symbols, report') /\ symbols \in Loaded(trace'.from)
      BY <3>1, <3>2, <3>4
    <3>6. TraceInv'
      BY <3>1, <3>3, <3>4, <3>5 DEF TraceInv
    <3> QED
      BY <2>2, <3>1, <3>6
  <2>7. CASE UNCHANGED vars
    BY <2>1, <2>2, <2>7 DEF vars
  <2> QED
    BY <2>3, <2>4, <2>5, <2>6, <2>7 DEF Next
<1> QED
  BY <1>1, <1>2, ReportKept, PTL DEF Spec, IInv

-----------------------------------------------------------------------------
(* Frames.                                                                 *)

\* The addresses of a crash: key registers, then the return addresses of its stack.
AllOf(r, b) == HeadOf(r) \o OnStack(Select(r.words, ReturnAddresses(r.words, b)))

AddressesIn(A, r) == {r.pc, r.lr} \subseteq A \cup {None} /\ r.words \in Seq(A)

LEMMA ParsedAddresses ==
    ASSUME NEW p \in Payloads
    PROVE  /\ AddressesIn(0..MaxAddress, Parse(p))
           /\ AddressesIn(Nat, Parse(p)) /\ AddressesIn(Int, Parse(p))
<1> DEFINE r == Parse(p)
<1>1. {r.pc, r.lr} \subseteq 0..MaxAddress \cup {None}
  BY KeysInRange DEF Parse, Field
<1>2. r.words \in Seq(0..MaxAddress)
  BY WordsInRange DEF Parse
<1> HIDE DEF r
<1>3. 0..MaxAddress \subseteq Nat /\ Nat \subseteq Int
  BY AnalysisConstants
<1>4. r.words \in Seq(Nat) /\ r.words \in Seq(Int)
  <2>1. \A k \in 1..Len(r.words) : r.words[k] \in Nat /\ r.words[k] \in Int
    BY <1>2, <1>3, SeqElements
  <2> QED
    BY <1>2, <2>1, SeqOver
<1> QED
  BY <1>1, <1>2, <1>3, <1>4 DEF AddressesIn, r

LEMMA AllAddressed ==
    ASSUME NEW A, NEW r, AddressesIn(A, r), NEW b
    PROVE  /\ AllOf(r, b) \in Seq(AddressedIn(A))
           /\ DOMAIN AllOf(r, b) = 1..Len(AllOf(r, b))
           /\ Len(AllOf(r, b)) \in Nat
<1> DEFINE S == ReturnAddresses(r.words, b)
           words == Select(r.words, S)
<1>1. {r.pc, r.lr} \subseteq A \cup {None}
  BY DEF AddressesIn
<1>2. r.words \in Seq(A)
  BY DEF AddressesIn
<1> HIDE DEF S
<1>3. words \in Seq(A)
  BY <1>2, SelectFacts
<1> HIDE DEF words
<1>4. OnStack(words) \in Seq(AddressedIn(A))
  <2>1. \A i \in DOMAIN words : OnStack(words)[i] \in AddressedIn(A)
    <3> SUFFICES ASSUME NEW i \in DOMAIN words PROVE OnStack(words)[i] \in AddressedIn(A)
      OBVIOUS
    <3>1. words[i] \in A
      BY <1>3, SeqElements
    <3>2. OnStack(words)[i] = [address |-> words[i], origin |-> "stack"]
      BY DEF OnStack
    <3> QED
      BY <3>1, <3>2 DEF AddressedIn
  <2>2. Len(words) \in Nat /\ DOMAIN OnStack(words) = 1..Len(words) /\ DOMAIN words = 1..Len(words)
    BY <1>3 DEF OnStack
  <2>3. OnStack(words) = [i \in 1..Len(words) |-> OnStack(words)[i]]
    BY <2>2 DEF OnStack
  <2> QED
    BY <2>1, <2>2, <2>3
<1>5. HeadOf(r) \in Seq(AddressedIn(A))
  <2>1. \A a \in A, o \in {"pc", "lr"} : [address |-> a, origin |-> o] \in AddressedIn(A)
    BY DEF AddressedIn
  <2>2. <<>> \in Seq(AddressedIn(A)) /\ \A x \in AddressedIn(A) : <<x>> \in Seq(AddressedIn(A))
    OBVIOUS
  <2>3. (IF r.pc = None THEN <<>> ELSE <<[address |-> r.pc, origin |-> "pc"]>>) \in Seq(AddressedIn(A))
    BY <1>1, <2>1, <2>2
  <2>4. (IF r.lr = None THEN <<>> ELSE <<[address |-> r.lr, origin |-> "lr"]>>) \in Seq(AddressedIn(A))
    BY <1>1, <2>1, <2>2
  <2> QED
    BY <2>3, <2>4, ConcatProperties DEF HeadOf
<1>6. AllOf(r, b) \in Seq(AddressedIn(A))
  BY <1>4, <1>5, ConcatProperties DEF AllOf, words, S
<1> QED
  BY <1>6

LEMMA ResolveFacts ==
    ASSUME NEW b, NEW symbols, NEW a \in Int, NEW origin
    PROVE  /\ Resolve(b, symbols, a, origin).origin = origin
           /\ Resolve(b, symbols, a, origin).address = CleanAddress(b, a)
           /\ CleanAddress(b, a) \in Int
           /\ 2 * (CleanAddress(b, a) \div 2) = 2 * (a \div 2)
<1>1. NormalizeThumb(a) \in Int /\ 2 * (NormalizeThumb(a) \div 2) = 2 * (a \div 2)
  BY DEF NormalizeThumb
<1> QED
  BY <1>1 DEF Resolve, Unresolved, CleanAddress

\* What symbolicate_report stores is the chain of the report in the build.
LEMMA TracesAreChains ==
    ASSUME NEW r, AddressesIn(Int, r), NEW b, b # None, NEW symbols
    PROVE  IsChain(b, symbols, AllOf(r, b), TraceOf(b, symbols, r).frames)
<1> DEFINE all == AllOf(r, b)
<1>1. all \in Seq(Addressed)
  BY AllAddressed DEF Addressed
<1>2. TraceOf(b, symbols, r).frames = ReconstructStack(b, symbols, r)
  BY DEF TraceOf, ResolveFrames
<1>3. ReconstructStack(b, symbols, r) = ChainOf(b, symbols, all).frames
  BY DEF ReconstructStack, ChainOf, AllOf
<1> HIDE DEF all
<1>4. IsChain(b, symbols, all, TraceOf(b, symbols, r).frames)
  BY <1>1, <1>2, <1>3, ChainsReconstruct
<1> QED
  BY <1>4 DEF all

LEMMA TraceIsChain ==
    ASSUME IInv, Symbolicated
    PROVE  /\ payload \in Payloads /\ report = Parse(payload)
           /\ trace.from \in Rows /\ IsUsable(trace.from)
           /\ \E symbols \in Arrangements(trace.from.symbols) :
                 /\ trace.result = TraceOf(trace.from, symbols, report)
                 /\ IsChain(trace.from, symbols, AllOf(report, trace.from), trace.result.frames)
<1>1. /\ payload \in Payloads /\ report = Parse(payload)
      /\ trace.from \in Rows /\ IsUsable(trace.from) /\ trace.from # None
  BY DEF IInv, ReportInv, TraceInv, Symbolicated
<1>2. PICK symbols \in Loaded(trace.from) : trace.result = TraceOf(trace.from, symbols, report)
  BY DEF IInv, TraceInv, Symbolicated
<1>3. symbols \in Arrangements(trace.from.symbols)
  BY DEF Loaded, Symbolicated
<1>4. IsChain(trace.from, symbols, AllOf(report, trace.from), trace.result.frames)
  BY <1>1, <1>2, ParsedAddresses, TracesAreChains
<1> QED
  BY <1>1, <1>2, <1>3, <1>4

\* The stored frames are in the order of the addresses, each run of one address once,
\* none left out up to the limit, whatever the dump and the build.
THEOREM ChainsInOrder == Spec => []ChainInOrder
<1>1. IInv => ChainInOrder
  <2> SUFFICES ASSUME IInv, Symbolicated PROVE ChainInOrder
    BY DEF ChainInOrder
  <2> DEFINE all == AllOf(report, trace.from)
             chain == Chosen(Len(all), Changes(all))
             length == Min({Len(chain), MaxFrames})
             frames == trace.result.frames
  <2>1. PICK symbols \in Arrangements(trace.from.symbols) :
            IsChain(trace.from, symbols, all, frames)
    BY TraceIsChain
  <2>2. all \in Seq(Addressed) /\ DOMAIN all = 1..Len(all) /\ Len(all) \in Nat
    BY TraceIsChain, ParsedAddresses, AllAddressed DEF Addressed
  <2> HIDE DEF all
  <2>3. InOrder(Len(all), Changes(all), chain)
    BY <2>2, ChosenInOrder
  <2> HIDE DEF chain
  <2>4. chain \in Seq(1..Len(all)) /\ Len(chain) \in Nat
    BY <2>3 DEF InOrder
  <2>5. /\ Len(frames) \in Nat /\ Len(frames) <= Len(chain) /\ Len(frames) <= MaxFrames
        /\ Len(frames) < MaxFrames => Len(frames) = Len(chain)
        /\ \A k \in 1..Len(frames) :
              frames[k] = FrameAt(trace.from, symbols, all, chain[k])
    BY <2>1 DEF IsChain, chain
  <2>6. Len(frames) = length
    <3>1. {Len(chain), MaxFrames} \in SUBSET Nat /\ {Len(chain), MaxFrames} # {}
      BY <2>4, AnalysisConstants
    <3>2. length \in {Len(chain), MaxFrames} /\ length <= Len(chain) /\ length <= MaxFrames
      BY <3>1, SmallestIndex
    <3> HIDE DEF length
    <3> QED
      BY <2>4, <2>5, <3>1, <3>2
  <2>7. ASSUME NEW k \in 1..length
        PROVE  /\ frames[k].origin = all[chain[k]].origin
               /\ 2 * (frames[k].address \div 2) = EvenAt(all, chain[k])
    <3>1. k \in 1..Len(frames) /\ k \in 1..Len(chain)
      BY <2>4, <2>5, <2>6, <2>7
    <3>2. chain[k] \in 1..Len(all)
      BY <2>4, <3>1
    <3>3. all[chain[k]] \in Addressed
      BY <2>2, <3>2
    <3>4. all[chain[k]].address \in Int
      BY <3>3 DEF Addressed, AddressedIn
    <3>5. frames[k] = Resolve(trace.from, symbols, all[chain[k]].address, all[chain[k]].origin)
      BY <2>5, <3>1 DEF FrameAt
    <3> QED
      BY <3>4, <3>5, ResolveFacts DEF EvenAt
  <2>8. Select([i \in DOMAIN all |-> i],
               {i \in DOMAIN all : i = 1 \/ EvenAt(all, i) # EvenAt(all, i - 1)}) = chain
    BY <2>2 DEF Chosen, Changes, chain
  <2> HIDE DEF length, frames
  <2> QED
    BY <2>6, <2>7, <2>8 DEF ChainInOrder, AllOf, EvenAt, all, length, frames
<1> QED
  BY <1>1, Invariant, PTL

\* Types and bounds, for every payload and artifact: an address that is stored fits the
\* address space, dumps, symbol tables and chains keep their limits, and a report is never
\* further ahead than the skew.
THEOREM TypeCorrect == Spec => []TypeOK
<1>1. IInv => TypeOK
  <2> SUFFICES ASSUME IInv PROVE TypeOK
    OBVIOUS
  <2>1. Len(builds) <= MaxBuilds
    BY DEF IInv, BuildsInv
  <2>2. ASSUME NEW i \in DOMAIN builds, builds[i].kind = "elf"
        PROVE  Len(builds[i].symbols) <= MaxSymbols
    <3> DEFINE b == builds[i]
    <3>1. b \in Rows
      BY DEF IInv, BuildsInv
    <3> HIDE DEF b
    <3>2. CASE b.symbols = <<>>
      BY <3>2, AnalysisConstants DEF b
    <3>3. CASE b.symbols # <<>>
      <4>1. IsElf(b.file) /\ b.symbols = ReadSymbols(b.file)
        BY <2>2, <3>1, <3>3, RowFacts DEF IsUsable, b
      <4>2. Len(b.symbols) <= MaxSymbols
        BY <4>1, SymbolsCut
      <4> QED
        BY <4>2 DEF b
    <3> QED
      BY <3>2, <3>3
  <2>3. Accepted =>
           /\ {report.pc, report.lr, report.sp, report.start} \subseteq 0..MaxAddress \cup {None}
           /\ Range(report.registers) \cup ToSet(report.words) \subseteq 0..MaxAddress
           /\ Len(report.words) <= MaxStackWords
           /\ report.occurred_at <= Now + MaxClockSkew
    BY ReportTypes DEF IInv, ReportInv, Accepted
  <2>4. Symbolicated => Len(trace.result.frames) <= MaxFrames
    BY TraceIsChain DEF IsChain
  <2> QED
    BY <2>1, <2>2, <2>3, <2>4 DEF TypeOK
<1> QED
  BY <1>1, Invariant, PTL

-----------------------------------------------------------------------------
(* Lookup.                                                                 *)

IsSymbol(s) ==
    /\ s.address \in Nat /\ s.size \in Nat /\ IsName(s.name)
    /\ s = [name |-> s.name, address |-> s.address, size |-> s.size]

AreSymbols(symbols) ==
    \E L \in Nat : DOMAIN symbols = 1..L /\ \A i \in 1..L : IsSymbol(symbols[i])

LEMMA SymbolIsNotNone ==
    ASSUME NEW s, IsSymbol(s)
    PROVE  s # None /\ s.name # None
<1>1. s.name \in [fn : {s.name.fn}, clones : Seq(CloneSuffix)]
  BY DEF IsSymbol, IsName
<1>2. s \in [name : [fn : {s.name.fn}, clones : Seq(CloneSuffix)], address : Nat, size : Nat]
  BY <1>1 DEF IsSymbol
<1> QED
  BY <1>1, <1>2 DEF IsSymbol, IsName

LEMMA MaxOfTwo ==
    ASSUME NEW a \in Nat, NEW b \in Nat
    PROVE  Max({a, b}) = IF a >= b THEN a ELSE b
<1> DEFINE m == IF a >= b THEN a ELSE b
<1>1. m \in {a, b} /\ \A y \in {a, b} : m >= y
  OBVIOUS
<1>2. \A x \in {a, b} : (\A y \in {a, b} : x >= y) => x = m
  OBVIOUS
<1> HIDE DEF m
<1>3. Max({a, b}) = m
  BY <1>1, <1>2 DEF Max
<1> QED
  BY <1>3 DEF m

LEMMA EndIsAhead ==
    ASSUME NEW s, IsSymbol(s)
    PROVE  EndAddress(s) = IF s.size >= 1 THEN s.address + s.size ELSE s.address + 1
BY MaxOfTwo DEF EndAddress, IsSymbol

\* The symbols at or below an address.
Below(symbols, address) == {i \in DOMAIN symbols : symbols[i].address <= address}

\* The one among them that sorts last.
NearestOf(symbols, address) ==
    CHOOSE i \in Below(symbols, address) :
        \A j \in Below(symbols, address) \ {i} : SortsBefore(symbols, j, i)

\* There is a last one, and none of the others is nearer, nor as near and smaller.
LEMMA NearestExists ==
    ASSUME NEW symbols, AreSymbols(symbols), NEW address \in Int, Below(symbols, address) # {}
    PROVE  LET m == NearestOf(symbols, address)
           IN  /\ m \in Below(symbols, address)
               /\ \A j \in Below(symbols, address) \ {m} : SortsBefore(symbols, j, m)
               /\ \A j \in Below(symbols, address) : \/ symbols[j].address < symbols[m].address
                                                     \/ /\ symbols[j].address = symbols[m].address
                                                        /\ symbols[j].size >= symbols[m].size
<1> DEFINE U == Below(symbols, address)
           At(i) == symbols[i].address
           Size(i) == symbols[i].size
           gaps == {address - At(i) : i \in U}
<1>1. PICK L \in Nat : DOMAIN symbols = 1..L /\ \A i \in 1..L : IsSymbol(symbols[i])
  BY DEF AreSymbols
<1>2. U \in SUBSET (1..L) /\ \A i \in U : At(i) \in Nat /\ Size(i) \in Nat /\ i \in Int /\ At(i) <= address
  BY <1>1 DEF Below, IsSymbol
<1>3. U # {}
  OBVIOUS
<1> HIDE DEF At, Size, U
<1>4. PICK a \in U : \A j \in U : At(j) <= At(a)
  <2>1. gaps \in SUBSET Nat /\ gaps # {}
    <3>1. \A i \in U : address - At(i) \in Nat
      BY <1>2
    <3> QED
      BY <1>3, <3>1
  <2>2. PICK gap \in gaps : \A other \in gaps : gap <= other
    <3> HIDE DEF gaps
    <3> QED
      BY <2>1, LeastNumber
  <2>3. PICK a \in U : gap = address - At(a)
    BY <2>2
  <2>4. ASSUME NEW j \in U PROVE At(j) <= At(a)
    <3>1. address - At(a) <= address - At(j)
      BY <2>2, <2>3
    <3> QED
      BY <1>2, <3>1
  <2> QED
    BY <2>4
<1> DEFINE V == {i \in U : At(i) = At(a)}
           sizes == {Size(i) : i \in V}
<1>5. PICK b \in V : \A j \in V : Size(b) <= Size(j)
  <2>1. sizes \in SUBSET Nat /\ sizes # {}
    BY <1>2
  <2>2. PICK least \in sizes : \A other \in sizes : least <= other
    <3> HIDE DEF sizes
    <3> QED
      BY <2>1, LeastNumber
  <2> QED
    BY <2>2
<1> DEFINE W == {i \in V : Size(i) = Size(b)}
<1>6. PICK m \in W : \A j \in W : j <= m
  <2>1. W \in SUBSET (1..L) /\ W # {}
    BY <1>2
  <2> HIDE DEF W
  <2> QED
    BY <2>1, LargestIndex
<1>7. \A i, j : SortsBefore(symbols, i, j) <=>
          \/ At(i) < At(j)
          \/ /\ At(i) = At(j)
             /\ \/ Size(i) > Size(j)
                \/ Size(i) = Size(j) /\ i < j
  BY DEF SortsBefore, At, Size
<1>8. m \in U /\ \A j \in U \ {m} : SortsBefore(symbols, j, m)
  <2>1. m \in U /\ At(m) = At(a) /\ Size(m) = Size(b)
    OBVIOUS
  <2> SUFFICES ASSUME NEW j \in U, j # m PROVE SortsBefore(symbols, j, m)
    BY <2>1
  <2>2. CASE At(j) # At(a)
    BY <1>2, <1>4, <1>7, <2>1, <2>2
  <2>3. CASE At(j) = At(a) /\ Size(j) # Size(b)
    BY <1>2, <1>5, <1>7, <2>1, <2>3
  <2>4. CASE j \in W
    BY <1>2, <1>6, <1>7, <2>1, <2>4
  <2> QED
    BY <2>2, <2>3, <2>4
<1> DEFINE n == NearestOf(symbols, address)
<1>9. n \in U /\ \A j \in U \ {n} : SortsBefore(symbols, j, n)
  <2>1. n = CHOOSE i \in U : \A j \in U \ {i} : SortsBefore(symbols, j, i)
    BY DEF NearestOf, U
  <2> HIDE DEF n, W, V
  <2> QED
    BY <1>8, <2>1
<1> HIDE DEF n
<1>10. ASSUME NEW j \in U
       PROVE  \/ At(j) < At(n)
              \/ At(j) = At(n) /\ Size(j) >= Size(n)
  BY <1>2, <1>7, <1>9
<1> QED
  BY <1>9, <1>10 DEF n, U, At, Size

\* What a lookup returns covers the address, and no symbol begins between.
LEMMA LookupFacts ==
    ASSUME NEW symbols, AreSymbols(symbols), NEW address \in Int
    PROVE  LET s == LookupSymbol(address, symbols)
           IN  /\ s # None => \E i \in DOMAIN symbols :
                      /\ s = symbols[i] /\ Covers(s, address)
                      /\ \A j \in DOMAIN symbols : \/ symbols[j].address <= s.address
                                                   \/ symbols[j].address > address
               /\ s = None => \A i \in DOMAIN symbols : Covers(symbols[i], address) =>
                      \E j \in DOMAIN symbols : /\ symbols[i].address <= symbols[j].address
                                                /\ symbols[j].address <= address
                                                /\ ~Covers(symbols[j], address)
<1> DEFINE U == Below(symbols, address)
           m == NearestOf(symbols, address)
           s == LookupSymbol(address, symbols)
<1>1. PICK L \in Nat : DOMAIN symbols = 1..L /\ \A i \in 1..L : IsSymbol(symbols[i])
  BY DEF AreSymbols
<1>2. s = IF U # {} /\ Covers(symbols[m], address) THEN symbols[m] ELSE None
  BY DEF LookupSymbol, Below, NearestOf
<1>3. \A i \in DOMAIN symbols : symbols[i].address \in Int /\ symbols[i] # None
  BY <1>1, SymbolIsNotNone DEF IsSymbol
<1>4. \A i \in DOMAIN symbols : i \in U <=> symbols[i].address <= address
  BY DEF Below
<1>5. U # {} => /\ m \in DOMAIN symbols /\ symbols[m].address <= address
                /\ \A j \in U : symbols[j].address <= symbols[m].address
  <2> SUFFICES ASSUME U # {}
               PROVE  /\ m \in DOMAIN symbols /\ symbols[m].address <= address
                      /\ \A j \in U : symbols[j].address <= symbols[m].address
    OBVIOUS
  <2>1. /\ m \in U
        /\ \A j \in U : \/ symbols[j].address < symbols[m].address
                        \/ /\ symbols[j].address = symbols[m].address
                           /\ symbols[j].size >= symbols[m].size
    BY NearestExists
  <2>2. U \subseteq DOMAIN symbols
    BY DEF Below
  <2> HIDE DEF m, U
  <2> QED
    BY <1>3, <1>4, <2>1, <2>2
<1> HIDE DEF U, m, s
<1>6. ASSUME s # None
      PROVE  \E i \in DOMAIN symbols :
                 /\ s = symbols[i] /\ Covers(s, address)
                 /\ \A j \in DOMAIN symbols : symbols[j].address <= s.address \/ symbols[j].address > address
  <2>1. U # {} /\ Covers(symbols[m], address) /\ s = symbols[m]
    BY <1>2, <1>6
  <2> QED
    BY <1>3, <1>4, <1>5, <2>1
<1>7. ASSUME s = None, NEW i \in DOMAIN symbols, Covers(symbols[i], address)
      PROVE  \E j \in DOMAIN symbols : /\ symbols[i].address <= symbols[j].address
                                       /\ symbols[j].address <= address
                                       /\ ~Covers(symbols[j], address)
  <2>1. i \in U
    BY <1>4, <1>7 DEF Covers
  <2>2. ~Covers(symbols[m], address)
    BY <1>2, <1>3, <1>5, <1>7, <2>1
  <2> QED
    BY <1>5, <2>1, <2>2
<1> QED
  BY <1>6, <1>7 DEF s

-----------------------------------------------------------------------------
(* Symbols of a map.                                                       *)

LabelAt(labels, i) == NormalizeThumb(labels[i].value)

MapAddresses(labels) == {LabelAt(labels, i) : i \in DOMAIN labels} \ {0}

LEMMA MapAddressesFinite ==
    ASSUME NEW labels, IsList(labels), \A l \in ToSet(labels) : l.value \in Nat /\ IsName(l.name)
    PROVE  MapAddresses(labels) \in SUBSET Nat /\ IsFiniteSet(MapAddresses(labels))
<1> DEFINE L == Len(labels)
           f == [i \in 1..L |-> LabelAt(labels, i)]
           T == {LabelAt(labels, i) : i \in 1..L}
<1>1. L \in Nat /\ DOMAIN labels = 1..L /\ \A i \in 1..L : labels[i] \in ToSet(labels)
  BY ListFacts
<1>2. \A i \in 1..L : labels[i].value \in Nat
  BY <1>1
<1>3. \A i \in 1..L : LabelAt(labels, i) \in Nat
  BY <1>2 DEF LabelAt, NormalizeThumb
<1>4. f \in Surjection(1..L, T)
  BY DEF Surjection
<1>5. IsFiniteSet(1..L)
  BY <1>1, FS_Interval
<1>6. IsFiniteSet(T)
  <2> HIDE DEF f, T, L
  <2> QED
    BY <1>4, <1>5, FS_Surjection
<1>7. MapAddresses(labels) \in SUBSET T /\ T \subseteq Nat
  BY <1>1, <1>3 DEF MapAddresses
<1> HIDE DEF T
<1> QED
  BY <1>6, <1>7, FS_Subset

\* Each address has a symbol, named by a label at it.
LEMMA MapSymbols ==
    ASSUME NEW file, IsMap(file)
    PROVE  LET labels == file.labels
               symbols == SymbolsOfMap(labels)
           IN  /\ AreSymbols(symbols)
               /\ \A k \in DOMAIN symbols : \E i \in DOMAIN labels :
                     /\ symbols[k].address = LabelAt(labels, i)
                     /\ symbols[k].name = labels[i].name
               /\ \A i \in DOMAIN labels : LabelAt(labels, i) # 0 =>
                     \E k \in DOMAIN symbols : symbols[k].address = LabelAt(labels, i)
<1> DEFINE labels == file.labels
           symbols == SymbolsOfMap(labels)
           K == MapAddresses(labels)
           N == Cardinality(K)
           a(k) == CHOOSE a \in K : Cardinality({b \in K : b < a}) = k - 1
           Here(b) == {i \in DOMAIN labels : LabelAt(labels, i) = b}
           First(b) == labels[Min(Here(b))].name
           Above(c) == {b \in K : b > c}
           Size(c) == IF Above(c) = {} THEN 0 ELSE Min(Above(c)) - c
<1>1. IsList(labels) /\ \A l \in ToSet(labels) : l.value \in Nat /\ IsName(l.name)
  BY DEF IsMap
<1>2. symbols = [k \in 1..N |-> [name |-> First(a(k)), address |-> a(k), size |-> Size(a(k))]]
  BY DEF SymbolsOfMap, MapAddresses, LabelAt
<1>3. Len(labels) \in Nat /\ DOMAIN labels = 1..Len(labels) /\ \A i \in 1..Len(labels) : labels[i] \in ToSet(labels)
  BY <1>1, ListFacts
<1> HIDE DEF labels, symbols, K, a, First, Size
<1>4. K \in SUBSET Nat /\ IsFiniteSet(K)
  BY <1>1, MapAddressesFinite DEF K
<1>5. /\ N \in Nat
      /\ \A c \in K : Rank(K, c) \in 0..N - 1
      /\ \A b, c \in K : b < c => Rank(K, b) < Rank(K, c)
      /\ \A m \in 0..N - 1 : \E c \in K : Rank(K, c) = m
  BY <1>4, Ranks
<1> HIDE DEF N
<1>6. ASSUME NEW k \in 1..N PROVE a(k) \in K /\ Rank(K, a(k)) = k - 1
  <2>1. a(k) = CHOOSE c \in K : Rank(K, c) = k - 1
    BY DEF a, Rank
  <2>2. k - 1 \in 0..N - 1
    BY <1>5
  <2>3. \E c \in K : Rank(K, c) = k - 1
    BY <1>5, <2>2
  <2> QED
    BY <2>1, <2>3
<1>7. ASSUME NEW c \in K PROVE \E k \in 1..N : a(k) = c
  <2>1. Rank(K, c) \in 0..N - 1
    BY <1>5
  <2> DEFINE k == Rank(K, c) + 1
  <2>2. k \in 1..N /\ k - 1 = Rank(K, c)
    BY <1>5, <2>1
  <2> HIDE DEF k
  <2>3. a(k) \in K /\ Rank(K, a(k)) = Rank(K, c)
    BY <1>6, <2>2
  <2>4. a(k) \in Nat /\ c \in Nat /\ Rank(K, c) \in Int
    <3>1. N \in Nat
      BY <1>5
    <3>2. K \subseteq Nat
      BY <1>4
    <3>3. a(k) \in Nat /\ c \in Nat
      BY <2>3, <3>2
    <3>4. Rank(K, c) \in Int
      BY <2>1, <3>1
    <3> QED
      BY <3>3, <3>4
  <2>5. ~(a(k) < c) /\ ~(c < a(k))
    BY <1>5, <2>3, <2>4
  <2> QED
    BY <2>2, <2>4, <2>5
<1>8. ASSUME NEW c \in K
      PROVE  \E i \in DOMAIN labels : LabelAt(labels, i) = c /\ First(c) = labels[i].name
  <2>1. Here(c) \in SUBSET Nat /\ Here(c) # {}
    BY <1>3 DEF K, MapAddresses
  <2>2. Min(Here(c)) \in Here(c)
    <3> HIDE DEF Here
    <3> QED
      BY <2>1, SmallestIndex
  <2> QED
    BY <2>2 DEF First
<1>9. ASSUME NEW c \in K PROVE Size(c) \in Nat
  <2>1. CASE Above(c) = {}
    BY <2>1 DEF Size
  <2>2. CASE Above(c) # {}
    <3>1. Above(c) \in SUBSET Nat
      BY <1>4
    <3>2. Min(Above(c)) \in Above(c)
      <4> HIDE DEF Above
      <4> QED
        BY <2>2, <3>1, SmallestIndex
    <3>3. Min(Above(c)) \in Nat /\ Min(Above(c)) > c /\ c \in Nat
      BY <1>4, <3>2
    <3> QED
      BY <2>2, <3>3 DEF Size
  <2> QED
    BY <2>1, <2>2
<1>10. DOMAIN symbols = 1..N
  BY <1>2
<1>11. \A k \in 1..N : symbols[k] = [name |-> First(a(k)), address |-> a(k), size |-> Size(a(k))]
  BY <1>2
<1>12. ASSUME NEW k \in 1..N
       PROVE  /\ IsSymbol(symbols[k])
              /\ \E i \in DOMAIN labels : /\ symbols[k].address = LabelAt(labels, i)
                                          /\ symbols[k].name = labels[i].name
  <2>1. a(k) \in K /\ a(k) \in Nat /\ Size(a(k)) \in Nat
    BY <1>4, <1>6, <1>9
  <2>2. PICK i \in DOMAIN labels : LabelAt(labels, i) = a(k) /\ First(a(k)) = labels[i].name
    BY <1>8, <2>1
  <2>3. IsName(First(a(k)))
    BY <1>1, <1>3, <2>2
  <2>4. symbols[k].name = First(a(k)) /\ symbols[k].address = a(k) /\ symbols[k].size = Size(a(k))
        /\ symbols[k] = [name |-> symbols[k].name, address |-> symbols[k].address, size |-> symbols[k].size]
    <3>1. symbols[k] = [name |-> First(a(k)), address |-> a(k), size |-> Size(a(k))]
      BY <1>11
    <3> QED
      BY <3>1
  <2> QED
    BY <2>1, <2>2, <2>3, <2>4 DEF IsSymbol
<1>13. ASSUME NEW i \in DOMAIN labels, LabelAt(labels, i) # 0
       PROVE  \E k \in 1..N : symbols[k].address = LabelAt(labels, i)
  <2>1. LabelAt(labels, i) \in K
    BY <1>13 DEF K, MapAddresses
  <2>2. PICK k \in 1..N : a(k) = LabelAt(labels, i)
    BY <1>7, <2>1
  <2>3. symbols[k] = [name |-> First(a(k)), address |-> a(k), size |-> Size(a(k))]
    BY <1>11
  <2> QED
    BY <2>2, <2>3
<1>14. AreSymbols(symbols)
  BY <1>5, <1>10, <1>12 DEF AreSymbols
<1> QED
  BY <1>10, <1>12, <1>13, <1>14 DEF labels, symbols

-----------------------------------------------------------------------------
(* Symbols of a build.                                                     *)

\* The code of a file, entry by entry of the table it is read from.
CodeOf(file, e) == [name |-> e.name, size |-> e.size, start |-> StoredAddress(file, e)]

IsCode(e) == e.type \in {"func", "object"} /\ e.name # None

LEMMA TableEntries ==
    ASSUME NEW file, IsElf(file), NEW e \in ToSet(TableOf(file))
    PROVE  /\ e.size \in Nat /\ StoredAddress(file, e) \in Nat
           /\ StoredAddress(file, e) = IF file.arch = "ARM" THEN 2 * (e.value \div 2) ELSE e.value
           /\ e.name # None => IsName(e.name)
<1>1. e.value \in Nat /\ e.size \in Nat /\ (e.name # None => IsName(e.name))
  BY TableFacts DEF IsTable
<1> QED
  BY <1>1 DEF StoredAddress, IsArm, NormalizeThumb

LEMMA CodeOfTable ==
    ASSUME NEW file, IsElf(file), ReadSymbols(file) # <<>>
    PROVE  Code(file) = {CodeOf(file, e) : e \in {d \in ToSet(TableOf(file)) : IsCode(d)}}
<1> DEFINE table == IF file.symtab # None THEN file.symtab ELSE file.dynsym
           At(i) == [name |-> table[i].name, size |-> table[i].size,
                     start |-> IF file.arch = "ARM" THEN 2 * (table[i].value \div 2) ELSE table[i].value]
<1>1. table = TableOf(file)
  <2>1. TableOf(file) # <<>>
    <3> SUFFICES ASSUME TableOf(file) = <<>> PROVE FALSE
      OBVIOUS
    <3>1. ToSet(TableOf(file)) = {}
      BY DEF ToSet
    <3>2. 1..Len(ReadSymbols(file)) = {} /\ ReadSymbols(file) \in Seq(SymbolsOf(file))
      BY <3>1, SymbolsCut
    <3> DEFINE symbols == ReadSymbols(file)
               S == SymbolsOf(file)
    <3>3. symbols \in Seq(S) /\ 1..Len(symbols) = {} /\ symbols # <<>>
      BY <3>2
    <3> HIDE DEF symbols, S
    <3>4. Len(symbols) \in Nat \ {0}
      BY <3>3, EmptySeq
    <3>5. 1 \in 1..Len(symbols)
      BY <3>4
    <3> QED
      BY <3>3, <3>5
  <2> QED
    BY <2>1 DEF TableOf
<1>2. Code(file) = {At(i) : i \in {j \in DOMAIN table : table[j].type \in {"func", "object"}
                                                        /\ table[j].name # None}}
  BY DEF Code
<1>3. \A i \in DOMAIN table : At(i) = CodeOf(file, table[i]) /\ table[i] \in ToSet(table)
  <2> SUFFICES ASSUME NEW i \in DOMAIN table
               PROVE  At(i) = CodeOf(file, table[i]) /\ table[i] \in ToSet(table)
    OBVIOUS
  <2>1. table[i] \in ToSet(table)
    BY DEF ToSet
  <2>2. StoredAddress(file, table[i])
            = IF file.arch = "ARM" THEN 2 * (table[i].value \div 2) ELSE table[i].value
    BY <1>1, <2>1, TableEntries
  <2> HIDE DEF table
  <2> QED
    BY <2>1, <2>2 DEF CodeOf
<1> HIDE DEF table, At
<1>4. \A e \in ToSet(table) : \E i \in DOMAIN table : e = table[i]
  BY DEF ToSet
<1>5. Code(file) \subseteq {CodeOf(file, e) : e \in {d \in ToSet(table) : IsCode(d)}}
  BY <1>2, <1>3 DEF IsCode
<1>6. ASSUME NEW e \in ToSet(table), IsCode(e) PROVE CodeOf(file, e) \in Code(file)
  <2>1. PICK i \in DOMAIN table : e = table[i]
    BY <1>4
  <2> QED
    BY <1>2, <1>3, <1>6, <2>1 DEF IsCode
<1> QED
  BY <1>1, <1>5, <1>6

LEMMA SymbolOfEntry ==
    ASSUME NEW file, IsElf(file), NEW e \in ToSet(TableOf(file)), Wanted(file, e)
    PROVE  LET s == SymbolFrom(file, e)
           IN  /\ IsSymbol(s) /\ IsCode(e) /\ s.address # 0
               /\ CodeOf(file, e) = [name |-> s.name, size |-> s.size, start |-> s.address]
BY TableEntries DEF SymbolFrom, IsSymbol, CodeOf, IsCode, Wanted

LEMMA UsableSymbols ==
    ASSUME NEW b, IsUsable(b)
    PROVE  AreSymbols(b.symbols)
<1>1. CASE b.kind = "elf"
  <2>1. IsElf(b.file) /\ b.symbols = ReadSymbols(b.file)
    BY <1>1 DEF IsUsable
  <2>2. /\ b.symbols \in Seq(SymbolsOf(b.file))
        /\ \A k \in 1..Len(b.symbols) : IsSymbol(b.symbols[k])
    BY <2>1, SymbolsCut, SymbolOfEntry
  <2>3. DOMAIN b.symbols = 1..Len(b.symbols) /\ Len(b.symbols) \in Nat
    BY <2>2, SeqElements
  <2> QED
    BY <2>2, <2>3 DEF AreSymbols
<1>2. CASE b.kind = "map"
  BY <1>2, MapSymbols DEF IsUsable
<1> QED
  BY <1>1, <1>2 DEF IsUsable

\* In whatever order the rows of a build come, they are the same symbols.
LEMMA ArrangedSymbols ==
    ASSUME NEW base, AreSymbols(base), NEW symbols \in Arrangements(base)
    PROVE  /\ AreSymbols(symbols)
           /\ \A k \in DOMAIN symbols : \E j \in DOMAIN base : symbols[k] = base[j]
           /\ \A j \in DOMAIN base : \E k \in DOMAIN symbols : symbols[k] = base[j]
<1>1. PICK p \in Surjection(DOMAIN base, DOMAIN base) : symbols = [i \in DOMAIN base |-> base[p[i]]]
  BY DEF Arrangements
<1>2. p \in [DOMAIN base -> DOMAIN base] /\ \A j \in DOMAIN base : \E k \in DOMAIN base : p[k] = j
  BY DEF Surjection
<1>3. PICK L \in Nat : DOMAIN base = 1..L /\ \A i \in 1..L : IsSymbol(base[i])
  BY DEF AreSymbols
<1>4. DOMAIN symbols = 1..L /\ \A i \in 1..L : symbols[i] = base[p[i]] /\ p[i] \in 1..L
  BY <1>1, <1>2, <1>3
<1>5. AreSymbols(symbols)
  BY <1>3, <1>4 DEF AreSymbols
<1>6. \A k \in DOMAIN symbols : \E j \in DOMAIN base : symbols[k] = base[j]
  BY <1>3, <1>4
<1>7. \A j \in DOMAIN base : \E k \in DOMAIN symbols : symbols[k] = base[j]
  BY <1>2, <1>3, <1>4
<1> QED
  BY <1>5, <1>6, <1>7

-----------------------------------------------------------------------------
(* Frames and their symbols.                                               *)

\* A frame is resolved by the lookup of its address.
FrameOf(f, symbols) ==
    LET s == LookupSymbol(f.address, symbols)
    IN  /\ f.address \in Int /\ f.address \in 0..MaxAddress
        /\ s = None => f.function = None
        /\ s # None => f.function = s.name /\ f.offset = f.address - s.address
        /\ s # None => f.at = ResolveLine(trace.from, f.address)

LEMMA FramesAreLookups ==
    ASSUME IInv, Symbolicated
    PROVE  /\ IsUsable(trace.from)
           /\ \E symbols \in Arrangements(trace.from.symbols) : \A f \in Frames : FrameOf(f, symbols)
<1> DEFINE b == trace.from
           all == AllOf(report, b)
           at == Chosen(Len(all), Changes(all))
           frames == trace.result.frames
<1>1. IsUsable(b)
  BY TraceIsChain
<1>2. PICK symbols \in Arrangements(b.symbols) : IsChain(b, symbols, all, frames)
  BY TraceIsChain
<1>3. all \in Seq(AddressedIn(0..MaxAddress)) /\ Len(all) \in Nat
  BY TraceIsChain, ParsedAddresses, AllAddressed
<1> HIDE DEF all, frames, b
<1>4. InOrder(Len(all), Changes(all), at)
  BY <1>3, ChosenInOrder
<1> HIDE DEF at
<1>5. at \in Seq(1..Len(all)) /\ Len(at) \in Nat
  BY <1>4 DEF InOrder
<1>6. /\ Len(frames) \in Nat /\ DOMAIN frames = 1..Len(frames) /\ Len(frames) <= Len(at)
      /\ \A k \in 1..Len(frames) : frames[k] = FrameAt(b, symbols, all, at[k])
  BY <1>2 DEF IsChain, at
<1>7. ASSUME NEW f \in ToSet(frames) PROVE FrameOf(f, symbols)
  <2>1. PICK k \in 1..Len(frames) : f = frames[k]
    BY <1>6 DEF ToSet
  <2>2. k \in 1..Len(at)
    BY <1>5, <1>6
  <2>3. at[k] \in 1..Len(all)
    BY <1>5, <2>2
  <2>4. all[at[k]] \in AddressedIn(0..MaxAddress)
    BY <1>3, <2>3
  <2> DEFINE a == all[at[k]].address
             origin == all[at[k]].origin
  <2>5. a \in 0..MaxAddress /\ a \in Int
    BY <2>4 DEF AddressedIn
  <2>6. f = Resolve(b, symbols, a, origin)
    BY <1>6, <2>1 DEF FrameAt
  <2> HIDE DEF a, origin
  <2> DEFINE clean == CleanAddress(b, a)
             s == LookupSymbol(clean, symbols)
  <2>7. clean \in Int /\ f.address = clean /\ clean \in 0..MaxAddress
    <3>1. clean \in Int /\ f.address = clean
      BY <2>5, <2>6, ResolveFacts
    <3>2. clean = a \/ clean = NormalizeThumb(a)
      BY DEF CleanAddress
    <3>3. /\ NormalizeThumb(a) <= a /\ (a >= 0 => NormalizeThumb(a) >= 0)
          /\ NormalizeThumb(a) \in Int /\ MaxAddress \in Nat
      BY <2>5, Halves, AnalysisConstants
    <3> HIDE DEF clean
    <3>4. clean \in 0..MaxAddress
      BY <2>5, <3>2, <3>3
    <3> QED
      BY <3>1, <3>4
  <2>8. f = IF s = None THEN Unresolved(clean, origin)
            ELSE [address |-> clean, origin |-> origin, function |-> s.name,
                  offset |-> clean - s.address, at |-> ResolveLine(b, clean)]
    BY <2>6 DEF Resolve
  <2> HIDE DEF clean
  <2>9. s = None => f.function = None
    BY <2>8 DEF Unresolved
  <2>10. s # None => /\ f.function = s.name /\ f.offset = clean - s.address
                     /\ f.at = ResolveLine(b, clean)
    BY <2>8
  <2> QED
    BY <2>7, <2>9, <2>10 DEF FrameOf, b
<1> QED
  BY <1>1, <1>2, <1>7 DEF Frames, b, frames

LEMMA FramesOfElf ==
    ASSUME IInv, Symbolicated, NEW f \in Frames, f.function # None, trace.from.kind = "elf"
    PROVE  \E c \in Code(trace.from.file) :
               c.name = f.function /\ c.start + f.offset = f.address /\ Holds(c, f.address)
<1> DEFINE b == trace.from
           file == b.file
<1>1. PICK symbols \in Arrangements(b.symbols) : FrameOf(f, symbols)
  BY FramesAreLookups
<1>2. IsUsable(b)
  BY FramesAreLookups
<1>3. IsElf(file) /\ b.symbols = ReadSymbols(file) /\ b.symbols # <<>>
  BY <1>2 DEF IsUsable
<1>4. AreSymbols(b.symbols)
  BY <1>2, UsableSymbols
<1> HIDE DEF b
<1>5. /\ AreSymbols(symbols)
      /\ \A k \in DOMAIN symbols : \E j \in DOMAIN b.symbols : symbols[k] = b.symbols[j]
  BY <1>4, ArrangedSymbols
<1> DEFINE s == LookupSymbol(f.address, symbols)
<1>6. /\ f.address \in Int /\ s # None /\ f.function = s.name /\ f.offset = f.address - s.address
  BY <1>1 DEF FrameOf
<1>7. PICK i \in DOMAIN symbols : s = symbols[i] /\ Covers(s, f.address)
  BY <1>5, <1>6, LookupFacts
<1>8. PICK j \in DOMAIN b.symbols : s = b.symbols[j]
  BY <1>5, <1>7
<1>9. b.symbols \in Seq(SymbolsOf(file))
  BY <1>3, SymbolsCut
<1>10. j \in 1..Len(b.symbols)
  BY <1>9, SeqElements
<1>11. PICK e \in ToSet(TableOf(file)) : Wanted(file, e) /\ s = SymbolFrom(file, e)
  BY <1>3, <1>8, <1>10, SymbolsCut
<1> HIDE DEF s, file
<1>12. /\ IsSymbol(s) /\ IsCode(e)
       /\ CodeOf(file, e) = [name |-> s.name, size |-> s.size, start |-> s.address]
  BY <1>3, <1>11, SymbolOfEntry
<1> DEFINE c == CodeOf(file, e)
<1>13. c \in Code(file)
  BY <1>3, <1>12, CodeOfTable
<1>14. c.name = s.name /\ c.size = s.size /\ c.start = s.address
  BY <1>12
<1> HIDE DEF c
<1>15. s.address \in Nat /\ s.size \in Nat
  BY <1>12 DEF IsSymbol
<1>16. Holds(c, f.address)
  BY <1>6, <1>7, <1>12, <1>14, <1>15, EndIsAhead DEF Holds, Covers
<1>17. c.name = f.function /\ c.start + f.offset = f.address
  BY <1>6, <1>14, <1>15
<1> QED
  BY <1>13, <1>16, <1>17 DEF file, b

LEMMA FramesOfMap ==
    ASSUME IInv, Symbolicated, NEW f \in Frames, f.function # None, trace.from.kind = "map"
    PROVE  LET labels == trace.from.file.labels
           IN  \E i \in DOMAIN labels :
                  /\ labels[i].name = f.function
                  /\ LabelAt(labels, i) + f.offset = f.address
                  /\ \A j \in DOMAIN labels : \/ LabelAt(labels, j) <= LabelAt(labels, i)
                                              \/ LabelAt(labels, j) > f.address
<1> DEFINE b == trace.from
           labels == b.file.labels
           base == b.symbols
<1>1. PICK symbols \in Arrangements(base) : FrameOf(f, symbols)
  BY FramesAreLookups
<1>2. IsUsable(b)
  BY FramesAreLookups
<1>3. IsMap(b.file) /\ base = SymbolsOfMap(labels)
  BY <1>2 DEF IsUsable
<1>4. AreSymbols(base)
  BY <1>2, UsableSymbols
<1>5. /\ \A k \in DOMAIN base : \E i \in DOMAIN labels :
             base[k].address = LabelAt(labels, i) /\ base[k].name = labels[i].name
      /\ \A i \in DOMAIN labels : LabelAt(labels, i) # 0 =>
             \E k \in DOMAIN base : base[k].address = LabelAt(labels, i)
  BY <1>3, MapSymbols
<1> HIDE DEF base, labels
<1>6. /\ AreSymbols(symbols)
      /\ \A k \in DOMAIN symbols : \E j \in DOMAIN base : symbols[k] = base[j]
      /\ \A j \in DOMAIN base : \E k \in DOMAIN symbols : symbols[k] = base[j]
  BY <1>4, ArrangedSymbols
<1> DEFINE s == LookupSymbol(f.address, symbols)
<1>7. /\ f.address \in Int /\ s # None /\ f.function = s.name /\ f.offset = f.address - s.address
  BY <1>1 DEF FrameOf
<1>8. PICK n \in DOMAIN symbols :
          /\ s = symbols[n]
          /\ \A j \in DOMAIN symbols : symbols[j].address <= s.address \/ symbols[j].address > f.address
  BY <1>6, <1>7, LookupFacts
<1> HIDE DEF s
<1>9. s.address \in Nat
  BY <1>6, <1>8 DEF AreSymbols, IsSymbol
<1>10. PICK i \in DOMAIN labels : s.address = LabelAt(labels, i) /\ s.name = labels[i].name
  BY <1>5, <1>6, <1>8
<1>11. ASSUME NEW j \in DOMAIN labels
       PROVE  LabelAt(labels, j) <= LabelAt(labels, i) \/ LabelAt(labels, j) > f.address
  <2>1. CASE LabelAt(labels, j) = 0
    BY <1>9, <1>10, <2>1
  <2>2. CASE LabelAt(labels, j) # 0
    <3>1. PICK k \in DOMAIN symbols : symbols[k].address = LabelAt(labels, j)
      BY <1>5, <1>6, <2>2
    <3> QED
      BY <1>8, <1>10, <3>1
  <2> QED
    BY <2>1, <2>2
<1>12. LabelAt(labels, i) + f.offset = f.address
  BY <1>7, <1>9, <1>10
<1> QED
  BY <1>7, <1>10, <1>11, <1>12 DEF labels

\* No frame is confidently wrong: for every artifact, payload and order of the rows, a frame
\* that names a function lies in code of that name, or above its label in a map.
THEOREM NamesAreTrue == Spec => []FramesTruthful
<1>1. IInv => FramesTruthful
  <2> SUFFICES ASSUME IInv, Symbolicated, NEW f \in Frames, f.function # None
               PROVE  IF trace.from.kind = "elf"
                      THEN \E c \in Code(trace.from.file) :
                              c.name = f.function /\ c.start + f.offset = f.address /\ Holds(c, f.address)
                      ELSE LET Label(l) == 2 * (trace.from.file.labels[l].value \div 2)
                               labels == DOMAIN trace.from.file.labels
                           IN  \E i \in labels :
                                  /\ trace.from.file.labels[i].name = f.function
                                  /\ Label(i) + f.offset = f.address
                                  /\ \A j \in labels : Label(j) <= Label(i) \/ Label(j) > f.address
    BY DEF FramesTruthful
  <2>1. CASE trace.from.kind = "elf"
    BY <2>1, FramesOfElf
  <2>2. CASE trace.from.kind # "elf"
    <3>1. trace.from.kind = "map" /\ IsMap(trace.from.file)
      BY <2>2, FramesAreLookups DEF IsUsable
    <3> DEFINE labels == trace.from.file.labels
    <3>2. \A i \in DOMAIN labels : LabelAt(labels, i) = 2 * (labels[i].value \div 2)
      <4>1. \A i \in DOMAIN labels : labels[i].value \in Nat
        BY <3>1, ListFacts DEF IsMap
      <4> QED
        BY <4>1, Halves DEF LabelAt
    <3>3. \E i \in DOMAIN labels :
              /\ labels[i].name = f.function
              /\ LabelAt(labels, i) + f.offset = f.address
              /\ \A j \in DOMAIN labels : \/ LabelAt(labels, j) <= LabelAt(labels, i)
                                          \/ LabelAt(labels, j) > f.address
      BY <3>1, FramesOfMap
    <3> QED
      BY <2>2, <3>2, <3>3
  <2> QED
    BY <2>1, <2>2
<1> QED
  BY <1>1, Invariant, PTL

-----------------------------------------------------------------------------
(* Nothing is missed.                                                      *)

\* The code that can be looked up.
Placed(file) == {c \in Code(file) : c.start # 0}

LEMMA CodeIsFinite ==
    ASSUME NEW file, IsElf(file), ReadSymbols(file) # <<>>
    PROVE  IsFiniteSet(Placed(file))
<1> DEFINE table == TableOf(file)
           L == Len(table)
           f == [i \in 1..L |-> CodeOf(file, table[i])]
           T == {CodeOf(file, table[i]) : i \in 1..L}
<1>1. L \in Nat /\ \A e \in ToSet(table) : \E i \in 1..L : e = table[i]
  BY TableFacts, ListFacts DEF IsTable, ToSet
<1>2. f \in Surjection(1..L, T)
  BY DEF Surjection
<1>3. IsFiniteSet(1..L)
  BY <1>1, FS_Interval
<1> HIDE DEF f
<1>4. IsFiniteSet(T)
  BY <1>2, <1>3, FS_Surjection
<1>5. Code(file) = {CodeOf(file, e) : e \in {d \in ToSet(table) : IsCode(d)}}
  BY CodeOfTable
<1>6. Placed(file) \in SUBSET T
  <2> HIDE DEF table
  <2> QED
    BY <1>1, <1>5 DEF Placed
<1> HIDE DEF T
<1> QED
  BY <1>4, <1>6, FS_Subset

\* Where there is room for all of the code, all of it is read.
LEMMA AllAreRead ==
    ASSUME NEW file, IsElf(file), ReadSymbols(file) # <<>>,
           Cardinality(Placed(file)) <= MaxSymbols
    PROVE  \A e \in ToSet(TableOf(file)) : Wanted(file, e) =>
               Listed(ReadSymbols(file), SymbolFrom(file, e))
<1> DEFINE table == TableOf(file)
           T == Placed(file)
<1>1. ReadsOf(file) # {}
  BY SymbolsRead
<1>2. PICK all : all \in ReadsOf(file)
  BY <1>1
<1> DEFINE n == Min({Len(all), MaxSymbols})
           L == Len(all)
           g == [k \in 1..L |-> [name |-> all[k].name, size |-> all[k].size, start |-> all[k].address]]
<1>3. /\ all \in Seq(SymbolsOf(file)) /\ ReadSymbols(file) = SubSeq(all, 1, n)
      /\ \A k \in 1..L : \E i \in 1..Len(table) :
            Wanted(file, table[i]) /\ all[k] = SymbolFrom(file, table[i])
      /\ \A i \in 1..Len(table) : Wanted(file, table[i]) => Listed(all, SymbolFrom(file, table[i]))
      /\ \A j, k \in 1..L :
            all[j].name = all[k].name /\ all[j].address = all[k].address => j = k
  BY <1>2 DEF ReadsOf, Keeps
<1>4. L \in Nat
  BY <1>3
<1>5. \A i \in 1..Len(table) : table[i] \in ToSet(table)
  BY TableFacts, ListFacts DEF IsTable
<1>6. ASSUME NEW k \in 1..L PROVE g[k] \in T
  <2>1. PICK i \in 1..Len(table) : Wanted(file, table[i]) /\ all[k] = SymbolFrom(file, table[i])
    BY <1>3
  <2> DEFINE e == table[i]
             s == all[k]
  <2>2. e \in ToSet(table)
    BY <1>5
  <2>3. IsCode(e) /\ s.address # 0
        /\ CodeOf(file, e) = [name |-> s.name, size |-> s.size, start |-> s.address]
    BY <2>1, <2>2, SymbolOfEntry
  <2>4. CodeOf(file, e) \in Code(file)
    BY <2>2, <2>3, CodeOfTable
  <2>5. g[k] = CodeOf(file, e)
    BY <2>3
  <2> HIDE DEF e, s, g
  <2>6. CodeOf(file, e).start = s.address
    BY <2>3
  <2> QED
    BY <2>3, <2>4, <2>5, <2>6 DEF Placed
<1>7. g \in Injection(1..L, T)
  <2>1. g \in [1..L -> T]
    <3> HIDE DEF T
    <3> QED
      BY <1>6
  <2>2. ASSUME NEW j \in 1..L, NEW k \in 1..L, g[j] = g[k] PROVE j = k
    <3>1. g[j].name = all[j].name /\ g[j].start = all[j].address
          /\ g[k].name = all[k].name /\ g[k].start = all[k].address
      OBVIOUS
    <3> HIDE DEF g
    <3> QED
      BY <1>3, <2>2, <3>1
  <2> HIDE DEF g, T, L
  <2> QED
    BY <2>1, <2>2 DEF Injection, IsInjective
<1>8. L <= MaxSymbols
  <2>1. IsFiniteSet(T)
    BY CodeIsFinite
  <2>2. IsFiniteSet(1..L) /\ Cardinality(1..L) = L
    <3> HIDE DEF L
    <3>1. 1 \in Int /\ L \in Int
      BY <1>4
    <3>2. IsFiniteSet(1..L) /\ Cardinality(1..L) = IF 1 > L THEN 0 ELSE L - 1 + 1
      BY <3>1, FS_Interval
    <3> QED
      BY <1>4, <3>2
  <2> HIDE DEF g
  <2>3. Cardinality(1..L) <= Cardinality(T)
    <3> HIDE DEF T, L
    <3> QED
      BY <1>7, <2>1, FS_Injection
  <2>4. Cardinality(T) \in Nat
    <3> HIDE DEF T
    <3> QED
      BY <2>1, FS_CardinalityType
  <2> QED
    BY <1>4, <2>2, <2>3, <2>4, AnalysisConstants
<1>9. n = L
  <2>1. {L, MaxSymbols} \in SUBSET Nat /\ {L, MaxSymbols} # {}
    BY <1>4, AnalysisConstants
  <2>2. n \in {L, MaxSymbols} /\ n <= L
    BY <2>1, SmallestIndex
  <2> HIDE DEF n
  <2> QED
    BY <1>4, <1>8, <2>1, <2>2
<1>10. ReadSymbols(file) = all
  <2>1. SubSeq(all, 1, L) = all
    <3> HIDE DEF g
    <3> QED
      BY <1>3, SubSeqFull
  <2> HIDE DEF n
  <2> QED
    BY <1>3, <1>9, <2>1
<1>11. \A e \in ToSet(table) : \E i \in 1..Len(table) : e = table[i]
  BY TableFacts, ListFacts DEF IsTable, ToSet
<1> QED
  BY <1>3, <1>10, <1>11

\* Code that holds an address, where no code begins in another's.
LEMMA HeldIsNearest ==
    ASSUME NEW a \in Int, NEW c, NEW d,
           c.start \in Nat, c.size \in Nat, d.start \in Nat,
           Holds(c, a), ~Holds(c, d.start)
    PROVE  ~(c.start <= d.start /\ d.start <= a)
BY DEF Holds

\* A frame without a function is outside of all code, in artifacts without overlaps whose
\* symbols fit the limit: resolution never misses an address that some function covers.
THEOREM NothingCoveredIsMissed == Spec => []CoveredResolves
<1>1. IInv => CoveredResolves
  <2> SUFFICES ASSUME IInv, Symbolicated, trace.from.kind = "elf",
                      Cardinality({c \in Code(trace.from.file) : c.start # 0}) <= MaxSymbols,
                      \A c, d \in Code(trace.from.file) : c # d => ~Holds(c, d.start),
                      NEW f \in Frames, f.function = None,
                      NEW c \in Code(trace.from.file), c.start # 0, Holds(c, f.address)
               PROVE  FALSE
    BY DEF CoveredResolves
  <2> DEFINE b == trace.from
             file == b.file
             read == ReadSymbols(file)
             a == f.address
  <2>1. PICK symbols \in Arrangements(b.symbols) : FrameOf(f, symbols)
    BY FramesAreLookups
  <2>2. IsUsable(b)
    BY FramesAreLookups
  <2>3. IsElf(file) /\ b.symbols = read /\ read # <<>>
    BY <2>2 DEF IsUsable
  <2>4. AreSymbols(read)
    BY <2>2, <2>3, UsableSymbols
  <2>5. symbols \in Arrangements(read)
    BY <2>1, <2>3
  <2>6. Cardinality(Placed(file)) <= MaxSymbols
    BY DEF Placed
  <2>7. /\ c \in Code(file) /\ c.start # 0 /\ Holds(c, a)
        /\ \A x, y \in Code(file) : x # y => ~Holds(x, y.start)
    OBVIOUS
  <2> HIDE DEF read, file, b
  <2>8. /\ AreSymbols(symbols)
        /\ \A k \in DOMAIN symbols : \E j \in DOMAIN read : symbols[k] = read[j]
        /\ \A j \in DOMAIN read : \E k \in DOMAIN symbols : symbols[k] = read[j]
    BY <2>4, <2>5, ArrangedSymbols
  <2>9. read \in Seq(SymbolsOf(file))
    BY <2>3, SymbolsCut DEF read
  <2>10. DOMAIN read = 1..Len(read)
    BY <2>9, SeqElements
  \* Every symbol is code.
  <2>11. ASSUME NEW k \in DOMAIN symbols
         PROVE  /\ IsSymbol(symbols[k])
                /\ [name |-> symbols[k].name, size |-> symbols[k].size,
                    start |-> symbols[k].address] \in Code(file)
    <3>1. PICK j \in 1..Len(read) : symbols[k] = read[j]
      BY <2>8, <2>10
    <3>2. PICK e \in ToSet(TableOf(file)) : Wanted(file, e) /\ read[j] = SymbolFrom(file, e)
      BY <2>3, SymbolsCut DEF read
    <3> DEFINE s == symbols[k]
    <3>3. s = SymbolFrom(file, e)
      BY <3>1, <3>2
    <3> HIDE DEF s
    <3>4. /\ IsSymbol(s) /\ IsCode(e)
          /\ CodeOf(file, e) = [name |-> s.name, size |-> s.size, start |-> s.address]
      BY <2>3, <3>2, <3>3, SymbolOfEntry
    <3>5. CodeOf(file, e) \in Code(file)
      BY <2>3, <3>4, CodeOfTable DEF read
    <3> QED
      BY <3>4, <3>5 DEF s
  \* The code that holds the address is a symbol.
  <2>12. PICK m \in DOMAIN symbols : /\ symbols[m].address = c.start
                                     /\ symbols[m].size = c.size
    <3>1. PICK e \in ToSet(TableOf(file)) : IsCode(e) /\ c = CodeOf(file, e)
      BY <2>3, <2>7, CodeOfTable DEF read
    <3>2. c.start = StoredAddress(file, e) /\ c.name = e.name
      BY <3>1 DEF CodeOf
    <3>3. Wanted(file, e)
      BY <2>7, <3>1, <3>2 DEF Wanted, IsCode
    <3>4. Listed(read, SymbolFrom(file, e))
      BY <2>3, <2>6, <3>3, AllAreRead DEF read
    <3>5. PICK j \in DOMAIN read : read[j].address = c.start /\ read[j].name = c.name
      BY <3>2, <3>4 DEF Listed, ToSet, SymbolFrom
    <3>6. PICK k \in DOMAIN symbols : symbols[k] = read[j]
      BY <2>8
    <3> DEFINE d == [name |-> symbols[k].name, size |-> symbols[k].size, start |-> symbols[k].address]
    <3>7. d \in Code(file) /\ d.start = c.start /\ d.size = symbols[k].size
      BY <2>11, <3>5, <3>6
    <3>8. Holds(c, d.start)
      <4>1. d.start \in Nat
        BY <2>11, <3>7 DEF IsSymbol
      <4> QED
        BY <3>7, <4>1 DEF Holds
    <3>9. d = c
      BY <2>7, <3>7, <3>8
    <3> QED
      BY <3>5, <3>6, <3>7, <3>9
  <2>13. /\ IsSymbol(symbols[m]) /\ c.start \in Nat /\ c.size \in Nat /\ a \in Int
    BY <2>1, <2>11, <2>12 DEF IsSymbol, FrameOf
  <2>14. Covers(symbols[m], a)
    BY <2>7, <2>12, <2>13, EndIsAhead DEF Covers, Holds
  <2>15. LookupSymbol(a, symbols) = None
    <3>1. LookupSymbol(a, symbols) # None => \E k \in DOMAIN symbols : LookupSymbol(a, symbols) = symbols[k]
      BY <2>8, <2>13, LookupFacts
    <3>2. LookupSymbol(a, symbols) # None => f.function = LookupSymbol(a, symbols).name
      BY <2>1 DEF FrameOf
    <3> QED
      BY <2>11, <3>1, <3>2, SymbolIsNotNone
  <2>16. PICK n \in DOMAIN symbols : /\ symbols[m].address <= symbols[n].address
                                     /\ symbols[n].address <= a
                                     /\ ~Covers(symbols[n], a)
    BY <2>8, <2>13, <2>14, <2>15, LookupFacts
  <2> DEFINE d == [name |-> symbols[n].name, size |-> symbols[n].size, start |-> symbols[n].address]
  <2>17. d \in Code(file) /\ d.start = symbols[n].address /\ d.size = symbols[n].size
         /\ IsSymbol(symbols[n])
    BY <2>11
  <2> HIDE DEF d
  <2>18. d # c
    <3> SUFFICES ASSUME d = c PROVE FALSE
      OBVIOUS
    <3>1. symbols[n].address = symbols[m].address /\ symbols[n].size = symbols[m].size
      BY <2>12, <2>17
    <3>2. EndAddress(symbols[n]) = EndAddress(symbols[m])
      BY <3>1 DEF EndAddress
    <3> QED
      BY <2>14, <2>16, <3>1, <3>2 DEF Covers
  <2>19. ~Holds(c, d.start)
    BY <2>7, <2>17, <2>18
  <2>20. d.start \in Nat
    BY <2>17 DEF IsSymbol
  <2>21. ~(c.start <= d.start /\ d.start <= a)
    BY <2>7, <2>13, <2>19, <2>20, HeldIsNearest
  <2> QED
    BY <2>12, <2>16, <2>17, <2>21
<1> QED
  BY <1>1, Invariant, PTL

-----------------------------------------------------------------------------
(* Symbolication again.                                                    *)

\* No two symbols at one place.
Apart(symbols) ==
    \A i, j \in DOMAIN symbols :
        symbols[i].address = symbols[j].address /\ symbols[i].size = symbols[j].size => i = j

\* Among symbols at places of their own the order of the rows does not matter.
LEMMA OrderDoesNotMatter ==
    ASSUME NEW base, AreSymbols(base), Apart(base), NEW address \in Int,
           NEW one \in Arrangements(base), NEW other \in Arrangements(base)
    PROVE  LookupSymbol(address, one) = LookupSymbol(address, other)
<1> DEFINE U == Below(one, address)
           V == Below(other, address)
           m == NearestOf(one, address)
           n == NearestOf(other, address)
<1>1. /\ AreSymbols(one) /\ AreSymbols(other)
      /\ \A k \in DOMAIN one : \E j \in DOMAIN base : one[k] = base[j]
      /\ \A k \in DOMAIN other : \E j \in DOMAIN base : other[k] = base[j]
      /\ \A j \in DOMAIN base : \E k \in DOMAIN one : one[k] = base[j]
      /\ \A j \in DOMAIN base : \E k \in DOMAIN other : other[k] = base[j]
  BY ArrangedSymbols
<1>2. /\ \A k \in DOMAIN one : one[k].address \in Nat /\ one[k].size \in Nat
      /\ \A k \in DOMAIN other : other[k].address \in Nat /\ other[k].size \in Nat
  BY <1>1 DEF AreSymbols, IsSymbol
<1>3. /\ LookupSymbol(address, one) = IF U # {} /\ Covers(one[m], address) THEN one[m] ELSE None
      /\ LookupSymbol(address, other) = IF V # {} /\ Covers(other[n], address) THEN other[n] ELSE None
  BY DEF LookupSymbol, Below, NearestOf
<1>4. \A k \in DOMAIN one : \E l \in DOMAIN other : other[l] = one[k]
  BY <1>1
<1>5. \A l \in DOMAIN other : \E k \in DOMAIN one : one[k] = other[l]
  BY <1>1
<1>6. /\ \A k : k \in U <=> k \in DOMAIN one /\ one[k].address <= address
      /\ \A l : l \in V <=> l \in DOMAIN other /\ other[l].address <= address
  BY DEF Below
<1>7. U = {} <=> V = {}
  <2> HIDE DEF U, V
  <2> QED
    BY <1>4, <1>5, <1>6
<1>8. U # {} => /\ m \in U
                /\ \A k \in U : \/ one[k].address < one[m].address
                                \/ one[k].address = one[m].address /\ one[k].size >= one[m].size
  BY <1>1, NearestExists
<1>9. V # {} => /\ n \in V
                /\ \A l \in V : \/ other[l].address < other[n].address
                                \/ other[l].address = other[n].address /\ other[l].size >= other[n].size
  BY <1>1, NearestExists
<1> HIDE DEF U, V, m, n
<1>10. ASSUME U # {} PROVE one[m] = other[n]
  <2>1. m \in U /\ n \in V /\ m \in DOMAIN one /\ n \in DOMAIN other
    BY <1>6, <1>7, <1>8, <1>9, <1>10
  <2>2. PICK l \in DOMAIN other : other[l] = one[m]
    BY <1>4, <2>1
  <2>3. PICK k \in DOMAIN one : one[k] = other[n]
    BY <1>5, <2>1
  <2>4. l \in V /\ k \in U
    BY <1>6, <2>1, <2>2, <2>3
  <2>5. \/ one[m].address < other[n].address
        \/ one[m].address = other[n].address /\ one[m].size >= other[n].size
    BY <1>7, <1>9, <1>10, <2>2, <2>4
  <2>6. \/ other[n].address < one[m].address
        \/ other[n].address = one[m].address /\ other[n].size >= one[m].size
    BY <1>8, <1>10, <2>3, <2>4
  <2>7. one[m].address = other[n].address /\ one[m].size = other[n].size
    BY <1>2, <2>1, <2>5, <2>6
  <2>8. PICK i \in DOMAIN base, j \in DOMAIN base : one[m] = base[i] /\ other[n] = base[j]
    BY <1>1, <2>1
  <2>9. i = j
    BY <2>7, <2>8 DEF Apart
  <2> QED
    BY <2>8, <2>9
<1> QED
  BY <1>3, <1>7, <1>10

-----------------------------------------------------------------------------
(* Names of frames.                                                        *)

\* What the signature collapses.
ResolvedNames(frames) ==
    LET resolved == Select(frames, {f \in ToSet(frames) : f.function # None})
    IN  [i \in DOMAIN resolved |-> NormalizeFunctionName(resolved[i].function)]

Collapsed(names) ==
    LET Collapse(chain, name) ==
            IF Len(chain) >= SignatureDepth \/ (chain # <<>> /\ Last(chain) = name)
            THEN chain ELSE Append(chain, name)
    IN  FoldLeft(Collapse, <<>>, names)

LEMMA NamesAreCollapsed ==
    ASSUME NEW frames
    PROVE  NamesOf(frames) = Collapsed(ResolvedNames(frames))
BY DEF NamesOf, Collapsed, ResolvedNames

\* The frames with a function.
WithFunction(frames) == {k \in 1..Len(frames) : frames[k].function # None}

\* The names, by the places of the frames that have one.
LEMMA NamesByPlace ==
    ASSUME NEW frames, IsList(frames)
    PROVE  LET at == Chosen(Len(frames), WithFunction(frames))
           IN  /\ InOrder(Len(frames), WithFunction(frames), at)
               /\ ResolvedNames(frames)
                    = [i \in 1..Len(at) |-> NormalizeFunctionName(frames[at[i]].function)]
<1> DEFINE S == {f \in ToSet(frames) : f.function # None}
           r == Select(frames, S)
           at == Picks(frames, S)
<1>1. /\ Len(frames) \in Nat /\ DOMAIN frames = 1..Len(frames)
      /\ \A k \in 1..Len(frames) : frames[k] \in ToSet(frames)
  BY ListFacts
<1>2. {k \in 1..Len(frames) : frames[k] \in S} = WithFunction(frames)
  BY <1>1 DEF WithFunction
<1>3. frames \in Seq(ToSet(frames))
  BY DEF IsList
<1>4. ResolvedNames(frames) = [i \in DOMAIN r |-> NormalizeFunctionName(r[i].function)]
  BY DEF ResolvedNames
<1> HIDE DEF S
<1>5. r \in Seq(ToSet(frames)) /\ IsSelection(r, frames, S, at)
  BY <1>3, SelectPicks
<1>6. at = Chosen(Len(frames), WithFunction(frames))
  BY <1>2 DEF Picks
<1> HIDE DEF at, r
<1>7. /\ InOrder(Len(frames), WithFunction(frames), at)
      /\ Len(r) = Len(at) /\ \A k \in 1..Len(at) : r[k] = frames[at[k]]
  BY <1>2, <1>5 DEF IsSelection
<1>8. DOMAIN r = 1..Len(at)
  BY <1>5, <1>7, SeqElements
<1>9. ResolvedNames(frames) = [i \in 1..Len(at) |-> NormalizeFunctionName(frames[at[i]].function)]
  BY <1>4, <1>7, <1>8
<1> QED
  BY <1>6, <1>7, <1>9

\* No function, or the same but for what the compiler does to names.
SameFunction(f, g) ==
    \/ f.function = None /\ g.function = None
    \/ /\ f.function # None /\ g.function # None
       /\ NormalizeFunctionName(f.function) = NormalizeFunctionName(g.function)

\* Frames of the same functions have the same names.
LEMMA NamesOfFunctions ==
    ASSUME NEW frames, NEW others, IsList(frames), IsList(others), Len(frames) = Len(others),
           \A k \in 1..Len(frames) : SameFunction(frames[k], others[k])
    PROVE  NamesOf(frames) = NamesOf(others)
<1> DEFINE I == WithFunction(frames)
           at == Chosen(Len(frames), I)
<1>1. WithFunction(others) = I
  BY DEF WithFunction, SameFunction
<1>2. /\ InOrder(Len(frames), I, at)
      /\ ResolvedNames(frames)
           = [i \in 1..Len(at) |-> NormalizeFunctionName(frames[at[i]].function)]
      /\ ResolvedNames(others)
           = [i \in 1..Len(at) |-> NormalizeFunctionName(others[at[i]].function)]
  BY <1>1, NamesByPlace
<1> HIDE DEF at, I
<1>3. \A i \in 1..Len(at) : at[i] \in 1..Len(frames)
  BY <1>2, SeqElements DEF InOrder
<1>4. \A i \in 1..Len(at) : NormalizeFunctionName(frames[at[i]].function)
                               = NormalizeFunctionName(others[at[i]].function)
  <2> SUFFICES ASSUME NEW i \in 1..Len(at)
               PROVE  NormalizeFunctionName(frames[at[i]].function)
                        = NormalizeFunctionName(others[at[i]].function)
    OBVIOUS
  <2>1. SameFunction(frames[at[i]], others[at[i]])
    BY <1>3
  <2> QED
    BY <2>1 DEF SameFunction
<1>5. ResolvedNames(frames) = ResolvedNames(others)
  BY <1>2, <1>4
<1> QED
  BY <1>5, NamesAreCollapsed

-----------------------------------------------------------------------------
(* Symbolication is repeatable.                                            *)

\* The same artifact, with or without its file.
SameArtifact(b, d) == [b EXCEPT !.disk = TRUE] = [d EXCEPT !.disk = TRUE]

LEMMA SameArtifactFields ==
    ASSUME NEW b \in Rows, NEW d \in Rows, SameArtifact(b, d)
    PROVE  /\ b.symbols = d.symbols /\ b.arch = d.arch /\ b.sections = d.sections
<1>1. /\ \E u \in Readable : b = RowOf(u) \/ b = Pruned(u)
      /\ \E u \in Readable : d = RowOf(u) \/ d = Pruned(u)
  BY DEF Rows
<1> DEFINE bb == [b EXCEPT !.disk = TRUE]
           dd == [d EXCEPT !.disk = TRUE]
<1>2. /\ bb.symbols = b.symbols /\ bb.arch = b.arch /\ bb.sections = b.sections
      /\ dd.symbols = d.symbols /\ dd.arch = d.arch /\ dd.sections = d.sections
  BY <1>1 DEF RowOf, Pruned
<1>3. bb = dd
  BY DEF SameArtifact
<1> HIDE DEF bb, dd
<1> QED
  BY <1>2, <1>3

\* A frame without its source line.
Bare(f) == [f EXCEPT !.at = None]

LEMMA FramesAgree ==
    ASSUME NEW b \in Rows, NEW d \in Rows, SameArtifact(b, d), IsUsable(b), Apart(b.symbols),
           NEW one \in Arrangements(b.symbols), NEW other \in Arrangements(d.symbols),
           NEW a \in Int, NEW origin
    PROVE  LET f == Resolve(b, one, a, origin)
               g == Resolve(d, other, a, origin)
           IN  f.function = g.function /\ Bare(f) = Bare(g)
<1> DEFINE clean == CleanAddress(b, a)
           s == LookupSymbol(clean, one)
           f == Resolve(b, one, a, origin)
           g == Resolve(d, other, a, origin)
<1>1. b.symbols = d.symbols /\ b.arch = d.arch
  BY SameArtifactFields
<1>2. CleanAddress(d, a) = clean
  BY <1>1 DEF CleanAddress
<1>3. clean \in Int
  BY ResolveFacts
<1>4. LookupSymbol(clean, other) = s
  BY <1>1, <1>3, UsableSymbols, OrderDoesNotMatter
<1>5. f = IF s = None THEN Unresolved(clean, origin)
          ELSE [address |-> clean, origin |-> origin, function |-> s.name,
                offset |-> clean - s.address, at |-> ResolveLine(b, clean)]
  BY DEF Resolve
<1>6. g = IF s = None THEN Unresolved(clean, origin)
          ELSE [address |-> clean, origin |-> origin, function |-> s.name,
                offset |-> clean - s.address, at |-> ResolveLine(d, clean)]
  BY <1>2, <1>4 DEF Resolve
<1> HIDE DEF f, g, s, clean
<1>7. f.function = g.function /\ Bare(f) = Bare(g)
  BY <1>5, <1>6 DEF Bare, Unresolved
<1> QED
  BY <1>7 DEF f, g

\* Two chains of the same changes are cut at the same length.
LEMMA SameCut ==
    ASSUME NEW l \in Nat, NEW m \in Nat, NEW n \in Nat,
           m <= l, m <= MaxFrames, m < MaxFrames => m = l,
           n <= l, n <= MaxFrames, n < MaxFrames => n = l
    PROVE  m = n
BY AnalysisConstants

\* What is stored of a report for one artifact is the same but for source lines.
LEMMA SameTrace ==
    ASSUME NEW p \in Payloads, NEW b \in Rows, NEW d \in Rows, b # None, d # None,
           SameArtifact(b, d), IsUsable(b), Apart(b.symbols),
           NEW one \in Arrangements(b.symbols), NEW other \in Arrangements(d.symbols),
           NEW t, t.result = TraceOf(b, one, Parse(p)),
           NEW u, u.result = TraceOf(d, other, Parse(p))
    PROVE  Named(t) = Named(u)
<1> DEFINE r == Parse(p)
           all == AllOf(r, b)
           F == TraceOf(b, one, r).frames
           G == TraceOf(d, other, r).frames
           at == Chosen(Len(all), Changes(all))
<1>1. IsChain(b, one, all, F)
  BY ParsedAddresses, TracesAreChains
<1>2. AllOf(r, d) = all
  BY SameArtifactFields DEF AllOf, ReturnAddresses, ExecutableRanges
<1>3. IsChain(d, other, all, G)
  <2>1. IsChain(d, other, AllOf(r, d), G)
    BY ParsedAddresses, TracesAreChains
  <2> QED
    BY <1>2, <2>1
<1>4. all \in Seq(Addressed) /\ Len(all) \in Nat
  BY ParsedAddresses, AllAddressed DEF Addressed
<1>5. /\ TraceOf(b, one, r) = [frames |-> F, top |-> TopFunction(F), signature |-> SignatureOf(r, F)]
      /\ TraceOf(d, other, r) = [frames |-> G, top |-> TopFunction(G), signature |-> SignatureOf(r, G)]
  BY DEF TraceOf
<1> HIDE DEF F, G, all, r
<1>6. InOrder(Len(all), Changes(all), at)
  BY <1>4, ChosenInOrder
<1>7. /\ IsList(F) /\ Len(F) \in Nat /\ DOMAIN F = 1..Len(F)
      /\ Len(F) <= Len(at) /\ Len(F) <= MaxFrames /\ (Len(F) < MaxFrames => Len(F) = Len(at))
      /\ \A k \in 1..Len(F) : F[k] = FrameAt(b, one, all, at[k])
  BY <1>1 DEF IsChain
<1>8. /\ IsList(G) /\ Len(G) \in Nat /\ DOMAIN G = 1..Len(G)
      /\ Len(G) <= Len(at) /\ Len(G) <= MaxFrames /\ (Len(G) < MaxFrames => Len(G) = Len(at))
      /\ \A k \in 1..Len(G) : G[k] = FrameAt(d, other, all, at[k])
  BY <1>3 DEF IsChain
<1> HIDE DEF at
<1>9. Len(at) \in Nat /\ \A k \in 1..Len(at) : at[k] \in 1..Len(all)
  BY <1>6, SeqElements DEF InOrder
<1>10. Len(F) = Len(G)
  BY <1>7, <1>8, <1>9, SameCut
<1>11. ASSUME NEW k \in 1..Len(F)
       PROVE  F[k].function = G[k].function /\ Bare(F[k]) = Bare(G[k])
  <2>1. at[k] \in 1..Len(all)
    BY <1>7, <1>9
  <2>2. all[at[k]] \in Addressed
    BY <1>4, <2>1
  <2>3. all[at[k]].address \in Int
    BY <2>2 DEF Addressed, AddressedIn
  <2>4. /\ F[k] = Resolve(b, one, all[at[k]].address, all[at[k]].origin)
        /\ G[k] = Resolve(d, other, all[at[k]].address, all[at[k]].origin)
    BY <1>7, <1>8, <1>10 DEF FrameAt
  <2> QED
    BY <2>3, <2>4, FramesAgree
<1>12. NamesOf(F) = NamesOf(G)
  BY <1>7, <1>8, <1>10, <1>11, NamesOfFunctions DEF SameFunction
<1>13. TopFunction(F) = TopFunction(G) /\ SignatureOf(r, F) = SignatureOf(r, G)
  BY <1>12 DEF TopFunction, SignatureOf
<1>14. [i \in DOMAIN F |-> Bare(F[i])] = [i \in DOMAIN G |-> Bare(G[i])]
  BY <1>7, <1>8, <1>10, <1>11
<1>15. /\ Named(t) = [t.result EXCEPT !.frames = [i \in DOMAIN @ |-> Bare(@[i])]]
       /\ Named(u) = [u.result EXCEPT !.frames = [i \in DOMAIN @ |-> Bare(@[i])]]
  BY DEF Named, Bare
<1>16. /\ t.result = [frames |-> F, top |-> TopFunction(F), signature |-> SignatureOf(r, F)]
       /\ u.result = [frames |-> G, top |-> TopFunction(G), signature |-> SignatureOf(r, G)]
  BY <1>5 DEF r
<1> QED
  BY <1>13, <1>14, <1>15, <1>16

LEMMA ApartOrTwins ==
    ASSUME NEW b, ~Twins(b)
    PROVE  Apart(b.symbols)
BY DEF Twins, Apart

\* A report that is symbolicated again with the artifact it was symbolicated with gets the
\* frames and the signature it has, whatever order the rows come in and whether or not the
\* file is still on disk, if no two symbols share a place.
THEOREM Repeatable == Spec => ReanalysisStable
<1>1. IInv /\ IInv' /\ [Next]_vars =>
          (Symbolicated /\ Symbolicated' /\ [trace.from EXCEPT !.disk = TRUE]
                                              = [trace.from' EXCEPT !.disk = TRUE]
           /\ ~Twins(trace.from)
             => Named(trace') = Named(trace))
  <2> SUFFICES ASSUME IInv, IInv', [Next]_vars, Symbolicated, Symbolicated',
                      SameArtifact(trace.from, trace'.from), ~Twins(trace.from)
               PROVE  Named(trace') = Named(trace)
    BY DEF SameArtifact
  <2>1. /\ payload \in Payloads /\ report = Parse(payload)
        /\ trace.from \in Rows /\ IsUsable(trace.from) /\ trace.from # None
    BY DEF IInv, ReportInv, TraceInv, Symbolicated
  <2>2. PICK one \in Arrangements(trace.from.symbols) :
            trace.result = TraceOf(trace.from, one, Parse(payload))
    BY <2>1 DEF IInv, TraceInv, Symbolicated, Loaded
  <2>3. trace'.from \in Rows /\ trace'.from # None
    BY DEF IInv, TraceInv, Symbolicated
  <2>4. PICK other \in Arrangements(trace'.from.symbols) :
            trace'.result = TraceOf(trace'.from, other, report')
    BY DEF IInv, TraceInv, Symbolicated, Loaded
  <2>5. CASE UNCHANGED trace
    BY <2>5
  <2>6. CASE Symbolicate
    <3>1. report' = report
      BY <2>6, Zenon DEF Symbolicate
    <3>2. trace'.result = TraceOf(trace'.from, other, Parse(payload))
      BY <2>1, <2>4, <3>1
    <3>3. Apart(trace.from.symbols)
      BY ApartOrTwins
    <3> QED
      BY <2>1, <2>2, <2>3, <3>2, <3>3, SameTrace
  <2>7. [Next]_vars => Symbolicate \/ UNCHANGED trace
    BY Zenon DEF Next, Upload, Prune, Receive, vars
  <2> QED
    BY <2>5, <2>6, <2>7
<1> QED
  BY <1>1, Invariant, PTL DEF Spec, ReanalysisStable

-----------------------------------------------------------------------------
(* Source lines.                                                           *)

\* Where an external tool answers, it answers as the line table does, or for a function at
\* whose start the table has no row.
ToolAgrees ==
    \A u \in Uploads, address \in 0..MaxAddress :
        <<u.file, address>> \in DOMAIN Addr2Line =>
            \/ Addr2Line[<<u.file, address>>] = LineAt(u.file, address)
            \/ \A c \in Code(u.file) : Holds(c, address) =>
                   \A i \in DOMAIN LineRows(u.file) : LineRows(u.file)[i].address # c.start

LEMMA RowFile ==
    ASSUME NEW b \in Rows
    PROVE  \E u \in Uploads : b.file = u.file /\ b.kind = DetectKind(u.file)
<1>1. PICK u \in Readable : b = RowOf(u) \/ b = Pruned(u)
  BY DEF Rows
<1>2. b.file = u.file /\ b.kind = DetectKind(u.file)
  BY <1>1 DEF Pruned, RowOf
<1> QED
  BY <1>1, <1>2 DEF Readable

\* The rows of an artifact's line table.
LEMMA LineRowFacts ==
    ASSUME NEW file, IsElf(file), file.magic
    PROVE  /\ Len(LineRows(file)) \in Nat /\ DOMAIN LineRows(file) = 1..Len(LineRows(file))
           /\ \A i \in 1..Len(LineRows(file)) :
                 /\ LineRows(file)[i].address \in Nat /\ LineRows(file)[i].file \in Nat
                 /\ FileName(file, LineRows(file)[i].file) # None
<1> DEFINE S == {r \in ToSet(file.rows) : ~r.end /\ FileName(file, r.file) # None}
           rows == LineRows(file)
<1>1. rows = Select(file.rows, S)
  BY DEF LineRows
<1>2. file.rows \in Seq(ToSet(file.rows))
  BY DEF IsElf, IsList
<1> HIDE DEF S
<1>3. /\ rows \in Seq(ToSet(file.rows))
      /\ \A k \in 1..Len(rows) : rows[k] \in S
  BY <1>1, <1>2, SelectFacts
<1> HIDE DEF rows
<1>4. Len(rows) \in Nat /\ DOMAIN rows = 1..Len(rows)
  BY <1>3, SeqElements
<1>5. \A r \in S : r.address \in Nat /\ r.file \in Nat /\ FileName(file, r.file) # None
  BY DEF S, IsElf
<1> QED
  BY <1>3, <1>4, <1>5 DEF rows

\* The row that is found is the nearest at or below the address.
LEMMA LineAtFacts ==
    ASSUME NEW file, IsElf(file), file.magic, NEW address \in Int,
           NEW i \in DOMAIN LineRows(file), LineRows(file)[i].address <= address
    PROVE  LET rows == LineRows(file)
           IN  \E k \in DOMAIN rows :
                  /\ rows[i].address <= rows[k].address /\ rows[k].address <= address
                  /\ LineAt(file, address) = [file |-> FileName(file, rows[k].file),
                                              line |-> rows[k].line]
<1> DEFINE rows == LineRows(file)
           U == {k \in DOMAIN rows : rows[k].address <= address}
           At(k) == rows[k].address
           IsLast(k) == \A j \in U \ {k} : \/ rows[j].address < rows[k].address
                                           \/ rows[j].address = rows[k].address /\ j < k
           gaps == {address - At(k) : k \in U}
           n == CHOOSE k \in U : IsLast(k)
<1>1. Len(rows) \in Nat /\ DOMAIN rows = 1..Len(rows)
  BY LineRowFacts
<1>2. U \in SUBSET (1..Len(rows)) /\ \A k \in U : At(k) \in Nat /\ k \in Int /\ At(k) <= address
  BY <1>1, LineRowFacts
<1>3. i \in U
  OBVIOUS
<1>4. LineAt(file, address) = IF U = {} THEN None
                              ELSE [file |-> FileName(file, rows[n].file), line |-> rows[n].line]
  BY DEF LineAt
<1>5. \A k : IsLast(k) <=> \A j \in U \ {k} : At(j) < At(k) \/ (At(j) = At(k) /\ j < k)
  OBVIOUS
<1>6. \A k \in U : k \in DOMAIN rows
  OBVIOUS
<1> HIDE DEF At, IsLast, U, rows
<1>7. PICK a \in U : \A j \in U : At(j) <= At(a)
  <2>1. gaps \in SUBSET Nat /\ gaps # {}
    <3>1. \A k \in U : address - At(k) \in Nat
      BY <1>2
    <3> QED
      BY <1>3, <3>1
  <2>2. PICK gap \in gaps : \A other \in gaps : gap <= other
    <3> HIDE DEF gaps
    <3> QED
      BY <2>1, LeastNumber
  <2>3. PICK a \in U : gap = address - At(a)
    BY <2>2
  <2>4. ASSUME NEW j \in U PROVE At(j) <= At(a)
    <3>1. address - At(a) <= address - At(j)
      BY <2>2, <2>3
    <3> QED
      BY <1>2, <3>1
  <2> QED
    BY <2>4
<1> DEFINE W == {k \in U : At(k) = At(a)}
<1>8. PICK m \in W : \A j \in W : j <= m
  <2>1. W \in SUBSET (1..Len(rows)) /\ W # {}
    BY <1>2
  <2> HIDE DEF W
  <2> QED
    BY <1>1, <2>1, LargestIndex
<1>9. m \in U /\ IsLast(m)
  <2>1. m \in U /\ At(m) = At(a)
    OBVIOUS
  <2> SUFFICES ASSUME NEW j \in U, j # m PROVE At(j) < At(m) \/ (At(j) = At(m) /\ j < m)
    BY <1>5, <2>1
  <2>2. CASE j \in W
    BY <1>2, <1>8, <2>1, <2>2
  <2>3. CASE j \notin W
    BY <1>2, <1>7, <2>1, <2>3
  <2> QED
    BY <2>2, <2>3
<1>10. n \in U /\ IsLast(n)
  <2> HIDE DEF W
  <2> QED
    BY <1>9
<1> HIDE DEF n, W
<1>11. At(i) <= At(n) /\ At(n) <= address
  BY <1>2, <1>3, <1>5, <1>10
<1> QED
  BY <1>3, <1>4, <1>6, <1>10, <1>11 DEF rows, At

\* A file name that is found is the one the table gives the number of.
LEMMA FileNameFacts ==
    ASSUME NEW file, file.dwarf \in Nat, NEW number \in Nat, FileName(file, number) # None
    PROVE  FileName(file, number) = file.names[number + IF file.dwarf < 5 THEN 0 ELSE 1]
BY DEF FileName

\* A frame's line lies between the start of its function and its address, so it is never a
\* line of the function before, in every artifact with a row at that start.
THEOREM LinesAreOwn == ASSUME ToolAgrees PROVE Spec => []LinesOfOwnFunction
<1>1. IInv => LinesOfOwnFunction
  <2> SUFFICES ASSUME IInv, Symbolicated, NEW f \in Frames, f.function # None, f.at # None,
                      NEW i \in DOMAIN LineRows(trace.from.file),
                      LineRows(trace.from.file)[i].address = f.address - f.offset
               PROVE  LET rows == LineRows(trace.from.file)
                      IN  \E k \in DOMAIN rows :
                             /\ rows[k].address \in f.address - f.offset .. f.address
                             /\ rows[k].line = f.at.line
                             /\ f.at.file = trace.from.file.names[
                                  rows[k].file + IF trace.from.file.dwarf < 5 THEN 0 ELSE 1]
    BY DEF LinesOfOwnFunction
  <2> DEFINE b == trace.from
             file == b.file
             rows == LineRows(file)
             a == f.address
             start == a - f.offset
  <2>1. PICK symbols \in Arrangements(b.symbols) : FrameOf(f, symbols)
    BY FramesAreLookups
  <2>2. IsUsable(b) /\ b \in Rows
    BY FramesAreLookups, TraceIsChain
  <2>3. PICK u \in Uploads : file = u.file /\ b.kind = DetectKind(u.file)
    BY <2>2, RowFile
  <2>4. a \in Int /\ a \in 0..MaxAddress /\ f.at = ResolveLine(b, a)
    BY <2>1 DEF FrameOf
  <2>5. file.magic
    <3>1. file.magic \/ rows = <<>>
      BY DEF LineRows
    <3> QED
      BY <3>1
  <2>6. b.kind = "elf" /\ IsElf(file)
    <3>1. CASE b.kind = "map"
      <4>1. DetectKind(file) = "map"
        BY <2>3, <3>1
      <4> QED
        BY <2>5, <4>1 DEF DetectKind
    <3> QED
      BY <2>2, <3>1 DEF IsUsable
  <2>7. PICK c \in Code(file) : c.start + f.offset = a /\ Holds(c, a)
    BY <2>6, FramesOfElf
  <2>8. start \in Nat /\ start <= a /\ c.start = start
    <3>1. /\ AreSymbols(symbols)
          /\ ReadSymbols(file) # <<>>
      BY <2>1, <2>2, <2>6, UsableSymbols, ArrangedSymbols DEF IsUsable
    <3> DEFINE s == LookupSymbol(a, symbols)
    <3>2. s # None /\ f.offset = a - s.address
      BY <2>1 DEF FrameOf
    <3>3. \E k \in DOMAIN symbols : s = symbols[k]
      BY <2>4, <3>1, <3>2, LookupFacts
    <3>4. s.address \in Nat
      BY <3>1, <3>3 DEF AreSymbols, IsSymbol
    <3>5. PICK e \in ToSet(TableOf(file)) : c = CodeOf(file, e)
      BY <2>6, <2>7, <3>1, CodeOfTable
    <3>6. c.start \in Nat
      BY <2>6, <3>5, TableEntries DEF CodeOf
    <3>7. c.start <= a
      BY <2>7 DEF Holds
    <3> HIDE DEF s
    <3> QED
      BY <2>4, <2>7, <3>2, <3>4, <3>6, <3>7
  <2>9. f.at = LineAt(file, a)
    <3>1. CASE <<file, a>> \in DOMAIN Addr2Line
      <4>1. \/ Addr2Line[<<file, a>>] = LineAt(file, a)
            \/ \A d \in Code(file) : Holds(d, a) => \A k \in DOMAIN rows : rows[k].address # d.start
        BY <2>3, <2>4, <3>1 DEF ToolAgrees
      <4>2. Addr2Line[<<file, a>>] = LineAt(file, a)
        BY <2>7, <2>8, <4>1
      <4> QED
        BY <2>4, <3>1, <4>2 DEF ResolveLine
    <3>2. CASE <<file, a>> \notin DOMAIN Addr2Line
      BY <2>4, <3>2 DEF ResolveLine
    <3> QED
      BY <3>1, <3>2
  <2>10. PICK k \in DOMAIN rows :
            /\ rows[i].address <= rows[k].address /\ rows[k].address <= a
            /\ LineAt(file, a) = [file |-> FileName(file, rows[k].file), line |-> rows[k].line]
    BY <2>4, <2>5, <2>6, <2>8, LineAtFacts
  <2>11. rows[k].address \in Nat /\ rows[k].file \in Nat /\ FileName(file, rows[k].file) # None
    BY <2>5, <2>6, LineRowFacts
  <2>12. file.dwarf \in Nat
    BY <2>6 DEF IsElf
  <2> DEFINE name == FileName(file, rows[k].file)
  <2>13. name = file.names[rows[k].file + IF file.dwarf < 5 THEN 0 ELSE 1]
    BY <2>11, <2>12, FileNameFacts
  <2> HIDE DEF rows, file, b, name
  <2>14. rows[k].address \in start..a
    BY <2>4, <2>8, <2>10, <2>11 DEF rows, file, b
  <2>15. rows[k].line = f.at.line /\ f.at.file = name
    BY <2>9, <2>10 DEF name
  <2> QED
    BY <2>13, <2>14, <2>15 DEF rows, file, b
<1> QED
  BY <1>1, Invariant, PTL

-----------------------------------------------------------------------------
(* A rebuild elsewhere.                                                    *)

LEMMA EvenShift ==
    ASSUME NEW a \in Int, NEW d \in Int, d % 2 = 0
    PROVE  /\ NormalizeThumb(a + d) = NormalizeThumb(a) + d
           /\ (IsThumb(a + d) <=> IsThumb(a))
BY DEF NormalizeThumb, IsThumb

\* The compiler's suffix does not reach the signature.
LEMMA CloneFacts ==
    ASSUME NEW n, IsName(n)
    PROVE  /\ IsName(CloneOf(n)) /\ CloneOf(n) # None
           /\ NormalizeFunctionName(CloneOf(n)) = NormalizeFunctionName(n)
<1>1. n = [fn |-> n.fn, clones |-> n.clones] /\ n.clones \in Seq(CloneSuffix)
  BY DEF IsName
<1>2. CASE n.clones = <<>>
  <2> DEFINE c == [fn |-> n.fn, clones |-> <<"isra">>]
  <2>1. CloneOf(n) = c
    BY <1>1, <1>2 DEF CloneOf
  <2>2. c.clones = <<"isra">> /\ c.clones \in Seq(CloneSuffix) /\ c.clones # <<>> /\ c.fn = n.fn
    <3>1. <<"isra">> \in Seq(CloneSuffix)
      <4>1. "isra" \in CloneSuffix
        BY DEF CloneSuffix
      <4>2. \A x \in CloneSuffix : <<x>> \in Seq(CloneSuffix)
        OBVIOUS
      <4> QED
        BY <4>1, <4>2
    <3>2. \A x : <<x>> # <<>>
      OBVIOUS
    <3> QED
      BY <3>1, <3>2
  <2>3. Front(<<"isra">>) = <<>>
    BY DEF Front
  <2>4. NormalizeFunctionName(c) = [fn |-> n.fn, clones |-> <<>>]
    BY <2>2, <2>3 DEF NormalizeFunctionName
  <2>5. NormalizeFunctionName(n) = n /\ n = [fn |-> n.fn, clones |-> <<>>]
    BY <1>1, <1>2 DEF NormalizeFunctionName
  <2>6. IsName(c)
    BY <2>2 DEF IsName
  <2>7. c \in [fn : {c.fn}, clones : Seq(CloneSuffix)]
    BY <2>2
  <2> HIDE DEF c
  <2>8. c # None
    BY <2>6, <2>7 DEF IsName
  <2> QED
    BY <2>1, <2>4, <2>5, <2>6, <2>8
<1>3. CASE n.clones # <<>>
  <2>1. CloneOf(n) = n
    BY <1>3 DEF CloneOf
  <2>2. n \in [fn : {n.fn}, clones : Seq(CloneSuffix)]
    BY <1>1
  <2>3. n # None
    BY <2>2 DEF IsName
  <2> QED
    BY <2>1, <2>3
<1> QED
  BY <1>2, <1>3

LEMMA MovedSymbolFacts ==
    ASSUME NEW s, IsSymbol(s), NEW d \in Nat
    PROVE  /\ IsSymbol(MovedSymbol(s, d))
           /\ MovedSymbol(s, d).address = s.address + d /\ MovedSymbol(s, d).size = s.size
           /\ MovedSymbol(s, d).name = CloneOf(s.name)
<1> DEFINE m == [name |-> CloneOf(s.name), address |-> s.address + d, size |-> s.size]
<1>1. MovedSymbol(s, d) = m
  <2>1. s = [name |-> s.name, address |-> s.address, size |-> s.size]
    BY DEF IsSymbol
  <2> DEFINE t == [s EXCEPT !.address = @ + d]
  <2>2. t = [name |-> s.name, address |-> s.address + d, size |-> s.size]
    BY <2>1
  <2>3. MovedSymbol(s, d) = [t EXCEPT !.name = CloneOf(@)]
    BY DEF MovedSymbol
  <2> HIDE DEF t
  <2> QED
    BY <2>2, <2>3
<1>2. s.address + d \in Nat /\ s.size \in Nat /\ IsName(CloneOf(s.name))
  BY CloneFacts DEF IsSymbol
<1>3. m.name = CloneOf(s.name) /\ m.address = s.address + d /\ m.size = s.size
      /\ m = [name |-> m.name, address |-> m.address, size |-> m.size]
  OBVIOUS
<1> HIDE DEF m
<1>4. IsSymbol(m)
  BY <1>2, <1>3 DEF IsSymbol
<1> QED
  BY <1>1, <1>3, <1>4

LEMMA MovedCovers ==
    ASSUME NEW s, IsSymbol(s), NEW d \in Nat, NEW a \in Int
    PROVE  Covers(MovedSymbol(s, d), a + d) <=> Covers(s, a)
<1> DEFINE m == MovedSymbol(s, d)
<1>1. IsSymbol(m) /\ m.address = s.address + d /\ m.size = s.size
  BY MovedSymbolFacts
<1> HIDE DEF m
<1>2. /\ EndAddress(s) = IF s.size >= 1 THEN s.address + s.size ELSE s.address + 1
      /\ EndAddress(m) = IF m.size >= 1 THEN m.address + m.size ELSE m.address + 1
  BY <1>1, EndIsAhead
<1>3. s.address \in Int /\ s.size \in Int
  BY DEF IsSymbol
<1>4. Covers(m, a + d) <=> Covers(s, a)
  BY <1>1, <1>2, <1>3 DEF Covers
<1> QED
  BY <1>4 DEF m

\* At the moved address the lookup finds the moved symbol.
LEMMA MovedLookup ==
    ASSUME NEW one, AreSymbols(one), NEW d \in Nat, NEW address \in Int, NEW other,
           other = [k \in DOMAIN one |-> MovedSymbol(one[k], d)]
    PROVE  LET s == LookupSymbol(address, one)
           IN  LookupSymbol(address + d, other) = IF s = None THEN None ELSE MovedSymbol(s, d)
<1> DEFINE U == Below(one, address)
           V == Below(other, address + d)
           m == NearestOf(one, address)
           n == NearestOf(other, address + d)
<1>1. PICK L \in Nat : DOMAIN one = 1..L /\ \A k \in 1..L : IsSymbol(one[k])
  BY DEF AreSymbols
<1>2. DOMAIN other = 1..L /\ \A k \in 1..L : other[k] = MovedSymbol(one[k], d)
  BY <1>1
<1>3. ASSUME NEW k \in 1..L
      PROVE  /\ one[k].address \in Nat /\ one[k].size \in Nat /\ one[k] # None
             /\ IsSymbol(other[k]) /\ other[k].address = one[k].address + d
             /\ other[k].size = one[k].size
             /\ (Covers(other[k], address + d) <=> Covers(one[k], address))
  <2>1. IsSymbol(one[k]) /\ other[k] = MovedSymbol(one[k], d)
    BY <1>1, <1>2
  <2>2. one[k].address \in Nat /\ one[k].size \in Nat
    BY <2>1 DEF IsSymbol
  <2> DEFINE s == one[k]
  <2>3. IsSymbol(s) /\ s = one[k]
    BY <2>1
  <2> HIDE DEF s
  <2>4. /\ s # None /\ IsSymbol(MovedSymbol(s, d)) /\ MovedSymbol(s, d).address = s.address + d
        /\ MovedSymbol(s, d).size = s.size
        /\ (Covers(MovedSymbol(s, d), address + d) <=> Covers(s, address))
    BY <2>3, MovedSymbolFacts, MovedCovers, SymbolIsNotNone
  <2> QED
    BY <2>1, <2>2, <2>3, <2>4
<1>4. AreSymbols(other)
  BY <1>2, <1>3 DEF AreSymbols
<1>5. U = V
  <2>1. \A k : k \in U <=> k \in 1..L /\ one[k].address <= address
    BY <1>1 DEF Below
  <2>2. \A k : k \in V <=> k \in 1..L /\ other[k].address <= address + d
    BY <1>2 DEF Below
  <2>3. ASSUME NEW k \in 1..L
        PROVE  one[k].address <= address <=> other[k].address <= address + d
    <3> DEFINE x == one[k].address
               y == other[k].address
    <3>1. x \in Nat /\ y = x + d
      BY <1>3
    <3> HIDE DEF x, y
    <3>2. x <= address <=> y <= address + d
      BY <3>1
    <3> QED
      BY <3>2 DEF x, y
  <2> HIDE DEF U, V
  <2> QED
    BY <2>1, <2>2, <2>3
<1>6. \A j, k \in 1..L : SortsBefore(other, j, k) <=> SortsBefore(one, j, k)
  <2> SUFFICES ASSUME NEW j \in 1..L, NEW k \in 1..L
               PROVE  SortsBefore(other, j, k) <=> SortsBefore(one, j, k)
    OBVIOUS
  <2> QED
    BY <1>3 DEF SortsBefore
<1>7. /\ LookupSymbol(address, one) = IF U # {} /\ Covers(one[m], address) THEN one[m] ELSE None
      /\ LookupSymbol(address + d, other)
            = IF V # {} /\ Covers(other[n], address + d) THEN other[n] ELSE None
  BY DEF LookupSymbol, Below, NearestOf
<1>8. U # {} => m \in U /\ \A j \in U \ {m} : SortsBefore(one, j, m)
  BY NearestExists
<1>9. V # {} => n \in V /\ \A j \in V \ {n} : SortsBefore(other, j, n)
  BY <1>4, NearestExists
<1>10. U \subseteq 1..L
  BY <1>1 DEF Below
<1> HIDE DEF U, V, m, n
<1>11. ASSUME U # {} PROVE m = n /\ m \in 1..L
  <2> SUFFICES ASSUME m # n PROVE FALSE
    BY <1>8, <1>10, <1>11
  <2>1. m \in U /\ n \in U /\ m \in 1..L /\ n \in 1..L
    BY <1>5, <1>8, <1>9, <1>10, <1>11
  <2>2. SortsBefore(one, n, m) /\ SortsBefore(one, m, n)
    BY <1>5, <1>6, <1>8, <1>9, <2>1
  <2>3. one[m].address \in Nat /\ one[m].size \in Nat /\ one[n].address \in Nat /\ one[n].size \in Nat
        /\ m \in Int /\ n \in Int
    BY <1>3, <2>1
  <2> QED
    BY <2>2, <2>3 DEF SortsBefore
<1>12. CASE U = {}
  BY <1>5, <1>7, <1>12
<1>13. CASE U # {}
  BY <1>2, <1>3, <1>5, <1>7, <1>11, <1>13
<1> QED
  BY <1>12, <1>13

-----------------------------------------------------------------------------
(* The stack of a crash in a rebuild.                                      *)

IsSection(s) ==
    /\ s.start \in Nat /\ s.size \in Nat
    /\ s = [start |-> s.start, size |-> s.size, alloc |-> s.alloc, exec |-> s.exec]

LEMMA SectionFacts ==
    ASSUME NEW b, IsUsable(b)
    PROVE  \A s \in ToSet(b.sections) : IsSection(s)
<1>1. CASE b.kind = "elf"
  <2> DEFINE sections == b.file.sections
             S == {s \in ToSet(sections) : s.alloc /\ s.size > 0}
             read == b.sections
  <2>1. IsElf(b.file) /\ read = ReadSections(b.file)
    BY <1>1 DEF IsUsable
  <2>2. read = Select(sections, S)
    BY <2>1 DEF ReadSections
  <2>3. sections \in Seq(ToSet(sections)) /\ \A s \in ToSet(sections) : IsSection(s)
    BY <2>1 DEF IsElf, IsList, IsSection
  <2> HIDE DEF S, read, sections
  <2>4. read \in Seq(ToSet(sections))
    BY <2>2, <2>3, SelectFacts
  <2>5. \A s \in ToSet(read) : s \in ToSet(sections)
    BY <2>4, SeqElements DEF ToSet
  <2> QED
    BY <2>3, <2>5 DEF read
<1>2. CASE b.kind = "map"
  <2>1. b.sections = <<>>
    BY <1>2 DEF IsUsable
  <2>2. ToSet(<<>>) = {}
    BY DEF ToSet
  <2> QED
    BY <2>1, <2>2
<1> QED
  BY <1>1, <1>2 DEF IsUsable

LEMMA MovedSectionFacts ==
    ASSUME NEW s, IsSection(s), NEW d \in Nat
    PROVE  /\ MovedSection(s, d).start = s.start + d /\ MovedSection(s, d).size = s.size
           /\ MovedSection(s, d).exec = s.exec
<1>1. s = [start |-> s.start, size |-> s.size, alloc |-> s.alloc, exec |-> s.exec]
  BY DEF IsSection
<1> QED
  BY <1>1 DEF MovedSection

\* Its symbols and sections are those of the build, moved.
LEMMA RebuiltFacts ==
    ASSUME NEW b \in Rows, NEW d
    PROVE  LET there == Rebuilt(b, d)
           IN  /\ there.arch = b.arch
               /\ there.symbols = [k \in DOMAIN b.symbols |-> MovedSymbol(b.symbols[k], d)]
               /\ there.sections = [i \in DOMAIN b.sections |-> MovedSection(b.sections[i], d)]
<1> DEFINE symbols == [k \in DOMAIN b.symbols |-> MovedSymbol(b.symbols[k], d)]
           sections == [i \in DOMAIN b.sections |-> MovedSection(b.sections[i], d)]
<1>1. Rebuilt(b, d) = [b EXCEPT !.symbols = symbols, !.sections = sections]
  BY DEF Rebuilt
<1>2. {"arch", "symbols", "sections"} \subseteq DOMAIN b
  <2>1. PICK u \in Readable : b = RowOf(u) \/ b = Pruned(u)
    BY DEF Rows
  <2> QED
    BY <2>1 DEF Pruned, RowOf
<1> HIDE DEF symbols, sections
<1>3. \A r : {"arch", "symbols", "sections"} \subseteq DOMAIN r =>
          LET m == [r EXCEPT !.symbols = symbols, !.sections = sections]
          IN  m.arch = r.arch /\ m.symbols = symbols /\ m.sections = sections
  OBVIOUS
<1> QED
  BY <1>1, <1>2, <1>3 DEF symbols, sections

LEMMA MovedRanges ==
    ASSUME NEW b \in Rows, IsUsable(b), NEW d \in Nat
    PROVE  /\ \A s \in ExecutableRanges(b) : MovedSection(s, d) \in ExecutableRanges(Rebuilt(b, d))
           /\ \A t \in ExecutableRanges(Rebuilt(b, d)) :
                 \E s \in ExecutableRanges(b) : t = MovedSection(s, d)
<1> DEFINE sections == b.sections
           moved == Rebuilt(b, d).sections
<1>1. moved = [i \in DOMAIN sections |-> MovedSection(sections[i], d)]
  BY RebuiltFacts
<1>2. \A s \in ToSet(sections) : MovedSection(s, d).exec = s.exec
  BY SectionFacts, MovedSectionFacts
<1>3. /\ ExecutableRanges(b) = {s \in ToSet(sections) : s.exec}
      /\ ExecutableRanges(Rebuilt(b, d)) = {s \in ToSet(moved) : s.exec}
  BY DEF ExecutableRanges
<1> HIDE DEF moved, sections
<1>4. \A s \in ToSet(sections) : MovedSection(s, d) \in ToSet(moved)
  BY <1>1 DEF ToSet
<1>5. \A t \in ToSet(moved) : \E s \in ToSet(sections) : t = MovedSection(s, d)
  BY <1>1 DEF ToSet
<1> QED
  BY <1>2, <1>3, <1>4, <1>5

Looks(b, w) == LooksLikeReturnAddress(w, ExecutableRanges(b))

\* A return address is one where its function has moved to.
LEMMA MovedWord ==
    ASSUME NEW b \in Rows, IsUsable(b), NEW d \in Nat, d % 2 = 0, NEW w \in Nat, Looks(b, w)
    PROVE  Looks(Rebuilt(b, d), w + d)
<1> DEFINE even == NormalizeThumb(w)
           E == ExecutableRanges(b)
           F == ExecutableRanges(Rebuilt(b, d))
<1>1. NormalizeThumb(w + d) = even + d /\ (IsThumb(w + d) <=> IsThumb(w)) /\ even \in Nat
  <2>1. NormalizeThumb(w) \in Int /\ (w >= 0 => NormalizeThumb(w) >= 0)
    BY Halves
  <2>2. NormalizeThumb(w) \in Nat
    BY <2>1
  <2>3. NormalizeThumb(w + d) = NormalizeThumb(w) + d /\ (IsThumb(w + d) <=> IsThumb(w))
    <3>1. w \in Int /\ d \in Int
      OBVIOUS
    <3> QED
      BY <3>1, EvenShift, Zenon
  <2> QED
    BY <2>2, <2>3
<1>2. /\ RequireThumb => IsThumb(w)
      /\ even # 0 /\ (E = {} \/ \E s \in E : Within(s, even))
  BY DEF Looks, LooksLikeReturnAddress
<1>3. E = {} => F = {}
  BY MovedRanges
<1> HIDE DEF even
<1>4. ASSUME NEW s \in E, Within(s, even) PROVE \E t \in F : Within(t, even + d)
  <2> DEFINE t == MovedSection(s, d)
  <2>1. t \in F
    BY MovedRanges
  <2>2. IsSection(s)
    BY SectionFacts DEF ExecutableRanges
  <2>3. t.start = s.start + d /\ t.size = s.size
    BY <2>2, MovedSectionFacts
  <2>4. s.start \in Nat /\ s.size \in Nat
    BY <2>2 DEF IsSection
  <2> HIDE DEF t
  <2>5. Within(t, even + d)
    BY <1>1, <1>4, <2>3, <2>4 DEF Within
  <2> QED
    BY <2>1, <2>5
<1>5. F = {} \/ \E t \in F : Within(t, even + d)
  BY <1>2, <1>3, <1>4
<1>6. even + d # 0
  BY <1>1, <1>2
<1> QED
  BY <1>1, <1>2, <1>5, <1>6 DEF Looks, LooksLikeReturnAddress

\* The words of a stack, where those that look like code have moved.
MovedWords(b, d, words) ==
    [i \in DOMAIN words |-> IF Looks(b, words[i]) THEN words[i] + d ELSE words[i]]

\* The return addresses are the same words, unless data looks like the rebuild's code.
LEMMA MovedSelection ==
    ASSUME NEW b \in Rows, IsUsable(b), NEW d \in Nat, d % 2 = 0, NEW words \in Seq(Nat),
           \A w \in ToSet(words) : ~Looks(b, w) => ~Looks(Rebuilt(b, d), w)
    PROVE  LET moved == MovedWords(b, d, words)
               S == Select(words, ReturnAddresses(words, b))
           IN  Select(moved, ReturnAddresses(moved, Rebuilt(b, d))) = [k \in 1..Len(S) |-> S[k] + d]
<1> DEFINE there == Rebuilt(b, d)
           moved == MovedWords(b, d, words)
           A == ReturnAddresses(words, b)
           B == ReturnAddresses(moved, there)
           S == Select(words, A)
           T == Select(moved, B)
           L == Len(words)
           I == {i \in 1..L : words[i] \in A}
           at == Chosen(L, I)
<1>1. L \in Nat /\ DOMAIN words = 1..L /\ \A i \in 1..L : words[i] \in Nat /\ words[i] \in ToSet(words)
  BY SeqElements DEF ToSet
<1>2. moved = [i \in 1..L |-> IF Looks(b, words[i]) THEN words[i] + d ELSE words[i]]
  BY <1>1 DEF MovedWords
<1>3. moved \in Seq(Nat) /\ Len(moved) = L /\ DOMAIN moved = 1..L
  <2>1. \A i \in 1..L : moved[i] \in Nat
    BY <1>1, <1>2
  <2>2. moved \in [1..L -> Nat]
    BY <1>2, <2>1
  <2> HIDE DEF moved, L
  <2> QED
    BY <1>1, <2>2
<1>4. \A w : w \in A <=> w \in ToSet(words) /\ Looks(b, w)
  BY DEF ReturnAddresses, Looks
<1>5. \A w : w \in B <=> w \in ToSet(moved) /\ Looks(there, w)
  BY DEF ReturnAddresses, Looks
<1> HIDE DEF moved, A, B, L, there
<1>6. ASSUME NEW i \in 1..L
      PROVE  /\ words[i] \in A <=> moved[i] \in B
             /\ words[i] \in A => moved[i] = words[i] + d
  <2>1. moved[i] \in ToSet(moved) /\ words[i] \in ToSet(words) /\ words[i] \in Nat
    BY <1>1, <1>3 DEF ToSet
  <2>2. CASE Looks(b, words[i])
    <3> DEFINE w == words[i]
    <3>1. moved[i] = w + d
      BY <1>2, <2>2
    <3>2. w \in Nat /\ Looks(b, w)
      BY <2>1, <2>2
    <3> HIDE DEF w
    <3>3. Looks(there, w + d)
      BY <3>2, MovedWord DEF there
    <3> QED
      BY <1>4, <1>5, <2>1, <2>2, <3>1, <3>3 DEF w
  <2>3. CASE ~Looks(b, words[i])
    <3>1. moved[i] = words[i]
      BY <1>2, <2>3
    <3>2. ~Looks(there, words[i])
      BY <2>1, <2>3 DEF there
    <3> QED
      BY <1>4, <1>5, <2>3, <3>1, <3>2
  <2> QED
    BY <2>2, <2>3
<1>7. {i \in 1..Len(moved) : moved[i] \in B} = I
  BY <1>3, <1>6
<1>8. Picks(words, A) = at /\ Picks(moved, B) = at
  BY <1>3, <1>7 DEF Picks, L
<1> HIDE DEF at, I, S, T
<1>9. S \in Seq(Nat) /\ IsSelection(S, words, A, at)
  BY <1>8, SelectPicks DEF S
<1>10. T \in Seq(Nat) /\ IsSelection(T, moved, B, at)
  BY <1>3, <1>8, SelectPicks DEF T
<1>11. /\ at \in Seq(1..L) /\ (\A k \in 1..Len(at) : at[k] \in I)
       /\ Len(S) = Len(at) /\ \A k \in 1..Len(at) : S[k] = words[at[k]]
  BY <1>9 DEF IsSelection, InOrder, I, L
<1>12. Len(T) = Len(at) /\ \A k \in 1..Len(at) : T[k] = moved[at[k]]
  BY <1>10 DEF IsSelection
<1>13. DOMAIN T = 1..Len(T) /\ Len(T) \in Nat
  BY <1>10, SeqElements
<1>14. \A k \in 1..Len(at) : T[k] = S[k] + d
  <2>1. \A i \in I : moved[i] = words[i] + d
    BY <1>6 DEF I
  <2> TAKE k \in 1..Len(at)
  <2> DEFINE i == at[k]
  <2>2. i \in I /\ S[k] = words[i] /\ T[k] = moved[i]
    BY <1>11, <1>12
  <2> HIDE DEF i
  <2> QED
    BY <2>1, <2>2
<1>15. T = [k \in 1..Len(T) |-> T[k]]
  BY <1>10, <1>13
<1>16. T = [k \in 1..Len(S) |-> S[k] + d]
  BY <1>11, <1>12, <1>14, <1>15
<1> QED
  BY <1>16 DEF T, S, A, B, moved, there

-----------------------------------------------------------------------------
(* The chain of a crash in a rebuild.                                      *)

Shifted(s, d) == [i \in 1..Len(s) |-> [address |-> s[i].address + d, origin |-> s[i].origin]]

LEMMA ShiftedConcat ==
    ASSUME NEW x \in Seq(Addressed), NEW y \in Seq(Addressed), NEW d \in Int
    PROVE  Shifted(x \o y, d) = Shifted(x, d) \o Shifted(y, d)
<1> DEFINE M(f) == [address |-> f.address + d, origin |-> f.origin]
           Z == {M(f) : f \in Addressed}
           xy == x \o y
           s == Shifted(x, d)
           t == Shifted(y, d)
<1>1. xy \in Seq(Addressed) /\ Len(xy) = Len(x) + Len(y)
      /\ \A i \in 1..Len(x) + Len(y) : xy[i] = IF i <= Len(x) THEN x[i] ELSE y[i - Len(x)]
  BY ConcatProperties
<1>2. ASSUME NEW z \in Seq(Addressed)
      PROVE  /\ Shifted(z, d) \in Seq(Z) /\ Len(Shifted(z, d)) = Len(z) /\ Len(z) \in Nat
             /\ Shifted(z, d) = [i \in 1..Len(z) |-> M(z[i])]
  <2>1. Len(z) \in Nat /\ \A i \in 1..Len(z) : z[i] \in Addressed
    BY SeqElements
  <2>2. Shifted(z, d) = [i \in 1..Len(z) |-> M(z[i])]
    BY DEF Shifted
  <2>3. \A i \in 1..Len(z) : M(z[i]) \in Z
    BY <2>1
  <2> HIDE DEF Z, M
  <2> QED
    BY <2>1, <2>2, <2>3
<1> HIDE DEF M, Z
<1>3. s \in Seq(Z) /\ t \in Seq(Z) /\ Len(s) = Len(x) /\ Len(t) = Len(y)
      /\ Len(x) \in Nat /\ Len(y) \in Nat
      /\ s = [i \in 1..Len(x) |-> M(x[i])] /\ t = [i \in 1..Len(y) |-> M(y[i])]
  BY <1>2
<1>4. Shifted(xy, d) = [i \in 1..Len(x) + Len(y) |-> M(xy[i])]
  BY <1>1, <1>2
<1> HIDE DEF xy, s, t
<1>5. s \o t \in Seq(Z) /\ Len(s \o t) = Len(x) + Len(y)
      /\ \A i \in 1..Len(x) + Len(y) : (s \o t)[i] = IF i <= Len(x) THEN s[i] ELSE t[i - Len(x)]
  BY <1>3, ConcatProperties
<1>6. ASSUME NEW i \in 1..Len(x) + Len(y) PROVE (s \o t)[i] = M(xy[i])
  <2>1. CASE i <= Len(x)
    <3>1. i \in 1..Len(x)
      BY <1>3, <2>1
    <3> QED
      BY <1>1, <1>3, <1>5, <2>1, <3>1
  <2>2. CASE ~(i <= Len(x))
    <3>1. i - Len(x) \in 1..Len(y)
      BY <1>3, <2>2
    <3> QED
      BY <1>1, <1>3, <1>5, <2>2, <3>1
  <2> QED
    BY <2>1, <2>2
<1>7. s \o t = [i \in 1..Len(x) + Len(y) |-> (s \o t)[i]]
  <2> DEFINE st == s \o t
             n == Len(x) + Len(y)
  <2>1. st \in Seq(Z) /\ Len(st) = n
    BY <1>5
  <2> HIDE DEF st, n
  <2>2. st = [i \in 1..n |-> st[i]]
    BY <2>1
  <2> QED
    BY <2>2 DEF st, n
<1>8. Shifted(xy, d) = s \o t
  BY <1>4, <1>6, <1>7
<1> QED
  BY <1>8 DEF xy, s, t

\* What of a report leads to frames, and where it is in the rebuild.
IsMoved(r, q, b, d) ==
    /\ q.pc = IF r.pc = None THEN None ELSE r.pc + d
    /\ q.lr = IF r.lr = None THEN None ELSE r.lr + d
    /\ q.words = MovedWords(b, d, r.words)

LEMMA MovedHead ==
    ASSUME NEW b, NEW d \in Nat, NEW r, AddressesIn(Nat, r), NEW q, IsMoved(r, q, b, d)
    PROVE  /\ HeadOf(r) \in Seq(Addressed) /\ HeadOf(q) = Shifted(HeadOf(r), d)
           /\ {q.pc, q.lr} \subseteq Int \cup {None}
<1> DEFINE One(a, o) == <<[address |-> a, origin |-> o]>>
           Part(a, o) == IF a = None THEN <<>> ELSE One(a, o)
           pc == r.pc
           lr == r.lr
<1>1. pc \in Nat \cup {None} /\ lr \in Nat \cup {None} /\ None \notin Int
  BY AnalysisConstants DEF AddressesIn
<1>2. ASSUME NEW a \in Nat, NEW o \in {"pc", "lr"}
      PROVE  One(a, o) \in Seq(Addressed) /\ Shifted(One(a, o), d) = One(a + d, o)
  <2> DEFINE e == [address |-> a, origin |-> o]
             m == [address |-> a + d, origin |-> o]
  <2>1. e \in Addressed /\ e.address = a /\ e.origin = o
    BY DEF Addressed, AddressedIn
  <2> HIDE DEF e
  <2>2. <<e>> \in Seq(Addressed) /\ Len(<<e>>) = 1 /\ <<e>>[1] = e
    BY <2>1
  <2>3. Shifted(<<e>>, d) = [i \in 1..1 |-> m]
    BY <2>1, <2>2 DEF Shifted
  <2> HIDE DEF m
  <2>4. [i \in 1..1 |-> m] = <<m>>
    OBVIOUS
  <2> QED
    BY <2>2, <2>3, <2>4 DEF e, m
<1>3. <<>> \in Seq(Addressed) /\ Shifted(<<>>, d) = <<>>
  BY DEF Shifted
<1> HIDE DEF One
<1>4. ASSUME NEW a \in Nat \cup {None}, NEW o \in {"pc", "lr"}
      PROVE  /\ Part(a, o) \in Seq(Addressed)
             /\ Part(IF a = None THEN None ELSE a + d, o) = Shifted(Part(a, o), d)
  <2>1. CASE a = None
    BY <1>3, <2>1
  <2>2. CASE a # None
    <3>1. a \in Nat /\ a + d # None
      BY <1>1, <2>2
    <3> QED
      BY <1>2, <2>2, <3>1
  <2> QED
    BY <2>1, <2>2
<1>5. /\ HeadOf(r) = Part(pc, "pc") \o Part(lr, "lr")
      /\ HeadOf(q) = Part(q.pc, "pc") \o Part(q.lr, "lr")
  BY DEF HeadOf, One
<1>6. q.pc = (IF pc = None THEN None ELSE pc + d) /\ q.lr = (IF lr = None THEN None ELSE lr + d)
  BY DEF IsMoved
<1> HIDE DEF Part, pc, lr
<1>7. HeadOf(q) = Shifted(Part(pc, "pc"), d) \o Shifted(Part(lr, "lr"), d)
  BY <1>1, <1>4, <1>5, <1>6
<1>8. Part(pc, "pc") \in Seq(Addressed) /\ Part(lr, "lr") \in Seq(Addressed)
  BY <1>1, <1>4
<1>9. HeadOf(r) \in Seq(Addressed)
  BY <1>5, <1>8, ConcatProperties
<1>10. HeadOf(q) = Shifted(HeadOf(r), d)
  <2> DEFINE x == Part(pc, "pc")
             y == Part(lr, "lr")
  <2>1. x \in Seq(Addressed) /\ y \in Seq(Addressed) /\ d \in Int
    BY <1>8
  <2>2. HeadOf(r) = x \o y /\ HeadOf(q) = Shifted(x, d) \o Shifted(y, d)
    BY <1>5, <1>7
  <2> HIDE DEF x, y
  <2>3. Shifted(x \o y, d) = Shifted(x, d) \o Shifted(y, d)
    BY <2>1, ShiftedConcat
  <2> QED
    BY <2>2, <2>3
<1>11. {q.pc, q.lr} \subseteq Int \cup {None}
  BY <1>1, <1>6
<1> QED
  BY <1>9, <1>10, <1>11

\* All of a crash's addresses move with its build.
LEMMA MovedAll ==
    ASSUME NEW b \in Rows, IsUsable(b), NEW d \in Nat, d % 2 = 0,
           NEW r, AddressesIn(Nat, r), NEW q, IsMoved(r, q, b, d),
           \A w \in ToSet(r.words) : ~Looks(b, w) => ~Looks(Rebuilt(b, d), w)
    PROVE  AddressesIn(Int, q) /\ AllOf(q, Rebuilt(b, d)) = Shifted(AllOf(r, b), d)
<1> DEFINE there == Rebuilt(b, d)
           words == r.words
           S == Select(words, ReturnAddresses(words, b))
           T == Select(q.words, ReturnAddresses(q.words, there))
<1>1. words \in Seq(Nat) /\ q.words = MovedWords(b, d, words)
  BY DEF AddressesIn, IsMoved
<1>2. T = [k \in 1..Len(S) |-> S[k] + d]
  <2>1. words \in Seq(Nat) /\ \A w \in ToSet(words) : ~Looks(b, w) => ~Looks(there, w)
    BY <1>1
  <2> HIDE DEF words
  <2> DEFINE moved == MovedWords(b, d, words)
             M == Select(moved, ReturnAddresses(moved, there))
  <2>2. M = [k \in 1..Len(S) |-> S[k] + d]
    BY <2>1, MovedSelection, Zenon
  <2>3. T = M
    BY <1>1
  <2> QED
    BY <2>2, <2>3, Zenon
<1>3. S \in Seq(Nat)
  BY <1>1, SelectFacts
<1>4. AllOf(r, b) = HeadOf(r) \o OnStack(S) /\ AllOf(q, there) = HeadOf(q) \o OnStack(T)
  BY DEF AllOf
<1>5. q.words \in Seq(Int)
  <2>1. Len(words) \in Nat /\ DOMAIN words = 1..Len(words) /\ \A i \in 1..Len(words) : words[i] \in Nat
    BY <1>1, SeqElements
  <2> DEFINE L == Len(words)
  <2>2. q.words = [i \in 1..L |-> IF Looks(b, words[i]) THEN words[i] + d ELSE words[i]]
    BY <1>1, <2>1 DEF MovedWords
  <2>3. \A i \in 1..L : (IF Looks(b, words[i]) THEN words[i] + d ELSE words[i]) \in Int
    BY <2>1
  <2> HIDE DEF L, words
  <2>4. q.words \in [1..L -> Int]
    BY <2>2, <2>3
  <2> QED
    BY <2>1, <2>4 DEF L
<1> HIDE DEF S, T, there, words
<1>6. Len(S) \in Nat /\ DOMAIN S = 1..Len(S) /\ \A k \in 1..Len(S) : S[k] \in Nat
  BY <1>3, SeqElements
<1>7. /\ OnStack(S) = [k \in 1..Len(S) |-> [address |-> S[k], origin |-> "stack"]]
      /\ OnStack(T) = [k \in 1..Len(S) |-> [address |-> S[k] + d, origin |-> "stack"]]
  BY <1>2, <1>6 DEF OnStack
<1>8. OnStack(S) \in Seq(Addressed) /\ OnStack(T) = Shifted(OnStack(S), d)
  <2> DEFINE n == Len(S)
             s == OnStack(S)
  <2>1. \A k \in 1..n : [address |-> S[k], origin |-> "stack"] \in Addressed
    BY <1>6 DEF Addressed, AddressedIn
  <2>2. s \in [1..n -> Addressed] /\ \A k \in 1..n : s[k] = [address |-> S[k], origin |-> "stack"]
    BY <1>7, <2>1
  <2>3. n \in Nat
    BY <1>6
  <2> HIDE DEF n, s
  <2>4. s \in Seq(Addressed) /\ Len(s) = n
    BY <2>2, <2>3
  <2>5. \A k \in 1..n : s[k].address = S[k] /\ s[k].origin = "stack"
    BY <2>2
  <2>6. Shifted(s, d) = [k \in 1..n |-> [address |-> S[k] + d, origin |-> "stack"]]
    BY <2>4, <2>5 DEF Shifted
  <2> QED
    BY <1>7, <2>4, <2>6 DEF n, s
<1>9. HeadOf(r) \in Seq(Addressed) /\ HeadOf(q) = Shifted(HeadOf(r), d)
      /\ {q.pc, q.lr} \subseteq Int \cup {None}
  BY MovedHead
<1>10. AllOf(q, there) = Shifted(AllOf(r, b), d)
  <2> DEFINE x == HeadOf(r)
             y == OnStack(S)
  <2>1. x \in Seq(Addressed) /\ y \in Seq(Addressed) /\ d \in Int
    BY <1>8, <1>9
  <2>2. AllOf(r, b) = x \o y /\ AllOf(q, there) = Shifted(x, d) \o Shifted(y, d)
    BY <1>4, <1>8, <1>9
  <2> HIDE DEF x, y
  <2>3. Shifted(x \o y, d) = Shifted(x, d) \o Shifted(y, d)
    BY <2>1, ShiftedConcat
  <2> QED
    BY <2>2, <2>3
<1> QED
  BY <1>5, <1>9, <1>10 DEF AddressesIn, there

-----------------------------------------------------------------------------
(* The signature of a crash in a rebuild.                                  *)

\* The changes of the even address are at the same places.
LEMMA ShiftedChanges ==
    ASSUME NEW all \in Seq(Addressed), NEW d \in Nat, d % 2 = 0
    PROVE  Len(Shifted(all, d)) = Len(all) /\ Changes(Shifted(all, d)) = Changes(all)
<1> DEFINE L == Len(all)
           moved == Shifted(all, d)
<1>1. L \in Nat /\ DOMAIN all = 1..L /\ \A i \in 1..L : all[i] \in Addressed
  BY SeqElements
<1>2. \A i \in 1..L : all[i].address \in Int
  BY <1>1 DEF Addressed, AddressedIn
<1>3. DOMAIN moved = 1..L /\ \A i \in 1..L : moved[i].address = all[i].address + d
  BY DEF Shifted
<1>4. Len(moved) = L
  <2>1. moved = [i \in 1..L |-> [address |-> all[i].address + d, origin |-> all[i].origin]]
    BY DEF Shifted
  <2>2. \A n \in Nat : \A f : f = [i \in 1..n |-> [address |-> all[i].address + d,
                                                   origin |-> all[i].origin]] => Len(f) = n
    OBVIOUS
  <2> HIDE DEF L, moved
  <2> QED
    BY <1>1, <2>1, <2>2
<1> HIDE DEF moved, L
<1>5. ASSUME NEW i \in 1..L PROVE EvenAt(moved, i) = EvenAt(all, i) + d /\ EvenAt(all, i) \in Int
  <2> DEFINE a == all[i].address
  <2>1. a \in Int /\ moved[i].address = a + d /\ d \in Int
    BY <1>2, <1>3
  <2> HIDE DEF a
  <2>2. 2 * ((a + d) \div 2) = 2 * (a \div 2) + d /\ 2 * (a \div 2) \in Int
    BY <2>1
  <2> QED
    BY <2>1, <2>2 DEF EvenAt, a
<1>6. \A i \in 1..L : i = 1 \/ i - 1 \in 1..L
  BY <1>1
<1>7. \A i \in 1..L : i \in Changes(moved) <=> i \in Changes(all)
  <2> SUFFICES ASSUME NEW i \in 1..L PROVE i \in Changes(moved) <=> i \in Changes(all)
    OBVIOUS
  <2>1. i \in Changes(moved) <=> i = 1 \/ EvenAt(moved, i) # EvenAt(moved, i - 1)
    BY <1>3 DEF Changes
  <2>2. i \in Changes(all) <=> i = 1 \/ EvenAt(all, i) # EvenAt(all, i - 1)
    BY <1>1 DEF Changes
  <2>3. CASE i = 1
    BY <2>1, <2>2, <2>3
  <2>4. CASE i # 1
    <3> DEFINE e == EvenAt(all, i)
               f == EvenAt(all, i - 1)
    <3>1. i - 1 \in 1..L
      BY <1>6, <2>4
    <3>2. EvenAt(moved, i) = e + d /\ e \in Int
      BY <1>5
    <3>3. EvenAt(moved, i - 1) = f + d /\ f \in Int
      BY <1>5, <3>1
    <3> HIDE DEF e, f
    <3>4. e + d # f + d <=> e # f
      BY <3>2, <3>3
    <3> QED
      BY <2>1, <2>2, <2>4, <3>2, <3>3, <3>4 DEF e, f
  <2> QED
    BY <2>3, <2>4
<1>8. Changes(moved) \subseteq 1..L /\ Changes(all) \subseteq 1..L
  BY <1>1, <1>3 DEF Changes
<1> QED
  BY <1>4, <1>7, <1>8 DEF moved, L

\* The frame of an address is a frame of the same function where the address has moved to.
LEMMA MovedFrame ==
    ASSUME NEW b \in Rows, IsUsable(b), NEW d \in Nat, d % 2 = 0,
           NEW one, AreSymbols(one), NEW other,
           other = [k \in DOMAIN one |-> MovedSymbol(one[k], d)],
           NEW a \in Int, NEW origin
    PROVE  SameFunction(Resolve(b, one, a, origin), Resolve(Rebuilt(b, d), other, a + d, origin))
<1> DEFINE clean == CleanAddress(b, a)
           there == Rebuilt(b, d)
           s == LookupSymbol(clean, one)
           t == LookupSymbol(clean + d, other)
           f == Resolve(b, one, a, origin)
           g == Resolve(there, other, a + d, origin)
<1>1. clean \in Int
  BY ResolveFacts
<1>2. CleanAddress(there, a + d) = clean + d
  <2>1. there.arch = b.arch
    BY RebuiltFacts
  <2>2. NormalizeThumb(a + d) = NormalizeThumb(a) + d
    <3>1. d \in Int
      OBVIOUS
    <3> QED
      BY <3>1, EvenShift, Zenon
  <2> HIDE DEF there
  <2> QED
    BY <2>1, <2>2 DEF CleanAddress
<1>3. t = IF s = None THEN None ELSE MovedSymbol(s, d)
  <2> HIDE DEF clean
  <2> QED
    BY <1>1, MovedLookup
<1>4. s # None => IsSymbol(s)
  <2>1. s # None => \E k \in DOMAIN one : s = one[k]
    <3> HIDE DEF clean
    <3> QED
      BY <1>1, LookupFacts
  <2> QED
    BY <2>1 DEF AreSymbols
<1>5. f = IF s = None THEN Unresolved(clean, origin)
          ELSE [address |-> clean, origin |-> origin, function |-> s.name,
                offset |-> clean - s.address, at |-> ResolveLine(b, clean)]
  BY DEF Resolve
<1>6. g = IF t = None THEN Unresolved(clean + d, origin)
          ELSE [address |-> clean + d, origin |-> origin, function |-> t.name,
                offset |-> (clean + d) - t.address, at |-> ResolveLine(there, clean + d)]
  <2> DEFINE c == CleanAddress(there, a + d)
             u == LookupSymbol(c, other)
  <2>1. g = IF u = None THEN Unresolved(c, origin)
            ELSE [address |-> c, origin |-> origin, function |-> u.name,
                  offset |-> c - u.address, at |-> ResolveLine(there, c)]
    BY DEF Resolve
  <2>2. c = clean + d
    BY <1>2
  <2> HIDE DEF c, clean, g
  <2>3. u = t
    BY <2>2
  <2> HIDE DEF u, t
  <2> QED
    BY <2>1, <2>2, <2>3
<1> HIDE DEF f, g, s, t, clean, there
<1>7. ASSUME s = None PROVE SameFunction(f, g)
  BY <1>3, <1>5, <1>6, <1>7 DEF SameFunction, Unresolved
<1>8. ASSUME s # None PROVE SameFunction(f, g)
  <2>1. IsSymbol(s) /\ t = MovedSymbol(s, d)
    BY <1>3, <1>4, <1>8
  <2>2. IsSymbol(t) /\ t.name = CloneOf(s.name)
    BY <2>1, MovedSymbolFacts
  <2>3. s.name # None /\ t # None /\ t.name # None
    BY <2>1, <2>2, SymbolIsNotNone
  <2>4. NormalizeFunctionName(CloneOf(s.name)) = NormalizeFunctionName(s.name)
    BY <2>1, CloneFacts DEF IsSymbol
  <2>5. f.function = s.name /\ g.function = t.name
    BY <1>5, <1>6, <1>8, <2>3
  <2> QED
    BY <2>2, <2>3, <2>4, <2>5 DEF SameFunction
<1>9. SameFunction(f, g)
  BY <1>7, <1>8
<1> QED
  BY <1>9 DEF f, g, there

\* Moved code has the names it had.
LEMMA MovedNames ==
    ASSUME NEW b \in Rows, IsUsable(b), b # None, NEW d \in Nat, d % 2 = 0, Rebuilt(b, d) # None,
           NEW one, AreSymbols(one), NEW other,
           other = [k \in DOMAIN one |-> MovedSymbol(one[k], d)],
           NEW r, AddressesIn(Nat, r), AddressesIn(Int, r), NEW q, IsMoved(r, q, b, d),
           \A w \in ToSet(r.words) : ~Looks(b, w) => ~Looks(Rebuilt(b, d), w)
    PROVE  NamesOf(TraceOf(b, one, r).frames) = NamesOf(TraceOf(Rebuilt(b, d), other, q).frames)
<1> DEFINE there == Rebuilt(b, d)
           all == AllOf(r, b)
           moved == Shifted(all, d)
           F == TraceOf(b, one, r).frames
           G == TraceOf(there, other, q).frames
           at == Chosen(Len(all), Changes(all))
<1>1. IsChain(b, one, all, F)
  BY TracesAreChains
<1>2. AddressesIn(Int, q) /\ AllOf(q, there) = moved
  BY MovedAll
<1>3. IsChain(there, other, AllOf(q, there), G)
  <2> HIDE DEF moved, all
  <2> QED
    BY <1>2, TracesAreChains
<1>4. all \in Seq(Addressed) /\ Len(all) \in Nat
  BY AllAddressed DEF Addressed
<1> HIDE DEF F, G, all, there
<1>5. Len(moved) = Len(all) /\ Changes(moved) = Changes(all)
  BY <1>4, ShiftedChanges
<1>6. \A i \in 1..Len(all) : moved[i].address = all[i].address + d /\ moved[i].origin = all[i].origin
  BY DEF Shifted
<1> HIDE DEF moved
<1>7. InOrder(Len(all), Changes(all), at)
  BY <1>4, ChosenInOrder
<1>8. /\ IsList(F) /\ Len(F) \in Nat
      /\ Len(F) <= Len(at) /\ Len(F) <= MaxFrames /\ (Len(F) < MaxFrames => Len(F) = Len(at))
      /\ \A k \in 1..Len(F) : F[k] = FrameAt(b, one, all, at[k])
  BY <1>1 DEF IsChain
<1>9. /\ IsList(G) /\ Len(G) \in Nat
      /\ Len(G) <= Len(at) /\ Len(G) <= MaxFrames /\ (Len(G) < MaxFrames => Len(G) = Len(at))
      /\ \A k \in 1..Len(G) : G[k] = FrameAt(there, other, moved, at[k])
  <2>1. IsChain(there, other, moved, G)
    BY <1>2, <1>3
  <2> QED
    BY <1>5, <2>1 DEF IsChain
<1> HIDE DEF at
<1>10. Len(at) \in Nat /\ \A k \in 1..Len(at) : at[k] \in 1..Len(all)
  BY <1>7, SeqElements DEF InOrder
<1>11. Len(F) = Len(G)
  BY <1>8, <1>9, <1>10, SameCut
<1>12. ASSUME NEW k \in 1..Len(F) PROVE SameFunction(F[k], G[k])
  <2> DEFINE i == at[k]
             a == all[i].address
             origin == all[i].origin
  <2>1. i \in 1..Len(all)
    BY <1>8, <1>10
  <2>2. all[i] \in Addressed
    BY <1>4, <2>1
  <2>3. a \in Int
    BY <2>2 DEF Addressed, AddressedIn
  <2>4. F[k] = Resolve(b, one, a, origin)
    BY <1>8 DEF FrameAt
  <2>5. G[k] = Resolve(there, other, a + d, origin)
    <3>1. G[k] = Resolve(there, other, moved[i].address, moved[i].origin)
      BY <1>9, <1>11 DEF FrameAt
    <3> QED
      BY <1>6, <2>1, <3>1
  <2> HIDE DEF a, origin, i
  <2> QED
    BY <2>3, <2>4, <2>5, MovedFrame DEF there
<1>13. NamesOf(F) = NamesOf(G)
  BY <1>8, <1>11, <1>9, <1>12, NamesOfFunctions
<1> QED
  BY <1>13 DEF F, G, there

\* A rebuild moves the code by an even distance upwards, and is a build.
Relinks == \A d \in Shifts : d \in Nat /\ d % 2 = 0 /\ \A b \in Rows : Rebuilt(b, d) # None

LEMMA MovedReport ==
    ASSUME NEW p \in Payloads, NEW b, NEW d
    PROVE  LET r == Parse(p)
               q == Moved(r, b, d)
           IN  IsMoved(r, q, b, d) /\ q.fault_type = r.fault_type /\ q.task_name = r.task_name
<1> DEFINE r == Parse(p)
           q == Moved(r, b, d)
           Add(a) == IF a = None THEN None ELSE a + d
<1>1. {"pc", "lr", "firmware_version", "words", "fault_type", "task_name"} \subseteq DOMAIN r
  BY DEF Parse
<1> HIDE DEF r
<1>2. q = [r EXCEPT !.pc = Add(r.pc), !.lr = Add(r.lr), !.firmware_version = "rebuilt",
                    !.words = MovedWords(b, d, r.words)]
  BY DEF Moved, MovedWords, Looks
<1>3. \A pc, lr, words : LET m == [r EXCEPT !.pc = pc, !.lr = lr, !.firmware_version = "rebuilt",
                                            !.words = words]
                         IN  /\ m.pc = pc /\ m.lr = lr /\ m.words = words
                             /\ m.fault_type = r.fault_type /\ m.task_name = r.task_name
  BY <1>1
<1> HIDE DEF q
<1>4. /\ q.pc = Add(r.pc) /\ q.lr = Add(r.lr) /\ q.words = MovedWords(b, d, r.words)
      /\ q.fault_type = r.fault_type /\ q.task_name = r.task_name
  BY <1>2, <1>3
<1> QED
  BY <1>4 DEF IsMoved, q, r

\* The rows of the rebuild may come in the order in which those of the build did.
LEMMA MovedArrangement ==
    ASSUME NEW b \in Rows, NEW d, NEW one \in Arrangements(b.symbols)
    PROVE  [k \in DOMAIN one |-> MovedSymbol(one[k], d)] \in Arrangements(Rebuilt(b, d).symbols)
<1> DEFINE base == b.symbols
           moved == Rebuilt(b, d).symbols
           other == [k \in DOMAIN one |-> MovedSymbol(one[k], d)]
<1>1. moved = [k \in DOMAIN base |-> MovedSymbol(base[k], d)]
  BY RebuiltFacts
<1>2. PICK p \in Surjection(DOMAIN base, DOMAIN base) : one = [i \in DOMAIN base |-> base[p[i]]]
  BY DEF Arrangements
<1>3. \A i \in DOMAIN base : p[i] \in DOMAIN base
  BY DEF Surjection
<1> HIDE DEF base, moved
<1>4. DOMAIN moved = DOMAIN base /\ \A k \in DOMAIN base : moved[k] = MovedSymbol(base[k], d)
  BY <1>1
<1>5. other = [i \in DOMAIN base |-> moved[p[i]]]
  BY <1>2, <1>3, <1>4
<1> HIDE DEF other
<1>6. other \in Arrangements(moved)
  BY <1>4, <1>5 DEF Arrangements
<1> QED
  BY <1>6 DEF other, moved

\* Addresses move with every build, names do not: a crash that resolved has the signature of
\* the same crash in a rebuild at other addresses, whatever the program, the crash and the
\* distance, as long as no data of its stack looks like the rebuild's code.
THEOREM SignaturesSurvive == ASSUME Relinks PROVE Spec => []SameBugSameSignature
<1>1. IInv => SameBugSameSignature
  <2> SUFFICES ASSUME IInv, Symbolicated, trace.result.top # None, NEW d \in Shifts,
                      {w \in ToSet(report.words) :
                        /\ ~LooksLikeReturnAddress(w, ExecutableRanges(trace.from))
                        /\ LooksLikeReturnAddress(w, ExecutableRanges(Rebuilt(trace.from, d)))} = {}
               PROVE  \E symbols \in Arrangements(Rebuilt(trace.from, d).symbols) :
                          TraceOf(Rebuilt(trace.from, d), symbols,
                                  Moved(report, trace.from, d)).signature
                            = trace.result.signature
    BY DEF SameBugSameSignature
  <2> DEFINE b == trace.from
             r == report
             there == Rebuilt(b, d)
             q == Moved(r, b, d)
  <2>1. payload \in Payloads /\ r = Parse(payload) /\ b \in Rows /\ IsUsable(b) /\ b # None
    BY TraceIsChain DEF Symbolicated
  <2>2. PICK one \in Arrangements(b.symbols) : trace.result = TraceOf(b, one, r)
    BY TraceIsChain
  <2>3. d \in Nat /\ d % 2 = 0 /\ there # None
    BY <2>1 DEF Relinks
  <2>4. \A w \in ToSet(r.words) : ~Looks(b, w) => ~Looks(there, w)
    BY DEF Looks
  <2> DEFINE other == [k \in DOMAIN one |-> MovedSymbol(one[k], d)]
  <2>5. AreSymbols(one)
    BY <2>1, UsableSymbols, ArrangedSymbols
  <2>6. other \in Arrangements(there.symbols)
    BY <2>1, MovedArrangement
  <2>7. IsMoved(r, q, b, d) /\ q.fault_type = r.fault_type /\ q.task_name = r.task_name
    BY <2>1, MovedReport
  <2>8. AddressesIn(Nat, r) /\ AddressesIn(Int, r)
    BY <2>1, ParsedAddresses
  <2> DEFINE F == TraceOf(b, one, r).frames
             G == TraceOf(there, other, q).frames
  <2> HIDE DEF q, r, b
  <2>9. NamesOf(F) = NamesOf(G)
    BY <2>1, <2>3, <2>4, <2>5, <2>7, <2>8, MovedNames
  <2>10. /\ TraceOf(b, one, r).top = TopFunction(F)
         /\ TraceOf(b, one, r).signature = SignatureOf(r, F)
         /\ TraceOf(there, other, q).signature = SignatureOf(q, G)
    BY DEF TraceOf
  <2> HIDE DEF F, G, there, other
  <2>11. NamesOf(F) # <<>>
    BY <2>2, <2>10 DEF TopFunction
  <2>12. SignatureOf(q, G) = SignatureOf(r, F)
    BY <2>7, <2>9, <2>11 DEF SignatureOf
  <2>13. TraceOf(there, other, q).signature = trace.result.signature
    BY <2>2, <2>10, <2>12
  <2> QED
    BY <2>6, <2>13 DEF q, r, b, there
<1> QED
  BY <1>1, Invariant, PTL
=============================================================================
