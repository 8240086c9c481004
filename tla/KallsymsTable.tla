--------------------------- MODULE KallsymsTable ---------------------------
(***************************************************************************)
(* The tables of the kernel's symbols as the build makes them:             *)
(* scripts/kallsyms.c reads the output of `nm -n', drops what is not code  *)
(* of the kernel, compresses the names and writes the tables; the kernel   *)
(* is linked again with them, which moves what lies behind them, and the   *)
(* tables are made a second time from the result.                          *)
(*                                                                         *)
(* The options --absolute-percpu and --symbol-prefix are left out: the     *)
(* Makefile passes neither.                                                *)
(***************************************************************************)
EXTENDS Kallsyms, TLC

CONSTANTS
    Top,                \* the last code: 255
    Maps,               \* sequences of [addr, type, name, moves]: what nm may print
    Ranges,             \* [start_sym, end_sym]: the names of text_ranges
    TextStart, TextEnd, \* the names kernel_text_start and kernel_text_end
    Generated,          \* the names of the tables, and others that symbol_valid excludes
    At1,                \* the address where they are linked in
    Provided,           \* names like those that a linker script provides
    KeptAbsolutes,
    Absolute, Undefined, Debug, Weak,   \* types
    ReadOnly,           \* the type of the tables
    Dollar, Underscore,                 \* characters
    kernel_start_addr

VARIABLES
    map,                \* the lines of nm
    pass,               \* 1, then 2
    phase,              \* "read", "sort", "build", "optimize", "write" or "done"
    ranges,             \* text_ranges
    table,              \* [addr, sym, start_pos]
    best_table, token_profit,
    slot,               \* the next code that may become a token
    first               \* history: the tables of the first pass

ends == <<kernel_text, etext, inittext>>
table_vars == <<table, best_table, token_profit, slot>>
vars == <<data, all_symbols, ends, map, pass, phase, ranges, table_vars, first>>

Codes == 0 .. Top
Pairs == Codes \X Codes

-----------------------------------------------------------------------------
\* read_symbol: kernel_text_start and the symbols that mark a range are kept whatever their
\* type; a name may have NameLen characters.
RangeMarkers == UNION {{Ranges[r].start_sym, Ranges[r].end_sym} : r \in DOMAIN Ranges}

Kept(line) ==
    /\ Len(line.name) <= NameLen
    /\ \/ line.name \in RangeMarkers \cup {TextStart}
       \/ line.type \in Absolute /\ line.name \in KeptAbsolutes
       \/ line.type \notin Absolute \cup Undefined \cup Debug /\ Head(line.name) # Dollar

\* check_symbol_range, and kernel_text_start in read_symbol: the address of the last line
\* with that name, or zero.
AddressOf(name) ==
    LET lines == {i \in DOMAIN map : Len(map[i].name) <= NameLen /\ map[i].name = name}
    IN  IF lines = {} THEN 0 ELSE map[Max(lines)].addr

Lines == SelectSeq(map, Kept)
Sym(line) == <<line.type>> \o line.name

read_map ==
    /\ phase = "read" /\ phase' = "sort"
    /\ ranges' = [r \in DOMAIN Ranges |-> [start |-> AddressOf(Ranges[r].start_sym),
                                           end |-> AddressOf(Ranges[r].end_sym)]]
    /\ table' = [i \in DOMAIN Lines |->
                     [addr |-> Lines[i].addr, sym |-> Sym(Lines[i]), start_pos |-> i]]
    /\ UNCHANGED <<data, all_symbols, ends, map, pass, best_table, token_profit, slot, first>>

-----------------------------------------------------------------------------
\* compare_symbols: by address, then the name that says most.
Name(s) == Tail(s.sym)
Underscores(s) ==
    LET n == Name(s)
    IN  Max({k \in 0 .. Len(n) : \A i \in 1 .. k : n[i] = Underscore})
Weakness(s) == IF Head(s.sym) \in Weak THEN 1 ELSE 0
ByLinker(s) == IF Name(s) \in Provided THEN 1 ELSE 0

Keys(s) == <<s.addr, Weakness(s), ByLinker(s), Underscores(s), s.start_pos>>

Before(s, t) ==
    LET differ == {k \in 1 .. 5 : Keys(s)[k] # Keys(t)[k]}
    IN  differ # {} /\ Keys(s)[Min(differ)] < Keys(t)[Min(differ)]

sort_symbols ==
    /\ phase = "sort" /\ phase' = "build"
    /\ table' = SortSeq(table, Before)
    /\ UNCHANGED <<data, all_symbols, ends, map, pass, ranges, best_table, token_profit, slot, first>>

-----------------------------------------------------------------------------
\* symbol_valid.  The first two ranges are those of the text and of its initialisation; a
\* symbol at the end of one may belong to what follows, and move.
EndsKept(s) == TRUE                                                    \* slip
NotAtEnd(s) == \A r \in {1, 2} : s.addr = ranges[r].end => Name(s) = Ranges[r].end_sym

symbol_valid(s) ==
    /\ s.addr >= kernel_start_addr
    /\ \/ all_symbols
       \/ (\E r \in DOMAIN ranges : Within(s.addr, ranges[r])) /\ NotAtEnd(s)
    /\ Name(s) \notin Generated

PairsOf(sym) == {i \in DOMAIN sym : i < Len(sym)}
Occurrences(p, sym) == Cardinality({i \in PairsOf(sym) : <<sym[i], sym[i + 1]>> = p})
Profit(symbols) ==
    [p \in Pairs |-> FoldLeft(LAMBDA n, s : n + Occurrences(p, s.sym), 0, symbols)]

\* build_initial_tok_table and insert_real_symbols_in_table; without a symbol the program
\* gives up.
build_table ==
    /\ phase = "build"
    /\ table' = SelectSeq(table, symbol_valid)
    /\ phase' = IF table' = <<>> THEN "failed" ELSE "optimize"
    /\ token_profit' = Profit(table')
    /\ best_table' = [c \in Codes |->
                          IF \E i \in DOMAIN table' : Contains(table'[i].sym, c) THEN <<c>> ELSE <<>>]
    /\ slot' = Top
    /\ UNCHANGED <<data, all_symbols, ends, map, pass, ranges, first>>

-----------------------------------------------------------------------------
\* find_best_token: the first of those with the largest count.
Index(p) == p[1] + (Top + 1) * p[2]

BestToken ==
    LET most == Max({token_profit[p] : p \in Pairs})
    IN  CHOOSE p \in Pairs :
            /\ token_profit[p] = most
            /\ \A q \in Pairs : token_profit[q] = most => Index(p) <= Index(q)

\* compress_symbols: the token is replaced from left to right, and the counts follow.
Compressed(sym, p, code) ==
    LET from[i \in 1 .. Len(sym) + 1] ==
            IF i > Len(sym) THEN <<>>
            ELSE IF i < Len(sym) /\ <<sym[i], sym[i + 1]>> = p THEN <<code>> \o from[i + 2]
            ELSE <<sym[i]>> \o from[i + 1]
    IN  from[1]

NothingForgotten(changed, n, q) == n                                   \* slip
Forgotten(changed, n, q) ==
    FoldLeft(LAMBDA m, s : m - Occurrences(q, s.sym), n, changed)

Learnt(changed, n, q) == FoldLeft(LAMBDA m, s : m + Occurrences(q, s.sym), n, changed)

compress_symbols(p, code) ==
    LET changed == SelectSeq(table, LAMBDA s : Occurrences(p, s.sym) > 0)
        now == [i \in DOMAIN changed |->
                   [changed[i] EXCEPT !.sym = Compressed(changed[i].sym, p, code)]]
    IN  /\ table' = [i \in DOMAIN table |->
                        [table[i] EXCEPT !.sym = Compressed(table[i].sym, p, code)]]
        /\ token_profit' = [q \in Pairs |-> Learnt(now, Forgotten(changed, token_profit[q], q), q)]

\* optimize_result, a code a step: a code that is no character becomes the best token.
Swapped(p) == <<p[2], p[1]>>                                           \* slip
Split(p) == <<p[1], p[2]>>

optimize_result ==
    /\ phase = "optimize"
    /\ \E best \in {BestToken} :
           LET free == {c \in 0 .. slot : best_table[c] = <<>>}
           IN  IF free # {} /\ token_profit[best] # 0
               THEN /\ best_table' = [best_table EXCEPT ![Max(free)] = Split(best)]
                    /\ compress_symbols(best, Max(free))
                    /\ slot' = Max(free) - 1 /\ UNCHANGED phase
               ELSE phase' = "write" /\ UNCHANGED table_vars
    /\ UNCHANGED <<data, all_symbols, ends, map, pass, ranges, first>>

-----------------------------------------------------------------------------
\* expand_symbol: a token may stand for two tokens.
Expand(sym) ==
    LET chars[c \in Codes] ==
            IF best_table[c] = <<c>> THEN <<c>>
            ELSE FlattenSeq([k \in DOMAIN best_table[c] |-> chars[best_table[c][k]]])
    IN  FlattenSeq([k \in DOMAIN sym |-> chars[sym[k]]])

\* The offset of each of the strings or records that are written one after another.
Offset(lens, i) == FoldLeft(+, 0, SubSeq(lens, 1, i - 1))

MarkedLate(i) == Every * i                                             \* slip
MarkedAt(i) == Every * (i - 1) + 1

\* symbol_absolute looks at the first code of the compressed name.
IsAbsolute(s) == Head(s.sym) \in Absolute

\* An address is written relative to kernel_text_start, which the linker adds.
Linked(s) ==
    IF IsAbsolute(s) THEN s.addr ELSE kernel_text'.start + (s.addr - AddressOf(TextStart))

\* write_src, and the linker's values of the ends of the text.
write_src ==
    /\ phase = "write" /\ phase' = "done"
    /\ kernel_text' = [start |-> AddressOf(TextStart), end |-> AddressOf(TextEnd)]
    /\ etext' = ranges[1].end /\ inittext' = ranges[2]
    /\ addresses' = [i \in DOMAIN table |-> Linked(table[i])]
    /\ names' = FlattenSeq([i \in DOMAIN table |-> <<Len(table[i].sym)>> \o table[i].sym])
    /\ markers' = LET lens == [i \in DOMAIN table |-> Len(table[i].sym) + 1]
                  IN  [i \in 1 .. (Len(table) + Every - 1) \div Every |-> Offset(lens, MarkedAt(i))]
    /\ LET tokens == [i \in 1 .. Top + 1 |-> Expand(best_table[i - 1]) \o <<Nul>>]
       IN  /\ token_table' = FlattenSeq(tokens)
           /\ token_index' = [c \in Codes |-> Offset([i \in DOMAIN tokens |-> Len(tokens[i])], c + 1)]
    /\ UNCHANGED <<all_symbols, map, pass, ranges, table_vars, first>>

\* The second link: the tables lie at an address behind the text, with names of their own,
\* and what comes after them has moved.
Moved(line) == [line EXCEPT !.addr = line.addr + line.moves]
Label(name) == [addr |-> At1, type |-> ReadOnly, name |-> name, moves |-> 0]

Relink ==
    /\ phase = "done" /\ pass = 1
    /\ pass' = 2 /\ phase' = "read"
    /\ map' = LET before == SelectSeq(map, LAMBDA l : l.addr <= At1 /\ l.moves = 0)
                  after == SelectSeq(map, LAMBDA l : ~(l.addr <= At1 /\ l.moves = 0))
              IN  before \o SetToSeq({Label(n) : n \in Generated})
                    \o [i \in DOMAIN after |-> Moved(after[i])]
    /\ first' = data
    /\ UNCHANGED <<data, all_symbols, ends, ranges, table_vars>>

-----------------------------------------------------------------------------
Empty == [start |-> 0, end |-> 0]

Init ==
    /\ map \in Maps /\ all_symbols \in BOOLEAN /\ pass = 1 /\ phase = "read"
    /\ ranges = [r \in DOMAIN Ranges |-> Empty]
    /\ kernel_text = Empty /\ etext = 0 /\ inittext = Empty
    /\ table = <<>> /\ best_table = [c \in Codes |-> <<>>]
    /\ token_profit = [p \in Pairs |-> 0] /\ slot = Top
    /\ addresses = <<>> /\ names = <<>> /\ markers = <<>>
    /\ token_table = <<>> /\ token_index = [c \in Codes |-> 0]
    /\ first = <<>>

Next == read_map \/ sort_symbols \/ build_table \/ optimize_result \/ write_src \/ Relink

Spec == Init /\ [][Next]_vars

-----------------------------------------------------------------------------
\* However far the compression is, every symbol still stands for its type and its name.
Lossless ==
    phase \in {"optimize", "write", "done"} =>
        \A i \in DOMAIN table : Expand(table[i].sym) = Sym(Lines[table[i].start_pos])

\* The counts that choose the next token are those of the symbols as they are.
ProfitExact == phase \in {"optimize", "write"} => token_profit = Profit(table)

\* optimize_result keeps what the symbols say and what it knows about them.
CompressionSound == Lossless /\ ProfitExact

Original(i) == Lines[table[i].start_pos]

\* What a buffer of KSYM_NAME_LEN characters holds of a name, its terminator included.
Fitting(name) == SubSeq(name, 1, Min({Len(name), NameLen - 1}))

\* The kernel gives every symbol of the table its name, through the markers as well as
\* through the stream, and finds it under its name, at the first of the addresses that names
\* like it have.  Not so a name of KSYM_NAME_LEN characters: the table takes it, but the
\* kernel has no room for its last character, gives back one fewer and finds nothing under
\* the whole name; it finds the symbol under what is left of it.
NamesFound ==
    phase = "done" =>
        \A i \in DOMAIN table :
            LET name == Original(i).name
                same == {j \in DOMAIN table : Fitting(Original(j).name) = Fitting(name)}
            IN  /\ Expanded(get_symbol_offset(i - 1), NameLen) = Fitting(name)
                /\ kallsyms_lookup_name(Fitting(name)) = Min({Original(j).addr : j \in same})
                /\ Len(name) = NameLen => kallsyms_lookup_name(name) = 0

\* An address of the kernel's text belongs to the nearest symbol that is not behind it; of
\* several at one address, to one that is neither weak nor provided by the linker script if
\* there is such a symbol.
Plain(i) == Weakness([sym |-> Sym(Original(i))]) = 0 /\ Original(i).name \notin Provided
NearestSymbol ==
    phase = "done" =>
        \A addr \in kernel_text.start .. kernel_text.end :
            LET found == kallsyms_lookup(addr)
                near == Max({Original(i).addr : i \in {j \in DOMAIN table : Original(j).addr <= addr}})
                there == {i \in DOMAIN table : Original(i).addr = near}
            IN  /\ \E i \in there : found.name = Fitting(Original(i).name)
                                      /\ ((\E j \in there : Plain(j)) => Plain(i))
                /\ found.offset = addr - near
                /\ \A i \in DOMAIN table : Original(i).addr <= near \/ Original(i).addr >= near + found.size

\* Both passes must have identical symbol lists, or the tables that are linked in last have
\* another size than those that moved the addresses in them.
PassesAgree ==
    phase = "done" /\ pass = 2 =>
        token_table = first[4] /\ \A k \in 1 .. 3 : Len(data[k]) = Len(first[k])
=============================================================================
