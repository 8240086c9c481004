------------------------------ MODULE Kallsyms ------------------------------
(***************************************************************************)
(* Looking up the names and addresses of the kernel's symbols, as          *)
(* kernel/kallsyms.c does it on the tables that scripts/kallsyms.c wrote.  *)
(* A character is a number; a name in the table is a sequence of codes,    *)
(* each of which stands for the characters at its place in the token       *)
(* table.  Offsets count from zero, as in C.                               *)
(***************************************************************************)
EXTENDS Integers, Sequences, SequencesExt, FiniteSetsExt

CONSTANTS
    Every,              \* a marker stands for so many symbols: 256
    NameLen             \* KSYM_NAME_LEN

VARIABLES
    addresses,          \* kallsyms_addresses
    names, markers,     \* kallsyms_names and kallsyms_markers
    token_table, token_index,
    all_symbols,        \* the option --all-symbols, CONFIG_KALLSYMS_ALL in the kernel
    kernel_text,        \* [start, end]: kernel_text_start and kernel_text_end
    etext,              \* _etext
    inittext            \* [start, end]: the text for initialisation

data == <<addresses, names, markers, token_table, token_index>>

Nul == 0
None == -1

-----------------------------------------------------------------------------
\* Definitions marked `slip' are not the code's: each is a plausible mistake in the
\* definition that follows it, and some property must tell the two apart.

\* is_kernel_text, is_kernel_inittext and is_kernel.
Within(addr, range) == range.start <= addr /\ addr <= range.end
is_ksym_addr(addr) == Within(addr, kernel_text) \/ (~all_symbols /\ Within(addr, inittext))

\* kallsyms_expand_symbol: the type of a symbol comes first and is left out; the buffer's
\* last place is for the terminator.
NumSyms == Len(addresses)
At(stream, off) == stream[off + 1]

Token(code) ==
    LET off == token_index[code]
        end == CHOOSE e \in off .. Len(token_table) - 1 :
                   At(token_table, e) = Nul /\ \A k \in off .. e - 1 : At(token_table, k) # Nul
    IN  SubSeq(token_table, off + 1, end)

Expanded(off, maxlen) ==
    LET full == FlattenSeq([k \in 1 .. At(names, off) |-> Token(At(names, off + k))])
    IN  SubSeq(full, 2, Min({Len(full), maxlen}))

NextOffset(off) == off + At(names, off) + 1

get_symbol_offset(pos) ==
    LET from[n \in 0 .. Every - 1] ==
            IF n = 0 THEN markers[1 + (pos \div Every)] ELSE NextOffset(from[n - 1])
    IN  from[pos % Every]

\* kallsyms_lookup_name goes through the stream.
kallsyms_lookup_name(name) ==
    LET off[i \in 0 .. NumSyms - 1] == IF i = 0 THEN 0 ELSE NextOffset(off[i - 1])
        found == {i \in 0 .. NumSyms - 1 : Expanded(off[i], NameLen) = name}
    IN  IF found = {} THEN 0 ELSE At(addresses, Min(found))

\* get_symbol_pos: a binary search, then the first symbol at that address.
Below(mid, addr) == At(addresses, mid) < addr                          \* slip
AtOrBelow(mid, addr) == At(addresses, mid) <= addr

Search(addr) ==
    LET between[low \in 0 .. NumSyms, high \in 0 .. NumSyms] ==
            LET mid == low + ((high - low) \div 2)
            IN  IF high - low <= 1 THEN low
                ELSE IF AtOrBelow(mid, addr) THEN between[mid, high] ELSE between[low, mid]
    IN  between[0, NumSyms]

FirstAlias(pos) ==
    LET back[i \in 0 .. NumSyms - 1] ==
            IF i > 0 /\ At(addresses, i - 1) = At(addresses, i) THEN back[i - 1] ELSE i
    IN  back[pos]

SymbolEnd(pos, addr) ==
    LET later == {i \in pos + 1 .. NumSyms - 1 : At(addresses, i) > At(addresses, pos)}
    IN  IF later # {} THEN At(addresses, Min(later))
        ELSE IF Within(addr, inittext) THEN inittext.end
        ELSE IF all_symbols THEN kernel_text.end ELSE etext

get_symbol_pos(addr) ==
    LET pos == FirstAlias(Search(addr))
    IN  [pos |-> pos, size |-> SymbolEnd(pos, addr) - At(addresses, pos),
         offset |-> addr - At(addresses, pos)]

\* kallsyms_lookup, and lookup_symbol_name and lookup_symbol_attrs, which do the same.
kallsyms_lookup(addr) ==
    IF ~is_ksym_addr(addr) THEN [name |-> <<>>, size |-> None, offset |-> None]
    ELSE LET s == get_symbol_pos(addr)
         IN  [name |-> Expanded(get_symbol_offset(s.pos), NameLen),
              size |-> s.size, offset |-> s.offset]
=============================================================================
