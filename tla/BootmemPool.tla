---------------------------- MODULE BootmemPool ----------------------------
(***************************************************************************)
(* What the boot-time allocator promises its callers, without a bitmap: a  *)
(* pool of page frames is registered first; from then on every block given *)
(* out lies in frames of the pool, is aligned as asked, and shares no byte *)
(* with any block given before.  The machine may stop (BUG) at any point.  *)
(***************************************************************************)
EXTENDS Integers, Sequences

CONSTANT PAGE_SIZE      \* bytes in a page frame

VARIABLES
    pool,               \* page frames registered as usable
    given,              \* blocks, in the order they were given out
    stopped             \* a BUG was reached: panic_spin never returns

vars == <<pool, given, stopped>>

Block == [addr : Nat, size : Nat \ {0}, align : Nat \ {0}]

\* The page frames that hold a byte of block b.
PagesOf(b) == (b.addr \div PAGE_SIZE)..((b.addr + b.size - 1) \div PAGE_SIZE)

\* Blocks b and c have no byte in common.
Disjoint(b, c) == b.addr + b.size <= c.addr \/ c.addr + c.size <= b.addr

\* Distinct blocks of the sequence bs are disjoint.
PairwiseDisjoint(bs) ==
    \A i, j \in 1..Len(bs) : i # j => Disjoint(bs[i], bs[j])

Init ==
    /\ pool = {}
    /\ given = <<>>
    /\ stopped = FALSE

\* Frames join or leave the pool only while nothing has been given out.
Register ==
    /\ given = <<>>
    /\ pool' \in SUBSET Nat
    /\ UNCHANGED given

\* One more block, whole in the pool and clear of every earlier one.
Give ==
    LET new == given'[Len(given')]
    IN  /\ given' = Append(given, new)
        /\ new \in Block
        /\ new.addr % new.align = 0
        /\ PagesOf(new) \subseteq pool
        /\ \A i \in 1..Len(given) : Disjoint(given[i], new)
        /\ UNCHANGED pool

\* The machine stops; no block is handed out on the way.
Halt ==
    /\ stopped' = TRUE
    /\ UNCHANGED given

Next ==
    /\ ~stopped
    /\ \/ (Register \/ Give) /\ stopped' = FALSE
       \/ Halt

Spec == Init /\ [][Next]_vars
=============================================================================
