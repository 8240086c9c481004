------------------------------- MODULE MCE820 -------------------------------
(* E820 over all maps of up to MaxLen entries with small addresses, and    *)
(* some that are one entry longer.                                         *)
EXTENDS E820

CONSTANTS MaxAddr, MaxSize, MaxType, MaxLen

MCEntries == [addr : 0..MaxAddr, size : 0..MaxSize, type : 1..MaxType]

Longer == [1..(MaxLen + 1) -> [addr : {0, MaxAddr}, size : {1}, type : {1}]]

MCMaps == UNION {[1..n -> MCEntries] : n \in 0..MaxLen} \cup Longer
=============================================================================
