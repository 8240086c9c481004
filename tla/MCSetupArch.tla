---------------------------- MODULE MCSetupArch ----------------------------
(* SetupArch on machines of up to 52 frames of 16 bytes.                   *)
EXTENDS SetupArch

E(addr, size, type) == [addr |-> addr, size |-> size, type |-> type]

\* RAM below the hole, up to its start or into it; RAM from 1 MB on, from too little
\* to too much, also exactly up to the DMA limit; a third entry anywhere, unaligned and
\* overlapping them; and RAM throughout, reported twice.
MCMaps ==
    {<<E(0, low, 1), E(64, high, 1)>> : low \in {37, 48, 60}, high \in {40, 80, 170, 192, 421, 800}}
    \cup
    {<<E(0, low, 1), E(addr, size, type), E(64, high, 1)>> :
        low \in {48, 60}, high \in {170, 421, 800},
        addr \in {20, 130, 250, 500}, size \in {16, 70}, type \in {1, 3}}
    \cup
    {<<E(addr, size, 2), E(64, high, 1), E(0, 48, 1)>> :
        high \in {421, 700}, addr \in {16, 300}, size \in {0, 33}}
    \cup
    {<<E(0, low, 1), E(addr, size, 1)>> :
        low \in {700, 800}, addr \in {20, 64, 220, 390}, size \in {0, 27, 150, 700}}
    \cup
    {<<>>, <<E(0, 600, 1)>>}
=============================================================================
