--------------------------- MODULE EfiStubProofs ---------------------------
(***************************************************************************)
(* Proofs about EfiStub, for every length of the memory map, every number  *)
(* of firmware events and every slack.  The invariant says what each value *)
(* of pc stands for: which resources are held, whether boot services can   *)
(* still be used, and how the map the stub holds relates to the firmware's.*)
(***************************************************************************)
EXTENDS EfiStub, TLAPS

Failing == {"map_uninstall", "map_free"}

Retrying == {"map_read again", "exit_boot_func again", "exit_boot_services again"}

Entering == {"set_virtual_address_map", "kernel"}

\* The stub holds a map it has read.
HasMap == {"exit_boot_func", "exit_boot_services"} \cup Retrying \cup Entering

\* The boot memory map has a pool, and its table may be installed.
HasMapPool == {"map_table", "map_read"} \cup Failing \cup HasMap

HasMapTable == {"map_read", "map_uninstall"} \cup HasMap

\* The status of a stub that still runs is that of a success.
StatusInv == pc \notin Failing \cup {"returned"} => status = "SUCCESS"

ServicesInv ==
    /\ pc \in Retrying => services = "leaving"
    /\ pc \in Entering => services = "gone"
    /\ pc \notin Retrying \cup Entering \cup {"returned"} => services = "usable"

\* Tables are in pools; the map's own come and go in order.
PoolsInv ==
    /\ TablesLive
    /\ pc = "memreserve_table" => "memreserve" \in pools
    /\ pc \in HasMapPool => "boot_memmap" \in pools
    /\ pc \notin HasMapTable \cup {"returned"} => "boot_memmap" \notin tables
    /\ pc \notin HasMapPool \cup {"returned"} => "boot_memmap" \notin pools
    /\ MapTakenBack

\* runtime_map is made before the stub leaves, from the map it then holds.
VirtmapInv ==
    /\ pc \in {"map_size", "map", "map_table", "map_read"} \cup HasMap => efi_novamap = FALSE
    /\ pc \in {"exit_boot_services", "exit_boot_services again"} \cup Entering
            => virtmap_key = m.key
    /\ KernelSeesFinalMap

\* Keys only grow.
KeyInv == m.key <= map_key

\* A key is stale, and a first attempt failed, only after a change of the map.
LateInv ==
    /\ pc \in HasMap => m.key # 0
    /\ pc \in HasMap \ Retrying /\ m.key # map_key => late >= 1
    /\ pc \in Retrying => late >= 1
    /\ pc \in Retrying \ {"map_read again"} /\ m.key # map_key => late >= 2
    /\ OneChangeSurvived

IInv == TypeOK /\ StatusInv /\ ServicesInv /\ PoolsInv /\ VirtmapInv /\ KeyInv /\ LateInv

\* The conjuncts of TypeOK by what they are about: the stub's code and the firmware's
\* answers; flags and sets; numbers.
TypeCode ==
    /\ pc \in {"handle_protocol", "allocate_pages", "rt_services", "memreserve",
               "memreserve_table", "virtmap_size", "virtmap", "map_size", "map",
               "map_table", "map_read"} \cup Failing \cup HasMap \cup {"returned"}
    /\ status \in Errors \cup {"SUCCESS"}
    /\ services \in {"usable", "leaving", "gone"}
    /\ pools \subseteq Pools /\ tables \subseteq Pools

TypeFlags == efi_novamap \in BOOLEAN /\ pages \in BOOLEAN

TypeNumbers ==
    /\ m \in [sized : Nat, slots : Nat, len : Nat, key : Nat]
    /\ m.len <= m.slots
    /\ virtmap_key \in 0..map_key
    /\ map_key \in Nat \ {0}
    /\ map_len \in 1..MaxLen
    /\ events \in 0..MaxEvents
    /\ late \in 0..events

LEMMA TypeParts == TypeOK <=> TypeCode /\ TypeFlags /\ TypeNumbers
  BY DEF TypeOK, TypeCode, TypeFlags, TypeNumbers, Failing, Retrying, Entering, HasMap

-----------------------------------------------------------------------------
USE StubAssumption
USE DEF Pools, Failing, Retrying, Entering, HasMap, HasMapPool, HasMapTable

LEMMA InitInv == Init => IInv
<1> SUFFICES ASSUME Init PROVE IInv
  OBVIOUS
<1>1. TypeCode /\ TypeNumbers
  BY DEF Init, TypeCode, TypeNumbers, NoMap, Errors
<1>2. TypeFlags
  BY DEF Init, TypeFlags
<1>3. StatusInv /\ ServicesInv /\ PoolsInv /\ VirtmapInv /\ KeyInv /\ LateInv
  BY DEF Init, NoMap, StatusInv, ServicesInv, PoolsInv, VirtmapInv, KeyInv, LateInv,
         TablesLive, MapTakenBack, KernelSeesFinalMap, OneChangeSurvived
<1>4. QED
  BY <1>1, <1>2, <1>3, TypeParts DEF IInv

LEMMA MapChangesType == ASSUME TypeNumbers, MapChanges
                        PROVE  /\ map_key' = map_key + 1 /\ map_key' \in Nat \ {0}
                               /\ map_len' \in 1..MaxLen
  BY DEF TypeNumbers, MapChanges

LEMMA NextInv == IInv /\ [Next]_vars => IInv'
<1>1. SUFFICES ASSUME IInv, [Next]_vars PROVE IInv'
  OBVIOUS
<1>2. /\ TypeCode /\ TypeFlags /\ TypeNumbers
      /\ StatusInv /\ ServicesInv /\ PoolsInv /\ VirtmapInv /\ KeyInv /\ LateInv
  BY <1>1, TypeParts DEF IInv
<1>3. SUFFICES /\ TypeCode' /\ TypeFlags' /\ TypeNumbers'
               /\ StatusInv' /\ ServicesInv' /\ PoolsInv' /\ VirtmapInv' /\ KeyInv' /\ LateInv'
  BY TypeParts, PTL DEF IInv
<1> USE DEF stub, firmware, counts
<1>4. CASE HandleProtocol /\ UNCHANGED counts
  <2>1. TypeCode'
    BY <1>2, <1>4 DEF HandleProtocol, GoOn, Return, TypeCode, Errors
  <2>2. TypeFlags'
    BY <1>2, <1>4 DEF HandleProtocol, GoOn, Return, TypeFlags
  <2>3. TypeNumbers'
    BY <1>2, <1>4 DEF HandleProtocol, GoOn, Return, TypeNumbers
  <2>4. StatusInv' /\ ServicesInv'
    BY <1>2, <1>4 DEF HandleProtocol, GoOn, Return, StatusInv, ServicesInv
  <2>5. PoolsInv'
    BY <1>2, <1>4 DEF HandleProtocol, GoOn, Return, PoolsInv, TablesLive,
           MapTakenBack, ServicesInv
  <2>6. VirtmapInv'
    BY <1>2, <1>4 DEF HandleProtocol, GoOn, Return, VirtmapInv, KernelSeesFinalMap,
           ServicesInv, TypeNumbers
  <2>7. KeyInv'
    BY <1>2, <1>4 DEF HandleProtocol, GoOn, Return, KeyInv, TypeNumbers
  <2>8. LateInv'
    BY <1>2, <1>4 DEF HandleProtocol, GoOn, Return, LateInv, OneChangeSurvived,
           StatusInv, ServicesInv, TypeNumbers
  <2>9. QED
    BY <2>1, <2>2, <2>3, <2>4, <2>5, <2>6, <2>7, <2>8
<1>5. CASE HandleKernelImage /\ UNCHANGED counts
  <2>1. TypeCode'
    BY <1>2, <1>5 DEF HandleKernelImage, GoOn, Return, MapChanges, MapStays, TypeCode,
           Errors
  <2>2. TypeFlags'
    BY <1>2, <1>5 DEF HandleKernelImage, GoOn, Return, MapChanges, MapStays, TypeFlags
  <2>3. TypeNumbers'
    BY <1>2, <1>5, MapChangesType DEF HandleKernelImage, GoOn, Return, MapStays,
           TypeNumbers
  <2>4. StatusInv' /\ ServicesInv'
    BY <1>2, <1>5, MapChangesType DEF HandleKernelImage, GoOn, Return, MapStays,
           StatusInv, ServicesInv
  <2>5. PoolsInv'
    BY <1>2, <1>5, MapChangesType DEF HandleKernelImage, GoOn, Return, MapStays,
           PoolsInv, TablesLive, MapTakenBack, ServicesInv
  <2>6. VirtmapInv'
    BY <1>2, <1>5, MapChangesType DEF HandleKernelImage, GoOn, Return, MapStays,
           VirtmapInv, KernelSeesFinalMap, ServicesInv, TypeNumbers
  <2>7. KeyInv'
    BY <1>2, <1>5, MapChangesType DEF HandleKernelImage, GoOn, Return, MapStays,
           KeyInv, TypeNumbers
  <2>8. LateInv'
    BY <1>2, <1>5, MapChangesType DEF HandleKernelImage, GoOn, Return, MapStays,
           LateInv, OneChangeSurvived, StatusInv, ServicesInv, TypeNumbers
  <2>9. QED
    BY <2>1, <2>2, <2>3, <2>4, <2>5, <2>6, <2>7, <2>8
<1>6. CASE RuntimeServices /\ UNCHANGED counts
  <2>1. TypeCode'
    BY <1>2, <1>6 DEF RuntimeServices, GoOn, TypeCode, Errors
  <2>2. TypeFlags'
    BY <1>2, <1>6 DEF RuntimeServices, GoOn, TypeFlags
  <2>3. TypeNumbers'
    BY <1>2, <1>6 DEF RuntimeServices, GoOn, TypeNumbers
  <2>4. StatusInv' /\ ServicesInv'
    BY <1>2, <1>6 DEF RuntimeServices, GoOn, StatusInv, ServicesInv
  <2>5. PoolsInv'
    BY <1>2, <1>6 DEF RuntimeServices, GoOn, PoolsInv, TablesLive, MapTakenBack,
           ServicesInv
  <2>6. VirtmapInv'
    BY <1>2, <1>6 DEF RuntimeServices, GoOn, VirtmapInv, KernelSeesFinalMap,
           ServicesInv, TypeNumbers
  <2>7. KeyInv'
    BY <1>2, <1>6 DEF RuntimeServices, GoOn, KeyInv, TypeNumbers
  <2>8. LateInv'
    BY <1>2, <1>6 DEF RuntimeServices, GoOn, LateInv, OneChangeSurvived, StatusInv,
           ServicesInv, TypeNumbers
  <2>9. QED
    BY <2>1, <2>2, <2>3, <2>4, <2>5, <2>6, <2>7, <2>8
<1>7. CASE AllocMemreserve /\ UNCHANGED counts
  <2>1. TypeCode'
    BY <1>2, <1>7 DEF AllocMemreserve, GoOn, Allocate, MapChanges, MapStays, TypeCode,
           Errors
  <2>2. TypeFlags'
    BY <1>2, <1>7 DEF AllocMemreserve, GoOn, Allocate, MapChanges, MapStays, TypeFlags
  <2>3. TypeNumbers'
    BY <1>2, <1>7, MapChangesType DEF AllocMemreserve, GoOn, Allocate, MapStays,
           TypeNumbers
  <2>4. StatusInv' /\ ServicesInv'
    BY <1>2, <1>7, MapChangesType DEF AllocMemreserve, GoOn, Allocate, MapStays,
           StatusInv, ServicesInv
  <2>5. PoolsInv'
    BY <1>2, <1>7, MapChangesType DEF AllocMemreserve, GoOn, Allocate, MapStays,
           PoolsInv, TablesLive, MapTakenBack, ServicesInv
  <2>6. VirtmapInv'
    BY <1>2, <1>7, MapChangesType DEF AllocMemreserve, GoOn, Allocate, MapStays,
           VirtmapInv, KernelSeesFinalMap, ServicesInv, TypeNumbers
  <2>7. KeyInv'
    BY <1>2, <1>7, MapChangesType DEF AllocMemreserve, GoOn, Allocate, MapStays,
           KeyInv, TypeNumbers
  <2>8. LateInv'
    BY <1>2, <1>7, MapChangesType DEF AllocMemreserve, GoOn, Allocate, MapStays,
           LateInv, OneChangeSurvived, StatusInv, ServicesInv, TypeNumbers
  <2>9. QED
    BY <2>1, <2>2, <2>3, <2>4, <2>5, <2>6, <2>7, <2>8
<1>8. CASE InstallMemreserve /\ UNCHANGED counts
  <2>1. TypeCode'
    BY <1>2, <1>8 DEF InstallMemreserve, GoOn, Install, MapChanges, MapStays,
           TypeCode, Errors
  <2>2. TypeFlags'
    BY <1>2, <1>8 DEF InstallMemreserve, GoOn, Install, MapChanges, MapStays,
           TypeFlags
  <2>3. TypeNumbers'
    BY <1>2, <1>8, MapChangesType DEF InstallMemreserve, GoOn, Install, MapStays,
           TypeNumbers
  <2>4. StatusInv' /\ ServicesInv'
    BY <1>2, <1>8, MapChangesType DEF InstallMemreserve, GoOn, Install, MapStays,
           StatusInv, ServicesInv
  <2>5. PoolsInv'
    BY <1>2, <1>8, MapChangesType DEF InstallMemreserve, GoOn, Install, MapStays,
           PoolsInv, TablesLive, MapTakenBack, ServicesInv
  <2>6. VirtmapInv'
    BY <1>2, <1>8, MapChangesType DEF InstallMemreserve, GoOn, Install, MapStays,
           VirtmapInv, KernelSeesFinalMap, ServicesInv, TypeNumbers
  <2>7. KeyInv'
    BY <1>2, <1>8, MapChangesType DEF InstallMemreserve, GoOn, Install, MapStays,
           KeyInv, TypeNumbers
  <2>8. LateInv'
    BY <1>2, <1>8, MapChangesType DEF InstallMemreserve, GoOn, Install, MapStays,
           LateInv, OneChangeSurvived, StatusInv, ServicesInv, TypeNumbers
  <2>9. QED
    BY <2>1, <2>2, <2>3, <2>4, <2>5, <2>6, <2>7, <2>8
<1>9. CASE SizeVirtmap /\ UNCHANGED counts
  <2>1. TypeCode'
    BY <1>2, <1>9 DEF SizeVirtmap, GoOn, Return, TypeCode, Errors
  <2>2. TypeFlags'
    BY <1>2, <1>9 DEF SizeVirtmap, GoOn, Return, TypeFlags
  <2>3. TypeNumbers'
    BY <1>2, <1>9 DEF SizeVirtmap, GoOn, Return, TypeNumbers
  <2>4. StatusInv' /\ ServicesInv'
    BY <1>2, <1>9 DEF SizeVirtmap, GoOn, Return, StatusInv, ServicesInv
  <2>5. PoolsInv'
    BY <1>2, <1>9 DEF SizeVirtmap, GoOn, Return, PoolsInv, TablesLive, MapTakenBack,
           ServicesInv
  <2>6. VirtmapInv'
    BY <1>2, <1>9 DEF SizeVirtmap, GoOn, Return, VirtmapInv, KernelSeesFinalMap,
           ServicesInv, TypeNumbers
  <2>7. KeyInv'
    BY <1>2, <1>9 DEF SizeVirtmap, GoOn, Return, KeyInv, TypeNumbers
  <2>8. LateInv'
    BY <1>2, <1>9 DEF SizeVirtmap, GoOn, Return, LateInv, OneChangeSurvived,
           StatusInv, ServicesInv, TypeNumbers
  <2>9. QED
    BY <2>1, <2>2, <2>3, <2>4, <2>5, <2>6, <2>7, <2>8
<1>10. CASE AllocVirtmap /\ UNCHANGED counts
  <2>1. TypeCode'
    BY <1>2, <1>10 DEF AllocVirtmap, GoOn, Return, Allocate, MapChanges, MapStays,
           NovamapReset, TypeCode, Errors
  <2>2. TypeFlags'
    BY <1>2, <1>10 DEF AllocVirtmap, GoOn, Return, Allocate, MapChanges, MapStays,
           NovamapReset, TypeFlags
  <2>3. TypeNumbers'
    BY <1>2, <1>10, MapChangesType DEF AllocVirtmap, GoOn, Return, Allocate, MapStays,
           NovamapReset, TypeNumbers
  <2>4. StatusInv' /\ ServicesInv'
    BY <1>2, <1>10, MapChangesType DEF AllocVirtmap, GoOn, Return, Allocate, MapStays,
           NovamapReset, StatusInv, ServicesInv
  <2>5. PoolsInv'
    BY <1>2, <1>10, MapChangesType DEF AllocVirtmap, GoOn, Return, Allocate, MapStays,
           NovamapReset, PoolsInv, TablesLive, MapTakenBack, ServicesInv
  <2>6. VirtmapInv'
    BY <1>2, <1>10, MapChangesType DEF AllocVirtmap, GoOn, Return, Allocate, MapStays,
           NovamapReset, VirtmapInv, KernelSeesFinalMap, ServicesInv, TypeNumbers
  <2>7. KeyInv'
    BY <1>2, <1>10, MapChangesType DEF AllocVirtmap, GoOn, Return, Allocate, MapStays,
           NovamapReset, KeyInv, TypeNumbers
  <2>8. LateInv'
    BY <1>2, <1>10, MapChangesType DEF AllocVirtmap, GoOn, Return, Allocate, MapStays,
           NovamapReset, LateInv, OneChangeSurvived, StatusInv, ServicesInv,
           TypeNumbers
  <2>9. QED
    BY <2>1, <2>2, <2>3, <2>4, <2>5, <2>6, <2>7, <2>8
<1>11. CASE SizeMap /\ UNCHANGED counts
  <2>1. TypeCode'
    BY <1>2, <1>11 DEF SizeMap, GoOn, Return, Roomy, TypeCode, Errors
  <2>2. TypeFlags'
    BY <1>2, <1>11 DEF SizeMap, GoOn, Return, Roomy, TypeFlags
  <2>3. TypeNumbers'
    BY <1>2, <1>11 DEF SizeMap, GoOn, Return, Roomy, TypeNumbers
  <2>4. StatusInv' /\ ServicesInv'
    BY <1>2, <1>11 DEF SizeMap, GoOn, Return, Roomy, StatusInv, ServicesInv
  <2>5. PoolsInv'
    BY <1>2, <1>11 DEF SizeMap, GoOn, Return, Roomy, PoolsInv, TablesLive,
           MapTakenBack, ServicesInv
  <2>6. VirtmapInv'
    BY <1>2, <1>11 DEF SizeMap, GoOn, Return, Roomy, VirtmapInv, KernelSeesFinalMap,
           ServicesInv, TypeNumbers
  <2>7. KeyInv'
    BY <1>2, <1>11 DEF SizeMap, GoOn, Return, Roomy, KeyInv, TypeNumbers
  <2>8. LateInv'
    BY <1>2, <1>11 DEF SizeMap, GoOn, Return, Roomy, LateInv, OneChangeSurvived,
           StatusInv, ServicesInv, TypeNumbers
  <2>9. QED
    BY <2>1, <2>2, <2>3, <2>4, <2>5, <2>6, <2>7, <2>8
<1>12. CASE AllocMap /\ UNCHANGED counts
  <2>1. TypeCode'
    BY <1>2, <1>12 DEF AllocMap, GoOn, Return, Allocate, MapChanges, MapStays,
           TypeCode, Errors
  <2>2. TypeFlags'
    BY <1>2, <1>12 DEF AllocMap, GoOn, Return, Allocate, MapChanges, MapStays,
           TypeFlags
  <2>3. TypeNumbers'
    BY <1>2, <1>12, MapChangesType DEF AllocMap, GoOn, Return, Allocate, MapStays,
           TypeNumbers
  <2>4. StatusInv' /\ ServicesInv'
    BY <1>2, <1>12, MapChangesType DEF AllocMap, GoOn, Return, Allocate, MapStays,
           StatusInv, ServicesInv
  <2>5. PoolsInv'
    BY <1>2, <1>12, MapChangesType DEF AllocMap, GoOn, Return, Allocate, MapStays,
           PoolsInv, TablesLive, MapTakenBack, ServicesInv
  <2>6. VirtmapInv'
    BY <1>2, <1>12, MapChangesType DEF AllocMap, GoOn, Return, Allocate, MapStays,
           VirtmapInv, KernelSeesFinalMap, ServicesInv, TypeNumbers
  <2>7. KeyInv'
    BY <1>2, <1>12, MapChangesType DEF AllocMap, GoOn, Return, Allocate, MapStays,
           KeyInv, TypeNumbers
  <2>8. LateInv'
    BY <1>2, <1>12, MapChangesType DEF AllocMap, GoOn, Return, Allocate, MapStays,
           LateInv, OneChangeSurvived, StatusInv, ServicesInv, TypeNumbers
  <2>9. QED
    BY <2>1, <2>2, <2>3, <2>4, <2>5, <2>6, <2>7, <2>8
<1>13. CASE InstallMap /\ UNCHANGED counts
  <2>1. TypeCode'
    BY <1>2, <1>13 DEF InstallMap, GoOn, Install, MapChanges, MapStays, TypeCode,
           Errors
  <2>2. TypeFlags'
    BY <1>2, <1>13 DEF InstallMap, GoOn, Install, MapChanges, MapStays, TypeFlags
  <2>3. TypeNumbers'
    BY <1>2, <1>13, MapChangesType DEF InstallMap, GoOn, Install, MapStays,
           TypeNumbers
  <2>4. StatusInv' /\ ServicesInv'
    BY <1>2, <1>13, MapChangesType DEF InstallMap, GoOn, Install, MapStays, StatusInv,
           ServicesInv
  <2>5. PoolsInv'
    BY <1>2, <1>13, MapChangesType DEF InstallMap, GoOn, Install, MapStays, PoolsInv,
           TablesLive, MapTakenBack, ServicesInv
  <2>6. VirtmapInv'
    BY <1>2, <1>13, MapChangesType DEF InstallMap, GoOn, Install, MapStays,
           VirtmapInv, KernelSeesFinalMap, ServicesInv, TypeNumbers
  <2>7. KeyInv'
    BY <1>2, <1>13, MapChangesType DEF InstallMap, GoOn, Install, MapStays, KeyInv,
           TypeNumbers
  <2>8. LateInv'
    BY <1>2, <1>13, MapChangesType DEF InstallMap, GoOn, Install, MapStays, LateInv,
           OneChangeSurvived, StatusInv, ServicesInv, TypeNumbers
  <2>9. QED
    BY <2>1, <2>2, <2>3, <2>4, <2>5, <2>6, <2>7, <2>8
<1>14. CASE ReadMap /\ UNCHANGED counts
  <2>1. TypeCode'
    BY <1>2, <1>14 DEF ReadMap, GoOn, MapFits, ReadErrors, AfterFailedRead, Filled, TypeCode,
           Errors
  <2>2. TypeFlags'
    BY <1>2, <1>14 DEF ReadMap, GoOn, MapFits, ReadErrors, AfterFailedRead, Filled, TypeFlags
  <2>3. TypeNumbers'
    <3>1. /\ UNCHANGED <<virtmap_key, map_key, map_len, events, late>>
          /\ (map_len <= m.slots /\ m' = Filled(m)) \/ m' = m
      BY <1>14 DEF ReadMap, MapFits, RoomAgain, firmware, counts
    <3>2. m' \in [sized : Nat, slots : Nat, len : Nat, key : Nat] /\ m'.len <= m'.slots
      BY <1>2, <3>1 DEF Filled, TypeNumbers
    <3>3. QED
      BY <1>2, <3>1, <3>2 DEF TypeNumbers
  <2>4. StatusInv' /\ ServicesInv'
    BY <1>2, <1>14 DEF ReadMap, GoOn, MapFits, ReadErrors, AfterFailedRead, Filled, StatusInv,
           ServicesInv
  <2>5. PoolsInv'
    BY <1>2, <1>14 DEF ReadMap, GoOn, MapFits, ReadErrors, AfterFailedRead, Filled, PoolsInv,
           TablesLive, MapTakenBack, ServicesInv
  <2>6. VirtmapInv'
    BY <1>2, <1>14 DEF ReadMap, GoOn, MapFits, ReadErrors, AfterFailedRead, Filled, VirtmapInv,
           KernelSeesFinalMap, ServicesInv, TypeNumbers
  <2>7. KeyInv'
    BY <1>2, <1>14 DEF ReadMap, GoOn, MapFits, ReadErrors, AfterFailedRead, Filled, KeyInv,
           TypeNumbers
  <2>8. LateInv'
    <3>1. UNCHANGED <<map_key, services, late>> /\ services = "usable" /\ pc = "map_read"
      BY <1>2, <1>14 DEF ReadMap, ServicesInv
    <3>2. OneChangeSurvived'
      BY <3>1 DEF OneChangeSurvived
    <3>3. pc' \in HasMap => pc' = "exit_boot_func" /\ m' = Filled(m)
      BY <3>1, <1>14 DEF ReadMap, GoOn, AfterFailedRead
    <3>4. m' = Filled(m) => m'.key = map_key' /\ m'.key # 0
      BY <1>2, <3>1 DEF Filled, TypeNumbers
    <3>5. QED
      BY <3>2, <3>3, <3>4 DEF LateInv
  <2>9. QED
    BY <2>1, <2>2, <2>3, <2>4, <2>5, <2>6, <2>7, <2>8
<1>15. CASE UninstallMap /\ UNCHANGED counts
  <2>1. TypeCode'
    BY <1>2, <1>15 DEF UninstallMap, GoOn, Uninstall, MapChanges, TypeCode, Errors
  <2>2. TypeFlags'
    BY <1>2, <1>15 DEF UninstallMap, GoOn, Uninstall, MapChanges, TypeFlags
  <2>3. TypeNumbers'
    BY <1>2, <1>15, MapChangesType DEF UninstallMap, GoOn, Uninstall, TypeNumbers
  <2>4. StatusInv' /\ ServicesInv'
    BY <1>2, <1>15, MapChangesType DEF UninstallMap, GoOn, Uninstall, StatusInv,
           ServicesInv
  <2>5. PoolsInv'
    BY <1>2, <1>15, MapChangesType DEF UninstallMap, GoOn, Uninstall, PoolsInv,
           TablesLive, MapTakenBack, ServicesInv
  <2>6. VirtmapInv'
    BY <1>2, <1>15, MapChangesType DEF UninstallMap, GoOn, Uninstall, VirtmapInv,
           KernelSeesFinalMap, ServicesInv, TypeNumbers
  <2>7. KeyInv'
    BY <1>2, <1>15, MapChangesType DEF UninstallMap, GoOn, Uninstall, KeyInv,
           TypeNumbers
  <2>8. LateInv'
    BY <1>2, <1>15, MapChangesType DEF UninstallMap, GoOn, Uninstall, LateInv,
           OneChangeSurvived, StatusInv, ServicesInv, TypeNumbers
  <2>9. QED
    BY <2>1, <2>2, <2>3, <2>4, <2>5, <2>6, <2>7, <2>8
<1>16. CASE FreeMap /\ UNCHANGED counts
  <2>1. TypeCode'
    BY <1>2, <1>16 DEF FreeMap, Free, MapChanges, TypeCode, Errors
  <2>2. TypeFlags'
    BY <1>2, <1>16 DEF FreeMap, Free, MapChanges, TypeFlags
  <2>3. TypeNumbers'
    BY <1>2, <1>16, MapChangesType DEF FreeMap, Free, TypeNumbers
  <2>4. StatusInv' /\ ServicesInv'
    BY <1>2, <1>16, MapChangesType DEF FreeMap, Free, StatusInv, ServicesInv
  <2>5. PoolsInv'
    BY <1>2, <1>16, MapChangesType DEF FreeMap, Free, PoolsInv, TablesLive,
           MapTakenBack, ServicesInv
  <2>6. VirtmapInv'
    BY <1>2, <1>16, MapChangesType DEF FreeMap, Free, VirtmapInv, KernelSeesFinalMap,
           ServicesInv, TypeNumbers
  <2>7. KeyInv'
    BY <1>2, <1>16, MapChangesType DEF FreeMap, Free, KeyInv, TypeNumbers
  <2>8. LateInv'
    BY <1>2, <1>16, MapChangesType DEF FreeMap, Free, LateInv, OneChangeSurvived,
           StatusInv, ServicesInv, TypeNumbers
  <2>9. QED
    BY <2>1, <2>2, <2>3, <2>4, <2>5, <2>6, <2>7, <2>8
<1>17. CASE MakeVirtmap /\ UNCHANGED counts
  <2>1. TypeCode'
    BY <1>2, <1>17 DEF MakeVirtmap, GoOn, TypeCode, Errors
  <2>2. TypeFlags'
    BY <1>2, <1>17 DEF MakeVirtmap, GoOn, TypeFlags
  <2>3. TypeNumbers'
    <3>1. m.key \in 0..map_key
      BY <1>2 DEF TypeNumbers, KeyInv
    <3>2. virtmap_key' \in 0..map_key
      <4>1. virtmap_key' = 0 \/ virtmap_key' = m.key
        BY <1>17 DEF MakeVirtmap
      <4>2. 0 \in 0..map_key
        BY <1>2 DEF TypeNumbers
      <4>3. QED
        BY <3>1, <4>1, <4>2, Zenon
    <3>3. QED
      BY <1>2, <1>17, <3>2 DEF MakeVirtmap, TypeNumbers
  <2>4. StatusInv' /\ ServicesInv'
    BY <1>2, <1>17 DEF MakeVirtmap, GoOn, StatusInv, ServicesInv
  <2>5. PoolsInv'
    BY <1>2, <1>17 DEF MakeVirtmap, GoOn, PoolsInv, TablesLive, MapTakenBack,
           ServicesInv
  <2>6. VirtmapInv'
    BY <1>2, <1>17 DEF MakeVirtmap, GoOn, VirtmapInv, KernelSeesFinalMap, ServicesInv,
           TypeNumbers
  <2>7. KeyInv'
    BY <1>2, <1>17 DEF MakeVirtmap, GoOn, KeyInv, TypeNumbers
  <2>8. LateInv'
    BY <1>2, <1>17 DEF MakeVirtmap, GoOn, LateInv, OneChangeSurvived, StatusInv,
           ServicesInv, TypeNumbers
  <2>9. QED
    BY <2>1, <2>2, <2>3, <2>4, <2>5, <2>6, <2>7, <2>8
<1>18. CASE ExitBootServices /\ UNCHANGED counts
  <2>1. TypeCode'
    BY <1>2, <1>18 DEF ExitBootServices, GoOn, Return, StaleKey, TypeCode, Errors
  <2>2. TypeFlags'
    BY <1>2, <1>18 DEF ExitBootServices, GoOn, Return, StaleKey, TypeFlags
  <2>3. TypeNumbers'
    BY <1>2, <1>18 DEF ExitBootServices, GoOn, Return, StaleKey, TypeNumbers
  <2>4. StatusInv' /\ ServicesInv'
    BY <1>2, <1>18 DEF ExitBootServices, GoOn, Return, StaleKey, StatusInv,
           ServicesInv
  <2>5. PoolsInv'
    BY <1>2, <1>18 DEF ExitBootServices, GoOn, Return, StaleKey, PoolsInv, TablesLive,
           MapTakenBack, ServicesInv
  <2>6. VirtmapInv'
    BY <1>2, <1>18 DEF ExitBootServices, GoOn, Return, StaleKey, VirtmapInv,
           KernelSeesFinalMap, ServicesInv, TypeNumbers
  <2>7. KeyInv'
    BY <1>2, <1>18 DEF ExitBootServices, GoOn, Return, StaleKey, KeyInv, TypeNumbers
  <2>8. LateInv'
    BY <1>2, <1>18 DEF ExitBootServices, GoOn, Return, StaleKey, LateInv,
           OneChangeSurvived, StatusInv, ServicesInv, TypeNumbers
  <2>9. QED
    BY <2>1, <2>2, <2>3, <2>4, <2>5, <2>6, <2>7, <2>8
<1>19. CASE RereadMap /\ UNCHANGED counts
  <2>1. TypeCode'
    BY <1>2, <1>19 DEF RereadMap, GoOn, Return, MapFits, ReadErrors, RoomAgain, RereadFails,
           AfterReread, Filled, TypeCode, Errors
  <2>2. TypeFlags'
    BY <1>2, <1>19 DEF RereadMap, GoOn, Return, MapFits, ReadErrors, RoomAgain, RereadFails,
           AfterReread, Filled, TypeFlags
  <2>3. TypeNumbers'
    <3>1. /\ UNCHANGED <<virtmap_key, map_key, map_len, events, late>>
          /\ (map_len <= m.slots /\ m' = Filled(m)) \/ m' = m
      BY <1>19 DEF RereadMap, MapFits, RoomAgain, firmware, counts
    <3>2. m' \in [sized : Nat, slots : Nat, len : Nat, key : Nat] /\ m'.len <= m'.slots
      BY <1>2, <3>1 DEF Filled, TypeNumbers
    <3>3. QED
      BY <1>2, <3>1, <3>2 DEF TypeNumbers
  <2>4. StatusInv' /\ ServicesInv'
    BY <1>2, <1>19 DEF RereadMap, GoOn, Return, MapFits, ReadErrors, RoomAgain, RereadFails,
           AfterReread, Filled, StatusInv, ServicesInv
  <2>5. PoolsInv'
    BY <1>2, <1>19 DEF RereadMap, GoOn, Return, MapFits, ReadErrors, RoomAgain, RereadFails,
           AfterReread, Filled, PoolsInv, TablesLive, MapTakenBack, ServicesInv
  <2>6. VirtmapInv'
    BY <1>2, <1>19 DEF RereadMap, GoOn, Return, MapFits, ReadErrors, RoomAgain, RereadFails,
           AfterReread, Filled, VirtmapInv, KernelSeesFinalMap, ServicesInv,
           TypeNumbers
  <2>7. KeyInv'
    <3>1. UNCHANGED map_key /\ (m' = Filled(m) \/ m' = m)
      BY <1>19 DEF RereadMap
    <3>2. CASE m' = Filled(m)
      <4>1. m'.key = map_key
        BY <3>2 DEF Filled
      <4>2. QED
        BY <1>2, <3>1, <4>1 DEF KeyInv, TypeNumbers
    <3>3. CASE m' = m
      BY <1>2, <3>1, <3>3 DEF KeyInv
    <3>4. QED
      BY <3>1, <3>2, <3>3
  <2>8. LateInv'
    <3>1. UNCHANGED <<map_key, services, late>> /\ pc = "map_read again"
      BY <1>19 DEF RereadMap
    <3>2. late >= 1
      BY <1>2, <3>1 DEF LateInv
    <3>3. status' # "INVALID_PARAMETER"
      BY <1>2, <1>19, <3>1 DEF RereadMap, GoOn, Return, RereadFails, ReadErrors, StatusInv
    <3>4. pc' \in HasMap => pc' = "exit_boot_func again" /\ m' = Filled(m)
      BY <3>1, <1>19 DEF RereadMap, GoOn, Return, RereadFails, ReadErrors, AfterReread
    <3>5. m' = Filled(m) => m'.key = map_key' /\ m'.key # 0
      <4>1. map_key # 0 /\ map_key' = map_key
        BY <1>2, <3>1 DEF TypeNumbers
      <4>2. m' = Filled(m) => m'.key = map_key
        BY DEF Filled
      <4>3. QED
        BY <4>1, <4>2, Zenon
    <3>6. QED
      BY <3>1, <3>2, <3>3, <3>4, <3>5 DEF LateInv, OneChangeSurvived
  <2>9. QED
    BY <2>1, <2>2, <2>3, <2>4, <2>5, <2>6, <2>7, <2>8
<1>20. CASE EnterKernel /\ UNCHANGED counts
  <2>1. TypeCode'
    BY <1>2, <1>20 DEF EnterKernel, GoOn, TypeCode, Errors
  <2>2. TypeFlags'
    BY <1>2, <1>20 DEF EnterKernel, GoOn, TypeFlags
  <2>3. TypeNumbers'
    BY <1>2, <1>20 DEF EnterKernel, GoOn, TypeNumbers
  <2>4. StatusInv' /\ ServicesInv'
    BY <1>2, <1>20 DEF EnterKernel, GoOn, StatusInv, ServicesInv
  <2>5. PoolsInv'
    BY <1>2, <1>20 DEF EnterKernel, GoOn, PoolsInv, TablesLive, MapTakenBack,
           ServicesInv
  <2>6. VirtmapInv'
    BY <1>2, <1>20 DEF EnterKernel, GoOn, VirtmapInv, KernelSeesFinalMap, ServicesInv,
           TypeNumbers
  <2>7. KeyInv'
    BY <1>2, <1>20 DEF EnterKernel, GoOn, KeyInv, TypeNumbers
  <2>8. LateInv'
    BY <1>2, <1>20 DEF EnterKernel, GoOn, LateInv, OneChangeSurvived, StatusInv,
           ServicesInv, TypeNumbers
  <2>9. QED
    BY <2>1, <2>2, <2>3, <2>4, <2>5, <2>6, <2>7, <2>8
<1>21. CASE FirmwareEvent
  <2>1. TypeCode'
    BY <1>2, <1>21 DEF FirmwareEvent, MapChanges, TypeCode, Errors
  <2>2. TypeFlags'
    BY <1>2, <1>21 DEF FirmwareEvent, MapChanges, TypeFlags
  <2>3. TypeNumbers'
    BY <1>2, <1>21, MapChangesType DEF FirmwareEvent, TypeNumbers, KeyInv
  <2>4. StatusInv' /\ ServicesInv'
    BY <1>2, <1>21, MapChangesType DEF FirmwareEvent, StatusInv, ServicesInv
  <2>5. PoolsInv'
    BY <1>2, <1>21, MapChangesType DEF FirmwareEvent, PoolsInv, TablesLive,
           MapTakenBack, ServicesInv
  <2>6. VirtmapInv'
    BY <1>2, <1>21, MapChangesType DEF FirmwareEvent, VirtmapInv, KernelSeesFinalMap,
           ServicesInv, TypeNumbers
  <2>7. KeyInv'
    BY <1>2, <1>21, MapChangesType DEF FirmwareEvent, KeyInv, TypeNumbers
  <2>8. LateInv'
    <3>1. UNCHANGED <<pc, status, m, services>> /\ services # "gone"
      BY <1>21 DEF FirmwareEvent
    <3>2. late \in Nat
      BY <1>2 DEF TypeNumbers
    <3>3. late' = late \/ late' = late + 1
      BY <1>21 DEF FirmwareEvent
    <3>4. pc \in HasMap => m.key # 0
      BY <1>2 DEF LateInv
    <3>5. pc \in HasMap => late' = late + 1
      BY <1>21, <3>4 DEF FirmwareEvent
    <3>6. late' = late + 1 => late' >= 1 /\ (late >= 1 => late' >= 2)
      <4> HIDE DEF HasMap, Retrying
      <4> QED
        BY <3>2
    <3>7. late >= 2 => late' >= 2
      <4> HIDE DEF HasMap, Retrying
      <4> QED
        BY <3>2, <3>3
    <3>8. pc \in Retrying => late >= 1
      BY <1>2 DEF LateInv
    <3>9. OneChangeSurvived'
      BY <1>2, <3>1, <3>7, Zenon DEF LateInv, OneChangeSurvived
    <3>10. pc \in HasMap => late' >= 1
      BY <3>5, <3>6, Zenon
    <3>11. pc \in Retrying => late' >= 2
      BY <3>5, <3>6, <3>8, Zenon
    <3>12. QED
      BY <3>1, <3>4, <3>9, <3>10, <3>11 DEF LateInv
  <2>9. QED
    BY <2>1, <2>2, <2>3, <2>4, <2>5, <2>6, <2>7, <2>8
<1>22. CASE UNCHANGED vars
  BY <1>2, <1>22 DEF vars, TypeCode, TypeFlags, TypeNumbers, StatusInv, ServicesInv,
         PoolsInv, VirtmapInv, KeyInv, LateInv, TablesLive, MapTakenBack, KernelSeesFinalMap,
         OneChangeSurvived
<1>23. QED
  BY <1>1, <1>4, <1>5, <1>6, <1>7, <1>8, <1>9, <1>10, <1>11, <1>12, <1>13, <1>14,
     <1>15, <1>16, <1>17, <1>18, <1>19, <1>20, <1>21, <1>22 DEF Next, StubStep

-----------------------------------------------------------------------------
LEMMA Invariance == Spec => []IInv
<1>1. Init => IInv
  BY InitInv
<1>2. IInv /\ [Next]_vars => IInv'
  BY NextInv
<1>3. QED
  BY <1>1, <1>2, PTL DEF Spec

\* Every variable keeps its type, the map fits the buffer it is in, and the stub never
\* holds a key the firmware did not give.
THEOREM TypeCorrect == Spec => []TypeOK
<1>1. IInv => TypeOK
  BY DEF IInv
<1>2. QED
  BY <1>1, Invariance, PTL

\* Whatever call fails, no configuration table is left in memory that was freed: mem.c
\* uninstalls the table of the memory map before it frees the map.
THEOREM NoDanglingTable == Spec => []TablesLive
<1>1. IInv => TablesLive
  BY DEF IInv, PoolsInv
<1>2. QED
  BY <1>1, Invariance, PTL

\* The kernel is entered only with boot services gone and the map current at that time,
\* both for itself and for the runtime services, however often the map has changed.
THEOREM FinalMap == Spec => []KernelSeesFinalMap
<1>1. IInv => KernelSeesFinalMap
  BY DEF IInv, VirtmapInv
<1>2. QED
  BY <1>1, Invariance, PTL

\* efi_exit_boot_services gives up for a stale key only after a second change of the map.
THEOREM SurvivesOneChange == Spec => []OneChangeSurvived
<1>1. IInv => OneChangeSurvived
  BY DEF IInv, LateInv
<1>2. QED
  BY <1>1, Invariance, PTL

\* A stub that returns before it tried to leave has freed its memory map and its table.
THEOREM TakesMapBack == Spec => []MapTakenBack
<1>1. IInv => MapTakenBack
  BY DEF IInv, PoolsInv
<1>2. QED
  BY <1>1, Invariance, PTL

\* From the first attempt to leave on, the stub allocates, frees and installs nothing.
THEOREM NoMemoryCalls == Spec => NoMemoryCallsWhileLeaving
<1>1. IInv /\ [Next]_vars => [services # "usable" => UNCHANGED <<pools, tables, pages>>]_vars
  <2>1. SUFFICES ASSUME IInv, [Next]_vars, services # "usable"
                 PROVE  UNCHANGED <<pools, tables, pages>>
    OBVIOUS
  <2>2. pc \in Retrying \cup Entering \cup {"returned"}
    BY <2>1 DEF IInv, ServicesInv
  <2> USE DEF firmware
  <2>3. CASE MakeVirtmap \/ ExitBootServices \/ RereadMap \/ EnterKernel
    BY <2>3 DEF MakeVirtmap, ExitBootServices, RereadMap, EnterKernel
  <2>4. CASE FirmwareEvent
    BY <2>4 DEF FirmwareEvent
  <2>5. CASE UNCHANGED vars
    BY <2>5 DEF vars
  <2>6. ~( \/ HandleProtocol \/ HandleKernelImage \/ RuntimeServices
           \/ AllocMemreserve \/ InstallMemreserve \/ SizeVirtmap \/ AllocVirtmap
           \/ SizeMap \/ AllocMap \/ InstallMap \/ ReadMap \/ UninstallMap \/ FreeMap)
    BY <2>2 DEF HandleProtocol, HandleKernelImage, RuntimeServices, AllocMemreserve,
       InstallMemreserve, SizeVirtmap, AllocVirtmap, SizeMap, AllocMap, InstallMap,
       ReadMap, UninstallMap, FreeMap
  <2>7. QED
    BY <2>1, <2>3, <2>4, <2>5, <2>6 DEF Next, StubStep
<1>2. QED
  BY <1>1, Invariance, PTL DEF Spec, NoMemoryCallsWhileLeaving

-----------------------------------------------------------------------------
\* The room of the buffer, kept over both readings.
SlotsInv == pc \in {"map", "map_table", "map_read"} \cup HasMap => m.slots = m.sized + SLACK

LEMMA SlotsInvariance == Spec => []SlotsInv
<1>1. Init => SlotsInv
  BY DEF Init, SlotsInv
<1>2. SlotsInv /\ [Next]_vars => SlotsInv'
  <2>1. SUFFICES ASSUME SlotsInv, [Next]_vars PROVE SlotsInv'
    OBVIOUS
  <2> USE DEF SlotsInv, GoOn, Return, stub, firmware
  <2>2. CASE HandleProtocol \/ HandleKernelImage \/ RuntimeServices \/ AllocMemreserve
             \/ InstallMemreserve \/ SizeVirtmap \/ AllocVirtmap
    BY <2>1, <2>2 DEF HandleProtocol, HandleKernelImage, RuntimeServices, AllocMemreserve,
       InstallMemreserve, SizeVirtmap, AllocVirtmap
  <2>3. CASE SizeMap
    <3>1. pc' = "returned" \/ m' = [sized |-> map_len, slots |-> map_len + SLACK,
                                    len |-> 0, key |-> 0]
      BY <2>3 DEF SizeMap, Roomy
    <3>2. CASE pc' = "returned"
      BY <3>2
    <3>3. CASE m' = [sized |-> map_len, slots |-> map_len + SLACK, len |-> 0, key |-> 0]
      BY <3>3
    <3>4. QED
      BY <3>1, <3>2, <3>3
  <2>4. CASE AllocMap \/ InstallMap \/ UninstallMap \/ FreeMap
    BY <2>1, <2>4 DEF AllocMap, InstallMap, UninstallMap, FreeMap
  <2>5. CASE ReadMap \/ RereadMap
    <3>1. pc \in {"map_read", "map_read again"} /\ (m' = Filled(m) \/ m' = m)
      BY <2>5 DEF ReadMap, RereadMap
    <3>2. Filled(m).slots = m.slots /\ Filled(m).sized = m.sized
      BY DEF Filled
    <3>3. m'.slots = m.slots /\ m'.sized = m.sized
      BY <3>1, <3>2, Zenon
    <3>4. QED
      BY <2>1, <3>1, <3>3
  <2>6. CASE MakeVirtmap \/ ExitBootServices \/ EnterKernel
    BY <2>1, <2>6 DEF MakeVirtmap, ExitBootServices, StaleKey, EnterKernel
  <2>7. CASE FirmwareEvent \/ UNCHANGED vars
    BY <2>1, <2>7 DEF FirmwareEvent, vars
  <2>8. QED
    BY <2>1, <2>2, <2>3, <2>4, <2>5, <2>6, <2>7 DEF Next, StubStep
<1>3. QED
  BY <1>1, <1>2, PTL DEF Spec

\* A read for which the buffer is too small, the first or the retry's, is of a map that
\* grew by more than EFI_MMAP_NR_SLACK_SLOTS descriptors since the buffer was sized.
THEOREM SlackEnough == Spec => SlackSuffices
<1>1. IInv /\ SlotsInv /\ [Next]_vars =>
        [status = "SUCCESS" /\ status' = "BUFFER_TOO_SMALL" => map_len > m.sized + SLACK]_vars
  <2>1. SUFFICES ASSUME IInv, SlotsInv, [Next]_vars,
                        status = "SUCCESS", status' = "BUFFER_TOO_SMALL"
                 PROVE  map_len > m.sized + SLACK
    OBVIOUS
  <2>2. ReadMap \/ RereadMap
    <3> USE DEF GoOn, Return, StaleKey, stub, firmware, vars
    <3>1. ~(HandleProtocol \/ HandleKernelImage \/ RuntimeServices \/ AllocMemreserve)
      BY <2>1 DEF HandleProtocol, HandleKernelImage, RuntimeServices, AllocMemreserve
    <3>2. ~(InstallMemreserve \/ SizeVirtmap \/ AllocVirtmap \/ SizeMap \/ AllocMap)
      BY <2>1 DEF InstallMemreserve, SizeVirtmap, AllocVirtmap, SizeMap, AllocMap
    <3>3. ~(InstallMap \/ UninstallMap \/ FreeMap \/ MakeVirtmap \/ EnterKernel)
      BY <2>1 DEF InstallMap, UninstallMap, FreeMap, MakeVirtmap, EnterKernel
    <3>4. ~ExitBootServices
      BY <2>1 DEF ExitBootServices
    <3>5. ~FirmwareEvent /\ ~UNCHANGED vars
      BY <2>1 DEF FirmwareEvent
    <3>6. QED
      BY <2>1, <3>1, <3>2, <3>3, <3>4, <3>5 DEF Next, StubStep
  <2>3. ~(map_len <= m.slots)
    BY <2>1, <2>2 DEF ReadMap, RereadMap, GoOn, Return, RereadFails, MapFits, ReadErrors,
       RoomAgain
  <2>4. m.slots = m.sized + SLACK
    BY <2>1, <2>2 DEF ReadMap, RereadMap, SlotsInv
  <2>5. TypeNumbers
    BY <2>1, TypeParts DEF IInv
  <2>6. QED
    BY <2>3, <2>4, <2>5 DEF TypeNumbers
<1>2. QED
  BY <1>1, Invariance, SlotsInvariance, PTL DEF Spec, SlackSuffices
=============================================================================
