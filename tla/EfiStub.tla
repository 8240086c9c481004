------------------------------ MODULE EfiStub ------------------------------
(***************************************************************************)
(* The EFI boot stub of drivers/firmware/efi/libstub, which starts the     *)
(* LoongArch kernel: from efi_pe_entry to the jump to the kernel.  It must  *)
(* leave boot services with the key of the current memory map, while       *)
(* firmware events (timers, drivers) may change that map between any two   *)
(* of its calls, and any call may fail.                                    *)
(*                                                                         *)
(* The firmware is modelled by what the stub can observe of it: its memory *)
(* map has a length, in descriptors, and a key that changes with the map;  *)
(* it keeps pools and configuration tables.  One step is one firmware call *)
(* with the code that follows it; `pc' is the call that comes next.        *)
(***************************************************************************)
EXTENDS Integers, FiniteSets

CONSTANTS
    SLACK,              \* EFI_MMAP_NR_SLACK_SLOTS
    MaxLen,             \* bound on the descriptors of the memory map
    MaxEvents           \* bound on the firmware events

ASSUME StubAssumption == SLACK \in Nat /\ MaxLen \in Nat \ {0} /\ MaxEvents \in Nat

Pools == {"memreserve", "virtmap", "boot_memmap"}

Errors == {"LOAD_ERROR", "OUT_OF_RESOURCES", "INVALID_PARAMETER",
           "BUFFER_TOO_SMALL", "UNSUPPORTED", "DEVICE_ERROR"}

NoMap == [sized |-> 0, slots |-> 0, len |-> 0, key |-> 0]

VARIABLES
    pc, status,
    m,                  \* the struct efi_boot_memmap: the length of the map when it was
                        \* sized, the room it has, and the map it holds
    virtmap_key,        \* the key of the map runtime_map was made from
    efi_novamap,
    map_key, map_len,   \* firmware: the memory map
    pools, tables,      \* firmware: pools allocated, tables installed (each in its pool)
    pages,              \* firmware: the kernel's pages are allocated
    services,           \* firmware: boot services are usable, being left, or gone
    events,             \* firmware events so far
    late                \* history: those since the stub first read the whole map

stub == <<pc, status, m, virtmap_key, efi_novamap>>
firmware == <<map_key, map_len, pools, tables, pages, services>>
counts == <<events, late>>
vars == <<stub, firmware, counts>>

-----------------------------------------------------------------------------
\* The firmware.

MapChanges ==
    /\ map_key' = map_key + 1
    /\ map_len' \in {map_len - 1, map_len, map_len + 1} \cap 1..MaxLen

MapStays == UNCHANGED <<map_key, map_len>>

\* A timer or a driver allocates or frees memory; nothing does once services are gone.
FirmwareEvent ==
    /\ services # "gone" /\ events < MaxEvents
    /\ MapChanges
    /\ events' = events + 1
    /\ late' = IF m.key # 0 THEN late + 1 ELSE late
    /\ UNCHANGED <<stub, pools, tables, pages, services>>

\* The calls that use memory, when they succeed: each may change the memory map.
Allocate(pool) == pools' = pools \cup {pool} /\ MapChanges
Free(pool) == pools' = pools \ {pool} /\ MapChanges
Install(table) == tables' = tables \cup {table} /\ MapChanges
Uninstall(table) == tables' = tables \ {table} /\ MapChanges

\* get_memory_map writes the map to a buffer.
Filled(map) == [sized |-> map.sized, slots |-> map.slots, len |-> map_len, key |-> map_key]

\* get_memory_map succeeds only when the buffer holds every descriptor, and may fail for
\* another reason: the callers treat every error alike.
MapFits(slots) == map_len <= slots
ReadErrors(slots) == {"DEVICE_ERROR"} \cup (IF MapFits(slots) THEN {} ELSE {"BUFFER_TOO_SMALL"})

-----------------------------------------------------------------------------
\* Definitions marked `slip' are not the code's: each is a plausible mistake in the
\* definition that follows it, and some property must tell the two apart.

GoOn(next) == pc' = next /\ UNCHANGED status

Return(error) == pc' = "returned" /\ status' = error

Init ==
    /\ pc = "handle_protocol" /\ status = "SUCCESS"
    /\ m = NoMap /\ virtmap_key = 0 /\ efi_novamap = FALSE
    /\ map_key = 1 /\ map_len \in 1..MaxLen
    /\ pools = {} /\ tables = {} /\ pages = FALSE /\ services = "usable"
    /\ events = 0 /\ late = 0

\* efi_pe_entry: the system table must be one, and the image protocol must be there.
HandleProtocol ==
    /\ pc = "handle_protocol"
    /\ \/ GoOn("allocate_pages")
       \/ \E error \in {"INVALID_PARAMETER", "UNSUPPORTED"} : Return(error)
    /\ UNCHANGED <<m, virtmap_key, efi_novamap, firmware>>

\* handle_kernel_image: the kernel is copied to its fixed address.
HandleKernelImage ==
    /\ pc = "allocate_pages"
    /\ \/ pages' = TRUE /\ MapChanges /\ GoOn("rt_services")
       \/ UNCHANGED pages /\ MapStays /\ Return("OUT_OF_RESOURCES")
    /\ UNCHANGED <<m, virtmap_key, efi_novamap, pools, tables, services>>

\* efi_stub_common: the firmware may say it has no SetVirtualAddressMap.
RuntimeServices ==
    /\ pc = "rt_services"
    /\ efi_novamap' \in BOOLEAN
    /\ GoOn("memreserve")
    /\ UNCHANGED <<m, virtmap_key, firmware>>

\* install_memreserve_table: its failures are only reported.
AllocMemreserve ==
    /\ pc = "memreserve"
    /\ \/ Allocate("memreserve") /\ GoOn("memreserve_table")
       \/ UNCHANGED pools /\ MapStays /\ GoOn("virtmap_size")
    /\ UNCHANGED <<m, virtmap_key, efi_novamap, tables, pages, services>>

InstallMemreserve ==
    /\ pc = "memreserve_table"
    /\ \/ Install("memreserve")
       \/ UNCHANGED tables /\ MapStays
    /\ GoOn("virtmap_size")
    /\ UNCHANGED <<m, virtmap_key, efi_novamap, pools, pages, services>>

\* efi_alloc_virtmap.
SizeVirtmap ==
    /\ pc = "virtmap_size"
    /\ GoOn("virtmap") \/ Return("LOAD_ERROR")
    /\ UNCHANGED <<m, virtmap_key, efi_novamap, firmware>>

\* efi_boot_kernel does not look at what efi_stub_common found out.
NovamapReset == FALSE

\* The buffer of efi_alloc_virtmap, then efi_novamap as efi_boot_kernel sets it.
AllocVirtmap ==
    /\ pc = "virtmap"
    /\ \/ Allocate("virtmap") /\ efi_novamap' = NovamapReset /\ GoOn("map_size")
       \/ UNCHANGED <<pools, efi_novamap>> /\ MapStays /\ Return("OUT_OF_RESOURCES")
    /\ UNCHANGED <<m, virtmap_key, tables, pages, services>>

-----------------------------------------------------------------------------
\* efi_get_memory_map, called by efi_exit_boot_services with install_cfg_tbl.

\* The call without a buffer returns the size of the map; room is left for it to grow.
Roomy(len) == len + SLACK

SizeMap ==
    /\ pc = "map_size"
    /\ \/ GoOn("map") /\ m' = [sized |-> map_len, slots |-> Roomy(map_len), len |-> 0, key |-> 0]
       \/ Return("LOAD_ERROR") /\ UNCHANGED m
    /\ UNCHANGED <<virtmap_key, efi_novamap, firmware>>

AllocMap ==
    /\ pc = "map"
    /\ \/ Allocate("boot_memmap") /\ GoOn("map_table")
       \/ UNCHANGED pools /\ MapStays /\ Return("OUT_OF_RESOURCES")
    /\ UNCHANGED <<m, virtmap_key, efi_novamap, tables, pages, services>>

InstallMap ==
    /\ pc = "map_table"
    /\ \/ Install("boot_memmap") /\ GoOn("map_read")
       \/ UNCHANGED tables /\ MapStays /\ pc' = "map_free" /\ status' = "OUT_OF_RESOURCES"
    /\ UNCHANGED <<m, virtmap_key, efi_novamap, pools, pages, services>>

\* The labels uninstall_table and free_map.
StraightToFree == "map_free"                                           \* slip
ForgetsMap == "returned"                                               \* slip
AfterFailedRead == "map_uninstall"

ReadMap ==
    /\ pc = "map_read"
    /\ \/ MapFits(m.slots) /\ m' = Filled(m) /\ GoOn("exit_boot_func")
       \/ pc' = AfterFailedRead /\ status' \in ReadErrors(m.slots) /\ UNCHANGED m
    /\ UNCHANGED <<virtmap_key, efi_novamap, firmware>>

UninstallMap ==
    /\ pc = "map_uninstall"
    /\ Uninstall("boot_memmap")
    /\ GoOn("map_free")
    /\ UNCHANGED <<m, virtmap_key, efi_novamap, pools, pages, services>>

FreeMap ==
    /\ pc = "map_free"
    /\ Free("boot_memmap")
    /\ pc' = "returned"
    /\ UNCHANGED <<status, m, virtmap_key, efi_novamap, tables, pages, services>>

-----------------------------------------------------------------------------
\* efi_exit_boot_services, once it has the map.

\* exit_boot_func: runtime_map is made from the map read last; with efi_novamap it is
\* left empty.  It never fails, so the code for a failing priv_func does not run.
MakeVirtmap ==
    /\ pc \in {"exit_boot_func", "exit_boot_func again"}
    /\ virtmap_key' = IF efi_novamap THEN 0 ELSE m.key
    /\ GoOn(IF pc = "exit_boot_func" THEN "exit_boot_services" ELSE "exit_boot_services again")
    /\ UNCHANGED <<m, efi_novamap, firmware>>

\* What follows a call of exit_boot_services with a stale key: one retry.
GiveUp(at) == Return("INVALID_PARAMETER")                              \* slip
StaleKey(at) ==
    IF at = "exit_boot_services" THEN GoOn("map_read again") ELSE Return("INVALID_PARAMETER")

\* exit_boot_services: boot services are on the way out even when the key is stale.
ExitBootServices ==
    /\ pc \in {"exit_boot_services", "exit_boot_services again"}
    /\ IF m.key = map_key
       THEN services' = "gone" /\ GoOn("set_virtual_address_map")
       ELSE services' = "leaving" /\ StaleKey(pc)
    /\ UNCHANGED <<m, virtmap_key, efi_novamap, map_key, map_len, pools, tables, pages>>

\* The retry's get_memory_map: the buffer has its full size again.
RoomLeft(map) == map.len                                               \* slip
RoomAgain(map) == map.slots

SkipsVirtmap == "exit_boot_services again"                             \* slip
AfterReread == "exit_boot_func again"

FreesMap(error) == pc' = "map_free" /\ status' = error                 \* slip
RereadFails(error) == Return(error)

RereadMap ==
    /\ pc = "map_read again"
    /\ \/ MapFits(RoomAgain(m)) /\ m' = Filled(m) /\ GoOn(AfterReread)
       \/ (\E error \in ReadErrors(RoomAgain(m)) : RereadFails(error)) /\ UNCHANGED m
    /\ UNCHANGED <<virtmap_key, efi_novamap, firmware>>

\* efi_boot_kernel: runtime services move to their virtual addresses, the kernel starts.
EnterKernel ==
    /\ pc = "set_virtual_address_map"
    /\ GoOn("kernel")
    /\ UNCHANGED <<m, virtmap_key, efi_novamap, firmware>>

StubStep ==
    \/ HandleProtocol \/ HandleKernelImage \/ RuntimeServices
    \/ AllocMemreserve \/ InstallMemreserve \/ SizeVirtmap \/ AllocVirtmap
    \/ SizeMap \/ AllocMap \/ InstallMap \/ ReadMap \/ UninstallMap \/ FreeMap
    \/ MakeVirtmap \/ ExitBootServices \/ RereadMap \/ EnterKernel

Next == (StubStep /\ UNCHANGED counts) \/ FirmwareEvent

Spec == Init /\ [][Next]_vars

-----------------------------------------------------------------------------
TypeOK ==
    /\ pc \in {"handle_protocol", "allocate_pages", "rt_services", "memreserve",
               "memreserve_table", "virtmap_size", "virtmap", "map_size", "map",
               "map_table", "map_read", "map_uninstall", "map_free", "exit_boot_func",
               "exit_boot_services", "map_read again", "exit_boot_func again",
               "exit_boot_services again", "set_virtual_address_map", "kernel", "returned"}
    /\ status \in Errors \cup {"SUCCESS"}
    /\ m \in [sized : Nat, slots : Nat, len : Nat, key : Nat]
    /\ m.len <= m.slots
    /\ virtmap_key \in 0..map_key
    /\ efi_novamap \in BOOLEAN
    /\ map_key \in Nat \ {0}
    /\ map_len \in 1..MaxLen
    /\ pools \subseteq Pools /\ tables \subseteq Pools
    /\ pages \in BOOLEAN
    /\ services \in {"usable", "leaving", "gone"}
    /\ events \in 0..MaxEvents
    /\ late \in 0..events

\* A configuration table the firmware hands to whoever comes next is never in memory
\* that was freed, whichever call fails (mem.c: the table goes before its pool).
TablesLive == tables \subseteq pools

\* "exit_boot_services() was called, thus cannot free" (efi-stub-helper.c:57,62): from
\* the first attempt to leave on, no boot service that manages memory is used.
NoMemoryCallsWhileLeaving ==
    [][services # "usable" => UNCHANGED <<pools, tables, pages>>]_vars

\* The kernel starts only when boot services are gone, and what it and the runtime
\* services are told of memory is the map that was current at that moment, even when
\* the map changed between reading it and leaving.
KernelSeesFinalMap ==
    pc \in {"set_virtual_address_map", "kernel"} =>
        services = "gone" /\ m.key = map_key /\ virtmap_key = map_key

\* One change of the map while the stub leaves is survived: it fails for a stale key
\* only when the map changed again after it was reread.
OneChangeSurvived == services = "leaving" /\ status = "INVALID_PARAMETER" => late >= 2

\* "The allocated memory leaves room for up to EFI_MMAP_NR_SLACK_SLOTS additional memory
\* map entries" (mem.c:13-14): at the first reading and at the retry the buffer is too
\* small only for a map that grew by more descriptors than that since it was sized.
SlackSuffices ==
    [][status = "SUCCESS" /\ status' = "BUFFER_TOO_SMALL" => map_len > m.sized + SLACK]_vars

\* A stub that returns while boot services are usable takes its memory map back: no
\* table and no pool of it stay behind.
MapTakenBack ==
    pc = "returned" /\ services = "usable" =>
        "boot_memmap" \notin pools /\ "boot_memmap" \notin tables
=============================================================================
