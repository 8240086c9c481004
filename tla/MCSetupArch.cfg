CONSTANTS
    MemoryMaps <- MCMaps
    WORD = 4096
    E820MAX = 8
    PAGE_SIZE = 16
    LOW_END = 48
    HIGH_MEMORY = 64
    KERNEL_END = 87
    MAXMEM_PFN = 52
    PTRS_PER_PTE = 16
    SMP_CACHE_BYTES = 4
    MAX_DMA_PFN = 16
    SIZEOF_PAGE = 3
    LONG_BYTES = 2
    MAX_ORDER = 3
    BALANCE_RATIO = 8
    BALANCE_MIN = 2
    BALANCE_MAX = 4
SPECIFICATION Spec
INVARIANTS RamExact KernelKept StopsOnlyWhenShort MemoryReachable ArraysFit PagesMatchFrames ZonelistsSound
PROPERTY BootEnds
CHECK_DEADLOCK FALSE
