SPECIFICATION ArchSpec
CONSTANTS
    Layouts <- MCLayouts
    Mappings <- MCMappings
    Insns <- MCInsns
    Cpu <- MCCpu
    Volatile = {FALSE}
INVARIANTS
    EveryAccessFaults
    EntriesRestored
    AsNative
    EventsTellAccess
CHECK_DEADLOCK FALSE
