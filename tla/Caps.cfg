SPECIFICATION CapsSpec
CONSTANTS
    MaxCaps = 4
    VsecLens = {4, 64}
    DevTypes = {0, 1}
    CfgCpus = {c1, c2}
    Kinds = {"MSIX", "PM"}
    Usages = {{}, {"sizes", "smp"}}
    NoReg = NoReg
    Bars = {0, 1, 2}
    Half = 8
    BarSizes = {0, 1, 2, 4, 8, 16}
    Layouts = {{}}
    Insts = {i1, i2}
    Cpus = {c1, c2}
    Slots = {1, 2}
    HostSlots = {1}
    Quiet = TRUE
    Overlap = FALSE
    None = None
INVARIANTS
    ListsSound
    OrderlyViewsAgree
    BarsFound
    OpsRestored
    ProxySafe
PROPERTIES
    Routed
CHECK_DEADLOCK FALSE
