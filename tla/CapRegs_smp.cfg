SPECIFICATION RegsSpec
CONSTANTS
    CfgCpus = {c1, c2}
    Kinds = {"PM", "PASID"}
    Usages = {{"smp"}}
    NoReg = NoReg
INVARIANTS
    ViewsAgree
