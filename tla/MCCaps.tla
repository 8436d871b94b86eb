------------------------------- MODULE MCCaps -------------------------------
(***************************************************************************)
(* Configuration space on small instances: the capability lists, their     *)
(* registers, the base address registers, and who answers an access on a   *)
(* host bus. Each behaviour is one of CapList, CapRegs, BarRegs or         *)
(* BusHijack; the part says which.                                         *)
(***************************************************************************)
EXTENDS CapList, CapRegs, BarRegs, BusHijack

VARIABLE part

capsVars == <<vars, regsVars, barVars, hijackVars, part>>

CapsInit ==
    /\ part \in {"list", "regs", "bars", "bus"}
    /\ Init /\ RegsInit /\ BarsInit /\ HijackInit
    /\ part = "regs" \/ usage = {}
    /\ part = "bars" \/ (bus = "root" /\ \A b \in Bars : lay[b] = Off)

CapsNext ==
    \/ part = "list" /\ Next /\ UNCHANGED <<regsVars, barVars, hijackVars, part>>
    \/ part = "regs" /\ RegsNext /\ UNCHANGED <<vars, barVars, hijackVars, part>>
    \/ part = "bars" /\ BarsNext /\ UNCHANGED <<vars, regsVars, hijackVars, part>>
    \/ part = "bus" /\ HijackNext /\ UNCHANGED <<vars, regsVars, barVars, part>>

CapsSpec == CapsInit /\ [][CapsNext]_capsVars

=============================================================================
