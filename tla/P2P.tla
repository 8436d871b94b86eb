-------------------------------- MODULE P2P --------------------------------
(***************************************************************************)
(* Peer-to-peer accesses (p2p.c): the list of whitelisted regions, which   *)
(* the module parameter fills when the instance is initialised and other   *)
(* kernel code may change with the exported functions, and the P2P ioctl,  *)
(* which validates an access under the lock of the list, drops the lock,   *)
(* and looks its region up again under it.                                 *)
(*                                                                         *)
(* Addresses are integers modulo Space, as phys_addr_t is modulo 2^64. An  *)
(* access changes nothing that another one sees, so one caller is enough.  *)
(***************************************************************************)
EXTENDS Naturals, Sequences, SequencesExt

CONSTANTS
    Space,          \* number of addresses: 2^64
    MaxSize,        \* largest region: 1 << 40 at load time
    MaxTransfer,    \* PCIEM_P2P_MAX_TRANSFER
    MaxTokens,      \* bound: tokens of the module parameter
    MaxRegions,     \* bound: regions on the list
    Others,         \* what other kernel code does with the regions, each a
                    \* set of "add" and "remove"
    None

ASSUME SizeAssumption ==
    /\ Space \in Nat \ {0} /\ MaxTokens \in Nat /\ MaxRegions \in Nat
    /\ MaxSize \in 1 .. Space - 1 /\ MaxTransfer \in 1 .. MaxSize
ASSUME OthersAssumption == Others \subseteq SUBSET {"add", "remove"}

VARIABLES
    mode,      \* "loading", "ready" or "gone": the manager's life
    tokens,    \* tokens parsed
    regions,   \* mgr->regions, in list order
    enabled,   \* mgr->enabled
    req,       \* the access of the running ioctl: None before it is checked
    out,       \* how the last call ended
    use,       \* the last access carried out, with the region it used and
               \* whether it was the only one on the list with the address
    others     \* of Others; it never changes

vars == <<mode, tokens, regions, enabled, req, out, use, others>>

Addr == 0 .. Space - 1
Plus(a, n) == (a + n) % Space

Region == [start : Addr, size : 1 .. MaxSize]
RegionEnd(r) == Plus(r.start, r.size)

Init ==
    /\ mode = "loading"
    /\ tokens = 0
    /\ regions = <<>>
    /\ enabled = FALSE
    /\ req = None
    /\ out = "none"
    /\ use = None
    /\ others \in Others

-----------------------------------------------------------------------------
(* parse_p2p_regions: the new region meets one of the list. *)
Overlaps(a, n, r) == a < RegionEnd(r) /\ Plus(a, n) > r.start

(* ... a size it accepts. *)
SizeAccepted(n) == n # 0 /\ n <= MaxSize

(* A token is well formed, and is added unless it overlaps ... *)
ParseToken(a, n) ==
    /\ mode = "loading" /\ tokens < MaxTokens
    /\ tokens' = tokens + 1
    /\ regions' = IF SizeAccepted(n) /\ \A r \in Range(regions) : ~Overlaps(a, n, r)
                    THEN Append(regions, [start |-> a, size |-> n])
                    ELSE regions
    /\ UNCHANGED <<mode, enabled, req, out, use>>

(* ... or it is not, or kzalloc or ioremap_wc fails: it is passed over. *)
PassOver ==
    /\ mode = "loading" /\ tokens < MaxTokens
    /\ tokens' = tokens + 1
    /\ UNCHANGED <<mode, regions, enabled, req, out, use>>

(* pciem_p2p_init ends. *)
Loaded ==
    /\ mode = "loading"
    /\ mode' = "ready"
    /\ enabled' = (regions # <<>>)
    /\ UNCHANGED <<tokens, regions, req, out, use>>

-----------------------------------------------------------------------------
(* pciem_p2p_register_region: no look at the other regions. *)
RegisterRegion(a, n) ==
    /\ mode = "ready" /\ "add" \in others /\ Len(regions) < MaxRegions
    /\ n # 0 /\ n <= MaxTransfer
    /\ regions' = Append(regions, [start |-> a, size |-> n])
    /\ enabled' = TRUE
    /\ UNCHANGED <<mode, tokens, req, out, use>>

(* pciem_p2p_unregister_region: the first region with that start goes. *)
UnregisterRegion(k) ==
    /\ mode = "ready" /\ "remove" \in others
    /\ \A j \in 1 .. k - 1 : regions[j].start # regions[k].start
    /\ regions' = RemoveAt(regions, k)
    /\ UNCHANGED <<mode, tokens, enabled, req, out, use>>

-----------------------------------------------------------------------------
(* Mutant: the end of the access is not compared. *)
AllowedByStart(a, n) ==
    /\ enabled /\ n # 0 /\ n <= MaxTransfer /\ Plus(a, n) >= a
    /\ \E r \in Range(regions) : a >= r.start /\ a < RegionEnd(r)

(* pciem_p2p_validate_access. *)
Allowed(a, n) ==
    /\ enabled /\ n # 0 /\ n <= MaxTransfer /\ Plus(a, n) >= a
    /\ \E r \in Range(regions) : a >= r.start /\ Plus(a, n) <= RegionEnd(r)

(* pciem_p2p_read and _write: the access is validated, or refused. *)
Validate(a, n) ==
    /\ mode = "ready" /\ req = None
    /\ IF Allowed(a, n)
         THEN req' = [addr |-> a, len |-> n] /\ out' = "none"
         ELSE out' = "refused" /\ UNCHANGED req
    /\ use' = None
    /\ UNCHANGED <<mode, tokens, regions, enabled>>

(* Mutant: the first address of a region is not found. *)
CoversStrict(r, a) == a > r.start /\ a < RegionEnd(r)

(* pciem_p2p_get_region: the region holds the address ... *)
Covers(r, a) == a >= r.start /\ a < RegionEnd(r)

(* ... and the first one that does is used. *)
Access ==
    /\ req # None
    /\ LET hits == {k \in DOMAIN regions : Covers(regions[k], req.addr)}
       IN  \/ hits = {} /\ out' = "EFAULT" /\ use' = None
           \/ \E k \in hits :
                 /\ \A j \in hits : k <= j
                 /\ out' = "done"
                 /\ use' = [addr |-> req.addr, len |-> req.len, region |-> regions[k],
                            only |-> hits = {k}]
    /\ req' = None
    /\ UNCHANGED <<mode, tokens, regions, enabled>>

(* pciem_p2p_cleanup, when the instance's fds are closed. *)
CleanupRegions ==
    /\ mode = "ready" /\ req = None
    /\ mode' = "gone"
    /\ regions' = <<>>
    /\ UNCHANGED <<tokens, enabled, req, out, use>>

-----------------------------------------------------------------------------
Step ==
    \/ \E a \in Addr, n \in 0 .. MaxSize + 1 :
          ParseToken(a, n) \/ RegisterRegion(a, n) \/ Validate(a, n)
    \/ PassOver \/ Loaded
    \/ \E k \in DOMAIN regions : UnregisterRegion(k)
    \/ Access
    \/ CleanupRegions

Next == Step /\ UNCHANGED others

Spec == Init /\ [][Next]_vars

-----------------------------------------------------------------------------
(* Properties *)

TypeOK ==
    /\ mode \in {"loading", "ready", "gone"}
    /\ tokens \in 0 .. MaxTokens
    /\ regions \in Seq(Region)
    /\ enabled \in BOOLEAN
    /\ req = None \/ (req.addr \in Addr /\ req.len \in 1 .. MaxTransfer)
    /\ out \in {"none", "refused", "EFAULT", "done"}
    /\ use = None \/ (use.addr \in Addr /\ use.region \in Region)
    /\ others \in Others

(* parse_p2p_regions(): no address is whitelisted by two regions, wrapping  *)
(* ones included, unless other kernel code adds some: so the region that an *)
(* access was validated against is the one it is looked up in.              *)
RegionsDisjoint ==
    "add" \notin others =>
      \A j, k \in DOMAIN regions : \A a \in Addr :
        Covers(regions[j], a) /\ Covers(regions[k], a) => j = k

Inside(u) ==
    /\ u.addr >= u.region.start
    /\ u.addr + u.len <= u.region.start + u.region.size
    /\ u.addr + u.len <= Space

(* pciem_p2p_read(): an access that is carried out stays inside the mapping *)
(* of the region it uses, from its first to its last byte, without wrapping *)
(* around; also if other kernel code has registered regions that overlap.   *)
EveryAccessInside == use # None => Inside(use)

(* ... if the region is the only one with that address.                     *)
SoleAccessInside == use # None /\ use.only => Inside(use)

(* ... and none is replaced between the two lookups: then the region that   *)
(* is found is the one that the access was validated against.               *)
AccessInside == others # {"add", "remove"} => SoleAccessInside

(* While no region is removed, the second lookup finds the region again: a  *)
(* validated access is carried out.                                         *)
ValidatedSucceeds == "remove" \notin others => out # "EFAULT"

=============================================================================
