------------------------------ MODULE MCAccess ------------------------------
(* The two ways in which the emulator reaches memory, DMA and peer-to-peer *)
(* accesses.  They share no state, so a behaviour is one of either.        *)
EXTENDS P2P, Dma

VARIABLE part
allVars == <<vars, dmaVars, part>>

MCDataPages == <<3, 1, 0, 5, 2, 4, 6>>
MCListPages == <<9, 7, 10, 8, 12, 11>>

(* Pages of the bus that are not neighbours in memory; two of the functions *)
(* leave one unmapped. *)
Full == [p \in 0 .. 27 |-> ((p * 5) % 29) + 1]
MCIommus == {Full, [p \in DOMAIN Full \ {2} |-> Full[p]],
             [p \in DOMAIN Full \ {7} |-> Full[p]]}
(* a page of the bus that is the first of memory *)
MCIdentity == {[p \in 0 .. 27 |-> (p + 24) % 28]}

AccessInit ==
    /\ Init /\ DmaInit
    /\ \/ part = "p2p" /\ iommu = Full
       \/ part = "dma" /\ others = {"add"}
AccessNext ==
    \/ part = "p2p" /\ Next /\ UNCHANGED <<dmaVars, part>>
    \/ part = "dma" /\ DmaNext /\ UNCHANGED <<vars, part>>

AccessSpec == AccessInit /\ [][AccessNext]_allVars

=============================================================================
