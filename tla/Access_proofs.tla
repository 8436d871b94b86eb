--------------------------- MODULE Access_proofs ---------------------------
(***************************************************************************)
(* Theorems about the two ways in which the emulator reaches memory, each  *)
(* for its own specification.                                              *)
(*                                                                         *)
(* P2P, for any size of the address space, any lists of regions and any    *)
(* accesses: the module parameter whitelists no address twice; while       *)
(* regions are only added or only removed, an access that is carried out   *)
(* in the one region with its address is inside it; and one whose region   *)
(* stays is carried out.                                                   *)
(*                                                                         *)
(* Dma, for any pages, lists and lengths: a request that is over holds no  *)
(* buffer, and a write refused as a bad address changed whole chunks only; *)
(* a range is translated exactly if the driver has mapped its pages; and   *)
(* what the driver means is moved, in its order and nothing besides.  The  *)
(* loops of the model, over the pages of a range and over the entries of a *)
(* list, are unfolded turn by turn (CopiedNext, PlacedNext), and what they *)
(* compute follows by induction on the number of turns (LeastNumber).      *)
(***************************************************************************)
EXTENDS P2P, Dma, SequenceTheorems, WellFoundedInduction, TLAPS

(* An access waits only while the manager is ready, and the region it was   *)
(* validated against stays if none is removed.  If none is added it is the  *)
(* only one with that address.                                              *)
Fits(k) ==
    Covers(regions[k], req.addr) /\ Plus(req.addr, req.len) <= RegionEnd(regions[k])

ReqInv ==
    req # None =>
        /\ mode = "ready"
        /\ Plus(req.addr, req.len) >= req.addr
        /\ "remove" \notin others => \E k \in DOMAIN regions : Fits(k)
        /\ "add" \notin others =>
              \A k \in DOMAIN regions : Covers(regions[k], req.addr) => Fits(k)

IInv == TypeOK /\ RegionsDisjoint /\ ReqInv /\ AccessInside /\ ValidatedSucceeds

-----------------------------------------------------------------------------
(* Addresses *)

(* A sum wraps at most once. *)
LEMMA PlusCases ==
  ASSUME NEW a \in Addr, NEW n \in 0 .. Space
  PROVE  Plus(a, n) = IF a + n < Space THEN a + n ELSE a + n - Space
  BY SizeAssumption DEF Plus, Addr

LEMMA PlusType ==
  ASSUME NEW a \in Addr, NEW n \in 0 .. Space
  PROVE  Plus(a, n) \in Addr
  <1>1. Plus(a, n) = IF a + n < Space THEN a + n ELSE a + n - Space
    BY PlusCases
  <1> QED
    BY <1>1, SizeAssumption DEF Addr

(* A region that holds an address does not wrap. *)
LEMMA CoveredRegion ==
  ASSUME NEW r \in Region, NEW a \in Addr, Covers(r, a)
  PROVE  RegionEnd(r) = r.start + r.size /\ r.start + r.size <= Space
  <1>1. r.start \in Addr /\ r.size \in 0 .. Space
    BY SizeAssumption DEF Region
  <1>2. Plus(r.start, r.size) > r.start
    BY <1>1, PlusCases, SizeAssumption DEF Covers, RegionEnd, Addr
  <1> QED
    BY <1>1, <1>2, PlusCases, SizeAssumption DEF RegionEnd, Addr, Region

(* Two regions that hold one address overlap. *)
LEMMA CoveringOverlap ==
  ASSUME NEW r \in Region, NEW b \in Region, NEW a \in Addr,
         Covers(r, a), Covers(b, a)
  PROVE  Overlaps(b.start, b.size, r)
  <1>1. RegionEnd(r) = r.start + r.size /\ RegionEnd(b) = b.start + b.size
    BY CoveredRegion
  <1> QED
    BY <1>1 DEF Covers, Overlaps, RegionEnd, Region, Addr

-----------------------------------------------------------------------------
(* Lists *)

LEMMA Appended ==
  ASSUME NEW S, NEW s \in Seq(S), NEW x \in S
  PROVE  /\ Append(s, x) \in Seq(S)
         /\ DOMAIN Append(s, x) = DOMAIN s \cup {Len(s) + 1}
         /\ Append(s, x)[Len(s) + 1] = x
         /\ \A k \in DOMAIN s : Append(s, x)[k] = s[k] /\ k # Len(s) + 1
  OBVIOUS

(* RemoveAt keeps the order of what is left. *)
Skip(k, j) == IF j < k THEN j ELSE j + 1

LEMMA Removed ==
  ASSUME NEW S, NEW s \in Seq(S), NEW k \in DOMAIN s
  PROVE  /\ RemoveAt(s, k) \in Seq(S)
         /\ \A j \in DOMAIN RemoveAt(s, k) :
               /\ Skip(k, j) \in DOMAIN s
               /\ RemoveAt(s, k)[j] = s[Skip(k, j)]
  <1> DEFINE a == SubSeq(s, 1, k - 1)
             b == SubSeq(s, k + 1, Len(s))
             c == a \o b
             n == Len(s)
  <1>1. k \in 1 .. n /\ n \in Nat /\ DOMAIN s = 1 .. n /\ \A i \in 1 .. n : s[i] \in S
    OBVIOUS
  <1>2. /\ a \in Seq(S) /\ Len(a) = k - 1
        /\ \A i \in 1 .. k - 1 : a[i] = s[i]
    <2>1. /\ a \in Seq(S) /\ Len(a) = IF 1 <= k - 1 THEN k - 1 - 1 + 1 ELSE 0
          /\ \A i \in 1 .. k - 1 - 1 + 1 : a[i] = s[1 + i - 1]
      BY <1>1, SubSeqProperties
    <2> QED
      BY <1>1, <2>1
  <1>3. /\ b \in Seq(S) /\ Len(b) = n - k
        /\ \A i \in 1 .. n - k : b[i] = s[k + i]
    <2>1. /\ b \in Seq(S)
          /\ Len(b) = IF k + 1 <= n THEN n - (k + 1) + 1 ELSE 0
          /\ \A i \in 1 .. n - (k + 1) + 1 : b[i] = s[k + 1 + i - 1]
      BY <1>1, SubSeqProperties
    <2> HIDE DEF b, n
    <2>2. Len(b) = n - k
      BY <1>1, <2>1
    <2>3. \A i \in 1 .. n - k : i \in 1 .. n - (k + 1) + 1 /\ k + 1 + i - 1 = k + i
      BY <1>1
    <2> QED
      BY <2>1, <2>2, <2>3
  <1>4. /\ c \in Seq(S) /\ Len(c) = Len(a) + Len(b)
        /\ \A i \in 1 .. Len(a) + Len(b) :
              c[i] = IF i <= Len(a) THEN a[i] ELSE b[i - Len(a)]
    BY <1>2, <1>3, ConcatProperties
  <1>5. DOMAIN c = 1 .. n - 1
    BY <1>1, <1>2, <1>3, <1>4
  <1>6. RemoveAt(s, k) = c
    BY DEF RemoveAt
  <1> HIDE DEF a, b, c, n
  <1>7. ASSUME NEW j \in 1 .. n - 1
        PROVE  Skip(k, j) \in DOMAIN s /\ c[j] = s[Skip(k, j)]
    <2>1. CASE j < k
      <3>1. j \in 1 .. k - 1 /\ j \in 1 .. Len(a) + Len(b) /\ j <= Len(a)
        BY <1>1, <1>2, <1>3, <2>1
      <3> QED
        BY <1>1, <1>2, <1>4, <2>1, <3>1 DEF Skip
    <2>2. CASE ~(j < k)
      <3>1. /\ j - (k - 1) \in 1 .. n - k /\ k + (j - (k - 1)) = j + 1
            /\ j \in 1 .. Len(a) + Len(b) /\ ~(j <= Len(a)) /\ j + 1 \in 1 .. n
        BY <1>1, <1>2, <1>3, <2>2
      <3>2. c[j] = b[j - (k - 1)]
        BY <1>2, <1>4, <3>1
      <3>3. b[j - (k - 1)] = s[k + (j - (k - 1))]
        BY <1>3, <3>1
      <3> QED
        BY <1>1, <2>2, <3>1, <3>2, <3>3 DEF Skip
    <2> QED
      BY <2>1, <2>2
  <1> QED
    BY <1>4, <1>5, <1>6, <1>7

-----------------------------------------------------------------------------
(* The invariant *)

(* A region that overlaps no other is added. *)
LEMMA AddKeeps ==
  ASSUME TypeOK, RegionsDisjoint, NEW b \in Region,
         \A r \in Range(regions) : ~Overlaps(b.start, b.size, r),
         regions' = Append(regions, b), others' = others
  PROVE  RegionsDisjoint'
  <1> SUFFICES ASSUME "add" \notin others PROVE RegionsDisjoint'
    BY DEF RegionsDisjoint
  <1> DEFINE n == Len(regions) + 1
  <1>1. /\ DOMAIN regions' = DOMAIN regions \cup {n} /\ regions'[n] = b
        /\ \A k \in DOMAIN regions : regions'[k] = regions[k] /\ k # n
    BY Appended DEF TypeOK
  <1>2. ASSUME NEW a \in Addr, NEW k \in DOMAIN regions, Covers(regions[k], a)
        PROVE  ~Covers(b, a)
    <2>1. regions[k] \in Region /\ regions[k] \in Range(regions)
      BY DEF TypeOK, Range
    <2> QED
      BY <1>2, <2>1, CoveringOverlap
  <1> HIDE DEF n
  <1> SUFFICES ASSUME NEW j \in DOMAIN regions', NEW k \in DOMAIN regions',
                      NEW a \in Addr,
                      Covers(regions'[j], a), Covers(regions'[k], a)
               PROVE  j = k
    BY DEF RegionsDisjoint, Covers, Addr, RegionEnd, Plus
  <1>3. CASE j = n /\ k = n
    BY <1>3
  <1>4. CASE j \in DOMAIN regions /\ k \in DOMAIN regions
    BY <1>1, <1>4 DEF RegionsDisjoint
  <1>5. CASE j = n /\ k \in DOMAIN regions
    BY <1>1, <1>2, <1>5
  <1>6. CASE k = n /\ j \in DOMAIN regions
    BY <1>1, <1>2, <1>6
  <1> QED
    BY <1>1, <1>3, <1>4, <1>5, <1>6

LEMMA IInvInit == Init => IInv
  <1> SUFFICES ASSUME Init PROVE IInv
    OBVIOUS
  <1>1. TypeOK
    <2>1. tokens \in 0 .. MaxTokens
      BY SizeAssumption DEF Init
    <2>2. regions \in Seq(Region)
      BY DEF Init
    <2> QED
      BY <2>1, <2>2 DEF Init, TypeOK
  <1>2. DOMAIN regions = {}
    BY DEF Init
  <1>3. RegionsDisjoint
    BY <1>2 DEF RegionsDisjoint
  <1>4. ReqInv /\ AccessInside /\ ValidatedSucceeds
    BY DEF Init, ReqInv, AccessInside, SoleAccessInside, ValidatedSucceeds
  <1> QED
    BY <1>1, <1>3, <1>4 DEF IInv

(* An access: validated, carried out. *)
LEMMA ValidateKeeps ==
  ASSUME IInv, NEW a \in Addr, NEW n \in 0 .. MaxSize + 1, Validate(a, n),
         UNCHANGED others
  PROVE  IInv'
  <1> USE DEF IInv
  <1>1. TypeOK'
    BY SizeAssumption DEF Validate, Allowed, TypeOK
  <1>2. RegionsDisjoint'
    BY DEF Validate, RegionsDisjoint, Covers, RegionEnd, Plus, Addr
  <1>3. ReqInv'
    <2>1. CASE req' = None
      BY <2>1 DEF ReqInv
    <2>2. CASE req' # None
      <3>1. Allowed(a, n) /\ req' = [addr |-> a, len |-> n]
        BY <2>2 DEF Validate
      <3>2. PICK r \in Range(regions) : a >= r.start /\ Plus(a, n) <= RegionEnd(r)
        BY <3>1 DEF Allowed
      <3>3. PICK k \in DOMAIN regions : r = regions[k]
        BY DEF Range
      <3>4. n \in 1 .. MaxTransfer /\ Plus(a, n) >= a
        BY <3>1, SizeAssumption DEF Allowed
      <3>5. Plus(a, n) > a
        BY <3>4, PlusCases, SizeAssumption DEF Addr
      <3>6. r \in Region /\ RegionEnd(r) \in Addr /\ Plus(a, n) \in Addr
        <4>1. r \in Region
          BY <3>3 DEF TypeOK
        <4>2. r.start \in Addr /\ r.size \in 0 .. Space /\ n \in 0 .. Space
          BY <3>4, <4>1, SizeAssumption DEF Region
        <4> QED
          BY <4>1, <4>2, PlusType DEF RegionEnd
      <3>7. Covers(regions[k], a) /\ Plus(a, n) <= RegionEnd(regions[k])
        BY <3>2, <3>3, <3>5, <3>6 DEF Covers, Region, Addr
      <3>8. "add" \notin others => \A j \in DOMAIN regions : Covers(regions[j], a) => j = k
        BY <3>7 DEF RegionsDisjoint
      <3>9. /\ req'.addr = a /\ req'.len = n
            /\ mode' = "ready" /\ regions' = regions /\ others' = others
        BY <3>1 DEF Validate
      <3>10. \A j \in DOMAIN regions :
                Fits(j)' <=> Covers(regions[j], a) /\ Plus(a, n) <= RegionEnd(regions[j])
        BY <3>9 DEF Fits, Covers, RegionEnd, Plus
      <3>11. \A j \in DOMAIN regions : Covers(regions[j], req.addr)' <=> Covers(regions[j], a)
        BY <3>9 DEF Covers, RegionEnd, Plus
      <3>12. Plus(req.addr, req.len)' = Plus(a, n)
        BY <3>9 DEF Plus
      <3> QED
        BY <3>4, <3>7, <3>8, <3>9, <3>10, <3>11, <3>12 DEF ReqInv
    <2> QED
      BY <2>1, <2>2
  <1>4. AccessInside' /\ ValidatedSucceeds'
    BY DEF Validate, AccessInside, SoleAccessInside, ValidatedSucceeds
  <1> QED
    BY <1>1, <1>2, <1>3, <1>4

LEMMA AccessKeeps ==
  ASSUME IInv, Access, UNCHANGED others
  PROVE  IInv'
  <1> USE DEF IInv
  <1> DEFINE a == req.addr
             n == req.len
             hits == {k \in DOMAIN regions : Covers(regions[k], a)}
  <1>0. a \in Addr /\ n \in 1 .. MaxTransfer /\ req # None
    BY DEF Access, TypeOK
  <1>1. RegionsDisjoint' /\ ReqInv'
    BY DEF Access, RegionsDisjoint, ReqInv, Covers, RegionEnd, Plus, Addr
  <1>2. CASE hits = {} /\ out' = "EFAULT" /\ use' = None
    <2>1. "remove" \in others
      BY <1>0, <1>2 DEF ReqInv, Fits
    <2> QED
      BY <1>1, <1>2, <2>1
         DEF Access, TypeOK, AccessInside, SoleAccessInside, ValidatedSucceeds
  <1>3. ASSUME NEW k \in hits, out' = "done",
               use' = [addr |-> a, len |-> n, region |-> regions[k], only |-> hits = {k}]
        PROVE  IInv'
    <2>1. regions[k] \in Region /\ Covers(regions[k], a)
      BY DEF TypeOK
    <2>2. TypeOK'
      BY <1>0, <1>3, <2>1 DEF Access, TypeOK
    <2>3. ValidatedSucceeds'
      BY <1>3 DEF ValidatedSucceeds
    <2>4. ASSUME others # {"add", "remove"}, hits = {k} PROVE Inside(use')
      <3> DEFINE r == regions[k]
      <3>0. Fits(k)
        <4>1. "remove" \notin others \/ "add" \notin others
          <5>1. others \subseteq {"add", "remove"}
            BY OthersAssumption DEF TypeOK
          <5> QED
            BY <2>4, <5>1
        <4>2. CASE "remove" \notin others
          <5>1. PICK j \in DOMAIN regions : Fits(j)
            BY <1>0, <4>2 DEF ReqInv
          <5>2. j \in hits
            BY <5>1 DEF Fits
          <5> QED
            BY <2>4, <5>1, <5>2
        <4>3. CASE "add" \notin others
          BY <1>0, <2>1, <4>3 DEF ReqInv
        <4> QED
          BY <4>1, <4>2, <4>3
      <3>1. Plus(a, n) >= a /\ Plus(a, n) <= RegionEnd(r)
        BY <1>0, <3>0 DEF ReqInv, Fits
      <3>2. Plus(a, n) = a + n
        BY <1>0, <3>1, PlusCases, SizeAssumption DEF Addr
      <3>3. RegionEnd(r) = r.start + r.size /\ r.start + r.size <= Space
        BY <1>0, <2>1, CoveredRegion
      <3>4. a >= r.start
        BY <2>1 DEF Covers
      <3>5. a + n <= r.start + r.size
        BY <3>1, <3>2, <3>3
      <3>6. a + n <= Space
        BY <1>0, <2>1, <3>3, <3>5, SizeAssumption DEF Addr, Region
      <3> QED
        BY <1>3, <3>4, <3>5, <3>6 DEF Inside
    <2>5. AccessInside'
      <3>1. use'.only => hits = {k}
        BY <1>3
      <3> QED
        BY <2>4, <3>1 DEF AccessInside, SoleAccessInside, Inside
    <2> QED
      BY <1>1, <2>2, <2>3, <2>5 DEF Access
  <1> QED
    BY <1>2, <1>3 DEF Access

(* A region is added, while no access waits or beside the one it was        *)
(* validated against.                                                       *)
LEMMA AddRegionKeeps ==
  ASSUME IInv, NEW b \in Region, RegionsDisjoint',
         regions' = Append(regions, b), UNCHANGED <<mode, req, out, use, others>>,
         req # None => "add" \in others,
         enabled' \in BOOLEAN, tokens' \in 0 .. MaxTokens
  PROVE  IInv'
  <1> USE DEF IInv
  <1>1. /\ regions' \in Seq(Region)
        /\ \A k \in DOMAIN regions : k \in DOMAIN regions' /\ regions'[k] = regions[k]
    BY Appended DEF TypeOK
  <1>2. TypeOK'
    BY <1>1 DEF TypeOK
  <1>3. ReqInv'
    <2> SUFFICES ASSUME req # None PROVE ReqInv'
      BY DEF ReqInv
    <2>1. \A k \in DOMAIN regions : Fits(k) => Fits(k)'
      BY <1>1 DEF Fits, Covers, RegionEnd, Plus
    <2>2. Plus(req.addr, req.len)' = Plus(req.addr, req.len)
      BY DEF Plus
    <2> QED
      BY <1>1, <2>1, <2>2 DEF ReqInv
  <1>4. AccessInside' /\ ValidatedSucceeds'
    BY DEF AccessInside, SoleAccessInside, Inside, ValidatedSucceeds
  <1> QED
    BY <1>1, <1>2, <1>3, <1>4

(* Steps that leave the list and the access alone. *)
LEMMA SameRegionsKeep ==
  ASSUME IInv, UNCHANGED <<regions, req, out, use, others>>,
         tokens' \in 0 .. MaxTokens, enabled' \in BOOLEAN,
         mode' = mode \/ (req = None /\ mode' \in {"loading", "ready", "gone"})
  PROVE  IInv'
  <1> USE DEF IInv
  <1>1. TypeOK'
    BY DEF TypeOK
  <1>2. RegionsDisjoint' /\ ReqInv'
    BY DEF RegionsDisjoint, ReqInv, Fits, Covers, RegionEnd, Plus, Addr
  <1>3. AccessInside' /\ ValidatedSucceeds'
    BY DEF AccessInside, SoleAccessInside, Inside, ValidatedSucceeds
  <1> QED
    BY <1>1, <1>2, <1>3

LEMMA UnregisterKeeps ==
  ASSUME IInv, NEW k \in DOMAIN regions, UnregisterRegion(k), UNCHANGED others
  PROVE  IInv'
  <1> USE DEF IInv
  <1>1. /\ regions' \in Seq(Region)
        /\ \A j \in DOMAIN regions' :
              Skip(k, j) \in DOMAIN regions /\ regions'[j] = regions[Skip(k, j)]
    BY Removed DEF UnregisterRegion, TypeOK
  <1>2. \A i, j \in DOMAIN regions' : Skip(k, i) = Skip(k, j) => i = j
    <2>1. k \in Nat /\ DOMAIN regions' \subseteq Nat
      BY <1>1 DEF TypeOK
    <2> QED
      BY <2>1 DEF Skip
  <1>3. TypeOK'
    BY <1>1 DEF UnregisterRegion, TypeOK
  <1>4. RegionsDisjoint'
    <2> SUFFICES ASSUME "add" \notin others,
                        NEW i \in DOMAIN regions', NEW j \in DOMAIN regions',
                        NEW a \in Addr,
                        Covers(regions'[i], a), Covers(regions'[j], a)
                 PROVE  i = j
      BY DEF RegionsDisjoint, Covers, Addr, RegionEnd, Plus
    <2>1. Skip(k, i) = Skip(k, j)
      BY <1>1 DEF RegionsDisjoint
    <2> QED
      BY <1>2, <2>1
  <1>5. ReqInv'
    <2>1. "remove" \in others
      BY DEF UnregisterRegion
    <2>2. req' = req /\ mode' = mode
      BY DEF UnregisterRegion
    <2>3. ASSUME "add" \notin others, req # None,
                 NEW j \in DOMAIN regions', Covers(regions'[j], req.addr)
          PROVE  Fits(j)'
      <3>1. Fits(Skip(k, j))
        BY <1>1, <2>3 DEF ReqInv
      <3> QED
        BY <1>1, <2>2, <3>1 DEF Fits, Covers, RegionEnd, Plus
    <2>4. /\ \A j \in DOMAIN regions' :
                Covers(regions[j], req.addr)' <=> Covers(regions'[j], req.addr)
          /\ Plus(req.addr, req.len)' = Plus(req.addr, req.len)
      BY <2>2 DEF Covers, RegionEnd, Plus
    <2> QED
      BY <2>1, <2>2, <2>3, <2>4 DEF ReqInv
  <1>6. AccessInside' /\ ValidatedSucceeds'
    BY DEF UnregisterRegion, AccessInside, SoleAccessInside, Inside, ValidatedSucceeds
  <1> QED
    BY <1>3, <1>4, <1>5, <1>6

LEMMA IInvNext == IInv /\ [Next]_vars => IInv'
  <1> SUFFICES ASSUME IInv, [Next]_vars PROVE IInv'
    OBVIOUS
  <1>1. ASSUME NEW a \in Addr, NEW n \in 0 .. MaxSize + 1, ParseToken(a, n),
               UNCHANGED others
        PROVE  IInv'
    <2>1. CASE regions' = regions
      <3>1. tokens' \in 0 .. MaxTokens
        BY <1>1, SizeAssumption DEF ParseToken, IInv, TypeOK
      <3> QED
        BY <1>1, <2>1, <3>1, SameRegionsKeep DEF ParseToken, IInv, TypeOK
    <2>2. CASE /\ SizeAccepted(n) /\ \A r \in Range(regions) : ~Overlaps(a, n, r)
               /\ regions' = Append(regions, [start |-> a, size |-> n])
      <3>1. [start |-> a, size |-> n] \in Region
        BY <2>2, SizeAssumption DEF SizeAccepted, Region
      <3>2. req = None /\ tokens' \in 0 .. MaxTokens /\ enabled \in BOOLEAN
        BY <1>1, SizeAssumption DEF ParseToken, IInv, TypeOK, ReqInv
      <3>3. RegionsDisjoint'
        BY <1>1, <2>2, <3>1, AddKeeps DEF IInv
      <3> QED
        BY <1>1, <2>2, <3>1, <3>2, <3>3, AddRegionKeeps DEF ParseToken
    <2> QED
      BY <1>1, <2>1, <2>2 DEF ParseToken
  <1>2. ASSUME NEW a \in Addr, NEW n \in 0 .. MaxSize + 1, RegisterRegion(a, n),
               UNCHANGED others
        PROVE  IInv'
    <2>1. [start |-> a, size |-> n] \in Region
      BY <1>2, SizeAssumption DEF RegisterRegion, Region
    <2>2. tokens \in 0 .. MaxTokens
      BY DEF IInv, TypeOK
    <2>3. RegionsDisjoint'
      BY <1>2 DEF RegisterRegion, RegionsDisjoint
    <2> QED
      BY <1>2, <2>1, <2>2, <2>3, AddRegionKeeps DEF RegisterRegion
  <1>3. ASSUME PassOver \/ Loaded, UNCHANGED others PROVE IInv'
    <2>1. tokens' \in 0 .. MaxTokens /\ req = None
      BY <1>3, SizeAssumption DEF PassOver, Loaded, IInv, TypeOK, ReqInv
    <2> QED
      BY <1>3, <2>1, SameRegionsKeep DEF PassOver, Loaded, IInv, TypeOK
  <1>4. ASSUME CleanupRegions, UNCHANGED others PROVE IInv'
    <2>1. DOMAIN regions' = {} /\ regions' \in Seq(Region)
      BY <1>4 DEF CleanupRegions
    <2> QED
      BY <1>4, <2>1
         DEF CleanupRegions, IInv, TypeOK, RegionsDisjoint, ReqInv,
             AccessInside, SoleAccessInside, Inside, ValidatedSucceeds
  <1>5. CASE UNCHANGED vars
    BY <1>5 DEF vars, IInv, TypeOK, RegionsDisjoint, ReqInv, Fits,
                AccessInside, SoleAccessInside, Inside, ValidatedSucceeds
  <1> QED
    BY <1>1, <1>2, <1>3, <1>4, <1>5, ValidateKeeps, AccessKeeps, UnregisterKeeps
       DEF Next, Step

LEMMA Invariance == Spec => []IInv
  BY IInvInit, IInvNext, PTL DEF Spec

-----------------------------------------------------------------------------
(* What it says of the code *)

(* TypeOK: every region on the list is of a size the code accepts, and so   *)
(* is the one an access is carried out with.                                *)
THEOREM TypeCorrect == Spec => []TypeOK
  BY Invariance, PTL DEF IInv

(* RegionsDisjoint: no address is whitelisted by two regions, whatever the  *)
(* module parameter says, wrapping regions included, as long as other       *)
(* kernel code registers none.                                              *)
THEOREM NoAddressTwice == Spec => []RegionsDisjoint
  BY Invariance, PTL DEF IInv

(* AccessInside: where no region is replaced between the two lookups, an    *)
(* access that is carried out in the only region with its address stays     *)
(* inside that region's mapping, whatever regions other kernel code adds.   *)
THEOREM AccessStaysInside == Spec => []AccessInside
  BY Invariance, PTL DEF IInv

(* ValidatedSucceeds: an access that was validated finds a region again,    *)
(* unless regions are removed.                                              *)
THEOREM SecondLookupSucceeds == Spec => []ValidatedSucceeds
  BY Invariance, PTL DEF IInv

-----------------------------------------------------------------------------
(* DMA: division by the page size                                           *)

LEMMA Division ==
  ASSUME NEW a \in Nat, NEW n \in Nat \ {0}
  PROVE  /\ a \div n \in Nat /\ a % n \in 0 .. n - 1
         /\ a = n * (a \div n) + (a % n)
  OBVIOUS

LEMMA DivisionIs ==
  ASSUME NEW n \in Nat \ {0}, NEW q \in Nat, NEW r \in 0 .. n - 1
  PROVE  (n * q + r) \div n = q
  OBVIOUS

LEMMA RemainderIs ==
  ASSUME NEW n \in Nat \ {0}, NEW q \in Nat, NEW r \in 0 .. n - 1
  PROVE  (n * q + r) % n = r
  OBVIOUS

LEMMA DivisionBelow ==
  ASSUME NEW a \in Nat, NEW n \in Nat \ {0}, NEW q \in Nat, q <= a \div n
  PROVE  n * q <= a
  <1>1. a = n * (a \div n) + (a % n) /\ a % n \in Nat /\ a \div n \in Nat
    BY Division
  <1>2. n * q <= n * (a \div n)
    BY <1>1
  <1> QED
    BY <1>1, <1>2

(* Each page of a range holds one of its addresses.                         *)
LEMMA PageHasAddress ==
  ASSUME NEW a \in Nat, NEW len \in Nat \ {0}, NEW n \in Nat \ {0},
         NEW k \in 1 .. (a + len - 1) \div n - a \div n + 1
  PROVE  \E u \in 1 .. len : (a + u - 1) \div n = a \div n + k - 1
  <1> DEFINE p == a \div n
             z == a + len - 1
             q == p + k - 1
  <1>1. p \in Nat /\ z \in Nat /\ z \div n \in Nat
    BY Division
  <1>2. q \in Nat /\ q <= z \div n
    BY <1>1
  <1>3. CASE k = 1
    BY <1>1, <1>3
  <1>4. CASE k # 1
    <2> DEFINE u == n * q - a + 1
    <2>1. n * q \in Nat /\ n * q <= z
      BY <1>1, <1>2, DivisionBelow
    <2>2. a < n * q
      <3>1. a = n * p + (a % n) /\ a % n < n /\ a % n \in Nat
        BY Division
      <3>2. p + 1 <= q
        BY <1>1, <1>4
      <3>3. n * (p + 1) <= n * q
        BY <1>1, <1>2, <3>2
      <3>4. n * (p + 1) = n * p + n /\ n * p \in Nat
        BY <1>1
      <3> QED
        BY <1>1, <2>1, <3>1, <3>3, <3>4
    <2>3. u \in 1 .. len /\ a + u - 1 = n * q
      BY <2>1, <2>2
    <2>4. (n * q + 0) \div n = q
      BY <1>2, DivisionIs
    <2>5. (a + u - 1) \div n = q
      BY <2>1, <2>3, <2>4
    <2> QED
      BY <2>3, <2>5
  <1> QED
    BY <1>3, <1>4

-----------------------------------------------------------------------------
(* DMA: requests                                                            *)

(* The functions that requests name exist; and 0, which the IOMMU answers   *)
(* for a page that is not mapped, is no mapped page.                        *)
FuncsExist == "none" \notin Funcs
ZeroIsUnmapped == \A m \in Iommus : \A p \in DOMAIN m : m[p] # 0

(* A range of which a page has no translation.                              *)
LEMMA UntranslatedPage ==
  ASSUME ZeroIsUnmapped, iommu \in Iommus,
         NEW a \in Nat, NEW len \in Nat \ {0}, ~Translated(a, len)
  PROVE  \E u \in 1 .. len : (a + u - 1) \div KPage \notin DOMAIN iommu
  <1>1. KPage \in Nat \ {0}
    BY DmaAssumption
  <1>2. PICK k \in 1 .. (a + len - 1) \div KPage - a \div KPage + 1 :
           TranslateOnce(a \div KPage + k - 1) = 0
    BY DEF Translated, Pages
  <1>3. PICK u \in 1 .. len : (a + u - 1) \div KPage = a \div KPage + k - 1
    BY <1>1, PageHasAddress
  <1>4. a \div KPage + k - 1 \notin DOMAIN iommu
    BY <1>2 DEF TranslateOnce, ZeroIsUnmapped
  <1> QED
    BY <1>3, <1>4

(* Nothing is held between requests; a direct transfer is one chunk. *)
BufsInv ==
    /\ stage \in {"idle", "copy", "prp1", "prp2", "list", "entries", "done"}
    /\ stage \in {"idle", "done"} => bufs = 0
    /\ stage = "copy" => remaining = dma.length

LEMMA BeginKeeps ==
  ASSUME FuncsExist, BufsInv,
         \/ \E r \in DmaRequests : DmaStart(r) \/ NoMemory(r)
         \/ \E r \in IndirectRequests : IndirectStart(r) \/ NoMemory(r)
  PROVE  BufsInv'
  <1>1. ASSUME NEW r, NoMemory(r) PROVE BufsInv'
    BY <1>1 DEF NoMemory, BufsInv
  <1>2. ASSUME NEW r \in DmaRequests, DmaStart(r) PROVE BufsInv'
    <2>1. r.func # "none"
      BY DEF FuncsExist, DmaRequests
    <2> QED
      BY <1>2, <2>1 DEF DmaStart, Begin, BufsInv
  <1>3. ASSUME NEW r \in IndirectRequests, IndirectStart(r) PROVE BufsInv'
    <2>1. r.func # "none"
      BY DEF FuncsExist, IndirectRequests
    <2> QED
      BY <1>3, <2>1 DEF IndirectStart, Begin, BufsInv
  <1> QED
    BY <1>1, <1>2, <1>3

(* However a chunk ends, a request that is over with it has freed its       *)
(* buffers, and any other keeps them.                                       *)
LEMMA MoveFrees ==
  ASSUME NEW a, NEW len, NEW next, Move(a, len, next)
  PROVE  (stage' = "done" /\ bufs' = 0) \/ (stage' = next /\ remaining # len)
  BY DEF Move, Refused, WriteCut, ReadCut, Fails, Out

LEMMA BufsInvNext ==
  ASSUME FuncsExist, BufsInv, [DmaNext]_dmaVars
  PROVE  BufsInv'
  <1>1. CASE DmaCopy
    <2>1. stage' = "done" /\ bufs' = 0
      BY <1>1, MoveFrees DEF DmaCopy, BufsInv
    <2> QED
      BY <2>1 DEF BufsInv
  <1>2. CASE Prp1 \/ Prp2 \/ Entry
    <2>1. \/ stage' = "done" /\ bufs' = 0
          \/ stage' \in {"prp2", "list", "entries"}
      <3>1. CASE Prp1
        BY <3>1, MoveFrees DEF Prp1
      <3>2. CASE Prp2
        BY <3>2, MoveFrees DEF Prp2
      <3>3. CASE Entry
        BY <3>3, MoveFrees DEF Entry
      <3> QED
        BY <1>2, <3>1, <3>2, <3>3
    <2> QED
      BY <2>1 DEF BufsInv
  <1>3. CASE ReadList
    <2>1. stage' = "entries" \/ (stage' = "done" /\ bufs' = 0)
      BY <1>3 DEF ReadList, Out
    <2> QED
      BY <2>1 DEF BufsInv
  <1>4. CASE NextRequest
    BY <1>4 DEF NextRequest, BufsInv
  <1>5. ASSUME NEW op, NEW a, NEW b, NEW valid, Atomic(op, a, b, valid) PROVE BufsInv'
    BY <1>5 DEF Atomic, BufsInv
  <1>6. CASE UNCHANGED dmaVars
    BY <1>6 DEF dmaVars, BufsInv
  <1> QED
    BY <1>1, <1>2, <1>3, <1>4, <1>5, <1>6, BeginKeeps DEF DmaNext

-----------------------------------------------------------------------------
(* DMA: induction.  A set of numbers has a least one; so what holds at 0    *)
(* and goes on from each number to the next has no least exception.         *)

LEMMA LeastNumber ==
  ASSUME NEW T \in SUBSET Nat, T # {}
  PROVE  \E x \in T : \A y \in T : x <= y
  <1> DEFINE R == OpToRel(<, Nat)
  <1>1. PICK x \in T : \A y \in T : ~(<<y, x>> \in R)
    BY NatLessThanWellFounded, WFMin
  <1>2. \A y \in T : ~(y < x)
    BY <1>1 DEF OpToRel
  <1> QED
    BY <1>2

LEMMA MaxIs ==
  ASSUME NEW s \in SUBSET Nat, NEW x \in s, \A y \in s : y <= x
  PROVE  Max(s) = x
  <1>1. \E y \in s : \A z \in s : y >= z
    OBVIOUS
  <1>2. Max(s) \in s /\ \A z \in s : Max(s) >= z
    BY <1>1 DEF Max
  <1> DEFINE y == Max(s)
  <1>3. y \in Nat /\ x \in Nat /\ y >= x /\ y <= x
    BY <1>2
  <1>4. y = x
    BY <1>3
  <1> QED
    BY <1>4

LEMMA MaxIn ==
  ASSUME NEW n \in Nat, NEW s \in SUBSET (1 .. n), s # {}
  PROVE  Max(s) \in s
  <1> DEFINE T == {n - x : x \in s}
  <1>1. T \in SUBSET Nat /\ T # {}
    <2>1. \A x \in s : x \in 1 .. n
      OBVIOUS
    <2>2. \A x \in s : n - x \in Nat
      BY <2>1
    <2> QED
      BY <2>2
  <1>2. PICK y \in T : \A z \in T : y <= z
    BY <1>1, LeastNumber
  <1>3. PICK x \in s : y = n - x
    BY <1>2
  <1>4. \A z \in s : z <= x
    <2> TAKE z \in s
    <2>1. n - x <= n - z
      BY <1>2, <1>3
    <2> QED
      BY <2>1
  <1> QED
    BY <1>4, MaxIs

-----------------------------------------------------------------------------
(* The body of the two loops of the model. *)
Chunk(iova, len, done, k) ==
    LET off == IF k = 1 THEN iova % KPage ELSE 0
        size == Least(KPage - off, len - Len(done))
    IN  done \o [u \in 1 .. size |-> Pages(iova, len)[k] * KPage + off + u - 1]

PlaceEntry(r, b, k) ==
    LET full == b.at % r.page = r.page - 1 /\ k < PageCount(r)
        at == IF full THEN ListAddr(r, b.page + 1) ELSE b.at
        next == IF full THEN {<<b.at, ListAddr(r, b.page + 1)>>} ELSE {}
    IN  [at |-> at + 1, page |-> IF full THEN b.page + 1 ELSE b.page,
         put |-> b.put \cup next \cup {<<at, DataAddr(r, k)>>}]

Base(l) == IF l.loop = "copy" THEN <<>>
           ELSE [at |-> ListAddr(l.r, 1), page |-> 1, put |-> {}]
Turn(l, done, k) ==
    IF l.loop = "copy" THEN Chunk(l.iova, l.len, done, k) ELSE PlaceEntry(l.r, done, k + 1)

IsLoop(l, n, g) ==
    g = [s \in SUBSET (1 .. n) |->
            IF s = {} THEN Base(l) ELSE Turn(l, g[s \ {Max(s)}], Max(s))]

LEMMA LoopExists ==
  ASSUME NEW l, NEW n \in Nat
  PROVE  \E g : IsLoop(l, n, g)
  <1> DEFINE Bad == {m \in Nat : ~\E g : IsLoop(l, m, g)}
  <1> SUFFICES ASSUME Bad # {} PROVE FALSE
    OBVIOUS
  <1>1. PICK m \in Bad : \A y \in Bad : m <= y
    BY LeastNumber
  <1>2. m # 0
    <2> DEFINE g == [s \in SUBSET (1 .. 0) |-> Base(l)]
    <2>1. \A s \in SUBSET (1 .. 0) : s = {}
      OBVIOUS
    <2>2. IsLoop(l, 0, g)
      BY <2>1 DEF IsLoop
    <2> QED
      BY <2>2
  <1>3. m - 1 \in Nat /\ m - 1 \notin Bad
    BY <1>1, <1>2
  <1>4. PICK g : IsLoop(l, m - 1, g)
    BY <1>3
  <1> DEFINE h == [s \in SUBSET (1 .. m) |->
                     IF m \in s THEN Turn(l, g[s \ {m}], m) ELSE g[s]]
  <1>5. \A s \in SUBSET (1 .. m) : m \in s =>
           Max(s) = m /\ s # {} /\ s \ {m} \in SUBSET (1 .. m - 1) /\ h[s \ {m}] = g[s \ {m}]
    <2> TAKE s \in SUBSET (1 .. m)
    <2> HAVE m \in s
    <2>1. Max(s) = m
      BY <1>3, MaxIs
    <2>2. s \ {m} \in SUBSET (1 .. m - 1) /\ s \ {m} \in SUBSET (1 .. m)
      BY <1>3
    <2> QED
      BY <2>1, <2>2
  <1>6. \A s \in SUBSET (1 .. m) : m \notin s =>
           /\ h[s] = IF s = {} THEN Base(l) ELSE Turn(l, g[s \ {Max(s)}], Max(s))
           /\ h[s \ {Max(s)}] = g[s \ {Max(s)}]
    <2> TAKE s \in SUBSET (1 .. m)
    <2> HAVE m \notin s
    <2>1. s \in SUBSET (1 .. m - 1)
      BY <1>3
    <2>2. g[s] = IF s = {} THEN Base(l) ELSE Turn(l, g[s \ {Max(s)}], Max(s))
      BY <1>4, <2>1 DEF IsLoop
    <2> QED
      BY <2>1, <2>2
  <1>7. \A s \in SUBSET (1 .. m) :
           h[s] = IF s = {} THEN Base(l) ELSE Turn(l, h[s \ {Max(s)}], Max(s))
    BY <1>5, <1>6
  <1>8. IsLoop(l, m, h)
    BY <1>7 DEF IsLoop
  <1> QED
    BY <1>1, <1>8

LEMMA LoopNone ==
  ASSUME NEW l, NEW n \in Nat, NEW g, IsLoop(l, n, g)
  PROVE  g[1 .. 0] = Base(l)
  <1>1. 1 .. 0 = {} /\ 1 .. 0 \in SUBSET (1 .. n)
    OBVIOUS
  <1> QED
    BY <1>1 DEF IsLoop

LEMMA LoopNext ==
  ASSUME NEW l, NEW n \in Nat, NEW g, IsLoop(l, n, g), NEW k \in Nat, k + 1 <= n
  PROVE  g[1 .. k + 1] = Turn(l, g[1 .. k], k + 1)
  <1>1. 1 .. k + 1 \in SUBSET (1 .. n) /\ 1 .. k + 1 # {}
    OBVIOUS
  <1>2. Max(1 .. k + 1) = k + 1
    BY MaxIs
  <1>3. (1 .. k + 1) \ {k + 1} = 1 .. k
    OBVIOUS
  <1>4. g[1 .. k + 1] = Turn(l, g[(1 .. k + 1) \ {Max(1 .. k + 1)}], Max(1 .. k + 1))
    BY <1>1 DEF IsLoop
  <1> QED
    BY <1>2, <1>3, <1>4

LEMMA LoopSame ==
  ASSUME NEW l, NEW n \in Nat, NEW m \in Nat, NEW g, NEW h,
         IsLoop(l, n, g), IsLoop(l, m, h), NEW k \in Nat, k <= n, k <= m
  PROVE  g[1 .. k] = h[1 .. k]
  <1> DEFINE Bad == {j \in Nat : j <= n /\ j <= m /\ g[1 .. j] # h[1 .. j]}
  <1> SUFFICES ASSUME Bad # {} PROVE FALSE
    OBVIOUS
  <1>1. PICK j \in Bad : \A y \in Bad : j <= y
    BY LeastNumber
  <1>2. j # 0
    BY LoopNone
  <1>3. PICK i \in Nat : j = i + 1 /\ i \notin Bad /\ i + 1 <= n /\ i + 1 <= m
    <2>1. j - 1 \in Nat /\ j = (j - 1) + 1 /\ j - 1 < j
      BY <1>2
    <2> QED
      BY <1>1, <2>1
  <1>4. g[1 .. i] = h[1 .. i]
    BY <1>3
  <1>5. g[1 .. i + 1] = Turn(l, g[1 .. i], i + 1) /\ h[1 .. i + 1] = Turn(l, h[1 .. i], i + 1)
    BY <1>3, LoopNext
  <1> QED
    BY <1>1, <1>3, <1>4, <1>5

LEMMA LoopGrows ==
  ASSUME NEW l, NEW n \in Nat, NEW g, NEW h, IsLoop(l, n, g), IsLoop(l, n + 1, h)
  PROVE  h[1 .. n + 1] = Turn(l, g[1 .. n], n + 1)
  <1>1. n + 1 \in Nat /\ n <= n + 1 /\ n <= n /\ n + 1 <= n + 1
    OBVIOUS
  <1>2. h[1 .. n + 1] = Turn(l, h[1 .. n], n + 1)
    BY <1>1, LoopNext
  <1>3. g[1 .. n] = h[1 .. n]
    BY <1>1, LoopSame
  <1> QED
    BY <1>2, <1>3

-----------------------------------------------------------------------------
(* The pages that are copied, and the list that the driver writes, as loops. *)
CopyLoop(iova, len) == [loop |-> "copy", iova |-> iova, len |-> len]

LEMMA CopiedIsLoop ==
  ASSUME NEW iova, NEW len, NEW n \in Nat
  PROVE  \E g : IsLoop(CopyLoop(iova, len), n, g) /\ Copied(iova, len, n) = g[1 .. n]
  <1> DEFINE l == CopyLoop(iova, len)
             C(g) == g = [s \in SUBSET (1 .. n) |->
                            IF s = {} THEN <<>>
                            ELSE Chunk(iova, len, g[s \ {Max(s)}], [k \in 1 .. n |-> k][Max(s)])]
  <1>1. \A g : IsLoop(l, n, g) <=> C(g)
    <2>1. \A s \in SUBSET (1 .. n) : s # {} => [k \in 1 .. n |-> k][Max(s)] = Max(s)
      BY MaxIn
    <2>2. Base(l) = <<>> /\ \A d, k : Turn(l, d, k) = Chunk(iova, len, d, k)
      BY DEF Base, Turn, CopyLoop
    <2> HIDE DEF l
    <2>3. ASSUME NEW g, NEW s \in SUBSET (1 .. n)
          PROVE  (IF s = {} THEN Base(l) ELSE Turn(l, g[s \ {Max(s)}], Max(s)))
                   = IF s = {} THEN <<>>
                     ELSE Chunk(iova, len, g[s \ {Max(s)}], [k \in 1 .. n |-> k][Max(s)])
      BY <2>1, <2>2
    <2> QED
      BY <2>3 DEF IsLoop
  <1>2. \E g : C(g)
    BY <1>1, LoopExists
  <1>3. Copied(iova, len, n) = (CHOOSE g : C(g))[1 .. n]
    BY Zenon DEF Copied, FoldLeft, MapThenFoldSet, Chunk
  <1> HIDE DEF C
  <1>4. C(CHOOSE g : C(g))
    BY <1>2
  <1> QED
    BY <1>1, <1>3, <1>4


LEMMA CopiedNone ==
  ASSUME NEW iova, NEW len
  PROVE  Copied(iova, len, 0) = <<>>
  <1>1. PICK g : IsLoop(CopyLoop(iova, len), 0, g) /\ Copied(iova, len, 0) = g[1 .. 0]
    BY CopiedIsLoop
  <1>2. g[1 .. 0] = Base(CopyLoop(iova, len))
    BY <1>1, LoopNone
  <1> QED
    BY <1>1, <1>2 DEF Base, CopyLoop


LEMMA CopiedNext ==
  ASSUME NEW iova, NEW len, NEW n \in Nat
  PROVE  Copied(iova, len, n + 1) = Chunk(iova, len, Copied(iova, len, n), n + 1)
  <1> DEFINE l == CopyLoop(iova, len)
  <1>1. PICK g : IsLoop(l, n, g) /\ Copied(iova, len, n) = g[1 .. n]
    BY CopiedIsLoop
  <1>2. PICK h : IsLoop(l, n + 1, h) /\ Copied(iova, len, n + 1) = h[1 .. n + 1]
    BY CopiedIsLoop
  <1>3. h[1 .. n + 1] = Turn(l, g[1 .. n], n + 1)
    BY <1>1, <1>2, LoopGrows
  <1> QED
    BY <1>1, <1>2, <1>3 DEF Turn, CopyLoop

Placed(r, n) ==
    LET last == PageCount(r)
        place(b, k) ==
            LET full == b.at % r.page = r.page - 1 /\ k < last
                at == IF full THEN ListAddr(r, b.page + 1) ELSE b.at
                next == IF full THEN {<<b.at, ListAddr(r, b.page + 1)>>} ELSE {}
            IN  [at |-> at + 1, page |-> IF full THEN b.page + 1 ELSE b.page,
                 put |-> b.put \cup next \cup {<<at, DataAddr(r, k)>>}]
    IN  FoldLeft(place, [at |-> ListAddr(r, 1), page |-> 1, put |-> {}],
                 [k \in 1 .. n |-> k + 1])
ListLoop(r) == [loop |-> "list", r |-> r]

LEMMA PlacedIsLoop ==
  ASSUME NEW r, NEW n \in Nat
  PROVE  \E g : IsLoop(ListLoop(r), n, g) /\ Placed(r, n) = g[1 .. n]
  <1> DEFINE l == ListLoop(r)
             base == [at |-> ListAddr(r, 1), page |-> 1, put |-> {}]
             C(g) == g = [s \in SUBSET (1 .. n) |->
                            IF s = {} THEN base
                            ELSE PlaceEntry(r, g[s \ {Max(s)}],
                                            [k \in 1 .. n |-> k + 1][Max(s)])]
  <1>1. \A g : IsLoop(l, n, g) <=> C(g)
    <2>1. \A s \in SUBSET (1 .. n) :
             s # {} => [k \in 1 .. n |-> k + 1][Max(s)] = Max(s) + 1
      BY MaxIn
    <2>2. Base(l) = base /\ \A d, k : Turn(l, d, k) = PlaceEntry(r, d, k + 1)
      BY DEF Base, Turn, ListLoop
    <2> HIDE DEF base, l
    <2>3. ASSUME NEW g, NEW s \in SUBSET (1 .. n)
          PROVE  (IF s = {} THEN Base(l) ELSE Turn(l, g[s \ {Max(s)}], Max(s)))
                   = IF s = {} THEN base
                     ELSE PlaceEntry(r, g[s \ {Max(s)}], [k \in 1 .. n |-> k + 1][Max(s)])
      BY <2>1, <2>2
    <2> QED
      BY <2>3 DEF IsLoop
  <1>2. \E g : C(g)
    BY <1>1, LoopExists
  <1>3. Placed(r, n) = (CHOOSE g : C(g))[1 .. n]
    BY Zenon DEF Placed, FoldLeft, MapThenFoldSet, PlaceEntry
  <1> HIDE DEF C
  <1>4. C(CHOOSE g : C(g))
    BY <1>2
  <1> QED
    BY <1>1, <1>3, <1>4

LEMMA PlacedNone ==
  ASSUME NEW r
  PROVE  Placed(r, 0) = [at |-> ListAddr(r, 1), page |-> 1, put |-> {}]
  <1>1. PICK g : IsLoop(ListLoop(r), 0, g) /\ Placed(r, 0) = g[1 .. 0]
    BY PlacedIsLoop
  <1>2. g[1 .. 0] = Base(ListLoop(r))
    BY <1>1, LoopNone
  <1> QED
    BY <1>1, <1>2 DEF Base, ListLoop

LEMMA PlacedNext ==
  ASSUME NEW r, NEW n \in Nat
  PROVE  Placed(r, n + 1) = PlaceEntry(r, Placed(r, n), n + 2)
  <1> DEFINE l == ListLoop(r)
  <1>1. PICK g : IsLoop(l, n, g) /\ Placed(r, n) = g[1 .. n]
    BY PlacedIsLoop
  <1>2. PICK h : IsLoop(l, n + 1, h) /\ Placed(r, n + 1) = h[1 .. n + 1]
    BY PlacedIsLoop
  <1>3. h[1 .. n + 1] = Turn(l, g[1 .. n], n + 1)
    BY <1>1, <1>2, LoopGrows
  <1>5. (n + 1) + 1 = n + 2
    OBVIOUS
  <1>6. Turn(l, g[1 .. n], n + 1) = PlaceEntry(r, g[1 .. n], n + 2)
    BY <1>5 DEF Turn, ListLoop
  <1> QED
    BY <1>1, <1>2, <1>3, <1>6

-----------------------------------------------------------------------------
(* DMA: what is copied of a range *)

LEMMA Translations == iommu \in Iommus => \A p : TranslateOnce(p) \in Nat
  BY DmaAssumption DEF TranslateOnce

LEMMA PhysInPage ==
  ASSUME NEW q \in Nat, NEW b \in 0 .. KPage - 1
  PROVE  IovaToPhys(KPage * q + b) = TranslateOnce(q) * KPage + b
  <1>1. KPage \in Nat \ {0}
    BY DmaAssumption
  <1>2. (KPage * q + b) \div KPage = q /\ (KPage * q + b) % KPage = b
    BY <1>1, DivisionIs, RemainderIs
  <1> QED
    BY <1>2 DEF IovaToPhys

LEMMA PhysNat ==
  ASSUME iommu \in Iommus, NEW u \in Nat
  PROVE  IovaToPhys(u) \in Nat
  <1>1. KPage \in Nat \ {0}
    BY DmaAssumption
  <1>2. TranslateOnce(u \div KPage) \in Nat /\ u % KPage \in Nat
    BY <1>1, Translations
  <1> QED
    BY <1>1, <1>2 DEF IovaToPhys

(* Sequences that are equal entry by entry. *)
LEMMA SameEntries ==
  ASSUME NEW s \in Seq(Nat), NEW t \in Seq(Nat), Len(s) = Len(t),
         \A k \in 1 .. Len(s) : s[k] = t[k]
  PROVE  s = t
  BY SeqEqual, LenProperties

LEMMA Joined ==
  ASSUME NEW s \in Seq(Nat), NEW t \in Seq(Nat), NEW w \in Seq(Nat),
         Len(w) = Len(s) + Len(t),
         \A k \in 1 .. Len(s) : w[k] = s[k],
         \A k \in 1 .. Len(t) : w[Len(s) + k] = t[k]
  PROVE  s \o t = w
  <1> DEFINE c == s \o t
  <1>1. /\ c \in Seq(Nat) /\ Len(c) = Len(s) + Len(t)
        /\ \A k \in 1 .. Len(c) : c[k] = IF k <= Len(s) THEN s[k] ELSE t[k - Len(s)]
    BY ConcatProperties
  <1>2. Len(s) \in Nat /\ Len(t) \in Nat
    BY LenProperties
  <1>3. \A k \in 1 .. Len(c) : c[k] = w[k]
    <2> TAKE k \in 1 .. Len(c)
    <2>1. CASE k <= Len(s)
      BY <1>1, <1>2, <2>1
    <2>2. CASE k > Len(s)
      <3>1. k - Len(s) \in 1 .. Len(t) /\ Len(s) + (k - Len(s)) = k
        BY <1>1, <1>2, <2>2
      <3>2. w[k] = t[k - Len(s)]
        BY <3>1
      <3> QED
        BY <1>1, <2>2, <1>2, <3>2
    <2> QED
      BY <1>2, <2>1, <2>2
  <1> HIDE DEF c
  <1>4. c = w
    BY <1>1, <1>3, SameEntries
  <1> QED
    BY <1>4 DEF c

PageTotal(iova, len) == (iova + len - 1) \div KPage - iova \div KPage + 1
Reach(iova, len, n) == IF n = 0 THEN 0 ELSE Least(len, n * KPage - (iova % KPage))
PhysOf(iova, m) == [u \in 1 .. m |-> IovaToPhys(iova + u - 1)]

LEMMA PhysSeq ==
  ASSUME iommu \in Iommus, NEW iova \in Nat, NEW m \in Nat
  PROVE  /\ PhysOf(iova, m) \in Seq(Nat) /\ Len(PhysOf(iova, m)) = m
         /\ \A k \in 1 .. m : PhysOf(iova, m)[k] = IovaToPhys(iova + k - 1)
  <1>1. \A u \in 1 .. m : IovaToPhys(iova + u - 1) \in Nat
    <2> TAKE u \in 1 .. m
    <2>1. iova + u - 1 \in Nat
      OBVIOUS
    <2> QED
      BY <2>1, PhysNat
  <1> QED
    BY <1>1 DEF PhysOf

LEMMA PhysBegins ==
  ASSUME iommu \in Iommus, NEW iova \in Nat, NEW m \in Nat, NEW n \in Nat, n <= m
  PROVE  SubSeq(PhysOf(iova, m), 1, n) = PhysOf(iova, n)
  <1> DEFINE s == PhysOf(iova, m)
  <1>1. /\ s \in Seq(Nat) /\ Len(s) = m
        /\ \A k \in 1 .. m : s[k] = IovaToPhys(iova + k - 1)
    BY PhysSeq
  <1> HIDE DEF s
  <1>2. SubSeq(s, 1, n) = [k \in 1 .. n |-> s[k]]
    BY <1>1
  <1>3. \A k \in 1 .. n : s[k] = IovaToPhys(iova + k - 1)
    BY <1>1
  <1>4. SubSeq(s, 1, n) = PhysOf(iova, n)
    BY <1>2, <1>3 DEF PhysOf
  <1> QED
    BY <1>4 DEF s

(* Before the last page of a range it goes on behind each. *)
LEMMA NotLast ==
  ASSUME NEW iova \in Nat, NEW len \in Nat \ {0}, NEW n \in Nat \ {0},
         n < PageTotal(iova, len)
  PROVE  n * KPage - (iova % KPage) < len /\ n * KPage - (iova % KPage) > 0
  <1> DEFINE K == KPage
             a == iova \div K
             z == iova + len - 1
  <1>1. K \in Nat \ {0}
    BY DmaAssumption
  <1>2. a \in Nat /\ iova % K \in 0 .. K - 1 /\ iova = K * a + (iova % K)
    BY <1>1, Division
  <1>3. z \in Nat /\ z \div K \in Nat /\ a + n <= z \div K
    <2>1. z \in Nat
      OBVIOUS
    <2>2. z \div K \in Nat
      BY <1>1, <2>1, Division
    <2> QED
      BY <1>2, <2>1, <2>2 DEF PageTotal
  <1>4. K * (a + n) <= z
    BY <1>1, <1>2, <1>3, DivisionBelow
  <1>5. K * (a + n) = K * a + K * n /\ K * n = n * K /\ K * a \in Nat /\ K * n \in Nat
    BY <1>1, <1>2
  <1>6. K <= n * K
    BY <1>1, <1>5
  <1> QED
    BY <1>1, <1>2, <1>4, <1>5, <1>6

(* The last page of a range ends behind it. *)
LEMMA LastReaches ==
  ASSUME NEW iova \in Nat, NEW len \in Nat \ {0}
  PROVE  PageTotal(iova, len) \in Nat \ {0} /\ Reach(iova, len, PageTotal(iova, len)) = len
  <1> DEFINE K == KPage
             a == iova \div K
             z == iova + len - 1
             t == z \div K
             n == t - a + 1
  <1>1. K \in Nat \ {0}
    BY DmaAssumption
  <1>2. a \in Nat /\ iova % K \in 0 .. K - 1 /\ iova = K * a + (iova % K)
    BY <1>1, Division
  <1>3. z \in Nat /\ t \in Nat /\ z % K \in 0 .. K - 1 /\ z = K * t + (z % K)
    <2>1. z \in Nat
      OBVIOUS
    <2> QED
      BY <1>1, <2>1, Division
  <1>4. a <= t
    <2>1. ASSUME t + 1 <= a PROVE FALSE
      <3>1. K * (t + 1) <= K * a
        BY <1>1, <1>2, <1>3, <2>1
      <3>2. K * (t + 1) = K * t + K /\ K * a \in Nat /\ K * t \in Nat
        BY <1>1, <1>2, <1>3
      <3> QED
        BY <1>1, <1>2, <1>3, <3>1, <3>2
    <2> QED
      BY <1>2, <1>3, <2>1
  <1>5. n * K = K * t - K * a + K /\ K * a \in Nat /\ K * t \in Nat /\ n * K \in Int
    BY <1>1, <1>2, <1>3, <1>4
  <1>6. n * K - (iova % K) >= len
    BY <1>1, <1>2, <1>3, <1>5
  <1>7. n \in Nat \ {0} /\ n = PageTotal(iova, len)
    BY <1>2, <1>3, <1>4 DEF PageTotal
  <1> QED
    BY <1>6, <1>7, <1>1, <1>2, <1>5 DEF Reach, Least

LEMMA IsSeqOfNat ==
  ASSUME NEW n \in Nat, NEW f, f = [u \in 1 .. n |-> f[u]], \A u \in 1 .. n : f[u] \in Nat
  PROVE  f \in Seq(Nat) /\ Len(f) = n
  OBVIOUS

(* One turn of the loop, behind the first n pages. *)
LEMMA ChunkIs ==
  ASSUME iommu \in Iommus, NEW iova \in Nat, NEW len \in Nat \ {0},
         NEW n \in Nat, n < PageTotal(iova, len)
  PROVE  Chunk(iova, len, PhysOf(iova, Reach(iova, len, n)), n + 1)
           = PhysOf(iova, Reach(iova, len, n + 1))
  <1> DEFINE K == KPage
             a == iova \div K
             b == iova % K
             off == IF n = 0 THEN b ELSE 0
             reach == Reach(iova, len, n)
             to == Reach(iova, len, n + 1)
             s == PhysOf(iova, reach)
             size == Least(K - off, len - reach)
             t == [u \in 1 .. size |-> Pages(iova, len)[n + 1] * KPage + off + u - 1]
  <1>1. K \in Nat \ {0}
    BY DmaAssumption
  <1>2. a \in Nat /\ b \in 0 .. K - 1 /\ iova = K * a + b
    BY <1>1, Division
  <1>3. n * K \in Nat /\ (n + 1) * K = n * K + K
    BY <1>1
  <1>4. /\ n # 0 => n * K - b < len /\ n * K - b > 0
        /\ reach = IF n = 0 THEN 0 ELSE n * K - b
    <2>1. n # 0 => n * K - b < len /\ n * K - b > 0
      BY NotLast
    <2> HIDE DEF K, b
    <2>2. ~(len <= n * K - b) \/ n = 0
      BY <1>2, <1>3, <2>1
    <2>3. reach = IF n = 0 THEN 0 ELSE Least(len, n * K - b)
      BY DEF Reach, K, b
    <2> QED
      BY <1>2, <1>3, <2>1, <2>3 DEF Least
  <1>5. /\ reach \in Nat /\ reach < len
        /\ to = Least(len, n * K + K - b) /\ to \in Nat
        /\ size \in Nat /\ to = reach + size /\ size <= K - off
    <2>1. to = Least(len, (n + 1) * K - b)
      BY DEF Reach
    <2> HIDE DEF to, reach, a, b, K
    <2>2. /\ K \in Nat \ {0} /\ b \in 0 .. K - 1 /\ n * K \in Nat
          /\ to = Least(len, n * K + K - b) /\ (n = 0 => n * K = 0)
          /\ off = IF n = 0 THEN b ELSE 0
      BY <1>1, <1>2, <1>3, <2>1 DEF K
    <2> DEFINE x == n * K
    <2> HIDE DEF x, off
    <2>3. reach \in Nat /\ reach < len
      BY <1>4, <2>2 DEF x
    <2>4. to = Least(len, x + K - b) /\ size = Least(K - off, len - reach)
      BY <2>2 DEF x
    <2>5. reach = IF n = 0 THEN 0 ELSE x - b
      BY <1>4 DEF x
    <2> HIDE DEF size
    <2> QED
      BY <2>2, <2>3, <2>4, <2>5 DEF x, Least
  <1>6. s \in Seq(Nat) /\ Len(s) = reach /\ \A k \in 1 .. reach : s[k] = IovaToPhys(iova + k - 1)
    BY <1>5, PhysSeq
  <1>7. /\ PhysOf(iova, to) \in Seq(Nat) /\ Len(PhysOf(iova, to)) = to
        /\ \A k \in 1 .. to : PhysOf(iova, to)[k] = IovaToPhys(iova + k - 1)
    BY <1>5, PhysSeq
  <1>8. Pages(iova, len)[n + 1] = TranslateOnce(a + n)
    <2>1. n + 1 \in 1 .. PageTotal(iova, len) /\ a + (n + 1) - 1 = a + n
      BY <1>2, LastReaches
    <2> QED
      BY <2>1 DEF Pages, PageTotal
  <1>9. \A u \in 1 .. size : t[u] = IovaToPhys(iova + (reach + u) - 1) /\ t[u] \in Nat
    <2> TAKE u \in 1 .. size
    <2>1. off + u - 1 \in 0 .. K - 1 /\ iova + (reach + u) - 1 \in Nat
      BY <1>1, <1>2, <1>5
    <2>2. iova + (reach + u) - 1 = K * (a + n) + (off + u - 1)
      <3>1. K * (a + n) = K * a + n * K
        BY <1>1, <1>2
      <3>2. CASE n = 0
        BY <1>1, <1>2, <1>4, <3>1, <3>2
      <3>3. CASE n # 0
        <4>1. reach = n * K - b /\ off = 0
          BY <1>4, <3>3
        <4>2. K * a \in Nat
          BY <1>1, <1>2
        <4> HIDE DEF reach, off, K, a, b
        <4> QED
          BY <1>1, <1>2, <1>3, <3>1, <4>1, <4>2
      <3> QED
        BY <3>2, <3>3
    <2>3. IovaToPhys(K * (a + n) + (off + u - 1)) = TranslateOnce(a + n) * K + (off + u - 1)
      BY <1>2, <2>1, PhysInPage
    <2>4. TranslateOnce(a + n) * K \in Nat
      BY <1>1, Translations
    <2>5. t[u] = TranslateOnce(a + n) * K + (off + u - 1)
      BY <1>1, <1>2, <1>8, <2>4
    <2> QED
      BY <2>1, <2>2, <2>3, <2>4, <2>5
  <1>10. t \in Seq(Nat) /\ Len(t) = size
    <2>1. t = [u \in 1 .. size |-> t[u]]
      OBVIOUS
    <2> HIDE DEF t, size
    <2> QED
      BY <1>5, <1>9, <2>1, IsSeqOfNat
  <1> HIDE DEF s, t, size, off, reach, to
  <1>11. s \o t = PhysOf(iova, to)
    <2> DEFINE w == PhysOf(iova, to)
    <2>0. /\ w \in Seq(Nat) /\ Len(w) = reach + size
          /\ \A k \in 1 .. to : w[k] = IovaToPhys(iova + k - 1)
      BY <1>5, <1>7
    <2> HIDE DEF w
    <2>1. \A k \in 1 .. Len(s) : w[k] = s[k]
      <3> TAKE k \in 1 .. Len(s)
      <3>1. k \in 1 .. reach /\ k \in 1 .. to
        BY <1>5, <1>6
      <3> QED
        BY <1>6, <2>0, <3>1
    <2>2. \A k \in 1 .. Len(t) : w[Len(s) + k] = t[k]
      <3> TAKE k \in 1 .. Len(t)
      <3>1. k \in 1 .. size /\ reach + k \in 1 .. to
        BY <1>5, <1>10
      <3> QED
        BY <1>6, <1>9, <2>0, <3>1
    <2>3. s \o t = w
      BY <1>6, <1>10, <2>0, <2>1, <2>2, Joined
    <2> QED
      BY <2>3 DEF w
  <1>12. Chunk(iova, len, s, n + 1) = s \o t
    <2>1. (n + 1 = 1) <=> (n = 0)
      OBVIOUS
    <2> QED
      BY <1>6, <2>1 DEF Chunk, t, size, off
  <1> QED
    BY <1>11, <1>12 DEF s, to, reach

(* The loop over the pages copies the range, up to where it gets. *)
LEMMA CopiedIs ==
  ASSUME iommu \in Iommus, NEW iova \in Nat, NEW len \in Nat \ {0},
         NEW n \in 0 .. PageTotal(iova, len)
  PROVE  Copied(iova, len, n) = PhysOf(iova, Reach(iova, len, n))
  <1> DEFINE Bad == {m \in Nat : m <= PageTotal(iova, len) /\
                        Copied(iova, len, m) # PhysOf(iova, Reach(iova, len, m))}
  <1>0. PageTotal(iova, len) \in Nat
    BY LastReaches
  <1> SUFFICES ASSUME Bad # {} PROVE FALSE
    BY <1>0
  <1>1. PICK m \in Bad : \A y \in Bad : m <= y
    BY LeastNumber
  <1>2. m # 0
    <2>1. PhysOf(iova, Reach(iova, len, 0)) = <<>>
      BY PhysSeq, EmptySeq DEF Reach, PhysOf
    <2> QED
      BY <2>1, CopiedNone
  <1>3. PICK i \in Nat : m = i + 1 /\ i < PageTotal(iova, len) /\ i \notin Bad
    <2>1. m - 1 \in Nat /\ m = (m - 1) + 1 /\ m - 1 < m
      BY <1>2
    <2> QED
      BY <1>0, <1>1, <2>1
  <1>4. Copied(iova, len, i) = PhysOf(iova, Reach(iova, len, i))
    BY <1>0, <1>3
  <1>5. Copied(iova, len, i + 1) = Chunk(iova, len, Copied(iova, len, i), i + 1)
    BY CopiedNext
  <1>6. Copied(iova, len, i + 1) = PhysOf(iova, Reach(iova, len, i + 1))
    BY <1>3, <1>4, <1>5, ChunkIs
  <1> QED
    BY <1>1, <1>3, <1>6

LEMMA CopiedAll ==
  ASSUME iommu \in Iommus, NEW iova \in Nat, NEW len \in Nat \ {0}
  PROVE  /\ Len(Pages(iova, len)) = PageTotal(iova, len)
         /\ Copied(iova, len, Len(Pages(iova, len))) = PhysOf(iova, len)
  <1>1. PageTotal(iova, len) \in Nat /\ Reach(iova, len, PageTotal(iova, len)) = len
    BY LastReaches
  <1>2. Len(Pages(iova, len)) = PageTotal(iova, len)
    BY <1>1 DEF Pages, PageTotal
  <1> QED
    BY <1>1, <1>2, CopiedIs

-----------------------------------------------------------------------------
(* DMA: what is moved of a request *)

(* The first m of the addresses that a request means. *)
MovedOf(r, m) == [u \in 1 .. m |-> IovaToPhys(Meant(r)[u])]

Meaningful(r) == r.length \in Nat \ {0} /\ \A u \in 1 .. r.length : Meant(r)[u] \in Nat

LEMMA MovedSeq ==
  ASSUME iommu \in Iommus, NEW r, Meaningful(r), NEW m \in 0 .. r.length
  PROVE  /\ MovedOf(r, m) \in Seq(Nat) /\ Len(MovedOf(r, m)) = m
         /\ \A u \in 1 .. m : MovedOf(r, m)[u] = IovaToPhys(Meant(r)[u])
  <1>1. m \in Nat /\ \A u \in 1 .. m : u \in 1 .. r.length
    BY DEF Meaningful
  <1>2. \A u \in 1 .. m : IovaToPhys(Meant(r)[u]) \in Nat
    BY <1>1, PhysNat DEF Meaningful
  <1> QED
    BY <1>1, <1>2 DEF MovedOf

LEMMA MovedPrefix ==
  ASSUME iommu \in Iommus, NEW r, Meaningful(r), NEW m \in 0 .. r.length
  PROVE  IsPrefix(MovedOf(r, m), MovedOf(r, r.length))
  <1> DEFINE s == MovedOf(r, m)
             t == MovedOf(r, r.length)
  <1>1. m \in Nat /\ r.length \in Nat /\ m <= r.length /\ r.length \in 0 .. r.length
    BY DEF Meaningful
  <1>2. s \in Seq(Nat) /\ Len(s) = m /\ \A u \in 1 .. m : s[u] = IovaToPhys(Meant(r)[u])
    BY MovedSeq
  <1>3. /\ t \in Seq(Nat) /\ Len(t) = r.length
        /\ \A u \in 1 .. r.length : t[u] = IovaToPhys(Meant(r)[u])
    BY <1>1, MovedSeq
  <1> HIDE DEF s, t
  <1>4. SubSeq(s, 1, m) = [u \in 1 .. m |-> s[u]] /\ SubSeq(t, 1, m) = [u \in 1 .. m |-> t[u]]
    BY <1>1, <1>2, <1>3
  <1>5. \A u \in 1 .. m : s[u] = t[u]
    BY <1>1, <1>2, <1>3
  <1>6. IsPrefix(s, t)
    BY <1>1, <1>2, <1>3, <1>4, <1>5 DEF IsPrefix
  <1> QED
    BY <1>6 DEF s, t

LEMMA MovedOn ==
  ASSUME iommu \in Iommus, NEW r, Meaningful(r), NEW m \in Nat, NEW j \in Nat,
         m + j <= r.length, NEW a \in Nat,
         \A u \in 1 .. j : Meant(r)[m + u] = a + u - 1
  PROVE  MovedOf(r, m) \o PhysOf(a, j) = MovedOf(r, m + j)
  <1> DEFINE s == MovedOf(r, m)
             t == PhysOf(a, j)
             w == MovedOf(r, m + j)
  <1>1. m \in 0 .. r.length /\ m + j \in 0 .. r.length
    BY DEF Meaningful
  <1>2. s \in Seq(Nat) /\ Len(s) = m /\ \A u \in 1 .. m : s[u] = IovaToPhys(Meant(r)[u])
    BY <1>1, MovedSeq
  <1>3. /\ w \in Seq(Nat) /\ Len(w) = m + j
        /\ \A u \in 1 .. m + j : w[u] = IovaToPhys(Meant(r)[u])
    BY <1>1, MovedSeq
  <1>4. t \in Seq(Nat) /\ Len(t) = j /\ \A u \in 1 .. j : t[u] = IovaToPhys(a + u - 1)
    BY PhysSeq
  <1> HIDE DEF s, t, w
  <1>5. \A u \in 1 .. Len(s) : w[u] = s[u]
    BY <1>2, <1>3
  <1>6. \A u \in 1 .. Len(t) : w[Len(s) + u] = t[u]
    <2> TAKE u \in 1 .. Len(t)
    <2>1. m + u \in 1 .. m + j /\ u \in 1 .. j
      BY <1>4
    <2> QED
      BY <2>1, <1>2, <1>3, <1>4
  <1>7. s \o t = w
    BY <1>2, <1>3, <1>4, <1>5, <1>6, Joined
  <1> QED
    BY <1>7 DEF s, t, w

(* What is copied of the next range, all or a part of it. *)
LEMMA CopiedOn ==
  ASSUME iommu \in Iommus, NEW r, Meaningful(r), NEW m \in Nat, NEW len \in Nat \ {0},
         m + len <= r.length, NEW a \in Nat,
         \A u \in 1 .. len : Meant(r)[m + u] = a + u - 1,
         NEW n \in 0 .. Len(Pages(a, len))
  PROVE  /\ IsPrefix(MovedOf(r, m) \o Copied(a, len, n), MovedOf(r, r.length))
         /\ n = Len(Pages(a, len)) => MovedOf(r, m) \o Copied(a, len, n) = MovedOf(r, m + len)
  <1>1. n \in 0 .. PageTotal(a, len)
    BY CopiedAll
  <1>2. PICK j \in Nat : j <= len /\ Copied(a, len, n) = PhysOf(a, j)
    <2>1. KPage \in Nat \ {0}
      BY DmaAssumption
    <2>2. a % KPage \in 0 .. KPage - 1
      BY <2>1, Division
    <2>3. n # 0 => n * KPage >= KPage /\ n * KPage \in Nat
      <3>1. n \in Nat
        OBVIOUS
      <3> QED
        BY <2>1, <3>1
    <2>4. Reach(a, len, n) \in 0 .. len
      BY <2>1, <2>2, <2>3 DEF Reach, Least
    <2> QED
      BY <1>1, <2>4, CopiedIs
  <1>3. /\ m + j <= r.length /\ j \in Nat /\ m + j \in 0 .. r.length
        /\ \A u \in 1 .. j : Meant(r)[m + u] = a + u - 1
    <2>1. r.length \in Nat /\ j \in Nat /\ j <= len
      BY <1>2 DEF Meaningful
    <2>2. m + j <= r.length /\ m + j \in 0 .. r.length
      BY <2>1
    <2>3. ASSUME NEW u \in 1 .. j PROVE Meant(r)[m + u] = a + u - 1
      <3>1. u \in 1 .. len
        BY <2>1
      <3> QED
        BY <3>1
    <2> QED
      BY <2>1, <2>2, <2>3
  <1>4. MovedOf(r, m) \o Copied(a, len, n) = MovedOf(r, m + j)
    <2>1. MovedOf(r, m) \o PhysOf(a, j) = MovedOf(r, m + j)
      BY <1>3, MovedOn
    <2> QED
      BY <1>2, <2>1
  <1>5. n = Len(Pages(a, len)) => Copied(a, len, n) = PhysOf(a, len)
    BY CopiedAll
  <1>6. n = Len(Pages(a, len)) => MovedOf(r, m) \o Copied(a, len, n) = MovedOf(r, m + len)
    <2>1. len \in Nat
      OBVIOUS
    <2>2. MovedOf(r, m) \o PhysOf(a, len) = MovedOf(r, m + len)
      BY <2>1, MovedOn
    <2> QED
      BY <1>5, <2>2
  <1> QED
    BY <1>3, <1>4, <1>6, MovedPrefix

(* A request is over: with all that it means or a beginning, and if it was  *)
(* a write refused as a bad address, with whole chunks.                     *)
Ended ==
    /\ stage' = "done" /\ IsPrefix(moved', MovedOf(dma, dma.length))
    /\ ret' = "0" => moved' = MovedOf(dma, dma.length)
    /\ dma.write /\ ret' = "EFAULT" => Len(moved') = dma.length - remaining'

(* A stage that moves the next range of a request: on to the next stage, or *)
(* over.                                                                    *)
LEMMA MoveOn ==
  ASSUME iommu \in Iommus, Meaningful(dma), NEW m \in Nat, NEW len \in Nat \ {0},
         m + len <= dma.length, remaining = dma.length - m, moved = MovedOf(dma, m),
         NEW a \in Nat, \A u \in 1 .. len : Meant(dma)[m + u] = a + u - 1,
         NEW next, Move(a, len, next)
  PROVE  \/ /\ stage' = next /\ m + len < dma.length
            /\ moved' = MovedOf(dma, m + len) /\ remaining' = dma.length - (m + len)
         \/ Ended
  <1>1. dma.length \in Nat /\ m \in 0 .. dma.length
    BY DEF Meaningful
  <1>2. CASE Refused(a, len)
    <2>1. moved \in Seq(Nat) /\ Len(moved) = m
      BY <1>1, MovedSeq
    <2>2. /\ stage' = "done" /\ ret' # "0" /\ moved' = moved \o <<>> /\ remaining' = remaining
      BY <1>2 DEF Refused, Fails, Out
    <2>3. moved' = moved /\ Len(moved') = dma.length - remaining'
      BY <1>1, <2>1, <2>2
    <2>4. IsPrefix(moved', MovedOf(dma, dma.length))
      BY <1>1, <2>3, MovedPrefix
    <2> QED
      BY <2>2, <2>3, <2>4 DEF Ended
  <1>3. CASE WriteCut(a, len)
    <2>1. Len(Pages(a, len)) \in Nat
      BY CopiedAll, LastReaches
    <2>2. PICK n \in 0 .. Len(Pages(a, len)) - 1 : Fails("ENOMEM", Copied(a, len, n))
      BY <1>3 DEF WriteCut
    <2>3. n \in 0 .. Len(Pages(a, len))
      BY <2>1
    <2>4. IsPrefix(moved \o Copied(a, len, n), MovedOf(dma, dma.length))
      BY <2>3, CopiedOn
    <2> QED
      BY <2>2, <2>4 DEF Fails, Out, Ended
  <1>4. CASE ReadCut(a, len)
    <2>1. PICK n \in 0 .. len - 1 : Fails("EFAULT", SubSeq(PhysOf(a, len), 1, n))
      BY <1>4, CopiedAll DEF ReadCut
    <2>2. n \in Nat /\ m + n <= dma.length /\ m + n \in 0 .. dma.length
          /\ \A u \in 1 .. n : u \in 1 .. len
      BY <1>1
    <2>3. SubSeq(PhysOf(a, len), 1, n) = PhysOf(a, n)
      BY <2>2, PhysBegins
    <2>4. moved \o PhysOf(a, n) = MovedOf(dma, m + n)
      <3>1. \A u \in 1 .. n : Meant(dma)[m + u] = a + u - 1
        BY <2>2
      <3>2. MovedOf(dma, m) \o PhysOf(a, n) = MovedOf(dma, m + n)
        BY <2>2, <3>1, MovedOn
      <3> QED
        BY <3>2
    <2>5. IsPrefix(moved', MovedOf(dma, dma.length))
      BY <2>1, <2>2, <2>3, <2>4, MovedPrefix DEF Fails
    <2>6. stage' = "done" /\ ret' # "0" /\ ~dma.write
      BY <1>4, <2>1 DEF ReadCut, Fails, Out
    <2> QED
      BY <2>5, <2>6 DEF Ended
  <1>5. CASE /\ moved' = moved \o Copied(a, len, Len(Pages(a, len)))
             /\ remaining' = remaining - len
             /\ IF remaining = len THEN Out("0") ELSE stage' = next /\ UNCHANGED <<bufs, ret>>
    <2>1. Len(Pages(a, len)) \in 0 .. Len(Pages(a, len))
      <3>1. Len(Pages(a, len)) \in Nat
        BY CopiedAll, LastReaches
      <3> QED
        BY <3>1
    <2>2. moved' = MovedOf(dma, m + len)
      BY <1>5, <2>1, CopiedOn
    <2>3. CASE remaining = len
      <3>1. m + len = dma.length /\ dma.length \in 0 .. dma.length
        BY <1>1, <2>3
      <3>2. stage' = "done" /\ ret' = "0" /\ moved' = MovedOf(dma, dma.length)
        BY <1>5, <2>2, <2>3, <3>1 DEF Out
      <3> QED
        BY <3>1, <3>2, MovedPrefix DEF Ended
    <2>4. CASE remaining # len
      <3>1. m + len < dma.length /\ remaining - len = dma.length - (m + len)
        BY <1>1, <2>4
      <3> QED
        BY <1>5, <2>2, <2>4, <3>1
    <2> QED
      BY <2>3, <2>4
  <1> QED
    BY <1>2, <1>3, <1>4, <1>5 DEF Move

-----------------------------------------------------------------------------
(* DMA: the pages of a request *)

LEMMA DivisionMono ==
  ASSUME NEW n \in Nat \ {0}, NEW a \in Nat, NEW b \in Nat, a <= b
  PROVE  a \div n <= b \div n
  <1>1. /\ a \div n \in Nat /\ b \div n \in Nat
        /\ a = n * (a \div n) + (a % n) /\ a % n \in 0 .. n - 1
        /\ b = n * (b \div n) + (b % n) /\ b % n \in 0 .. n - 1
    BY Division
  <1>2. ASSUME b \div n + 1 <= a \div n PROVE FALSE
    <2>1. n * (b \div n + 1) <= n * (a \div n)
      BY <1>1, <1>2
    <2>2. n * (b \div n + 1) = n * (b \div n) + n /\ n * (b \div n) \in Nat /\ n * (a \div n) \in Nat
      BY <1>1
    <2> QED
      BY <1>1, <2>1, <2>2
  <1> QED
    BY <1>1, <1>2

(* The address behind one that is not the last of its page. *)
LEMMA NextInPage ==
  ASSUME NEW n \in Nat \ {0}, NEW a \in Nat, NEW j \in Nat, (a % n) + j < n
  PROVE  (a + j) \div n = a \div n /\ (a + j) % n = (a % n) + j
  <1>1. a \div n \in Nat /\ a % n \in 0 .. n - 1 /\ a = n * (a \div n) + (a % n)
    BY Division
  <1>2. (a % n) + j \in 0 .. n - 1 /\ a + j = n * (a \div n) + ((a % n) + j)
    <2>1. n * (a \div n) \in Nat
      BY <1>1
    <2> QED
      BY <1>1, <2>1
  <1> QED
    BY <1>1, <1>2, DivisionIs, RemainderIs

LEMMA IndirectFacts ==
  ASSUME NEW r \in IndirectRequests
  PROVE  /\ r.kind = "indirect" /\ r.page \in PageSizes /\ r.page \in Nat \ {0, 1}
         /\ r.off \in 0 .. r.page - 1 /\ r.listOff \in 0 .. r.page - 1
         /\ r.length \in Nat \ {0}
         /\ PageCount(r) \in 1 .. Len(DataPages) /\ PageCount(r) \in Nat
         /\ Len(DataPages) \in Nat
         /\ (r.off + r.length - 1) \div r.page = PageCount(r) - 1
  <1>1. /\ r.kind = "indirect" /\ r.page \in PageSizes /\ r.off \in Offsets
        /\ r.listOff \in Offsets /\ r.length \in Lengths /\ PageCount(r) <= Len(DataPages)
    BY DEF IndirectRequests
  <1> DEFINE p == r.page
  <1>2. /\ p \in Nat \ {0} /\ p % KPage = 0 /\ KPage \in Nat \ {0, 1}
        /\ r.off \in 0 .. p - 1 /\ r.listOff \in 0 .. p - 1 /\ r.length \in Nat \ {0}
    <2>1. p \in Nat \ {0} /\ p % KPage = 0 /\ KPage \in Nat \ {0, 1}
      BY <1>1, DmaAssumption
    <2>2. r.off \in Nat /\ r.off < p /\ r.listOff \in Nat /\ r.listOff < p
      BY <1>1, DmaAssumption
    <2>3. r.length \in Nat \ {0}
      BY <1>1, DmaAssumption
    <2> QED
      BY <2>1, <2>2, <2>3
  <1>3. p # 1
    <2>1. p \div KPage \in Nat /\ p = KPage * (p \div KPage) + (p % KPage)
      BY <1>2, Division
    <2>2. ASSUME p = 1 PROVE FALSE
      BY <1>2, <2>1, <2>2
    <2> QED
      BY <2>2
  <1>4. r.off + r.length - 1 \in Nat
    BY <1>2
  <1>5. (r.off + r.length - 1) \div p \in Nat
    BY <1>2, <1>4, Division
  <1>6. Len(DataPages) \in Nat
    BY DmaAssumption
  <1>7. PageCount(r) = (r.off + r.length - 1) \div p + 1
    BY DEF PageCount
  <1>8. /\ PageCount(r) \in 1 .. Len(DataPages) /\ (r.off + r.length - 1) \div p = PageCount(r) - 1
        /\ PageCount(r) \in Nat
    <2> DEFINE q == (r.off + r.length - 1) \div p
    <2>1. q \in Nat /\ PageCount(r) = q + 1
      BY <1>5, <1>7
    <2> HIDE DEF q
    <2>2. /\ PageCount(r) \in 1 .. Len(DataPages) /\ q = PageCount(r) - 1
          /\ PageCount(r) \in Nat
      BY <1>1, <1>6, <2>1
    <2> QED
      BY <2>2 DEF q
  <1>9. p \in Nat \ {0, 1}
    BY <1>2, <1>3
  <1> QED
    BY <1>1, <1>2, <1>6, <1>8, <1>9

LEMMA DataPageNat ==
  ASSUME NEW k \in 1 .. Len(DataPages)
  PROVE  DataPages[k] \in Nat
  BY DmaAssumption

LEMMA ListPageNat ==
  ASSUME NEW k \in 1 .. Len(DataPages) - 1
  PROVE  k \in DOMAIN ListPages /\ ListPages[k] \in Nat
  <1>1. Len(ListPages) \in Nat /\ Len(DataPages) \in Nat /\ ListPages \in Seq(Nat)
    BY DmaAssumption
  <1>2. k \in 1 .. Len(ListPages)
    BY <1>1, DmaAssumption
  <1> QED
    BY <1>1, <1>2

(* What is meant by an indirect request, page by page. *)
LEMMA MeantIndirect ==
  ASSUME NEW r \in IndirectRequests, NEW u \in 1 .. r.length
  PROVE  LET w == r.off + u - 1
             k == (w \div r.page) + 1
         IN  /\ w \in Nat /\ k \in 1 .. PageCount(r)
             /\ Meant(r)[u] = DataPages[k] * r.page + (w % r.page)
             /\ Meant(r)[u] \in Nat
  <1> DEFINE w == r.off + u - 1
             k == (w \div r.page) + 1
  <1>1. /\ r.kind = "indirect" /\ r.page \in Nat \ {0} /\ r.off \in Nat /\ r.length \in Nat
        /\ PageCount(r) \in 1 .. Len(DataPages) /\ Len(DataPages) \in Nat
        /\ (r.off + r.length - 1) \div r.page = PageCount(r) - 1
    BY IndirectFacts
  <1>2. w \in Nat /\ w <= r.off + r.length - 1 /\ r.off + r.length - 1 \in Nat
    BY <1>1
  <1>3. w \div r.page \in Nat /\ w % r.page \in Nat
    <2> HIDE DEF w
    <2>1. w \div r.page \in Nat /\ w % r.page \in 0 .. r.page - 1
      BY <1>1, <1>2, Division
    <2> QED
      BY <1>1, <2>1
  <1>4. k \in 1 .. PageCount(r)
    <2>1. w \div r.page <= (r.off + r.length - 1) \div r.page
      BY <1>1, <1>2, DivisionMono
    <2> QED
      BY <1>1, <1>3, <2>1
  <1>5. DataPages[k] \in Nat
    BY <1>1, <1>4, DataPageNat
  <1>6. Meant(r)[u] = DataPages[k] * r.page + (w % r.page)
    BY <1>1 DEF Meant
  <1>7. DataPages[k] * r.page \in Nat
    BY <1>1, <1>5
  <1> QED
    BY <1>2, <1>3, <1>4, <1>6, <1>7

LEMMA MeaningfulIndirect == \A r \in IndirectRequests : Meaningful(r)
  BY MeantIndirect, IndirectFacts DEF Meaningful

LEMMA MeantDma ==
  ASSUME NEW r \in DmaRequests
  PROVE  /\ r.kind = "dma" /\ r.iova \in Nat /\ r.length \in Nat \ {0}
         /\ \A u \in 1 .. r.length : Meant(r)[u] = r.iova + u - 1
         /\ Meaningful(r)
  <1>1. r.kind = "dma" /\ r.length \in Lengths
    BY DEF DmaRequests
  <1>2. r.length \in Nat \ {0}
    BY <1>1, DmaAssumption
  <1>3. PICK o \in Offsets : r.iova = DataPages[1] * KPage + o
    BY DEF DmaRequests
  <1>4. DataPages[1] \in Nat /\ KPage \in Nat /\ o \in Nat
    BY DmaAssumption, LenProperties, ElementOfSeq
  <1>5. DataPages[1] * KPage \in Nat
    BY <1>4
  <1>6. r.iova \in Nat
    BY <1>3, <1>4, <1>5
  <1>7. \A u \in 1 .. r.length : Meant(r)[u] = r.iova + u - 1
    BY <1>1 DEF Meant
  <1> QED
    BY <1>1, <1>2, <1>6, <1>7 DEF Meaningful

(* Page j + 2 of a transfer of n bytes from offset o is behind its first f. *)
LaterPage(p, o, n, c, j, f) ==
    /\ f \in Nat \ {0} /\ f < n
    /\ ((j + 1) + 1) * p - o = f + p
    /\ j + 2 < c <=> n - f > p
    /\ \A u \in 1 .. Least(n - f, p) :
          /\ f + u \in 1 .. n
          /\ (o + (f + u) - 1) \div p = j + 1
          /\ (o + (f + u) - 1) % p = u - 1

LEMMA LaterPageArith ==
  ASSUME NEW p \in Nat \ {0}, NEW o \in Nat, o < p, NEW n \in Nat \ {0}, NEW c \in Nat,
         (o + n - 1) \div p = c - 1,
         NEW j \in Nat, j + 2 <= c, NEW f, f = (j + 1) * p - o
  PROVE  LaterPage(p, o, n, c, j, f)
  <1> DEFINE z == o + n - 1
  <1>1. z \in Nat /\ z = o + n - 1
    OBVIOUS
  <1>2. z \div p \in Nat /\ z % p \in 0 .. p - 1 /\ z = p * (z \div p) + (z % p)
    BY <1>1, Division
  <1>3. z \div p = c - 1
    OBVIOUS
  <1> HIDE DEF z
  <1> DEFINE x == (j + 1) * p
  <1>4. x \in Nat /\ x >= p /\ ((j + 1) + 1) * p = x + p /\ p * (j + 1) = x /\ p * (j + 2) = x + p
    OBVIOUS
  <1>5. j + 1 \in Nat /\ j + 1 <= z \div p /\ j + 2 \in Nat
    BY <1>3
  <1>6. x <= z
    BY <1>1, <1>4, <1>5, DivisionBelow
  <1>7. f = x - o
    OBVIOUS
  <1>8. ASSUME j + 2 < c PROVE n - f > p
    <2>1. j + 2 <= z \div p
      BY <1>3, <1>8
    <2>2. p * (j + 2) <= z
      BY <1>1, <1>5, <2>1, DivisionBelow
    <2> HIDE DEF x
    <2> QED
      BY <1>1, <1>4, <1>7, <1>8, <2>2
  <1>9. ASSUME j + 2 = c PROVE ~(n - f > p)
    <2>1. z \div p = j + 1
      BY <1>3, <1>9
    <2>2. z = x + (z % p)
      BY <1>2, <1>4, <2>1
    <2> HIDE DEF x
    <2>3. z < x + p
      BY <1>2, <1>4, <2>2
    <2> QED
      BY <1>1, <1>4, <1>7, <1>9, <2>3
  <1>10. j + 2 < c <=> n - f > p
    BY <1>8, <1>9
  <1> HIDE DEF x
  <1>11. f \in Nat \ {0} /\ f < n
    BY <1>1, <1>4, <1>6, <1>7
  <1>12. ASSUME NEW u \in 1 .. Least(n - f, p)
         PROVE  /\ f + u \in 1 .. n
                /\ (o + (f + u) - 1) \div p = j + 1
                /\ (o + (f + u) - 1) % p = u - 1
    <2>1. Least(n - f, p) <= n - f /\ Least(n - f, p) <= p /\ Least(n - f, p) \in Nat
      BY <1>11 DEF Least
    <2>2. u \in Nat \ {0} /\ u <= p /\ f + u <= n
      BY <1>11, <2>1
    <2>3. f + u \in 1 .. n /\ u - 1 \in 0 .. p - 1
      BY <1>11, <2>2
    <2>4. o + (f + u) - 1 = p * (j + 1) + (u - 1)
      BY <1>4, <1>7, <1>11, <2>2
    <2>5. /\ (p * (j + 1) + (u - 1)) \div p = j + 1
          /\ (p * (j + 1) + (u - 1)) % p = u - 1
      BY <1>5, <2>3, DivisionIs, RemainderIs
    <2> QED
      BY <2>3, <2>4, <2>5
  <1> QED
    BY <1>4, <1>7, <1>10, <1>11, <1>12 DEF LaterPage

(* The first len bytes of a transfer are those of its first page. *)
FirstBytes(p, o, n, c, len) ==
    /\ len \in Nat \ {0} /\ len <= n
    /\ \A u \in 1 .. len :
          /\ u \in 1 .. n
          /\ (o + u - 1) \div p = 0 /\ (o + u - 1) % p = o + u - 1
    /\ len < n => len = p - o /\ c >= 2

LEMMA FirstPageArith ==
  ASSUME NEW p \in Nat \ {0}, NEW o \in Nat, o < p, NEW n \in Nat \ {0}, NEW c \in Nat,
         (o + n - 1) \div p = c - 1, NEW len, len = Least(p - o, n)
  PROVE  FirstBytes(p, o, n, c, len)
  <1>1. len \in Nat \ {0} /\ len <= n /\ len <= p - o
    BY DEF Least
  <1>2. ASSUME NEW u \in 1 .. len
        PROVE  /\ u \in 1 .. n
               /\ (o + u - 1) \div p = 0 /\ (o + u - 1) % p = o + u - 1
    <2>1. u \in 1 .. n /\ o + u - 1 \in 0 .. p - 1 /\ o + u - 1 = p * 0 + (o + u - 1)
      BY <1>1
    <2>2. (p * 0 + (o + u - 1)) \div p = 0 /\ (p * 0 + (o + u - 1)) % p = o + u - 1
      BY <2>1, DivisionIs, RemainderIs
    <2> QED
      BY <2>1, <2>2
  <1>3. ASSUME len < n PROVE len = p - o /\ c >= 2
    <2>1. len = p - o /\ p <= o + n - 1 /\ o + n - 1 \in Nat
      BY <1>3 DEF Least
    <2>2. p \div p = 1
      <3>1. p = p * 1 + 0 /\ 0 \in 0 .. p - 1
        OBVIOUS
      <3>2. (p * 1 + 0) \div p = 1
        BY <3>1, DivisionIs
      <3> QED
        BY <3>1, <3>2
    <2>3. p \div p <= (o + n - 1) \div p
      BY <2>1, DivisionMono
    <2> QED
      BY <2>1, <2>2, <2>3
  <1> QED
    BY <1>1, <1>2, <1>3 DEF FirstBytes

(* Before page j + 2 of a request. *)
FirstOf(r, j) == (j + 1) * r.page - r.off

LEMMA PageLeft ==
  ASSUME NEW r \in IndirectRequests, NEW j \in Nat, j + 2 <= PageCount(r)
  PROVE  /\ FirstOf(r, j) \in Nat \ {0} /\ FirstOf(r, j) < r.length
         /\ FirstOf(r, j + 1) = FirstOf(r, j) + r.page
         /\ j + 2 < PageCount(r) <=> r.length - FirstOf(r, j) > r.page
         /\ \A u \in 1 .. Least(r.length - FirstOf(r, j), r.page) :
               Meant(r)[FirstOf(r, j) + u] = DataAddr(r, j + 2) + u - 1
         /\ DataAddr(r, j + 2) \in Nat
  <1> DEFINE f == FirstOf(r, j)
  <1>1. /\ r.page \in Nat \ {0} /\ r.off \in 0 .. r.page - 1 /\ r.length \in Nat \ {0}
        /\ PageCount(r) \in 1 .. Len(DataPages) /\ Len(DataPages) \in Nat
        /\ PageCount(r) \in Nat
        /\ (r.off + r.length - 1) \div r.page = PageCount(r) - 1
    BY IndirectFacts
  <1>2. f = (j + 1) * r.page - r.off
    BY DEF FirstOf
  <1>3. FirstOf(r, j + 1) = ((j + 1) + 1) * r.page - r.off
    BY DEF FirstOf
  <1> HIDE DEF f
  <1>4. /\ f \in Nat \ {0} /\ f < r.length
        /\ FirstOf(r, j + 1) = f + r.page
        /\ j + 2 < PageCount(r) <=> r.length - f > r.page
        /\ \A u \in 1 .. Least(r.length - f, r.page) :
               /\ f + u \in 1 .. r.length
               /\ (r.off + (f + u) - 1) \div r.page = j + 1
               /\ (r.off + (f + u) - 1) % r.page = u - 1
    <2>1. PICK p \in Nat \ {0}, o \in Nat, n \in Nat \ {0}, c \in Nat :
             p = r.page /\ o = r.off /\ n = r.length /\ c = PageCount(r)
      <3>1. /\ r.page \in Nat \ {0} /\ r.off \in Nat /\ r.length \in Nat \ {0}
            /\ PageCount(r) \in Nat
        BY <1>1
      <3> QED
        BY <3>1, Zenon
    <2>2. /\ (o + n - 1) \div p = c - 1 /\ j + 2 <= c /\ f = (j + 1) * p - o /\ o < p
      BY <1>1, <1>2, <2>1
    <2>3. LaterPage(p, o, n, c, j, f)
      BY <2>2, LaterPageArith
    <2> QED
      BY <1>3, <2>1, <2>3 DEF LaterPage
  <1>5. /\ DataPages[j + 2] \in Nat /\ DataPages[j + 2] * r.page \in Nat
        /\ DataAddr(r, j + 2) = DataPages[j + 2] * r.page
    <2>1. j + 2 \in 1 .. Len(DataPages) /\ j + 2 # 1
      BY <1>1
    <2>2. DataPages[j + 2] \in Nat
      BY <2>1, DataPageNat
    <2>3. DataPages[j + 2] * r.page \in Nat
      BY <1>1, <2>2
    <2> QED
      BY <2>1, <2>2, <2>3 DEF DataAddr
  <1>6. ASSUME NEW u \in 1 .. Least(r.length - f, r.page)
        PROVE  Meant(r)[f + u] = DataAddr(r, j + 2) + u - 1
    <2> DEFINE w == r.off + (f + u) - 1
    <2>1. f + u \in 1 .. r.length /\ w \div r.page = j + 1 /\ w % r.page = u - 1
      BY <1>4
    <2>2. Meant(r)[f + u] = DataPages[(w \div r.page) + 1] * r.page + (w % r.page)
      BY <2>1, MeantIndirect
    <2>3. (w \div r.page) + 1 = j + 2
      BY <2>1
    <2>4. Meant(r)[f + u] = DataPages[j + 2] * r.page + (u - 1)
      BY <2>1, <2>2, <2>3
    <2>5. u \in Nat
      BY <1>1, <1>4 DEF Least
    <2> QED
      BY <1>5, <2>4, <2>5
  <1> QED
    BY <1>4, <1>5, <1>6 DEF f

(* The first page. *)
LEMMA FirstPage ==
  ASSUME NEW r \in IndirectRequests
  PROVE  LET a == DataAddr(r, 1)
             len == Least(r.page - (a % r.page), r.length)
         IN  /\ a \in Nat /\ len \in Nat \ {0} /\ len <= r.length
             /\ \A u \in 1 .. len : Meant(r)[u] = a + u - 1
             /\ len < r.length => len = FirstOf(r, 0) /\ PageCount(r) >= 2
  <1> DEFINE a == DataAddr(r, 1)
             len == Least(r.page - (a % r.page), r.length)
  <1>1. /\ r.page \in Nat \ {0} /\ r.off \in 0 .. r.page - 1 /\ r.length \in Nat \ {0}
        /\ PageCount(r) \in 1 .. Len(DataPages) /\ Len(DataPages) \in Nat
        /\ PageCount(r) \in Nat
        /\ (r.off + r.length - 1) \div r.page = PageCount(r) - 1
    BY IndirectFacts
  <1>2. /\ DataPages[1] \in Nat /\ DataPages[1] * r.page \in Nat
        /\ a = DataPages[1] * r.page + r.off
    <2>1. 1 \in 1 .. Len(DataPages)
      BY <1>1
    <2>2. DataPages[1] \in Nat
      BY <2>1, DataPageNat
    <2>3. DataPages[1] * r.page \in Nat
      BY <1>1, <2>2
    <2> QED
      BY <2>2, <2>3 DEF DataAddr
  <1> HIDE DEF a
  <1>3. a \in Nat /\ a % r.page = r.off
    <2>1. PICK p \in Nat \ {0}, q \in Nat, o \in Nat :
             p = r.page /\ q = DataPages[1] /\ o = r.off
      BY <1>1, <1>2
    <2>2. o \in 0 .. p - 1
      BY <1>1, <2>1
    <2>3. a = p * q + o /\ a \in Nat
      BY <1>2, <2>1
    <2>4. (p * q + o) % p = o
      BY <2>2, RemainderIs
    <2>5. a % p = o
      BY <2>3, <2>4
    <2> QED
      BY <2>1, <2>3, <2>5
  <1>4. len = Least(r.page - r.off, r.length)
    BY <1>3
  <1> HIDE DEF len
  <1>5. /\ len \in Nat \ {0} /\ len <= r.length
        /\ \A u \in 1 .. len :
              /\ u \in 1 .. r.length
              /\ (r.off + u - 1) \div r.page = 0 /\ (r.off + u - 1) % r.page = r.off + u - 1
        /\ len < r.length => len = r.page - r.off /\ PageCount(r) >= 2
    <2>1. PICK p \in Nat \ {0}, o \in Nat, n \in Nat \ {0}, c \in Nat :
             p = r.page /\ o = r.off /\ n = r.length /\ c = PageCount(r)
      <3>1. /\ r.page \in Nat \ {0} /\ r.off \in Nat /\ r.length \in Nat \ {0}
            /\ PageCount(r) \in Nat
        BY <1>1
      <3> QED
        BY <3>1, Zenon
    <2>2. (o + n - 1) \div p = c - 1 /\ o < p /\ len = Least(p - o, n)
      BY <1>1, <1>4, <2>1
    <2>3. FirstBytes(p, o, n, c, len)
      BY <2>2, FirstPageArith
    <2> QED
      BY <2>1, <2>3 DEF FirstBytes
  <1>6. ASSUME NEW u \in 1 .. len PROVE Meant(r)[u] = a + u - 1
    <2> DEFINE w == r.off + u - 1
    <2>1. u \in 1 .. r.length /\ w \div r.page = 0 /\ w % r.page = w
      BY <1>5
    <2>2. Meant(r)[u] = DataPages[(w \div r.page) + 1] * r.page + (w % r.page)
      BY <2>1, MeantIndirect
    <2>3. (w \div r.page) + 1 = 1
      BY <2>1
    <2>4. Meant(r)[u] = DataPages[1] * r.page + w
      BY <2>1, <2>2, <2>3
    <2>5. u \in Nat /\ r.off \in Nat /\ a = DataPages[1] * r.page + r.off
      BY <1>1, <1>2, <1>5
    <2> QED
      BY <1>2, <2>4, <2>5
  <1>7. FirstOf(r, 0) = r.page - r.off
    BY <1>1 DEF FirstOf
  <1> QED
    BY <1>3, <1>5, <1>6, <1>7 DEF a, len

LEMMA DivisionIn ==
  ASSUME NEW n \in Nat \ {0}, NEW q \in Nat, NEW r \in Nat, r < n, NEW a, a = n * q + r
  PROVE  a \div n = q
  BY DivisionIs

(* A page is made of whole pages of the processor. *)
LEMMA PageOfPage ==
  ASSUME NEW K \in Nat \ {0}, NEW p \in Nat \ {0}, p % K = 0, NEW u \in Nat
  PROVE  ((u \div K) * K) \div p = u \div p
  <1>1. PICK m \in Nat : m = p \div K /\ p = K * m
    <2>1. p \div K \in Nat /\ p = K * (p \div K) + (p % K)
      BY Division
    <2>2. K * (p \div K) \in Nat
      BY <2>1
    <2> QED
      BY <2>1, <2>2
  <1>2. m # 0
    <2>1. ASSUME m = 0 PROVE FALSE
      BY <1>1, <2>1
    <2> QED
      BY <2>1
  <1>3. PICK q \in Nat, b \in Nat : q = u \div K /\ b < K /\ u = K * q + b
    <2>1. u \div K \in Nat /\ u % K \in 0 .. K - 1 /\ u = K * (u \div K) + (u % K)
      BY Division
    <2> QED
      BY <2>1
  <1>4. PICK s \in Nat, t \in Nat : t < m /\ q = m * s + t
    <2>1. q \div m \in Nat /\ q % m \in 0 .. m - 1 /\ q = m * (q \div m) + (q % m)
      BY <1>2, Division
    <2> DEFINE s == q \div m
               t == q % m
    <2>2. s \in Nat /\ t \in Nat /\ t < m /\ q = m * s + t
      <3>1. t \in 0 .. m - 1 /\ s \in Nat /\ q = m * s + t
        BY <2>1
      <3> HIDE DEF s, t
      <3> QED
        BY <3>1
    <2> HIDE DEF s, t
    <2> QED
      BY <2>2
  <1>5. K * t \in Nat /\ K * t + K <= p
    <2>1. t + 1 <= m
      BY <1>4
    <2>2. K * (t + 1) <= K * m
      BY <2>1
    <2> QED
      BY <1>1, <2>2
  <1>6. K * q = p * s + K * t
    <2>1. K * q = K * (m * s) + K * t
      BY <1>4
    <2>2. K * (m * s) = (K * m) * s
      OBVIOUS
    <2> QED
      BY <1>1, <2>1, <2>2
  <1> DEFINE x == K * t
             y == p * s
             z == K * q
  <1>7. x \in Nat /\ x + K <= p /\ z = y + x /\ y \in Nat /\ z \in Nat
    BY <1>5, <1>6
  <1>8. u = z + b
    BY <1>3
  <1>9. x < p /\ x + b < p /\ x + b \in Nat /\ u = y + (x + b)
    <2>1. b < K
      BY <1>3
    <2> HIDE DEF x, y, z
    <2> QED
      BY <2>1, <1>7, <1>8
  <1>10. z \div p = s
    <2> HIDE DEF x, z
    <2> QED
      BY <1>7, <1>9, DivisionIn
  <1>11. u \div p = s
    <2> HIDE DEF x, z
    <2> QED
      BY <1>7, <1>9, DivisionIn
  <1>12. z = q * K
    OBVIOUS
  <1> QED
    BY <1>3, <1>10, <1>11, <1>12

-----------------------------------------------------------------------------
(* The layout of a list *)

(* The address of a list page, and what is behind it. *)
LEMMA ListAddrIs ==
  ASSUME NEW r \in IndirectRequests, NEW k \in 1 .. Len(DataPages) - 1
  PROVE  /\ ListAddr(r, k) \in Nat
         /\ ListAddr(r, k) \div r.page = ListPages[k]
         /\ ListAddr(r, k) % r.page = IF k = 1 THEN r.listOff ELSE 0
  <1> DEFINE o == IF k = 1 THEN r.listOff ELSE 0
  <1>1. /\ r.page \in Nat \ {0} /\ o \in 0 .. r.page - 1
    BY IndirectFacts
  <1>2. ListPages[k] \in Nat
    BY ListPageNat
  <1>3. ListAddr(r, k) = r.page * ListPages[k] + o
    <2>1. ListAddr(r, k) = ListPages[k] * r.page + o
      BY DEF ListAddr
    <2>2. ListPages[k] * r.page = r.page * ListPages[k]
      BY <1>1, <1>2
    <2> QED
      BY <2>1, <2>2
  <1> HIDE DEF o
  <1>4. (r.page * ListPages[k] + o) \div r.page = ListPages[k]
    BY <1>1, <1>2, DivisionIs
  <1>5. (r.page * ListPages[k] + o) % r.page = o
    BY <1>1, <1>2, RemainderIs
  <1>6. r.page * ListPages[k] + o \in Nat
    BY <1>1, <1>2
  <1> QED
    BY <1>3, <1>4, <1>5, <1>6 DEF o

(* Before the entry of page j + 2 is placed: the list page is full and the  *)
(* entry is not the last one; where the entry goes.                         *)
ListFull(r, j) == Placed(r, j).at % r.page = r.page - 1 /\ j + 2 < PageCount(r)
Slot(r, j) == IF ListFull(r, j) THEN ListAddr(r, Placed(r, j).page + 1) ELSE Placed(r, j).at

(* An address that has been placed. *)
Behind(r, b, u) ==
    /\ u \in Nat
    /\ \E k \in 1 .. b.page : u \div r.page = ListPages[k] /\ (k = b.page => u < b.at)

(* The list with the entries of j pages. *)
Laid(r, j) ==
    LET b == Placed(r, j)
    IN  /\ b.at \in Nat /\ b.page \in Nat \ {0} /\ b.page <= j + 1
        /\ j + 2 <= PageCount(r) => b.at \div r.page = ListPages[b.page]
        /\ b.page <= PageCount(r) - 1
        /\ \A e \in b.put : Behind(r, b, e[1])
        /\ \A e, f \in b.put : e[1] = f[1] => e[2] = f[2]

LEMMA PlacedFields ==
  ASSUME NEW r, NEW j \in Nat
  PROVE  /\ Placed(r, j + 1).at = Slot(r, j) + 1
         /\ Placed(r, j + 1).page = IF ListFull(r, j) THEN Placed(r, j).page + 1
                                    ELSE Placed(r, j).page
         /\ Placed(r, j + 1).put =
               Placed(r, j).put \cup {<<Slot(r, j), DataAddr(r, j + 2)>>}
                 \cup IF ListFull(r, j) THEN {<<Placed(r, j).at, Slot(r, j)>>} ELSE {}
  <1>1. Placed(r, j + 1) = PlaceEntry(r, Placed(r, j), j + 2)
    BY PlacedNext
  <1> DEFINE b == Placed(r, j)
             q == PlaceEntry(r, b, j + 2)
  <1>2. /\ q.at = Slot(r, j) + 1
        /\ q.page = IF ListFull(r, j) THEN b.page + 1 ELSE b.page
        /\ q.put = b.put \cup {<<Slot(r, j), DataAddr(r, j + 2)>>}
                     \cup IF ListFull(r, j) THEN {<<b.at, Slot(r, j)>>} ELSE {}
    BY DEF PlaceEntry, Slot, ListFull
  <1> QED
    BY <1>1, <1>2

LEMMA LaidNone ==
  ASSUME NEW r \in IndirectRequests, PageCount(r) >= 2
  PROVE  Laid(r, 0)
  <1>1. Placed(r, 0) = [at |-> ListAddr(r, 1), page |-> 1, put |-> {}]
    BY PlacedNone
  <1>2. PageCount(r) \in Nat /\ PageCount(r) <= Len(DataPages) /\ Len(DataPages) \in Nat
    BY IndirectFacts
  <1>3. 1 \in 1 .. Len(DataPages) - 1
    BY <1>2
  <1>4. ListAddr(r, 1) \in Nat /\ ListAddr(r, 1) \div r.page = ListPages[1]
    BY <1>3, ListAddrIs
  <1> QED
    BY <1>1, <1>2, <1>4 DEF Laid

(* The entry goes to a place that was free. *)
LEMMA SlotIs ==
  ASSUME NEW r \in IndirectRequests, NEW j \in Nat, j + 2 <= PageCount(r), Laid(r, j)
  PROVE  LET b == Placed(r, j)
             k == IF ListFull(r, j) THEN b.page + 1 ELSE b.page
         IN  /\ k \in 1 .. PageCount(r) - 1 /\ k <= j + 2
             /\ Slot(r, j) \in Nat /\ Slot(r, j) \div r.page = ListPages[k]
             /\ ListFull(r, j) => Slot(r, j) % r.page = 0
             /\ \A u : Behind(r, b, u) => u # Slot(r, j)
  <1> DEFINE b == Placed(r, j)
             k == IF ListFull(r, j) THEN b.page + 1 ELSE b.page
  <1>1. /\ b.at \in Nat /\ b.page \in Nat \ {0} /\ b.page <= j + 1
        /\ b.at \div r.page = ListPages[b.page] /\ b.page <= PageCount(r) - 1
    BY DEF Laid
  <1>2. PageCount(r) \in Nat /\ PageCount(r) <= Len(DataPages) /\ Len(DataPages) \in Nat
    BY IndirectFacts
  <1> HIDE DEF b
  <1>3. k \in 1 .. PageCount(r) - 1 /\ k <= j + 2 /\ k \in Nat
    BY <1>1, <1>2 DEF ListFull
  <1>4. \A i \in 1 .. PageCount(r) - 1 : i \in DOMAIN ListPages
    <2> TAKE i \in 1 .. PageCount(r) - 1
    <2>1. i \in 1 .. Len(DataPages) - 1
      BY <1>2
    <2> QED
      BY <2>1, ListPageNat
  <1> HIDE DEF k
  <1>5. CASE ListFull(r, j)
    <2>0. k = b.page + 1
      BY <1>5 DEF k
    <2>1. k = b.page + 1 /\ k # 1 /\ Slot(r, j) = ListAddr(r, k)
      BY <1>1, <1>5, <2>0 DEF Slot, b
    <2>2. k \in 1 .. Len(DataPages) - 1
      BY <1>2, <1>3
    <2>3. /\ Slot(r, j) \in Nat /\ Slot(r, j) \div r.page = ListPages[k]
          /\ Slot(r, j) % r.page = 0
      BY <2>1, <2>2, ListAddrIs
    <2>4. ASSUME NEW u, Behind(r, b, u) PROVE u # Slot(r, j)
      <3>1. PICK i \in 1 .. b.page : u \div r.page = ListPages[i]
        BY <2>4 DEF Behind
      <3>2. i # k /\ i \in 1 .. PageCount(r) - 1
        <4>1. i \in Nat /\ 1 <= i /\ i <= b.page /\ b.page \in Nat
          BY <1>1
        <4>2. b.page <= PageCount(r) - 1 /\ k = b.page + 1 /\ PageCount(r) \in Nat
          BY <1>1, <1>2, <2>0
        <4> QED
          BY <4>1, <4>2
      <3>3. ListPages[i] # ListPages[k]
        BY <1>3, <1>4, <3>2, ListsAssumption
      <3> QED
        BY <2>3, <3>1, <3>3
    <2> QED
      BY <1>3, <2>3, <2>4 DEF b, k
  <1>6. CASE ~ListFull(r, j)
    <2>1. k = b.page /\ Slot(r, j) = b.at
      BY <1>6 DEF Slot, b, k
    <2>2. Slot(r, j) \in Nat /\ Slot(r, j) \div r.page = ListPages[k]
      BY <1>1, <2>1
    <2>4. ASSUME NEW u, Behind(r, b, u) PROVE u # Slot(r, j)
      <3>1. PICK i \in 1 .. b.page : u \div r.page = ListPages[i] /\ (i = b.page => u < b.at)
        BY <2>4 DEF Behind
      <3>2. CASE i = b.page
        BY <1>1, <2>1, <3>1, <3>2
      <3>3. CASE i # b.page
        <4>1. i # k /\ i \in 1 .. PageCount(r) - 1
          BY <1>1, <1>2, <2>1, <3>3
        <4>2. ListPages[i] # ListPages[k]
          BY <1>3, <1>4, <4>1, ListsAssumption
        <4> QED
          BY <2>2, <3>1, <4>2
      <3> QED
        BY <3>2, <3>3
    <2> QED
      BY <1>3, <1>6, <2>2, <2>4 DEF b, k
  <1> QED
    BY <1>5, <1>6

LEMMA LaidNext ==
  ASSUME NEW r \in IndirectRequests, NEW j \in Nat, j + 2 <= PageCount(r), Laid(r, j)
  PROVE  Laid(r, j + 1)
  <1> DEFINE b == Placed(r, j)
             n == Placed(r, j + 1)
             k == IF ListFull(r, j) THEN b.page + 1 ELSE b.page
             s == Slot(r, j)
             e1 == <<s, DataAddr(r, j + 2)>>
             e2 == <<b.at, s>>
  <1>1. /\ b.at \in Nat /\ b.page \in Nat \ {0} /\ b.page <= j + 1
        /\ b.at \div r.page = ListPages[b.page] /\ b.page <= PageCount(r) - 1
        /\ \A e \in b.put : Behind(r, b, e[1])
        /\ \A e, f \in b.put : e[1] = f[1] => e[2] = f[2]
    BY DEF Laid
  <1>2. /\ k \in 1 .. PageCount(r) - 1 /\ k <= j + 2
        /\ s \in Nat /\ s \div r.page = ListPages[k]
        /\ ListFull(r, j) => s % r.page = 0
        /\ \A u : Behind(r, b, u) => u # s
    BY SlotIs
  <1>3. /\ n.at = s + 1 /\ n.page = k
        /\ n.put = b.put \cup {e1} \cup IF ListFull(r, j) THEN {e2} ELSE {}
    BY PlacedFields
  <1>4. /\ ~ListFull(r, j) => s = b.at
        /\ ListFull(r, j) <=> b.at % r.page = r.page - 1 /\ j + 2 < PageCount(r)
    BY DEF Slot, ListFull
  <1>5. PageCount(r) \in Nat /\ r.page \in Nat \ {0, 1}
    BY IndirectFacts
  <1>6. k = b.page + 1 <=> ListFull(r, j)
    BY <1>1
  <1>7. ~ListFull(r, j) => k = b.page
    OBVIOUS
  <1> HIDE DEF b, n, k, s
  <1>8. ASSUME j + 3 <= PageCount(r) PROVE n.at \div r.page = ListPages[n.page]
    <2>1. s % r.page # r.page - 1
      BY <1>4, <1>5, <1>2, <1>8
    <2>2. s % r.page \in 0 .. r.page - 1
      BY <1>2, <1>5, Division
    <2>3. (s % r.page) + 1 < r.page
      BY <1>5, <2>1, <2>2
    <2>4. (s + 1) \div r.page = s \div r.page
      BY <1>2, <1>5, <2>3, NextInPage
    <2> QED
      BY <1>2, <1>3, <2>4
  <1>9. ASSUME NEW u, Behind(r, b, u) PROVE Behind(r, n, u) /\ u # b.at
    <2>1. PICK i \in 1 .. b.page : u \div r.page = ListPages[i] /\ (i = b.page => u < b.at)
      BY <1>9 DEF Behind
    <2>2. u \in Nat
      BY <1>9 DEF Behind
    <2>3. i \in 1 .. n.page /\ (i = n.page => u < n.at)
      <3>1. CASE ListFull(r, j)
        BY <1>1, <1>3, <1>6, <2>1, <3>1
      <3>2. CASE ~ListFull(r, j)
        BY <1>1, <1>3, <1>4, <1>7, <2>1, <2>2, <3>2
      <3> QED
        BY <3>1, <3>2
    <2>4. Behind(r, n, u)
      BY <2>1, <2>2, <2>3 DEF Behind
    <2>5. u # b.at
      <3>1. CASE i = b.page
        BY <1>1, <2>1, <2>2, <3>1
      <3>2. CASE i # b.page
        <4>1. i \in DOMAIN ListPages /\ b.page \in DOMAIN ListPages
          <5>1. Len(DataPages) \in Nat /\ PageCount(r) <= Len(DataPages)
            BY IndirectFacts
          <5>2. i \in 1 .. Len(DataPages) - 1 /\ b.page \in 1 .. Len(DataPages) - 1
            BY <1>1, <1>5, <5>1
          <5> QED
            BY <5>2, ListPageNat
        <4>2. ListPages[i] # ListPages[b.page]
          BY <3>2, <4>1, ListsAssumption
        <4> QED
          BY <1>1, <2>1, <4>2
      <3> QED
        BY <3>1, <3>2
    <2> QED
      BY <2>4, <2>5
  <1>10. Behind(r, n, s)
    BY <1>2, <1>3 DEF Behind
  <1>11. ListFull(r, j) => Behind(r, n, b.at) /\ b.at # s
    <2> HAVE ListFull(r, j)
    <2>1. b.page \in 1 .. n.page /\ b.page # n.page
      BY <1>1, <1>3, <1>6
    <2>2. Behind(r, n, b.at)
      BY <1>1, <2>1 DEF Behind
    <2>3. s % r.page # b.at % r.page
      BY <1>2, <1>4, <1>5
    <2> QED
      BY <2>2, <2>3
  <1>12. e1[1] = s /\ e2[1] = b.at
    OBVIOUS
  <1> HIDE DEF e1, e2
  <1>13. \A e \in n.put : Behind(r, n, e[1])
    BY <1>1, <1>3, <1>9, <1>10, <1>11, <1>12
  <1>14. \A e, f \in n.put : e[1] = f[1] => e[2] = f[2]
    <2> SUFFICES ASSUME NEW e \in n.put, NEW f \in n.put, e[1] = f[1] PROVE e[2] = f[2]
      OBVIOUS
    <2>1. \A g \in b.put : g[1] # s /\ g[1] # b.at
      BY <1>1, <1>2, <1>9
    <2>2. \A g \in n.put : g \in b.put \/ g = e1 \/ (g = e2 /\ ListFull(r, j))
      BY <1>3
    <2> QED
      BY <1>1, <1>11, <1>12, <2>1, <2>2
  <1>15. n.at \in Nat /\ n.page \in Nat \ {0} /\ n.page <= (j + 1) + 1 /\ n.page <= PageCount(r) - 1
    BY <1>2, <1>3, <1>5
  <1>16. (j + 1) + 2 <= PageCount(r) => n.at \div r.page = ListPages[n.page]
    BY <1>5, <1>8
  <1> QED
    BY <1>13, <1>14, <1>15, <1>16 DEF Laid, n

LEMMA LaidAll ==
  ASSUME NEW r \in IndirectRequests, PageCount(r) >= 2, NEW j \in Nat, j + 1 <= PageCount(r)
  PROVE  Laid(r, j)
  <1> DEFINE Bad == {m \in Nat : m + 1 <= PageCount(r) /\ ~Laid(r, m)}
  <1> SUFFICES ASSUME Bad # {} PROVE FALSE
    OBVIOUS
  <1>1. PICK m \in Bad : \A y \in Bad : m <= y
    BY LeastNumber
  <1>2. m # 0
    BY LaidNone
  <1>3. PICK i \in Nat : m = i + 1 /\ i \notin Bad
    <2>1. m - 1 \in Nat /\ m = (m - 1) + 1 /\ m - 1 < m
      BY <1>2
    <2> QED
      BY <1>1, <2>1
  <1>4. PageCount(r) \in Nat
    BY IndirectFacts
  <1>5. Laid(r, i)
    BY <1>1, <1>3, <1>4
  <1>6. i + 2 <= PageCount(r)
    BY <1>1, <1>3, <1>4
  <1> QED
    BY <1>1, <1>3, <1>5, <1>6, LaidNext

LEMMA PutGrows ==
  ASSUME NEW r, NEW j \in Nat, NEW i \in Nat
  PROVE  Placed(r, j).put \subseteq Placed(r, j + i).put
  <1> DEFINE Bad == {m \in Nat : ~(Placed(r, j).put \subseteq Placed(r, j + m).put)}
  <1> SUFFICES ASSUME Bad # {} PROVE FALSE
    OBVIOUS
  <1>1. PICK m \in Bad : \A y \in Bad : m <= y
    BY LeastNumber
  <1>2. m # 0
    OBVIOUS
  <1>3. PICK h \in Nat : m = h + 1 /\ h \notin Bad
    <2>1. m - 1 \in Nat /\ m = (m - 1) + 1 /\ m - 1 < m
      BY <1>2
    <2> QED
      BY <1>1, <2>1
  <1>4. j + h \in Nat /\ j + (h + 1) = (j + h) + 1
    OBVIOUS
  <1>5. Placed(r, j + h).put \subseteq Placed(r, (j + h) + 1).put
    BY <1>4, PlacedFields
  <1> QED
    BY <1>1, <1>3, <1>4, <1>5

LEMMA ListIsPlaced ==
  ASSUME NEW r
  PROVE  ListOf(r) = Placed(r, PageCount(r) - 1).put
  BY Zenon DEF ListOf, Placed

(* Each entry of the list, and each pointer to the next list page. *)
LEMMA EntryLaid ==
  ASSUME NEW r \in IndirectRequests, NEW j \in Nat, j + 2 <= PageCount(r)
  PROVE  /\ <<Slot(r, j), DataAddr(r, j + 2)>> \in ListOf(r)
         /\ ListFull(r, j) => <<Placed(r, j).at, Slot(r, j)>> \in ListOf(r)
  <1>1. PageCount(r) \in Nat
    BY IndirectFacts
  <1>2. PICK i \in Nat : PageCount(r) - 1 = (j + 1) + i
    <2>1. PageCount(r) - 2 - j \in Nat /\ PageCount(r) - 1 = (j + 1) + (PageCount(r) - 2 - j)
      BY <1>1
    <2> QED
      BY <2>1
  <1>3. Placed(r, j + 1).put \subseteq ListOf(r)
    BY <1>2, PutGrows, ListIsPlaced
  <1> QED
    BY <1>3, PlacedFields

(* A physical address tells the page and the place in it. *)
LEMMA SamePhys ==
  ASSUME iommu \in Iommus, NEW u \in Nat, NEW v \in Nat, IovaToPhys(u) = IovaToPhys(v)
  PROVE  TranslateOnce(u \div KPage) = TranslateOnce(v \div KPage) /\ u % KPage = v % KPage
  <1>1. KPage \in Nat \ {0}
    BY DmaAssumption
  <1>2. \A w \in Nat : /\ IovaToPhys(w) \div KPage = TranslateOnce(w \div KPage)
                       /\ IovaToPhys(w) % KPage = w % KPage
    <2> TAKE w \in Nat
    <2>1. PICK t \in Nat, b \in 0 .. KPage - 1 :
             t = TranslateOnce(w \div KPage) /\ b = w % KPage
      BY <1>1, Translations, Division
    <2>2. IovaToPhys(w) = KPage * t + b
      <3>1. IovaToPhys(w) = t * KPage + b
        BY <2>1 DEF IovaToPhys
      <3>2. t * KPage = KPage * t
        BY <1>1
      <3> QED
        BY <3>1, <3>2
    <2>3. (KPage * t + b) \div KPage = t /\ (KPage * t + b) % KPage = b
      BY <1>1, DivisionIs, RemainderIs
    <2> QED
      BY <2>1, <2>2, <2>3
  <1> QED
    BY <1>2

(* Each address of a translated range has a translation. *)
LEMMA AddressTranslated ==
  ASSUME NEW a \in Nat, NEW len \in Nat, Translated(a, len), NEW k \in 1 .. len
  PROVE  TranslateOnce((a + k - 1) \div KPage) # 0
  <1>1. KPage \in Nat \ {0}
    BY DmaAssumption
  <1>2. a + k - 1 \in Nat /\ a + len - 1 \in Nat /\ a <= a + k - 1 /\ a + k - 1 <= a + len - 1
    OBVIOUS
  <1> DEFINE q == a \div KPage
             s == (a + k - 1) \div KPage
             t == (a + len - 1) \div KPage
  <1>3. q \in Nat /\ s \in Nat /\ t \in Nat /\ q <= s /\ s <= t
    BY <1>1, <1>2, Division, DivisionMono
  <1> HIDE DEF q, s, t
  <1>4. s - q + 1 \in 1 .. t - q + 1 /\ q + (s - q + 1) - 1 = s
    BY <1>3
  <1>5. /\ DOMAIN Pages(a, len) = 1 .. t - q + 1
        /\ \A i \in 1 .. t - q + 1 : Pages(a, len)[i] = TranslateOnce(q + i - 1)
    BY DEF Pages, q, t
  <1>6. Pages(a, len)[s - q + 1] = TranslateOnce(s)
    BY <1>4, <1>5
  <1> QED
    BY <1>4, <1>5, <1>6 DEF Translated, s

(* What is in memory where an entry of the list is. *)
LEMMA MemoryIs ==
  ASSUME iommu \in Iommus, NEW r \in IndirectRequests, PageCount(r) >= 2,
         NEW e \in ListOf(r), TranslateOnce(e[1] \div KPage) # 0
  PROVE  /\ e[1] \in Nat /\ IovaToPhys(e[1]) \in DOMAIN MemoryOf(r)
         /\ MemoryOf(r)[IovaToPhys(e[1])] = e[2]
  <1> DEFINE l == ListOf(r)
             b == Placed(r, PageCount(r) - 1)
             c == CHOOSE f \in l : IovaToPhys(f[1]) = IovaToPhys(e[1])
  <1>1. PageCount(r) \in Nat /\ PageCount(r) <= Len(DataPages) /\ Len(DataPages) \in Nat
        /\ r.page \in PageSizes /\ r.page \in Nat \ {0}
    BY IndirectFacts
  <1>2. Laid(r, PageCount(r) - 1)
    BY <1>1, LaidAll
  <1>3. /\ l = b.put /\ b.page \in Nat /\ b.page <= PageCount(r) - 1
        /\ \A f \in l : Behind(r, b, f[1])
        /\ \A f, g \in l : f[1] = g[1] => f[2] = g[2]
    BY <1>2, ListIsPlaced DEF Laid
  <1> HIDE DEF l, b
  <1>4. ASSUME NEW f \in l
        PROVE  f[1] \in Nat /\ ((f[1] \div KPage) * KPage) \div r.page \in Range(ListPages)
    <2>1. f[1] \in Nat
      BY <1>3 DEF Behind
    <2>2. PICK k \in 1 .. b.page : f[1] \div r.page = ListPages[k]
      BY <1>3 DEF Behind
    <2>3. k \in 1 .. Len(DataPages) - 1
      BY <1>1, <1>3
    <2>4. ListPages[k] \in Range(ListPages)
      BY <2>3, ListPageNat DEF Range
    <2>5. KPage \in Nat \ {0} /\ r.page % KPage = 0
      BY <1>1, DmaAssumption
    <2>6. ((f[1] \div KPage) * KPage) \div r.page = f[1] \div r.page
      BY <1>1, <2>1, <2>5, PageOfPage
    <2> QED
      BY <2>1, <2>2, <2>4, <2>6
  <1>5. c \in l /\ IovaToPhys(c[1]) = IovaToPhys(e[1]) /\ e \in l
    BY DEF l
  <1> HIDE DEF c
  <1>6. c[1] = e[1]
    <2>1. c[1] \in Nat /\ e[1] \in Nat
      BY <1>4, <1>5
    <2> DEFINE q == c[1] \div KPage
               s == e[1] \div KPage
    <2>2. TranslateOnce(q) = TranslateOnce(s) /\ c[1] % KPage = e[1] % KPage
      BY <1>5, <2>1, SamePhys
    <2>3. q \in DOMAIN iommu /\ s \in DOMAIN iommu /\ iommu[q] = iommu[s] /\ iommu[q] # 0
      BY <2>2 DEF TranslateOnce
    <2>4. (q * KPage) \div r.page \in Range(ListPages) /\ (s * KPage) \div r.page \in Range(ListPages)
      BY <1>4, <1>5
    <2> HIDE DEF q, s
    <2>5. q = s
      BY <1>1, <2>3, <2>4, ListsAssumption
    <2>6. KPage \in Nat \ {0}
      BY DmaAssumption
    <2>7. c[1] = KPage * q + (c[1] % KPage) /\ e[1] = KPage * s + (e[1] % KPage)
      BY <2>1, <2>6, Division DEF q, s
    <2> QED
      BY <2>2, <2>5, <2>7
  <1>7. c[2] = e[2]
    BY <1>3, <1>5, <1>6
  <1> DEFINE p == IovaToPhys(e[1])
  <1>8. MemoryOf(r) = [x \in {IovaToPhys(f[1]) : f \in l} |->
                         (CHOOSE f \in l : IovaToPhys(f[1]) = x)[2]]
    BY DEF MemoryOf, l
  <1>9. p \in {IovaToPhys(f[1]) : f \in l}
    BY <1>5
  <1> HIDE DEF p
  <1>10. p \in DOMAIN MemoryOf(r) /\ MemoryOf(r)[p] = (CHOOSE f \in l : IovaToPhys(f[1]) = p)[2]
    BY <1>8, <1>9
  <1> QED
    BY <1>4, <1>5, <1>7, <1>10 DEF c, p

-----------------------------------------------------------------------------
(* The list as it is read *)

MemAt(p) == IF p \in DOMAIN mem THEN mem[p] ELSE 0
ListRead(a, len) == [k \in 1 .. len |-> MemAt(IovaToPhys(a + k - 1))]

(* The next entry to be read is that of page j + 2, or the pointer before it. *)
Cursor(r, j, c) == c = Placed(r, j).at \/ (ListFull(r, j) /\ c = Slot(r, j))

(* The entry that is read is the one the driver means. *)
LEMMA EntryRead ==
  ASSUME iommu \in Iommus, NEW r \in IndirectRequests, mem = MemoryOf(r),
         NEW j \in Nat, j + 2 <= PageCount(r),
         NEW a \in Nat, NEW i \in Nat, i < r.page - (a % r.page),
         Translated(a, r.page - (a % r.page)), Cursor(r, j, a + i)
  PROVE  LET x == ListRead(a, r.page - (a % r.page))[i + 1]
             pointer == i = r.page - (a % r.page) - 1 /\ j + 2 < PageCount(r)
         IN  /\ pointer => ListFull(r, j) /\ x = Slot(r, j)
             /\ ~pointer => a + i = Slot(r, j) /\ x = DataAddr(r, j + 2)
  <1> DEFINE len == r.page - (a % r.page)
             x == ListRead(a, len)[i + 1]
             pointer == i = len - 1 /\ j + 2 < PageCount(r)
             c == a + i
  <1>1. r.page \in Nat \ {0, 1} /\ PageCount(r) \in Nat
    BY IndirectFacts
  <1>2. a % r.page \in 0 .. r.page - 1
    BY <1>1, Division
  <1>3. len \in Nat /\ i + 1 \in 1 .. len /\ a + (i + 1) - 1 = c /\ c \in Nat
    BY <1>1, <1>2
  <1>4. x = MemAt(IovaToPhys(c))
    BY <1>3 DEF ListRead
  <1>5. TranslateOnce(c \div KPage) # 0
    BY <1>3, AddressTranslated
  <1>6. ASSUME NEW d, <<c, d>> \in ListOf(r) PROVE x = d
    <2> DEFINE e == <<c, d>>
    <2>1. e[1] = c /\ e[2] = d
      OBVIOUS
    <2> HIDE DEF e
    <2>2. IovaToPhys(e[1]) \in DOMAIN MemoryOf(r) /\ MemoryOf(r)[IovaToPhys(e[1])] = e[2]
      <3>1. e \in ListOf(r)
        BY <1>6 DEF e
      <3> QED
        BY <1>1, <1>5, <2>1, <3>1, MemoryIs
    <2> QED
      BY <1>4, <2>1, <2>2 DEF MemAt
  <1>7. c % r.page = (a % r.page) + i
    <2>1. (a % r.page) + i < r.page
      BY <1>1, <1>2
    <2> QED
      BY <1>1, <2>1, NextInPage
  <1>8. Laid(r, j)
    BY <1>1, LaidAll
  <1>9. /\ <<Slot(r, j), DataAddr(r, j + 2)>> \in ListOf(r)
        /\ ListFull(r, j) => <<Placed(r, j).at, Slot(r, j)>> \in ListOf(r)
    BY EntryLaid
  <1>10. i = len - 1 <=> c % r.page = r.page - 1
    <2>1. PICK o \in Nat, p \in Nat : o = a % r.page /\ p = r.page
      BY <1>1, <1>2
    <2>2. len = p - o /\ c % r.page = o + i
      BY <1>7, <2>1
    <2> HIDE DEF len
    <2> QED
      BY <2>1, <2>2
  <1>11. ListFull(r, j) => Slot(r, j) % r.page = 0
    BY <1>8, SlotIs
  <1>12. CASE pointer
    <2>1. c = Placed(r, j).at /\ ListFull(r, j)
      BY <1>1, <1>10, <1>11, <1>12 DEF Cursor, ListFull
    <2> QED
      BY <1>6, <1>9, <1>12, <2>1
  <1>13. CASE ~pointer
    <2>1. c = Slot(r, j)
      <3>1. CASE ListFull(r, j)
        <4>1. c # Placed(r, j).at
          BY <1>10, <1>13, <3>1 DEF ListFull
        <4> QED
          BY <4>1 DEF Cursor
      <3>2. CASE ~ListFull(r, j)
        BY <3>2 DEF Cursor, Slot
      <3> QED
        BY <3>1, <3>2
    <2> QED
      BY <1>6, <1>9, <1>13, <2>1
  <1> QED
    BY <1>12, <1>13

-----------------------------------------------------------------------------
(* DMA: the stages *)

Stages == {"idle", "copy", "prp1", "prp2", "list", "entries", "done"}

(* The pages of data before page j + 2 have been moved, and no other. *)
Ahead(j) ==
    /\ dma \in IndirectRequests /\ j + 2 <= PageCount(dma)
    /\ mem = MemoryOf(dma)
    /\ moved = MovedOf(dma, FirstOf(dma, j))
    /\ remaining = dma.length - FirstOf(dma, j)

(* The list has been read from address a on. *)
Reading(j, a) ==
    LET len == dma.page - (a % dma.page)
    IN  /\ Cursor(dma, j, a + list.idx)
        /\ Translated(a, len) /\ list.buf = ListRead(a, len)
        /\ list.idx \in Nat /\ list.idx < len

MoveInv ==
    /\ iommu \in Iommus /\ stage \in Stages
    /\ stage = "idle" => dma = NoRequest /\ moved = <<>>
    /\ stage = "copy" => dma \in DmaRequests
    /\ stage = "prp1" => dma \in IndirectRequests /\ mem = MemoryOf(dma)
    /\ stage \in {"copy", "prp1"} => moved = <<>> /\ remaining = dma.length
    /\ stage = "prp2" => Ahead(0)
    /\ stage = "list" => \E j \in Nat : Ahead(j) /\ Cursor(dma, j, list.buf[list.idx + 1])
    /\ stage = "entries" => \E j, a \in Nat : Ahead(j) /\ Reading(j, a)
    /\ stage = "done" =>
          /\ dma \in DmaRequests \cup IndirectRequests
          /\ IsPrefix(moved, MovedOf(dma, dma.length))
          /\ ret = "0" => moved = MovedOf(dma, dma.length)
          /\ dma.write /\ ret = "EFAULT" => Len(moved) = dma.length - remaining

LEMMA RequestMeaningful ==
  ASSUME NEW r \in DmaRequests \cup IndirectRequests
  PROVE  /\ Meaningful(r) /\ r # NoRequest /\ r.length \in Nat \ {0}
         /\ MovedOf(r, 0) = <<>>
         /\ iommu \in Iommus => IsPrefix(<<>>, MovedOf(r, r.length))
  <1>1. Meaningful(r) /\ r.kind \in {"dma", "indirect"}
    BY MeantDma, MeaningfulIndirect, IndirectFacts
  <1>2. r # NoRequest
    BY <1>1 DEF NoRequest
  <1>3. MovedOf(r, 0) = <<>>
    BY DEF MovedOf
  <1>4. 0 \in 0 .. r.length
    BY <1>1 DEF Meaningful
  <1>5. iommu \in Iommus => IsPrefix(MovedOf(r, 0), MovedOf(r, r.length))
    BY <1>1, <1>4, MovedPrefix
  <1> QED
    BY <1>1, <1>2, <1>3, <1>5 DEF Meaningful

LEMMA AheadMeans ==
  ASSUME iommu \in Iommus, NEW j \in Nat, Ahead(j)
  PROVE  /\ Meaningful(dma) /\ FirstOf(dma, j) \in Nat /\ FirstOf(dma, j) <= dma.length
         /\ IsPrefix(moved, MovedOf(dma, dma.length))
         /\ Len(moved) = dma.length - remaining
         /\ j + 2 < PageCount(dma) <=> remaining > dma.page
  <1>1. dma \in IndirectRequests /\ Meaningful(dma)
    BY MeaningfulIndirect DEF Ahead
  <1>2. /\ FirstOf(dma, j) \in Nat \ {0} /\ FirstOf(dma, j) < dma.length
        /\ j + 2 < PageCount(dma) <=> dma.length - FirstOf(dma, j) > dma.page
    BY <1>1, PageLeft DEF Ahead
  <1>3. FirstOf(dma, j) \in 0 .. dma.length /\ FirstOf(dma, j) <= dma.length
    BY <1>1, <1>2 DEF Meaningful
  <1> QED
    <2>1. IsPrefix(moved, MovedOf(dma, dma.length))
      BY <1>1, <1>3, MovedPrefix DEF Ahead
    <2>2. Len(moved) = FirstOf(dma, j)
      BY <1>1, <1>3, MovedSeq DEF Ahead
    <2>3. remaining = dma.length - FirstOf(dma, j) /\ dma.length \in Nat
      BY <1>1 DEF Ahead, Meaningful
    <2>4. Len(moved) = dma.length - remaining
      BY <1>2, <2>2, <2>3
    <2> QED
      BY <1>1, <1>2, <1>3, <2>1, <2>3, <2>4

(* What is meant depends on the request and on the mapping alone. *)
LEMMA SameMeant ==
  ASSUME UNCHANGED <<iommu, dma>>
  PROVE  /\ \A m : MovedOf(dma, m)' = MovedOf(dma, m)
         /\ MemoryOf(dma)' = MemoryOf(dma)
  <1>1. \A m : MovedOf(dma, m)' = MovedOf(dma, m)
    BY DEF MovedOf, IovaToPhys, TranslateOnce
  <1>2. MemoryOf(dma)' = MemoryOf(dma)
    BY DEF MemoryOf, IovaToPhys, TranslateOnce
  <1> QED
    BY <1>1, <1>2

LEMMA OverKeeps ==
  ASSUME iommu \in Iommus, dma \in DmaRequests \cup IndirectRequests,
         UNCHANGED <<iommu, dma>>, Ended
  PROVE  MoveInv'
  <1>1. MovedOf(dma, dma.length)' = MovedOf(dma, dma.length)
    BY DEF MovedOf, IovaToPhys, TranslateOnce
  <1> QED
    BY <1>1 DEF Ended, MoveInv, Stages

LEMMA MoveInvInit == DmaInit => MoveInv
  BY DEF DmaInit, MoveInv, Stages

LEMMA StartKeeps ==
  ASSUME MoveInv, NEW r \in DmaRequests \cup IndirectRequests,
         \/ r \in DmaRequests /\ DmaStart(r)
         \/ r \in IndirectRequests /\ IndirectStart(r)
         \/ NoMemory(r)
  PROVE  MoveInv'
  <1>1. stage = "idle" /\ moved = <<>> /\ iommu \in Iommus
    BY DEF MoveInv, DmaStart, IndirectStart, NoMemory, Begin
  <1>2. /\ dma' = r /\ moved' = <<>> /\ iommu' = iommu
    BY <1>1 DEF DmaStart, IndirectStart, NoMemory, Begin
  <1>3. MovedOf(r, r.length)' = MovedOf(r, r.length)
    BY <1>2 DEF MovedOf, IovaToPhys, TranslateOnce
  <1>4. IsPrefix(moved', MovedOf(dma, dma.length)')
    <2>1. MovedOf(dma, dma.length)' = MovedOf(r, r.length)'
      BY <1>2 DEF MovedOf, IovaToPhys, TranslateOnce
    <2> QED
      BY <1>1, <1>2, <1>3, <2>1, RequestMeaningful
  <1>5. CASE stage' = "done" /\ ret' \in {"ENODEV", "ENOMEM"}
    BY <1>1, <1>2, <1>4, <1>5 DEF MoveInv, Stages
  <1>6. CASE r \in DmaRequests /\ stage' = "copy" /\ remaining' = r.length
    BY <1>1, <1>2, <1>6 DEF MoveInv, Stages
  <1>7. CASE r \in IndirectRequests /\ stage' = "prp1" /\ remaining' = r.length /\ mem' = MemoryOf(r)
    <2>1. MemoryOf(dma)' = MemoryOf(r)
      BY <1>2 DEF MemoryOf, IovaToPhys, TranslateOnce
    <2> QED
      BY <1>1, <1>2, <1>7, <2>1 DEF MoveInv, Stages
  <1> QED
    BY <1>5, <1>6, <1>7 DEF DmaStart, IndirectStart, NoMemory, Begin

LEMMA DmaCopyMoves ==
  ASSUME MoveInv, DmaCopy
  PROVE  MoveInv'
  <1>1. /\ iommu \in Iommus /\ dma \in DmaRequests /\ moved = <<>> /\ remaining = dma.length
        /\ Move(dma.iova, dma.length, "done") /\ UNCHANGED <<iommu, dma>>
    BY DEF MoveInv, DmaCopy, dmaStatic
  <1>2. /\ dma.iova \in Nat /\ dma.length \in Nat \ {0} /\ Meaningful(dma)
        /\ \A u \in 1 .. dma.length : Meant(dma)[u] = dma.iova + u - 1
    BY <1>1, MeantDma
  <1>3. moved = MovedOf(dma, 0)
    BY <1>1, RequestMeaningful
  <1>4. \A u \in 1 .. dma.length : Meant(dma)[0 + u] = dma.iova + u - 1
    BY <1>2
  <1>5. 0 + dma.length <= dma.length /\ remaining = dma.length - 0 /\ ~(0 + dma.length < dma.length)
    BY <1>1, <1>2
  <1>6. Ended
    BY <1>1, <1>2, <1>3, <1>4, <1>5, MoveOn
  <1> QED
    BY <1>1, <1>6, OverKeeps

LEMMA Prp1Moves ==
  ASSUME MoveInv, Prp1
  PROVE  MoveInv'
  <1> DEFINE a == DataAddr(dma, 1)
             len == Least(dma.page - (a % dma.page), dma.length)
  <1>1. /\ iommu \in Iommus /\ dma \in IndirectRequests /\ moved = <<>> /\ remaining = dma.length
        /\ mem = MemoryOf(dma) /\ Move(a, len, "prp2") /\ UNCHANGED <<iommu, dma, mem>>
    BY DEF MoveInv, Prp1, dmaStatic
  <1>2. /\ a \in Nat /\ len \in Nat \ {0} /\ len <= dma.length
        /\ \A u \in 1 .. len : Meant(dma)[u] = a + u - 1
        /\ len < dma.length => len = FirstOf(dma, 0) /\ PageCount(dma) >= 2
    BY <1>1, FirstPage
  <1> HIDE DEF a, len
  <1>3. moved = MovedOf(dma, 0) /\ Meaningful(dma) /\ dma.length \in Nat
    BY <1>1, RequestMeaningful
  <1>4. \A u \in 1 .. len : Meant(dma)[0 + u] = a + u - 1
    BY <1>2
  <1>5. 0 + len <= dma.length /\ remaining = dma.length - 0 /\ 0 + len = len
    BY <1>1, <1>2, <1>3
  <1>6. \/ /\ stage' = "prp2" /\ 0 + len < dma.length
           /\ moved' = MovedOf(dma, 0 + len) /\ remaining' = dma.length - (0 + len)
        \/ Ended
    BY <1>1, <1>2, <1>3, <1>4, <1>5, MoveOn
  <1>7. ASSUME stage' = "prp2", len < dma.length, moved' = MovedOf(dma, len),
               remaining' = dma.length - len
        PROVE  MoveInv'
    <2>1. len = FirstOf(dma, 0) /\ 0 + 2 <= PageCount(dma)
      <3>1. PageCount(dma) \in Nat
        BY <1>1, IndirectFacts
      <3> QED
        BY <1>2, <1>7, <3>1
    <2>2. Ahead(0)'
      BY <1>1, <1>7, <2>1, SameMeant DEF Ahead
    <2> QED
      BY <1>1, <1>7, <2>2 DEF MoveInv, Stages
  <1> QED
    BY <1>1, <1>5, <1>6, <1>7, OverKeeps

(* One more page of data, from where the driver means it. *)
LEMMA PageMoves ==
  ASSUME iommu \in Iommus, NEW j \in Nat, Ahead(j), UNCHANGED <<iommu, dma, mem>>,
         NEW next, Move(DataAddr(dma, j + 2), Least(remaining, dma.page), next)
  PROVE  \/ stage' = next /\ remaining > dma.page /\ j + 2 < PageCount(dma) /\ Ahead(j + 1)'
         \/ Ended
  <1> DEFINE a == DataAddr(dma, j + 2)
             m == FirstOf(dma, j)
             len == Least(remaining, dma.page)
  <1>1. /\ dma \in IndirectRequests /\ Meaningful(dma) /\ remaining = dma.length - m
        /\ moved = MovedOf(dma, m) /\ mem = MemoryOf(dma)
    BY MeaningfulIndirect DEF Ahead
  <1>2. /\ m \in Nat \ {0} /\ m < dma.length /\ FirstOf(dma, j + 1) = m + dma.page
        /\ j + 2 < PageCount(dma) <=> dma.length - m > dma.page
        /\ \A u \in 1 .. Least(dma.length - m, dma.page) : Meant(dma)[m + u] = a + u - 1
        /\ a \in Nat
    BY <1>1, PageLeft DEF Ahead
  <1>3. dma.page \in Nat \ {0} /\ dma.length \in Nat /\ PageCount(dma) \in Nat
    BY <1>1, IndirectFacts
  <1> HIDE DEF a, m
  <1>4. /\ len \in Nat \ {0} /\ m + len <= dma.length /\ len <= dma.page
        /\ m + len < dma.length => len = dma.page /\ remaining > dma.page
    BY <1>1, <1>2, <1>3 DEF Least
  <1>5. \A u \in 1 .. len : Meant(dma)[m + u] = a + u - 1
    BY <1>1, <1>2
  <1>6. Move(a, len, next)
    BY DEF a
  <1> HIDE DEF len
  <1>7. \/ /\ stage' = next /\ m + len < dma.length
           /\ moved' = MovedOf(dma, m + len) /\ remaining' = dma.length - (m + len)
        \/ Ended
    <2>1. m \in Nat
      BY <1>2
    <2> QED
      BY <1>1, <1>2, <1>4, <1>5, <1>6, <2>1, MoveOn
  <1>8. ASSUME stage' = next, m + len < dma.length, moved' = MovedOf(dma, m + len),
               remaining' = dma.length - (m + len)
        PROVE  stage' = next /\ remaining > dma.page /\ j + 2 < PageCount(dma) /\ Ahead(j + 1)'
    <2>1. len = dma.page /\ remaining > dma.page /\ j + 2 < PageCount(dma)
      BY <1>1, <1>2, <1>4, <1>8
    <2>2. FirstOf(dma, j + 1) = m + len /\ (j + 1) + 2 <= PageCount(dma)
      BY <1>2, <1>3, <2>1
    <2>3. Ahead(j + 1)'
      BY <1>1, <1>8, <2>2, SameMeant DEF Ahead
    <2> QED
      BY <1>8, <2>1, <2>3
  <1> QED
    BY <1>7, <1>8

LEMMA Prp2Moves ==
  ASSUME MoveInv, Prp2
  PROVE  MoveInv'
  <1>1. /\ iommu \in Iommus /\ Ahead(0) /\ UNCHANGED <<iommu, dma, mem>>
    BY DEF MoveInv, Prp2, dmaStatic
  <1>2. /\ dma \in IndirectRequests /\ IsPrefix(moved, MovedOf(dma, dma.length))
        /\ 0 + 2 < PageCount(dma) <=> remaining > dma.page
        /\ remaining \in Nat /\ remaining = dma.length - FirstOf(dma, 0)
    <2>1. dma \in IndirectRequests /\ remaining = dma.length - FirstOf(dma, 0)
      BY <1>1 DEF Ahead
    <2>2. dma.length \in Nat
      BY <2>1, IndirectFacts
    <2> QED
      BY <1>1, <2>1, <2>2, AheadMeans
  <1>3. dma.page \in Nat \ {0} /\ PageCount(dma) \in Nat /\ 0 + 2 <= PageCount(dma)
    BY <1>1, <1>2, IndirectFacts DEF Ahead
  <1>4. CASE remaining <= dma.page
    <2>1. Prp2Of(dma) = DataAddr(dma, 0 + 2)
      BY <1>2, <1>3, <1>4 DEF Prp2Of
    <2>2. Least(remaining, dma.page) = remaining
      BY <1>2, <1>3, <1>4 DEF Least
    <2>3. Move(DataAddr(dma, 0 + 2), Least(remaining, dma.page), "done")
      BY <1>4, <2>1, <2>2 DEF Prp2
    <2>4. Ended
      BY <1>1, <1>2, <1>3, <1>4, <2>3, PageMoves
    <2> QED
      BY <1>1, <1>2, <2>4, OverKeeps
  <1>5. CASE ~(remaining <= dma.page)
    <2>1. Prp2Of(dma) = ListAddr(dma, 1)
      BY <1>2, <1>3, <1>5 DEF Prp2Of
    <2>2. Prp2Of(dma) = Placed(dma, 0).at
      BY <2>1, PlacedNone
    <2>3. /\ stage' = "list" /\ list' = [buf |-> <<Prp2Of(dma)>>, idx |-> 0]
          /\ UNCHANGED <<remaining, moved>>
      BY <1>5 DEF Prp2
    <2>4. Ahead(0)'
      BY <1>1, <2>3, SameMeant DEF Ahead
    <2>5. Cursor(dma, 0, list.buf[list.idx + 1])'
      BY <1>1, <2>2, <2>3 DEF Cursor
    <2> QED
      BY <1>1, <2>3, <2>4, <2>5 DEF MoveInv, Stages
  <1> QED
    BY <1>4, <1>5

LEMMA ReadListMoves ==
  ASSUME MoveInv, ReadList
  PROVE  MoveInv'
  <1> DEFINE at == list.buf[list.idx + 1]
             len == dma.page - (at % dma.page)
             got == Copied(at, len, Len(Pages(at, len)))
  <1>1. /\ iommu \in Iommus /\ UNCHANGED <<iommu, dma, mem, remaining, moved>>
    BY DEF MoveInv, ReadList, dmaStatic
  <1>2. PICK j \in Nat : Ahead(j) /\ Cursor(dma, j, at)
    BY DEF MoveInv, ReadList
  <1>3. /\ dma \in IndirectRequests /\ j + 2 <= PageCount(dma)
        /\ IsPrefix(moved, MovedOf(dma, dma.length)) /\ Len(moved) = dma.length - remaining
    BY <1>1, <1>2, AheadMeans DEF Ahead
  <1>4. \/ /\ Translated(at, len) /\ stage' = "entries"
           /\ list' = [buf |-> [k \in 1 .. len |->
                                  LET p == got[k] IN IF p \in DOMAIN mem THEN mem[p] ELSE 0],
                       idx |-> 0]
        \/ stage' = "done" /\ ret' # "0"
    BY DEF ReadList, Out
  <1>5. CASE stage' = "done" /\ ret' # "0"
    <2>1. Ended
      BY <1>1, <1>3, <1>5 DEF Ended
    <2> QED
      BY <1>1, <1>3, <2>1, OverKeeps
  <1>6. CASE /\ Translated(at, len) /\ stage' = "entries"
             /\ list' = [buf |-> [k \in 1 .. len |->
                                    LET p == got[k] IN IF p \in DOMAIN mem THEN mem[p] ELSE 0],
                         idx |-> 0]
    <2> HIDE DEF at
    <2>1. dma.page \in Nat \ {0} /\ PageCount(dma) \in Nat
      BY <1>3, IndirectFacts
    <2>2. at \in Nat
      <3>1. j + 1 <= PageCount(dma) /\ PageCount(dma) >= 2
        BY <1>3, <2>1
      <3>2. Laid(dma, j)
        BY <1>3, <3>1, LaidAll
      <3>3. Slot(dma, j) \in Nat /\ Placed(dma, j).at \in Nat
        BY <1>3, <3>2, SlotIs DEF Laid
      <3> QED
        BY <1>2, <3>3 DEF Cursor
    <2>3. len \in Nat \ {0}
      <3>1. at % dma.page \in 0 .. dma.page - 1
        BY <2>1, <2>2, Division
      <3> QED
        BY <2>1, <3>1
    <2> HIDE DEF len
    <2>4. got = PhysOf(at, len)
      BY <1>1, <2>2, <2>3, CopiedAll
    <2>5. \A k \in 1 .. len : got[k] = IovaToPhys(at + k - 1)
      BY <2>4 DEF PhysOf
    <2> HIDE DEF got
    <2>6. list'.buf = ListRead(at, len) /\ list'.idx = 0
      BY <1>6, <2>5 DEF ListRead, MemAt
    <2> DEFINE n(a) == dma.page - (a % dma.page)
    <2>7. len = n(at)
      BY DEF len
    <2>8. PICK a \in Nat : a = at
      BY <2>2
    <2>9. /\ Translated(a, n(a)) /\ list'.buf = ListRead(a, n(a)) /\ n(a) \in Nat \ {0}
          /\ Cursor(dma, j, a + 0)
      BY <1>2, <1>6, <2>3, <2>6, <2>7, <2>8
    <2>10. Translated(a, n(a))' /\ ListRead(a, n(a))' = ListRead(a, n(a)) /\ n(a)' = n(a)
      BY <1>1, <2>9 DEF Translated, Pages, TranslateOnce, ListRead, MemAt, IovaToPhys
    <2>11. Ahead(j)'
      BY <1>1, <1>2, SameMeant DEF Ahead
    <2>12. Cursor(dma, j, a + list.idx)'
      BY <1>1, <2>6, <2>9 DEF Cursor
    <2>13. Reading(j, a)'
      <3>1. list'.idx \in Nat /\ list'.idx < n(a) /\ list'.buf = ListRead(a, n(a))'
        BY <2>6, <2>9, <2>10
      <3> QED
        BY <2>10, <2>12, <3>1 DEF Reading
    <2> QED
      BY <1>1, <1>6, <2>11, <2>13 DEF MoveInv, Stages
  <1> QED
    BY <1>4, <1>5, <1>6

LEMMA EntryMoves ==
  ASSUME MoveInv, Entry
  PROVE  MoveInv'
  <1>1. /\ iommu \in Iommus /\ UNCHANGED <<iommu, dma, mem>> /\ stage = "entries"
    BY DEF MoveInv, Entry, dmaStatic
  <1> DEFINE n(a) == dma.page - (a % dma.page)
  <1>2. PICK j \in Nat, a \in Nat :
           /\ Ahead(j) /\ Cursor(dma, j, a + list.idx)
           /\ Translated(a, n(a)) /\ list.buf = ListRead(a, n(a))
           /\ list.idx \in Nat /\ list.idx < n(a)
    BY <1>1 DEF MoveInv, Reading
  <1>3. /\ dma \in IndirectRequests /\ j + 2 <= PageCount(dma) /\ mem = MemoryOf(dma)
        /\ j + 2 < PageCount(dma) <=> remaining > dma.page
    BY <1>1, <1>2, AheadMeans DEF Ahead
  <1>4. n(a) \in Nat /\ Len(list.buf) = n(a)
    <2>1. dma.page \in Nat \ {0}
      BY <1>3, IndirectFacts
    <2>2. a % dma.page \in 0 .. dma.page - 1
      BY <2>1, Division
    <2>3. n(a) \in Nat
      BY <2>1, <2>2
    <2> HIDE DEF n
    <2> QED
      BY <1>2, <2>3 DEF ListRead
  <1> DEFINE x == list.buf[list.idx + 1]
             pointer == list.idx = n(a) - 1 /\ j + 2 < PageCount(dma)
  <1>5. /\ pointer => ListFull(dma, j) /\ x = Slot(dma, j)
        /\ ~pointer => a + list.idx = Slot(dma, j) /\ x = DataAddr(dma, j + 2)
    BY <1>1, <1>2, <1>3, EntryRead
  <1>6. IsPointer <=> pointer
    BY <1>3, <1>4 DEF IsPointer
  <1>7. /\ Translated(a, n(a))' /\ ListRead(a, n(a))' = ListRead(a, n(a)) /\ n(a)' = n(a)
    BY <1>1, <1>2 DEF Translated, Pages, TranslateOnce, ListRead, MemAt, IovaToPhys
  <1>8. CASE pointer
    <2>1. stage' = "list" /\ UNCHANGED <<list, remaining, moved>>
      BY <1>6, <1>8 DEF Entry
    <2>2. Ahead(j)'
      BY <1>1, <1>2, <2>1, SameMeant DEF Ahead
    <2>3. Cursor(dma, j, list.buf[list.idx + 1])'
      BY <1>1, <1>5, <1>8, <2>1 DEF Cursor
    <2> QED
      BY <1>1, <2>1, <2>2, <2>3 DEF MoveInv, Stages
  <1>9. CASE ~pointer
    <2>1. /\ list' = [list EXCEPT !.idx = @ + 1]
          /\ Move(DataAddr(dma, j + 2), Least(remaining, dma.page), "entries")
      BY <1>5, <1>6, <1>9 DEF Entry
    <2>2. \/ stage' = "entries" /\ j + 2 < PageCount(dma) /\ Ahead(j + 1)'
          \/ Ended
      BY <1>1, <1>2, <2>1, PageMoves
    <2>3. ASSUME stage' = "entries", j + 2 < PageCount(dma), Ahead(j + 1)'
          PROVE  MoveInv'
      <3>1. list'.buf = list.buf /\ list'.idx = list.idx + 1
        BY <2>1
      <3>2. list'.idx \in Nat /\ list'.idx < n(a)
        <4> HIDE DEF n
        <4> QED
          BY <1>2, <1>4, <1>9, <2>3, <3>1
      <3>3. Placed(dma, j + 1).at = Slot(dma, j) + 1
        BY PlacedFields
      <3>4. a + (list.idx + 1) = Placed(dma, j + 1).at
        BY <1>2, <1>5, <1>9, <3>3
      <3>5. Cursor(dma, j + 1, a + list.idx)'
        BY <1>1, <3>1, <3>4 DEF Cursor
      <3>6. list'.buf = ListRead(a, n(a))'
        BY <1>2, <1>7, <3>1
      <3>7. j + 1 \in Nat
        OBVIOUS
      <3>8. Reading(j + 1, a)'
        BY <1>7, <3>2, <3>5, <3>6 DEF Reading
      <3> QED
        BY <1>1, <2>3, <3>7, <3>8 DEF MoveInv, Stages
    <2> QED
      BY <1>1, <1>3, <2>2, <2>3, OverKeeps
  <1> QED
    BY <1>8, <1>9

LEMMA IdleKeeps ==
  ASSUME MoveInv, iommu' = iommu,
         \/ /\ stage' = "idle" /\ dma' = NoRequest /\ moved' = <<>>
         \/ UNCHANGED dmaVars
         \/ /\ stage = "idle" /\ UNCHANGED <<mem, dma, stage, moved>>
  PROVE  MoveInv'
  <1>1. CASE stage' = "idle" /\ dma' = NoRequest /\ moved' = <<>>
    BY <1>1 DEF MoveInv, Stages
  <1>2. CASE stage = "idle" /\ UNCHANGED <<mem, dma, stage, moved>>
    BY <1>2 DEF MoveInv, Stages
  <1>3. CASE UNCHANGED dmaVars
    <2>1. /\ iommu' = iommu /\ mem' = mem /\ dma' = dma /\ stage' = stage /\ ret' = ret
          /\ remaining' = remaining /\ list' = list /\ moved' = moved
      BY <1>3 DEF dmaVars
    <2>2. /\ \A m : MovedOf(dma, m)' = MovedOf(dma, m)
          /\ MovedOf(dma, dma.length)' = MovedOf(dma, dma.length)
          /\ MemoryOf(dma)' = MemoryOf(dma)
      BY <2>1, SameMeant DEF MovedOf, IovaToPhys, TranslateOnce
    <2>3. ASSUME NEW j, Ahead(j) PROVE Ahead(j)'
      BY <2>1, <2>2, <2>3 DEF Ahead
    <2>4. ASSUME NEW j, NEW a, Reading(j, a) PROVE Reading(j, a)'
      BY <2>1, <2>4 DEF Reading, Cursor, Translated, Pages, TranslateOnce, ListRead, MemAt,
                        IovaToPhys
    <2>5. ASSUME NEW j, Cursor(dma, j, list.buf[list.idx + 1])
          PROVE  Cursor(dma, j, list.buf[list.idx + 1])'
      BY <2>1, <2>5 DEF Cursor
    <2>6. Ahead(0) => Ahead(0)'
      BY <2>3
    <2> QED
      BY <2>1, <2>2, <2>3, <2>4, <2>5, <2>6 DEF MoveInv
  <1> QED
    BY <1>1, <1>2, <1>3

LEMMA MoveInvNext == MoveInv /\ [DmaNext]_dmaVars => MoveInv'
  <1> SUFFICES ASSUME MoveInv, [DmaNext]_dmaVars PROVE MoveInv'
    OBVIOUS
  <1>1. CASE UNCHANGED dmaVars
    <2>1. iommu' = iommu
      BY <1>1 DEF dmaVars
    <2> QED
      BY <1>1, <2>1, IdleKeeps
  <1>2. ASSUME NEW r \in DmaRequests, DmaStart(r) \/ NoMemory(r) PROVE MoveInv'
    BY <1>2, StartKeeps
  <1>3. ASSUME NEW r \in IndirectRequests, IndirectStart(r) \/ NoMemory(r) PROVE MoveInv'
    BY <1>3, StartKeeps
  <1>4. CASE NextRequest
    BY <1>4, IdleKeeps DEF NextRequest
  <1>5. ASSUME NEW op, NEW a, NEW b, NEW valid, Atomic(op, a, b, valid) PROVE MoveInv'
    BY <1>5, IdleKeeps DEF Atomic
  <1> QED
    BY <1>1, <1>2, <1>3, <1>4, <1>5, DmaCopyMoves, Prp1Moves, Prp2Moves, ReadListMoves,
       EntryMoves DEF DmaNext

(* TransferExact: whatever the mapping, the sizes of the pages, the offsets *)
(* and the lengths, and however a transfer is cut into pages and chunks, or *)
(* its list into pages that name one another, what has been moved is a      *)
(* beginning of what the driver means, and all of it when the call succeeds. *)
THEOREM TransfersAreExact == DmaSpec => []TransferExact
  <1>1. MoveInv => TransferExact
    <2> SUFFICES ASSUME MoveInv, dma # NoRequest PROVE TransferExact
      BY DEF TransferExact
    <2>1. Expected = MovedOf(dma, dma.length)
      BY DEF Expected, MovedOf
    <2>2. IsPrefix(moved, MovedOf(dma, dma.length))
      <3>1. CASE stage \in {"copy", "prp1"}
        <4>1. dma \in DmaRequests \cup IndirectRequests /\ moved = <<>> /\ iommu \in Iommus
          BY <3>1 DEF MoveInv
        <4> QED
          BY <4>1, RequestMeaningful
      <3>2. CASE stage \in {"prp2", "list", "entries"}
        <4>1. iommu \in Iommus /\ \E j \in Nat : Ahead(j)
          BY <3>2 DEF MoveInv
        <4> QED
          BY <4>1, AheadMeans
      <3>3. CASE stage = "done"
        BY <3>3 DEF MoveInv
      <3> QED
        BY <3>1, <3>2, <3>3 DEF MoveInv, Stages
    <2>3. stage = "done" /\ ret = "0" => moved = Expected
      BY <2>1 DEF MoveInv
    <2> QED
      BY <2>1, <2>2, <2>3 DEF TransferExact
  <1> QED
    BY <1>1, MoveInvInit, MoveInvNext, PTL DEF DmaSpec

(* CleanEnd: where the functions that requests name exist (with another the *)
(* buffer is lost), a request that is over holds no buffer, however its     *)
(* stages failed; and a write that was refused as a bad address has changed *)
(* whole chunks only.                                                       *)
THEOREM RequestsEndClean ==
  ASSUME FuncsExist PROVE DmaSpec => []CleanEnd
  <1>1. DmaInit => BufsInv
    BY DEF DmaInit, BufsInv
  <1>2. BufsInv /\ [DmaNext]_dmaVars => BufsInv'
    BY BufsInvNext
  <1>3. BufsInv /\ MoveInv => CleanEnd
    BY DEF BufsInv, MoveInv, CleanEnd
  <1> QED
    BY <1>1, <1>2, <1>3, MoveInvInit, MoveInvNext, PTL DEF DmaSpec

(* MappedIsTranslated: where 0 is no mapped page, a transfer is refused for *)
(* its pages exactly if the driver has not mapped one that it touches.      *)
THEOREM OnlyUnmappedRefused ==
  ASSUME ZeroIsUnmapped PROVE DmaSpec => []MappedIsTranslated
  <1>1. MoveInv => MappedIsTranslated
    <2> SUFFICES ASSUME MoveInv, stage = "copy" PROVE MappedIsTranslated
      BY DEF MappedIsTranslated
    <2> DEFINE a == dma.iova
               len == dma.length
    <2>1. iommu \in Iommus /\ dma \in DmaRequests
      BY DEF MoveInv
    <2>2. /\ a \in Nat /\ len \in Nat \ {0}
          /\ \A u \in 1 .. len : Meant(dma)[u] = a + u - 1
      BY <2>1, MeantDma
    <2>3. ~Translated(a, len) => \E u \in 1 .. len : (a + u - 1) \div KPage \notin DOMAIN iommu
      BY <2>1, <2>2, UntranslatedPage
    <2>4. ASSUME Translated(a, len), NEW u \in 1 .. len
          PROVE  (a + u - 1) \div KPage \in DOMAIN iommu
      <3>1. TranslateOnce((a + u - 1) \div KPage) # 0
        BY <2>2, <2>4, AddressTranslated
      <3> QED
        BY <3>1 DEF TranslateOnce
    <2> QED
      BY <2>2, <2>3, <2>4 DEF MappedIsTranslated
  <1> QED
    BY <1>1, MoveInvInit, MoveInvNext, PTL DEF DmaSpec

=============================================================================
