---------------------------- MODULE RuntimeProofs ----------------------------
(***************************************************************************)
(* Proofs about the two services of src/core.cpp that back the guest's     *)
(* C and C++ runtime.                                                      *)
(*                                                                         *)
(* Mspace: where the blocks of the mspaces lie and which list each is on,  *)
(* for any number of pools, any arenas, sizes, alignments and buckets.     *)
(* The blocks of a pool lie one behind the other up to what it used; two   *)
(* pools lie apart unless one is in a block of the other.                  *)
(*                                                                         *)
(* CxaGuard: who constructs a static, for any number of threads and        *)
(* statics.                                                                *)
(***************************************************************************)
EXTENDS Mspace, CxaGuard, TLAPS, WellFoundedInduction

Pool == [base : Nat, cap : Nat, used : Nat]
Hdr == [magic : {"used", "free"}, bucket : Nat \ {0}, handle : Handles]

(* A block has its header in front of it and ends at or before what its    *)
(* pool used; blocks of one pool do not share memory.                      *)
BlocksInv(ps, hd) ==
  /\ \A h \in Handles : ps[h].base # 0 => ps[h].used <= ps[h].cap
  /\ \A p \in DOMAIN hd : LET m == ps[hd[p].handle] IN
       m.base # 0 /\ m.base + HdrLen <= p /\ p + hd[p].bucket <= m.base + m.used
  /\ \A p, q \in DOMAIN hd : p # q /\ hd[p].handle = hd[q].handle =>
       p + hd[p].bucket + HdrLen <= q \/ q + hd[q].bucket + HdrLen <= p

(* Pool g lies in a block of pool h.                                       *)
NestedIn(ps, hd, ins, g, h) ==
  \E q \in ins[g] :
    /\ q \in DOMAIN hd /\ hd[q].handle = h
    /\ q <= ps[g].base /\ ps[g].base + ps[g].cap <= q + hd[q].bucket

Disjoint(ps, g, h) ==
  \/ ps[g].base + ps[g].cap <= ps[h].base
  \/ ps[h].base + ps[h].cap <= ps[g].base

PoolsInv(ps, hd, ins) ==
  \A g, h \in Handles : g # h /\ ps[g].base # 0 /\ ps[h].base # 0 =>
    Disjoint(ps, g, h) \/ NestedIn(ps, hd, ins, g, h) \/ NestedIn(ps, hd, ins, h, g)

(* What a pool lies in, a memory or a block, is the base of a pool: the    *)
(* first one created there, which MspaceRemember finds.                    *)
BasesInv(ps, ins) ==
  \A h \in Handles : ps[h].base # 0 =>
    \A q \in ins[h] : \E f \in Handles : ps[f].base = q

(* Every pool lies in one of the memories; the default one is pool 0's.    *)
RootsInv(ps, ins) ==
  /\ \A h \in Handles : ps[h].base # 0 =>
       \E r \in Arenas \cup {Default} :
         /\ r.base \in ins[h] /\ r.base <= ps[h].base
         /\ ps[h].base + ps[h].cap <= r.base + r.len
         /\ r = Default => ps[0].base # 0
  /\ ps[0].base = 0 \/ ps[0].base = Default.base
  /\ ins[0] = {Default.base}

Layout(ps, hd, ins) ==
  /\ ps \in [Handles -> Pool]
  /\ DOMAIN hd \subseteq Nat /\ \A p \in DOMAIN hd : hd[p] \in Hdr
  /\ ins \in [Handles -> SUBSET (Nat \ {0})]
  /\ BlocksInv(ps, hd) /\ PoolsInv(ps, hd, ins)
  /\ BasesInv(ps, ins) /\ RootsInv(ps, ins)

(* Handles not given yet have no memory.                                   *)
HandlesInv ==
  /\ handle \in Handles /\ usable \subseteq Handles
  /\ \A h \in Handles : h > handle => pools[h].base = 0 /\ h \notin usable

(* A list holds the free blocks of its pool and bucket, each once.         *)
ListsInv ==
  /\ DOMAIN lists = Handles
  /\ \A h \in Handles : \A b \in DOMAIN lists[h] :
       LET list == lists[h][b] IN
       /\ list \in Seq(Nat)
       /\ \A i \in DOMAIN list : list[i] \in DOMAIN hdr /\ hdr[list[i]] = Header("free", h, b)
       /\ \A i, j \in DOMAIN list : list[i] = list[j] => i = j
  /\ \A p \in DOMAIN hdr : hdr[p].magic = "free" =>
       \E i \in DOMAIN List(hdr[p].handle, hdr[p].bucket) :
         List(hdr[p].handle, hdr[p].bucket)[i] = p

(* The guest has every used block of a pool it has, or Realloc moved it.   *)
LiveInv ==
  /\ \A x \in live :
       /\ x \in [p : Nat, size : Nat, handle : usable]
       /\ x.p \in DOMAIN hdr /\ hdr[x.p].magic = "used"
       /\ hdr[x.p].handle = x.handle /\ x.size <= hdr[x.p].bucket
  /\ \A x, y \in live : x.p = y.p => x = y
  /\ \A p \in DOMAIN hdr : hdr[p].magic = "used" /\ hdr[p].handle \in usable =>
       p \in moved \/ \E x \in live : x.p = p

IInv == Layout(pools, hdr, inside) /\ HandlesInv /\ ListsInv /\ LiveInv

-----------------------------------------------------------------------------
(* Rounding up loses nothing.                                              *)
LEMMA RoundUpFits ==
  ASSUME NEW n \in Nat, NEW k \in Nat \ {0}
  PROVE  RoundUp(n, k) \in Nat /\ RoundUp(n, k) >= n
<1> DEFINE m == n + k - 1
           q == m \div k
<1>1. m \in Nat
  OBVIOUS
<1> HIDE DEF m
<1>2. m = k * q + (m % k) /\ 0 <= m % k /\ m % k < k /\ q \in Nat
  BY <1>1
<1> HIDE DEF q
<1>3. k * q = q * k /\ k * q \in Nat
  BY <1>2
<1>4. q * k >= n
  BY <1>1, <1>2, <1>3 DEF m
<1>5. QED
  BY <1>3, <1>4 DEF RoundUp, q, m

(* A bucket has room for what was asked for.                               *)
LEMMA BucketFits ==
  ASSUME NEW n \in Nat \ {0}
  PROVE  Bucket(n) \in Nat \ {0} /\ Bucket(n) >= n
<1>1. Fine \in Nat \ {0} /\ Coarse \in Nat \ {0}
  BY MspaceAssumption
<1>2. /\ RoundUp(n, Fine) \in Nat /\ RoundUp(n, Fine) >= n
      /\ RoundUp(n, Coarse) \in Nat /\ RoundUp(n, Coarse) >= n
  BY <1>1, RoundUpFits
<1>3. QED
  BY <1>2 DEF Bucket

(* A set of numbers has a least element.                                   *)
LEMMA Least ==
  ASSUME NEW S \in SUBSET Nat, S # {}
  PROVE  \E m \in S : \A n \in S : m <= n
<1> DEFINE R == {ss \in Nat \X Nat : ss[1] < ss[2]}
<1>1. IsWellFoundedOn(R, Nat)
  BY NatLessThanWellFounded DEF OpToRel
<1>2. \A m, n \in Nat : <<n, m>> \in R <=> n < m
  OBVIOUS
<1> HIDE DEF R
<1>3. \E m \in S : \A n \in S : <<n, m>> \notin R
  BY <1>1, WFMin
<1>4. \A m, n \in S : <<n, m>> \notin R => m <= n
  <2>1. \A m, n \in Nat : ~(n < m) => m <= n
    OBVIOUS
  <2>2. QED
    BY <1>2, <2>1
<1>5. QED
  BY <1>3, <1>4

(* The loops of MspaceRemember and MspaceBumpAlloc pick one of those they  *)
(* look for.                                                               *)
LEMMA FirstIsOne ==
  ASSUME NEW hs \in SUBSET Handles, hs # {}
  PROVE  First(hs) \in hs
<1>1. hs \in SUBSET Nat
  BY MspaceAssumption DEF Handles
<1>2. \E g \in hs : \A h \in hs : g <= h
  BY <1>1, Least
<1>3. QED
  BY <1>2 DEF First

(* So has a set of a sequence's positions a last one.                      *)
LEMMA LastIsOne ==
  ASSUME NEW n \in Nat, NEW is \in SUBSET (1 .. n), is # {}
  PROVE  Last(is) \in is
<1> DEFINE S == {k \in Nat : n - k \in is}
<1>1. S \in SUBSET Nat /\ \A i \in is : n - i \in S
  <2>1. \A i \in 1 .. n : n - i \in Nat /\ n - (n - i) = i
    OBVIOUS
  <2>2. QED
    BY <2>1
<1>2. PICK m \in S : \A k \in S : m <= k
  BY <1>1, Least
<1>3. n - m \in is /\ m \in Nat
  BY <1>2
<1> HIDE DEF S
<1>4. \A j \in is : j <= n - m
  <2>1. \A j \in is : m <= n - j /\ j \in Nat
    BY <1>1, <1>2
  <2>2. QED
    BY <1>3, <2>1
<1>5. \E j \in is : \A k \in is : k <= j
  BY <1>3, <1>4
<1>6. QED
  BY <1>5 DEF Last

-----------------------------------------------------------------------------
(* A block that changes hands, or is freed, stays where it is.             *)
LEMMA SameLayout ==
  ASSUME NEW ps, NEW hd, NEW ins, Layout(ps, hd, ins), NEW hd2, DOMAIN hd2 = DOMAIN hd,
         \A p \in DOMAIN hd :
           hd2[p] \in Hdr /\ hd2[p].bucket = hd[p].bucket /\ hd2[p].handle = hd[p].handle
  PROVE  Layout(ps, hd2, ins)
<1>1. BlocksInv(ps, hd2)
  BY DEF Layout, BlocksInv
<1>2. \A g, h \in Handles : NestedIn(ps, hd, ins, g, h) => NestedIn(ps, hd2, ins, g, h)
  BY DEF NestedIn
<1>3. PoolsInv(ps, hd2, ins)
  BY <1>2 DEF Layout, PoolsInv
<1>4. QED
  BY <1>1, <1>3 DEF Layout

(* What a block and its pool are to each other, as numbers.                *)
LEMMA BlockFacts ==
  ASSUME NEW ps, NEW hd, NEW ins, Layout(ps, hd, ins), NEW p \in DOMAIN hd
  PROVE  LET h == hd[p].handle IN
         /\ h \in Handles /\ p \in Nat /\ hd[p].bucket \in Nat \ {0} /\ ps[h].base # 0
         /\ ps[h].base \in Nat /\ ps[h].cap \in Nat /\ ps[h].used \in Nat
         /\ ps[h].used <= ps[h].cap
         /\ ps[h].base + 1 <= p /\ p + hd[p].bucket <= ps[h].base + ps[h].used
<1>1. hd[p] \in Hdr /\ p \in Nat
  BY DEF Layout
<1>2. hd[p].handle \in Handles /\ hd[p].bucket \in Nat \ {0}
  BY <1>1 DEF Hdr
<1>3. ps[hd[p].handle] \in Pool
  BY <1>2 DEF Layout
<1>4. QED
  BY <1>1, <1>2, <1>3 DEF Layout, BlocksInv, Pool, HdrLen

(* Behind what its pool used, a pool has memory that is in no block.       *)
LEMMA BehindUsedIsNew ==
  ASSUME NEW ps, NEW hd, NEW ins, Layout(ps, hd, ins), NEW h \in Handles, ps[h].base # 0,
         NEW p \in Nat, ps[h].base + ps[h].used + 1 <= p, p < ps[h].base + ps[h].cap
  PROVE  p \notin DOMAIN hd
<1> SUFFICES ASSUME p \in DOMAIN hd PROVE FALSE
  OBVIOUS
<1>1. ps[h] \in Pool /\ ps[h].base \in Nat /\ ps[h].cap \in Nat /\ ps[h].used \in Nat
  BY DEF Layout, Pool
<1> DEFINE k == hd[p].handle
<1>2. /\ k \in Handles /\ hd[p].bucket \in Nat \ {0} /\ ps[k].base # 0
      /\ ps[k].base \in Nat /\ ps[k].cap \in Nat /\ ps[k].used \in Nat
      /\ ps[k].used <= ps[k].cap
      /\ ps[k].base + 1 <= p /\ p + hd[p].bucket <= ps[k].base + ps[k].used
  BY BlockFacts
<1> HIDE DEF k
<1>3. k # h
  BY <1>1, <1>2
<1>4. CASE Disjoint(ps, k, h)
  BY <1>1, <1>2, <1>4 DEF Disjoint
<1>5. CASE NestedIn(ps, hd, ins, k, h)
  <2>1. PICK q \in DOMAIN hd :
          hd[q].handle = h /\ ps[k].base + ps[k].cap <= q + hd[q].bucket
    BY <1>5 DEF NestedIn
  <2>2. q \in Nat /\ hd[q].bucket \in Nat /\ q + hd[q].bucket <= ps[h].base + ps[h].used
    BY <2>1, BlockFacts
  <2>3. QED
    BY <1>1, <1>2, <2>1, <2>2
<1>6. CASE NestedIn(ps, hd, ins, h, k)
  <2>1. PICK q \in DOMAIN hd :
          /\ hd[q].handle = k /\ q <= ps[h].base
          /\ ps[h].base + ps[h].cap <= q + hd[q].bucket
    BY <1>6 DEF NestedIn
  <2>2. q \in Nat /\ hd[q].bucket \in Nat
    BY <2>1, BlockFacts
  <2>3. q # p
    BY <1>1, <2>1, <2>2
  <2>4. p + hd[p].bucket + 1 <= q \/ q + hd[q].bucket + 1 <= p
    BY <2>1, <2>3 DEF Layout, BlocksInv, HdrLen, k
  <2>5. QED
    BY <1>1, <1>2, <2>1, <2>2, <2>4
<1>7. QED
  BY <1>2, <1>3, <1>4, <1>5, <1>6 DEF Layout, PoolsInv

(* A block carved behind what a pool used fits in.                         *)
LEMMA CarveKeeps ==
  ASSUME NEW ps, NEW hd, NEW ins, Layout(ps, hd, ins), NEW h \in Handles, ps[h].base # 0,
         NEW p \in Nat, NEW b \in Nat \ {0},
         ps[h].base + ps[h].used + 1 <= p, p + b <= ps[h].base + ps[h].cap
  PROVE  Layout([ps EXCEPT ![h] = [ps[h] EXCEPT !.used = (p + b) - ps[h].base]],
                Put(hd, p, Header("used", h, b)), ins)
<1> DEFINE qs == [ps EXCEPT ![h] = [ps[h] EXCEPT !.used = (p + b) - ps[h].base]]
           hd2 == Put(hd, p, Header("used", h, b))
<1>1. /\ ps[h] \in Pool /\ ps[h].base \in Nat /\ ps[h].cap \in Nat /\ ps[h].used \in Nat
      /\ ps \in [Handles -> Pool]
  BY DEF Layout, Pool
<1>2. p \notin DOMAIN hd
  BY <1>1, BehindUsedIsNew
<1>3. /\ DOMAIN hd2 = DOMAIN hd \cup {p} /\ hd2[p] \in Hdr
      /\ hd2[p].handle = h /\ hd2[p].bucket = b
      /\ \A q \in DOMAIN hd : q # p /\ hd2[q] = hd[q]
  BY <1>2 DEF Put, Header, Hdr
<1>4. /\ qs \in [Handles -> Pool]
      /\ \A k \in Handles : qs[k].base = ps[k].base /\ qs[k].cap = ps[k].cap
      /\ qs[h].used = (p + b) - ps[h].base
      /\ \A k \in Handles \ {h} : qs[k] = ps[k]
  <2>1. (p + b) - ps[h].base \in Nat
    BY <1>1
  <2>2. [ps[h] EXCEPT !.used = (p + b) - ps[h].base] \in Pool
    BY <1>1, <2>1 DEF Pool
  <2>3. QED
    BY <1>1, <2>2 DEF Pool
<1> HIDE DEF qs, hd2
<1>5. \A q \in DOMAIN hd : hd[q].handle = h => q + hd[q].bucket + HdrLen <= p
  <2>1. ASSUME NEW q \in DOMAIN hd, hd[q].handle = h PROVE q + hd[q].bucket + 1 <= p
    BY <1>1, <2>1, BlockFacts
  <2>2. QED
    BY <2>1 DEF HdrLen
<1>6. BlocksInv(qs, hd2)
  <2>1. \A k \in Handles : qs[k].base # 0 => qs[k].used <= qs[k].cap
    BY <1>1, <1>4 DEF Layout, BlocksInv
  <2>2. ASSUME NEW q \in DOMAIN hd2
        PROVE  LET m == qs[hd2[q].handle] IN
                 m.base # 0 /\ m.base + HdrLen <= q /\ q + hd2[q].bucket <= m.base + m.used
    <3>1. CASE q = p
      BY <1>1, <1>3, <1>4, <3>1 DEF HdrLen
    <3>2. CASE q # p
      <4>1. q \in DOMAIN hd /\ hd2[q] = hd[q]
        BY <1>3, <3>2
      <4>2. LET k == hd[q].handle IN
            /\ k \in Handles /\ q \in Nat /\ hd[q].bucket \in Nat /\ ps[k].base # 0
            /\ ps[k].base \in Nat /\ ps[k].used \in Nat
            /\ ps[k].base + 1 <= q /\ q + hd[q].bucket <= ps[k].base + ps[k].used
        BY <4>1, BlockFacts
      <4>3. CASE hd[q].handle = h
        BY <1>1, <1>4, <1>5, <4>1, <4>2, <4>3 DEF HdrLen
      <4>4. CASE hd[q].handle # h
        BY <1>4, <4>1, <4>2, <4>4 DEF HdrLen
      <4>5. QED
        BY <4>3, <4>4
    <3>3. QED
      BY <3>1, <3>2
  <2>3. ASSUME NEW q \in DOMAIN hd2, NEW r \in DOMAIN hd2, q # r, hd2[q].handle = hd2[r].handle
        PROVE  q + hd2[q].bucket + HdrLen <= r \/ r + hd2[r].bucket + HdrLen <= q
    <3>1. CASE q = p \/ r = p
      BY <1>3, <1>5, <2>3, <3>1
    <3>2. CASE q # p /\ r # p
      BY <1>3, <2>3, <3>2 DEF Layout, BlocksInv
    <3>3. QED
      BY <3>1, <3>2
  <2>4. QED
    BY <2>1, <2>2, <2>3 DEF BlocksInv
<1>7. PoolsInv(qs, hd2, ins)
  <2>1. \A g, k \in Handles : NestedIn(ps, hd, ins, g, k) => NestedIn(qs, hd2, ins, g, k)
    BY <1>3, <1>4 DEF NestedIn
  <2>2. \A g, k \in Handles : Disjoint(ps, g, k) => Disjoint(qs, g, k)
    BY <1>4 DEF Disjoint
  <2>3. QED
    BY <1>4, <2>1, <2>2 DEF Layout, PoolsInv
<1>8. BasesInv(qs, ins) /\ RootsInv(qs, ins)
  <2>1. 0 \in Handles
    BY MspaceAssumption DEF Handles
  <2>2. QED
    BY <1>4, <2>1 DEF Layout, BasesInv, RootsInv
<1>9. Layout(qs, hd2, ins)
  BY <1>3, <1>4, <1>6, <1>7, <1>8 DEF Layout
<1>10. QED
  BY <1>9 DEF qs, hd2

-----------------------------------------------------------------------------
(* A pool gets memory: it lies in one of the memories, where a pool has    *)
(* its base already or it has itself, and apart from or nested with each   *)
(* of the others.                                                          *)
Fits(ps, hd, ins, g, base, cap, place, qs, ins2) ==
  /\ g \in Handles /\ ps[g].base = 0
  /\ base \in Nat \ {0} /\ cap \in Nat /\ place \in SUBSET (Nat \ {0})
  /\ g = 0 => base = Default.base /\ place = {Default.base}
  /\ qs = [ps EXCEPT ![g] = [base |-> base, cap |-> cap, used |-> 0]]
  /\ ins2 = [ins EXCEPT ![g] = place]
  /\ \A k \in Handles \ {g} : ps[k].base # 0 =>
       Disjoint(qs, g, k) \/ NestedIn(qs, hd, ins2, g, k) \/ NestedIn(qs, hd, ins2, k, g)
  /\ \A q \in place : q = base \/ \E f \in Handles : ps[f].base = q
  /\ \E r \in Arenas \cup {Default} :
       /\ r.base \in place /\ r.base <= base /\ base + cap <= r.base + r.len
       /\ r = Default => qs[0].base # 0

(* A pool that fits in is one more pool of the layout.                     *)
LEMMA NewPoolKeeps ==
  ASSUME NEW ps, NEW hd, NEW ins, NEW g, NEW base, NEW cap, NEW place, NEW qs, NEW ins2,
         Layout(ps, hd, ins), Fits(ps, hd, ins, g, base, cap, place, qs, ins2)
  PROVE  Layout(qs, hd, ins2)
<1> g \in Handles /\ ps[g].base = 0
  BY DEF Fits
<1> base \in Nat \ {0} /\ cap \in Nat /\ place \in SUBSET (Nat \ {0})
  BY DEF Fits
<1> g = 0 => base = Default.base /\ place = {Default.base}
  BY DEF Fits
<1> qs = [ps EXCEPT ![g] = [base |-> base, cap |-> cap, used |-> 0]]
  BY DEF Fits
<1> ins2 = [ins EXCEPT ![g] = place]
  BY DEF Fits
<1> \A k \in Handles \ {g} : ps[k].base # 0 =>
      Disjoint(qs, g, k) \/ NestedIn(qs, hd, ins2, g, k) \/ NestedIn(qs, hd, ins2, k, g)
  BY DEF Fits
<1> \A q \in place : q = base \/ \E f \in Handles : ps[f].base = q
  BY DEF Fits
<1> \E r \in Arenas \cup {Default} :
      /\ r.base \in place /\ r.base <= base /\ base + cap <= r.base + r.len
      /\ r = Default => qs[0].base # 0
  BY DEF Fits
<1>1. /\ qs \in [Handles -> Pool] /\ ins2 \in [Handles -> SUBSET (Nat \ {0})]
      /\ qs[g].base = base /\ qs[g].cap = cap /\ qs[g].used = 0 /\ ins2[g] = place
      /\ \A k \in Handles \ {g} : qs[k] = ps[k] /\ ins2[k] = ins[k]
      /\ base # 0
  BY DEF Layout, Pool
<1>2. BlocksInv(qs, hd)
  <2>1. \A p \in DOMAIN hd : hd[p].handle \in Handles \ {g}
    BY BlockFacts
  <2>2. \A p \in DOMAIN hd : qs[hd[p].handle] = ps[hd[p].handle]
    BY <1>1, <2>1
  <2>3. \A h \in Handles : qs[h].base # 0 => qs[h].used <= qs[h].cap
    BY <1>1 DEF Layout, BlocksInv
  <2>4. QED
    BY <2>2, <2>3 DEF Layout, BlocksInv
<1>3. PoolsInv(qs, hd, ins2)
  <2>1. ASSUME NEW k \in Handles \ {g}, NEW h \in Handles \ {g}, k # h,
               qs[k].base # 0, qs[h].base # 0
        PROVE  Disjoint(qs, k, h) \/ NestedIn(qs, hd, ins2, k, h) \/ NestedIn(qs, hd, ins2, h, k)
    <3>1. qs[k] = ps[k] /\ qs[h] = ps[h] /\ ins2[k] = ins[k] /\ ins2[h] = ins[h]
      BY <1>1
    <3>2. Disjoint(ps, k, h) \/ NestedIn(ps, hd, ins, k, h) \/ NestedIn(ps, hd, ins, h, k)
      BY <2>1, <3>1 DEF Layout, PoolsInv
    <3>3. QED
      BY <3>1, <3>2 DEF Disjoint, NestedIn
  <2>2. ASSUME NEW k \in Handles \ {g}, qs[k].base # 0
        PROVE  /\ Disjoint(qs, g, k) \/ NestedIn(qs, hd, ins2, g, k)
                    \/ NestedIn(qs, hd, ins2, k, g)
               /\ Disjoint(qs, k, g) <=> Disjoint(qs, g, k)
    BY <1>1, <2>2 DEF Disjoint
  <2>3. QED
    BY <2>1, <2>2 DEF PoolsInv
<1>4. BasesInv(qs, ins2)
  <2>1. \A f \in Handles : ps[f].base # 0 => qs[f].base = ps[f].base
    BY <1>1
  <2>2. \A q \in Nat \ {0} : (\E f \in Handles : ps[f].base = q) => \E f \in Handles : qs[f].base = q
    BY <2>1
  <2>3. \A q \in place : \E f \in Handles : qs[f].base = q
    BY <1>1, <2>2
  <2>4. ASSUME NEW h \in Handles \ {g}, qs[h].base # 0, NEW q \in ins2[h]
        PROVE  \E f \in Handles : qs[f].base = q
    <3>1. ps[h].base # 0 /\ q \in ins[h] /\ q \in Nat \ {0}
      BY <1>1, <2>4
    <3>2. \E f \in Handles : ps[f].base = q
      BY <3>1 DEF Layout, BasesInv
    <3>3. QED
      BY <2>2, <3>1, <3>2
  <2>5. QED
    BY <1>1, <2>3, <2>4 DEF BasesInv
<1>5. RootsInv(qs, ins2)
  <2>1. 0 \in Handles
    BY MspaceAssumption DEF Handles
  <2>2. /\ ps[0].base # 0 => qs[0].base # 0
        /\ qs[0].base = 0 \/ qs[0].base = Default.base
        /\ ins2[0] = {Default.base}
    BY <1>1, <2>1 DEF Layout, RootsInv
  <2>3. ASSUME NEW h \in Handles, qs[h].base # 0
        PROVE  \E r \in Arenas \cup {Default} :
                 /\ r.base \in ins2[h] /\ r.base <= qs[h].base
                 /\ qs[h].base + qs[h].cap <= r.base + r.len
                 /\ r = Default => qs[0].base # 0
    <3>1. CASE h = g
      BY <1>1, <3>1
    <3>2. CASE h # g
      BY <1>1, <2>2, <2>3, <3>2 DEF Layout, RootsInv
    <3>3. QED
      BY <3>1, <3>2
  <2>4. QED
    BY <2>2, <2>3 DEF RootsInv
<1>6. QED
  BY <1>1, <1>2, <1>3, <1>4, <1>5 DEF Layout

(* Sizes and places of the memories.                                       *)
LEMMA MemoryFacts ==
  ASSUME NEW r \in Arenas \cup {Default}
  PROVE  /\ r.base \in Nat \ {0} /\ r.len \in Nat \ {0}
         /\ \A s \in Arenas \cup {Default} : r # s => Apart(r, s) \/ Apart(s, r)
BY MspaceAssumption DEF Ranges

(* The memory a pool lies in.                                              *)
LEMMA PoolFacts ==
  ASSUME NEW ps, NEW hd, NEW ins, Layout(ps, hd, ins), NEW k \in Handles, ps[k].base # 0
  PROVE  /\ ps[k].base \in Nat \ {0} /\ ps[k].cap \in Nat /\ ps[k].used \in Nat
         /\ \E r \in Arenas \cup {Default} :
              /\ r.base \in ins[k] /\ r.base <= ps[k].base
              /\ ps[k].base + ps[k].cap <= r.base + r.len
              /\ r = Default => ps[0].base # 0
<1>1. ps[k] \in Pool
  BY DEF Layout
<1>2. QED
  BY <1>1 DEF Layout, RootsInv, Pool

(* EnsureDefaultMspace gives pool 0 a memory that no pool lies in.         *)
LEMMA EnsureKeeps ==
  ASSUME NEW ps, NEW hd, NEW ins, Layout(ps, hd, ins), ps[0].base = 0
  PROVE  Layout([ps EXCEPT ![0] = [base |-> Default.base, cap |-> Default.len, used |-> 0]], hd, ins)
<1> DEFINE qs == [ps EXCEPT ![0] = [base |-> Default.base, cap |-> Default.len, used |-> 0]]
<1>1. Default.base \in Nat \ {0} /\ Default.len \in Nat
  BY MemoryFacts
<1>2. 0 \in Handles
  BY MspaceAssumption DEF Handles
<1>3. ins = [ins EXCEPT ![0] = {Default.base}]
  BY <1>2 DEF Layout, RootsInv
<1>4. /\ qs[0].base = Default.base /\ qs[0].cap = Default.len
      /\ \A k \in Handles \ {0} : qs[k] = ps[k]
  BY <1>2 DEF Layout
<1> HIDE DEF qs
<1>5. ASSUME NEW k \in Handles \ {0}, ps[k].base # 0 PROVE Disjoint(qs, 0, k)
  <2>1. PICK r \in Arenas \cup {Default} :
          /\ r.base <= ps[k].base /\ ps[k].base + ps[k].cap <= r.base + r.len
          /\ r = Default => ps[0].base # 0
    BY <1>5, PoolFacts
  <2>2. r # Default
    BY <2>1
  <2>3. Apart(r, Default) \/ Apart(Default, r)
    BY <2>2, MemoryFacts
  <2>4. r.base \in Nat /\ r.len \in Nat /\ ps[k].base \in Nat /\ ps[k].cap \in Nat
    BY <1>5, MemoryFacts, PoolFacts
  <2>5. QED
    BY <1>1, <1>4, <2>1, <2>3, <2>4 DEF Apart, Disjoint
<1>6. \E r \in Arenas \cup {Default} :
        /\ r.base \in {Default.base} /\ r.base <= Default.base
        /\ Default.base + Default.len <= r.base + r.len
        /\ r = Default => qs[0].base # 0
  BY <1>1, <1>4
<1>7. Fits(ps, hd, ins, 0, Default.base, Default.len, {Default.base}, qs, ins)
  BY <1>1, <1>2, <1>3, <1>5, <1>6 DEF qs, Fits
<1>8. Layout(qs, hd, ins)
  BY <1>7, NewPoolKeeps
<1>9. QED
  BY <1>8 DEF qs

(* The first pool on an arena: nothing else lies in it.                    *)
LEMMA ArenaKeeps ==
  ASSUME NEW ps, NEW hd, NEW ins, Layout(ps, hd, ins), NEW g \in Handles \ {0}, ps[g].base = 0,
         NEW r \in Arenas, NEW cap \in Nat, cap <= r.len, \A f \in Handles : ps[f].base # r.base
  PROVE  Layout([ps EXCEPT ![g] = [base |-> r.base, cap |-> cap, used |-> 0]], hd,
                [ins EXCEPT ![g] = {r.base}])
<1> DEFINE qs == [ps EXCEPT ![g] = [base |-> r.base, cap |-> cap, used |-> 0]]
           ins2 == [ins EXCEPT ![g] = {r.base}]
<1>1. r.base \in Nat \ {0} /\ r.len \in Nat
  BY MemoryFacts
<1>2. /\ qs[g].base = r.base /\ qs[g].cap = cap
      /\ \A k \in Handles \ {g} : qs[k] = ps[k]
  BY DEF Layout
<1> HIDE DEF qs, ins2
<1>3. ASSUME NEW k \in Handles \ {g}, ps[k].base # 0 PROVE Disjoint(qs, g, k)
  <2>1. PICK s \in Arenas \cup {Default} :
          s.base \in ins[k] /\ s.base <= ps[k].base /\ ps[k].base + ps[k].cap <= s.base + s.len
    BY <1>3, PoolFacts
  <2>2. s # r
    BY <1>3, <2>1 DEF Layout, BasesInv
  <2>3. Apart(r, s) \/ Apart(s, r)
    BY <2>2, MemoryFacts
  <2>4. s.base \in Nat /\ s.len \in Nat /\ ps[k].base \in Nat /\ ps[k].cap \in Nat
    BY <1>3, MemoryFacts, PoolFacts
  <2>5. QED
    BY <1>1, <1>2, <2>1, <2>3, <2>4 DEF Apart, Disjoint
<1>4. r # Default
  BY MspaceAssumption DEF Apart, Ranges
<1>5. \E s \in Arenas \cup {Default} :
        /\ s.base \in {r.base} /\ s.base <= r.base /\ r.base + cap <= s.base + s.len
        /\ s = Default => qs[0].base # 0
  BY <1>1, <1>4
<1>6. Fits(ps, hd, ins, g, r.base, cap, {r.base}, qs, ins2)
  BY <1>1, <1>3, <1>5 DEF qs, ins2, Fits
<1>7. Layout(qs, hd, ins2)
  BY <1>6, NewPoolKeeps
<1>8. QED
  BY <1>7 DEF qs, ins2

(* The first pool in a block: it lies in the block and in what the block's *)
(* pool lies in, and apart from the pools in other blocks.                 *)
LEMMA BlockPoolKeeps ==
  ASSUME NEW ps, NEW hd, NEW ins, Layout(ps, hd, ins), NEW g \in Handles \ {0}, ps[g].base = 0,
         NEW p \in DOMAIN hd, NEW cap \in Nat, cap <= hd[p].bucket,
         \A f \in Handles : ps[f].base # p
  PROVE  Layout([ps EXCEPT ![g] = [base |-> p, cap |-> cap, used |-> 0]], hd,
                [ins EXCEPT ![g] = ins[hd[p].handle] \cup {p}])
<1> DEFINE h == hd[p].handle
           place == ins[h] \cup {p}
           qs == [ps EXCEPT ![g] = [base |-> p, cap |-> cap, used |-> 0]]
           ins2 == [ins EXCEPT ![g] = place]
<1>1. /\ h \in Handles /\ p \in Nat \ {0} /\ hd[p].bucket \in Nat \ {0} /\ ps[h].base # 0
      /\ ps[h].base \in Nat /\ ps[h].cap \in Nat /\ ps[h].used \in Nat
      /\ ps[h].used <= ps[h].cap
      /\ ps[h].base + 1 <= p /\ p + hd[p].bucket <= ps[h].base + ps[h].used
  <2>1. 1 <= p
    BY BlockFacts
  <2>2. QED
    BY <2>1, BlockFacts
<1>2. ins[h] \in SUBSET (Nat \ {0}) /\ place \in SUBSET (Nat \ {0})
  BY <1>1 DEF Layout
<1>3. /\ qs[g].base = p /\ qs[g].cap = cap /\ ins2[g] = place
      /\ \A k \in Handles \ {g} : qs[k] = ps[k] /\ ins2[k] = ins[k]
  BY DEF Layout
<1>4. ins[h] \subseteq place /\ p \in place /\ hd[p].handle = h
  OBVIOUS
<1>5. \A q \in place : q = p \/ q \in ins[h]
  OBVIOUS
<1> HIDE DEF h, place, qs, ins2
<1>6. ASSUME NEW k \in Handles \ {g}, ps[k].base # 0
      PROVE  Disjoint(qs, g, k) \/ NestedIn(qs, hd, ins2, g, k) \/ NestedIn(qs, hd, ins2, k, g)
  <2>1. ps[k].base \in Nat /\ ps[k].cap \in Nat /\ qs[k] = ps[k]
    BY <1>3, <1>6, PoolFacts
  <2>2. CASE k = h
    BY <1>1, <1>3, <1>4, <2>2 DEF NestedIn
  <2>3. CASE Disjoint(ps, k, h)
    BY <1>1, <1>3, <2>1, <2>3 DEF Disjoint
  <2>4. CASE NestedIn(ps, hd, ins, k, h)
    <3>1. PICK q \in ins[k] :
            /\ q \in DOMAIN hd /\ hd[q].handle = h
            /\ q <= ps[k].base /\ ps[k].base + ps[k].cap <= q + hd[q].bucket
      BY <2>4 DEF NestedIn
    <3>2. q # p
      BY <1>6, <3>1 DEF Layout, BasesInv
    <3>3. q \in Nat /\ hd[q].bucket \in Nat
      BY <3>1, BlockFacts
    <3>4. p + hd[p].bucket + 1 <= q \/ q + hd[q].bucket + 1 <= p
      BY <1>4, <3>1, <3>2 DEF Layout, BlocksInv, HdrLen
    <3>5. QED
      BY <1>1, <1>3, <2>1, <3>1, <3>3, <3>4 DEF Disjoint
  <2>5. CASE NestedIn(ps, hd, ins, h, k)
    <3>1. PICK q \in ins[h] :
            /\ q \in DOMAIN hd /\ hd[q].handle = k
            /\ q <= ps[h].base /\ ps[h].base + ps[h].cap <= q + hd[q].bucket
      BY <2>5 DEF NestedIn
    <3>2. q \in Nat /\ hd[q].bucket \in Nat
      BY <3>1, BlockFacts
    <3>3. q <= p /\ p + cap <= q + hd[q].bucket
      BY <1>1, <3>1, <3>2
    <3>4. QED
      BY <1>3, <1>4, <3>1, <3>3 DEF NestedIn
  <2>6. QED
    BY <1>1, <1>6, <2>2, <2>3, <2>4, <2>5 DEF Layout, PoolsInv
<1>7. \A q \in place : q = p \/ \E f \in Handles : ps[f].base = q
  BY <1>1, <1>5 DEF Layout, BasesInv
<1>8. \E r \in Arenas \cup {Default} :
        /\ r.base \in place /\ r.base <= p /\ p + cap <= r.base + r.len
        /\ r = Default => qs[0].base # 0
  <2>1. PICK r \in Arenas \cup {Default} :
          /\ r.base \in ins[h] /\ r.base <= ps[h].base
          /\ ps[h].base + ps[h].cap <= r.base + r.len
          /\ r = Default => ps[0].base # 0
    BY <1>1, PoolFacts
  <2>2. r.base \in Nat /\ r.len \in Nat
    BY MemoryFacts
  <2>3. r.base <= p /\ p + cap <= r.base + r.len
    BY <1>1, <2>1, <2>2
  <2>4. 0 \in Handles \ {g}
    BY MspaceAssumption DEF Handles
  <2>5. qs[0] = ps[0]
    BY <1>3, <2>4
  <2>6. QED
    BY <1>4, <2>1, <2>3, <2>5
<1>9. Fits(ps, hd, ins, g, p, cap, place, qs, ins2)
  BY <1>1, <1>2, <1>6, <1>7, <1>8 DEF qs, ins2, Fits
<1>10. Layout(qs, hd, ins2)
  BY <1>9, NewPoolKeeps
<1>11. QED
  BY <1>10 DEF qs, ins2, place, h

-----------------------------------------------------------------------------
(* A pool that gives up memory behind what it used loses no block.         *)
LEMMA ShrinkKeeps ==
  ASSUME NEW ps, NEW hd, NEW ins, Layout(ps, hd, ins), NEW f \in Handles, ps[f].base # 0,
         NEW n \in Nat, ps[f].used <= n, n <= ps[f].cap
  PROVE  Layout([ps EXCEPT ![f] = [ps[f] EXCEPT !.cap = n]], hd, ins)
<1> DEFINE qs == [ps EXCEPT ![f] = [ps[f] EXCEPT !.cap = n]]
<1>1. /\ ps \in [Handles -> Pool] /\ ps[f] \in Pool
      /\ \A k \in Handles : ps[k].base \in Nat /\ ps[k].cap \in Nat /\ ps[k].used \in Nat
  BY DEF Layout, Pool
<1>2. /\ qs \in [Handles -> Pool] /\ qs[f].cap = n
      /\ \A k \in Handles : qs[k].base = ps[k].base /\ qs[k].used = ps[k].used
      /\ \A k \in Handles \ {f} : qs[k].cap = ps[k].cap
  BY <1>1 DEF Pool
<1> HIDE DEF qs
<1>3. \A k \in Handles : qs[k].cap \in Nat /\ qs[k].cap <= ps[k].cap
  BY <1>1, <1>2
<1>4. BlocksInv(qs, hd)
  <2>1. \A k \in Handles : qs[k].base # 0 => qs[k].used <= qs[k].cap
    BY <1>1, <1>2 DEF Layout, BlocksInv
  <2>2. \A p \in DOMAIN hd : hd[p].handle \in Handles
    BY BlockFacts
  <2>3. QED
    BY <1>2, <2>1, <2>2 DEF Layout, BlocksInv
<1>5. PoolsInv(qs, hd, ins)
  <2>1. ASSUME NEW k \in Handles, NEW h \in Handles, Disjoint(ps, k, h)
        PROVE  Disjoint(qs, k, h)
    BY <1>1, <1>2, <1>3, <2>1 DEF Disjoint
  <2>2. ASSUME NEW k \in Handles, NEW h \in Handles, NestedIn(ps, hd, ins, k, h)
        PROVE  NestedIn(qs, hd, ins, k, h)
    <3>1. PICK q \in ins[k] :
            /\ q \in DOMAIN hd /\ hd[q].handle = h
            /\ q <= ps[k].base /\ ps[k].base + ps[k].cap <= q + hd[q].bucket
      BY <2>2 DEF NestedIn
    <3>2. q \in Nat /\ hd[q].bucket \in Nat
      BY <3>1, BlockFacts
    <3>3. qs[k].base + qs[k].cap <= q + hd[q].bucket
      BY <1>1, <1>2, <1>3, <3>1, <3>2
    <3>4. QED
      BY <1>2, <3>1, <3>3 DEF NestedIn
  <2>3. QED
    BY <1>2, <2>1, <2>2 DEF Layout, PoolsInv
<1>6. BasesInv(qs, ins)
  BY <1>2 DEF Layout, BasesInv
<1>7. RootsInv(qs, ins)
  <2>1. 0 \in Handles
    BY MspaceAssumption DEF Handles
  <2>2. ASSUME NEW k \in Handles, qs[k].base # 0
        PROVE  \E r \in Arenas \cup {Default} :
                 /\ r.base \in ins[k] /\ r.base <= qs[k].base
                 /\ qs[k].base + qs[k].cap <= r.base + r.len
                 /\ r = Default => qs[0].base # 0
    <3>1. ps[k].base # 0
      BY <1>2, <2>2
    <3>2. PICK r \in Arenas \cup {Default} :
            /\ r.base \in ins[k] /\ r.base <= ps[k].base
            /\ ps[k].base + ps[k].cap <= r.base + r.len
            /\ r = Default => ps[0].base # 0
      BY <3>1, PoolFacts
    <3>3. r.base \in Nat /\ r.len \in Nat
      BY MemoryFacts
    <3>4. qs[k].base + qs[k].cap <= r.base + r.len
      BY <1>1, <1>2, <1>3, <3>2, <3>3
    <3>5. QED
      BY <1>2, <2>1, <3>2, <3>4
  <2>3. QED
    BY <1>2, <2>1, <2>2 DEF Layout, RootsInv
<1>8. Layout(qs, hd, ins)
  BY <1>2, <1>4, <1>5, <1>6, <1>7 DEF Layout
<1>9. QED
  BY <1>8 DEF qs

(* A pool cut off another: its memory was the other's, behind all blocks.  *)
LEMMA TailKeeps ==
  ASSUME NEW ps, NEW hd, NEW ins, Layout(ps, hd, ins), NEW f \in Handles, ps[f].base # 0,
         NEW n \in Nat, ps[f].used <= n, n <= ps[f].cap,
         NEW g \in Handles \ {0}, ps[g].base = 0, NEW base, base = ps[f].base + n,
         NEW cap, cap = ps[f].cap - n
  PROVE  Layout([ps EXCEPT ![f] = [ps[f] EXCEPT !.cap = n],
                           ![g] = [base |-> base, cap |-> cap, used |-> 0]],
                hd, [ins EXCEPT ![g] = ins[f]])
<1> DEFINE ps1 == [ps EXCEPT ![f] = [ps[f] EXCEPT !.cap = n]]
           qs == [ps1 EXCEPT ![g] = [base |-> base, cap |-> cap, used |-> 0]]
           ins2 == [ins EXCEPT ![g] = ins[f]]
<1>1. Layout(ps1, hd, ins)
  BY ShrinkKeeps
<1>2. /\ ps \in [Handles -> Pool] /\ ps[f] \in Pool /\ g # f
      /\ \A k \in Handles : ps[k].base \in Nat /\ ps[k].cap \in Nat /\ ps[k].used \in Nat
  BY DEF Layout, Pool
<1>3. /\ \A k \in Handles : ps1[k].base = ps[k].base
      /\ ps1[f].cap = n /\ \A k \in Handles \ {f} : ps1[k] = ps[k]
      /\ DOMAIN ps1 = Handles
  BY <1>2 DEF Pool
<1>4. [ps EXCEPT ![f] = [ps[f] EXCEPT !.cap = n],
                 ![g] = [base |-> base, cap |-> cap, used |-> 0]] = qs
  BY <1>2
<1> HIDE DEF ps1
<1>5. /\ qs[g].base = base /\ qs[g].cap = cap /\ ins2[g] = ins[f]
      /\ \A k \in Handles \ {g} : qs[k] = ps1[k]
  BY <1>3 DEF Layout
<1> HIDE DEF qs, ins2
<1>6. base \in Nat \ {0} /\ cap \in Nat /\ ins[f] \in SUBSET (Nat \ {0})
  BY <1>2 DEF Layout
<1>7. ASSUME NEW k \in Handles \ {g}, ps1[k].base # 0
      PROVE  Disjoint(qs, g, k) \/ NestedIn(qs, hd, ins2, g, k) \/ NestedIn(qs, hd, ins2, k, g)
  <2>1. CASE k = f
    BY <1>2, <1>3, <1>5, <2>1 DEF Disjoint
  <2>2. CASE k # f
    <3>1. qs[k] = ps[k] /\ ps[k].base # 0
      BY <1>3, <1>5, <1>7, <2>2
    <3>2. CASE Disjoint(ps, f, k) \/ Disjoint(ps, k, f)
      BY <1>2, <1>5, <3>1, <3>2 DEF Disjoint
    <3>3. CASE NestedIn(ps, hd, ins, k, f)
      <4>1. PICK q \in DOMAIN hd :
              hd[q].handle = f /\ ps[k].base + ps[k].cap <= q + hd[q].bucket
        BY <3>3 DEF NestedIn
      <4>2. /\ q \in Nat /\ hd[q].bucket \in Nat
            /\ q + hd[q].bucket <= ps[f].base + ps[f].used
        BY <4>1, BlockFacts
      <4>3. QED
        BY <1>2, <1>5, <3>1, <4>1, <4>2 DEF Disjoint
    <3>4. CASE NestedIn(ps, hd, ins, f, k)
      <4>1. PICK q \in ins[f] :
              /\ q \in DOMAIN hd /\ hd[q].handle = k
              /\ q <= ps[f].base /\ ps[f].base + ps[f].cap <= q + hd[q].bucket
        BY <3>4 DEF NestedIn
      <4>2. q \in Nat /\ hd[q].bucket \in Nat
        BY <4>1, BlockFacts
      <4>3. q <= base /\ base + cap <= q + hd[q].bucket
        BY <1>2, <4>1, <4>2
      <4>4. QED
        BY <1>5, <4>1, <4>3 DEF NestedIn
    <3>5. QED
      BY <2>2, <3>1, <3>2, <3>3, <3>4 DEF Layout, PoolsInv
  <2>3. QED
    BY <2>1, <2>2
<1>8. \A q \in ins[f] : q = base \/ \E k \in Handles : ps1[k].base = q
  BY <1>3 DEF Layout, BasesInv
<1>9. \E r \in Arenas \cup {Default} :
        /\ r.base \in ins[f] /\ r.base <= base /\ base + cap <= r.base + r.len
        /\ r = Default => qs[0].base # 0
  <2>1. PICK r \in Arenas \cup {Default} :
          /\ r.base \in ins[f] /\ r.base <= ps[f].base
          /\ ps[f].base + ps[f].cap <= r.base + r.len
          /\ r = Default => ps[0].base # 0
    BY PoolFacts
  <2>2. r.base \in Nat /\ r.len \in Nat
    BY MemoryFacts
  <2>3. r.base <= base /\ base + cap <= r.base + r.len
    BY <1>2, <2>1, <2>2
  <2>4. 0 \in Handles \ {g}
    BY MspaceAssumption DEF Handles
  <2>5. qs[0].base = ps[0].base
    BY <1>3, <1>5, <2>4
  <2>6. QED
    BY <2>1, <2>3, <2>5
<1>10. ps1[g].base = 0
  BY <1>3
<1>11. Fits(ps1, hd, ins, g, base, cap, ins[f], qs, ins2)
  BY <1>6, <1>7, <1>8, <1>9, <1>10 DEF qs, ins2, Fits
<1>12. Layout(qs, hd, ins2)
  BY <1>1, <1>11, NewPoolKeeps
<1>13. QED
  BY <1>4, <1>12 DEF ins2

(* A pool without memory is in nobody's way.                               *)
LEMMA NoMemoryKeeps ==
  ASSUME NEW ps, NEW hd, NEW ins, Layout(ps, hd, ins), NEW g \in Handles, ps[g].base = 0,
         NEW cap \in Nat
  PROVE  Layout([ps EXCEPT ![g] = [NoMemory EXCEPT !.cap = cap]], hd, ins)
<1> DEFINE qs == [ps EXCEPT ![g] = [NoMemory EXCEPT !.cap = cap]]
<1>1. /\ qs \in [Handles -> Pool] /\ qs[g].base = 0
      /\ \A k \in Handles \ {g} : qs[k] = ps[k]
  BY DEF Layout, Pool, NoMemory
<1> HIDE DEF qs
<1>2. \A k \in Handles : qs[k].base = ps[k].base
  BY <1>1
<1>3. \A k \in Handles : qs[k].base # 0 => qs[k] = ps[k]
  BY <1>1
<1>4. BlocksInv(qs, hd)
  <2>1. \A p \in DOMAIN hd : hd[p].handle \in Handles /\ ps[hd[p].handle].base # 0
    BY BlockFacts
  <2>2. \A p \in DOMAIN hd : qs[hd[p].handle] = ps[hd[p].handle]
    BY <1>2, <1>3, <2>1
  <2>3. \A k \in Handles : qs[k].base # 0 => qs[k].used <= qs[k].cap
    BY <1>3 DEF Layout, BlocksInv
  <2>4. QED
    BY <2>2, <2>3 DEF Layout, BlocksInv
<1>5. PoolsInv(qs, hd, ins)
  BY <1>2, <1>3 DEF Layout, PoolsInv, Disjoint, NestedIn
<1>6. BasesInv(qs, ins)
  BY <1>2 DEF Layout, BasesInv
<1>7. RootsInv(qs, ins)
  <2>1. 0 \in Handles
    BY MspaceAssumption DEF Handles
  <2>2. QED
    BY <1>2, <1>3, <2>1 DEF Layout, RootsInv
<1>8. Layout(qs, hd, ins)
  BY <1>1, <1>4, <1>5, <1>6, <1>7 DEF Layout
<1>9. QED
  BY <1>8 DEF qs

-----------------------------------------------------------------------------
(* MspaceRemember: memory for the new pool, the tail of the first pool on  *)
(* the base, or none.                                                      *)
LEMMA RememberKeeps ==
  ASSUME Layout(pools, hdr, inside), NEW g \in Handles \ {0}, pools[g].base = 0,
         NEW base \in Nat \ {0}, NEW cap \in Nat, NEW place,
         SameBase(base) = {} =>
           Layout([pools EXCEPT ![g] = [base |-> base, cap |-> cap, used |-> 0]], hdr,
                  [inside EXCEPT ![g] = place]),
         MspaceRemember(g, base, cap, place)
  PROVE  /\ Layout(pools', hdr, inside')
         /\ \A h \in Handles \ {g} : pools'[h].base = pools[h].base
<1> DEFINE f == First(SameBase(base))
<1>1. pools \in [Handles -> Pool]
  BY DEF Layout
<1>2. CASE SameBase(base) = {}
  BY <1>1, <1>2 DEF MspaceRemember
<1>3. CASE SameBase(base) # {} /\ Spare(pools[f], cap)
  <2> DEFINE n == pools[f].cap - cap
  <2>1. f \in Handles /\ pools[f].base = base
    BY <1>3, FirstIsOne DEF SameBase
  <2>2. pools[f] \in Pool /\ pools[f].cap \in Nat /\ pools[f].used \in Nat
    BY <1>1, <2>1 DEF Pool
  <2>3. n \in Nat /\ pools[f].used <= n /\ n <= pools[f].cap
    BY <1>3, <2>2 DEF Spare
  <2>4. base + pools[f].cap - cap = pools[f].base + n /\ cap = pools[f].cap - n
    BY <2>1, <2>2
  <2> DEFINE tail == base + pools[f].cap - cap
  <2>5. /\ pools' = [pools EXCEPT
                       ![f].cap = pools[f].cap - cap,
                       ![g] = [base |-> base + pools[f].cap - cap, cap |-> cap, used |-> 0]]
        /\ inside' = [inside EXCEPT ![g] = inside[f]]
    BY <1>3 DEF MspaceRemember
  <2>6. g # f
    BY <2>1
  <2> HIDE DEF f
  <2>7. pools' = [pools EXCEPT
                    ![f] = [pools[f] EXCEPT !.cap = n],
                    ![g] = [base |-> tail, cap |-> cap, used |-> 0]]
    BY <1>1, <2>5, <2>6
  <2>8. tail = pools[f].base + n /\ cap = pools[f].cap - n /\ pools[f].base # 0
    BY <2>1, <2>4
  <2> HIDE DEF n, tail
  <2>9. Layout([pools EXCEPT ![f] = [pools[f] EXCEPT !.cap = n],
                             ![g] = [base |-> tail, cap |-> cap, used |-> 0]],
               hdr, [inside EXCEPT ![g] = inside[f]])
    BY ONLY Layout(pools, hdr, inside), g \in Handles \ {0}, pools[g].base = 0,
       <2>1, <2>3, <2>8, TailKeeps
  <2>10. Layout(pools', hdr, inside')
    BY <2>5, <2>7, <2>9
  <2>11. \A h \in Handles \ {g} : pools'[h].base = pools[h].base
    BY <1>1, <2>1, <2>6, <2>7 DEF Pool
  <2>12. QED
    BY <2>10, <2>11
<1>4. CASE SameBase(base) # {} /\ ~Spare(pools[f], cap)
  BY <1>1, <1>4, NoMemoryKeeps DEF MspaceRemember
<1>5. QED
  BY <1>2, <1>3, <1>4

(* Creating a pool: no block has the new handle yet.                       *)
LEMMA CreateKeeps ==
  ASSUME IInv, NEW base \in Nat \ {0}, NEW cap \in Nat, NEW place, Create(base, cap, place),
         SameBase(base) = {} =>
           Layout([pools EXCEPT ![handle + 1] = [base |-> base, cap |-> cap, used |-> 0]], hdr,
                  [inside EXCEPT ![handle + 1] = place])
  PROVE  IInv'
<1> DEFINE g == handle + 1
<1>1. /\ handle \in Nat /\ handle < MaxPools /\ handle' = g /\ usable' = usable \cup {g}
      /\ g \in Handles \ {0} /\ MspaceRemember(g, base, cap, place)
      /\ UNCHANGED <<lists, hdr, live, moved>>
  BY MspaceAssumption DEF IInv, HandlesInv, Create, Handles
<1>2. pools[g].base = 0
  BY <1>1 DEF IInv, HandlesInv
<1>3. SameBase(base) = {} =>
        Layout([pools EXCEPT ![g] = [base |-> base, cap |-> cap, used |-> 0]], hdr,
               [inside EXCEPT ![g] = place])
  OBVIOUS
<1> HIDE DEF g
<1>4. /\ Layout(pools', hdr, inside')
      /\ \A h \in Handles \ {g} : pools'[h].base = pools[h].base
  BY <1>1, <1>2, <1>3, RememberKeeps DEF IInv
<1>5. HandlesInv'
  <2>1. g = handle + 1
    BY DEF g
  <2>2. \A h \in Handles : h > g => h > handle /\ h # g
    BY <1>1, <2>1, MspaceAssumption DEF Handles
  <2>3. QED
    BY <1>1, <1>4, <2>2 DEF IInv, HandlesInv
<1>6. ListsInv'
  BY <1>1 DEF IInv, ListsInv, List
<1>7. LiveInv'
  <2>1. \A p \in DOMAIN hdr : hdr[p].handle # g
    BY <1>2, BlockFacts DEF IInv
  <2>2. \A x \in live : x \in [p : Nat, size : Nat, handle : usable']
    BY <1>1 DEF IInv, LiveInv
  <2>3. QED
    BY <1>1, <2>1, <2>2 DEF IInv, LiveInv
<1>8. QED
  BY <1>1, <1>4, <1>5, <1>6, <1>7 DEF IInv

(* sceLibcMspaceCreate on memory of the guest's own.                       *)
LEMMA CreateOnArenaKeeps ==
  ASSUME IInv, NEW r \in Arenas, NEW cap \in Caps, CreateOnArena(r, cap)
  PROVE  IInv'
<1>1. r.base \in Nat \ {0} /\ cap \in Nat /\ cap <= r.len
  BY MemoryFacts, MspaceAssumption DEF CreateOnArena
<1>2. handle + 1 \in Handles \ {0} /\ pools[handle + 1].base = 0
  BY MspaceAssumption DEF CreateOnArena, Create, IInv, HandlesInv, Handles
<1>3. SameBase(r.base) = {} =>
        Layout([pools EXCEPT ![handle + 1] = [base |-> r.base, cap |-> cap, used |-> 0]], hdr,
               [inside EXCEPT ![handle + 1] = {r.base}])
  BY <1>1, <1>2, ArenaKeeps DEF IInv, SameBase
<1>4. QED
  BY <1>1, <1>3, CreateKeeps DEF CreateOnArena

(* sceLibcMspaceCreate inside a block that an mspace gave out.             *)
LEMMA CreateInBlockKeeps ==
  ASSUME IInv, NEW x \in live, NEW cap \in Caps, CreateInBlock(x, cap)
  PROVE  IInv'
<1>1. /\ x.p \in DOMAIN hdr /\ hdr[x.p].handle = x.handle /\ x.size <= hdr[x.p].bucket
      /\ x.size \in Nat
  BY DEF IInv, LiveInv
<1>2. x.p \in Nat \ {0} /\ hdr[x.p].bucket \in Nat
  BY <1>1, BlockFacts DEF IInv
<1>3. cap \in Nat /\ cap <= hdr[x.p].bucket
  BY <1>1, <1>2, MspaceAssumption DEF CreateInBlock
<1>4. handle + 1 \in Handles \ {0} /\ pools[handle + 1].base = 0
  BY MspaceAssumption DEF CreateInBlock, Create, IInv, HandlesInv, Handles
<1>5. SameBase(x.p) = {} =>
        Layout([pools EXCEPT ![handle + 1] = [base |-> x.p, cap |-> cap, used |-> 0]], hdr,
               [inside EXCEPT ![handle + 1] = inside[x.handle] \cup {x.p}])
  BY <1>1, <1>3, <1>4, BlockPoolKeeps DEF IInv, SameBase
<1>6. QED
  BY <1>2, <1>3, <1>5, CreateKeeps DEF CreateInBlock

(* A destroyed pool keeps its memory, its blocks and its lists.            *)
LEMMA DestroyKeeps ==
  ASSUME IInv, NEW h \in Handles, Destroy(h)
  PROVE  IInv'
<1>1. /\ usable' = usable \ {h} /\ live' = {x \in live : x.handle # h}
      /\ UNCHANGED <<pools, handle, lists, hdr, moved, inside>>
  BY DEF Destroy
<1>2. HandlesInv'
  BY <1>1 DEF IInv, HandlesInv
<1>3. ListsInv'
  BY <1>1 DEF IInv, ListsInv, List
<1>4. LiveInv'
  <2>1. \A x \in live' : x \in [p : Nat, size : Nat, handle : usable']
    BY <1>1 DEF IInv, LiveInv
  <2>2. QED
    BY <1>1, <2>1 DEF IInv, LiveInv
<1>5. QED
  BY <1>1, <1>2, <1>3, <1>4 DEF IInv

-----------------------------------------------------------------------------
(* The vector whose entry was taken out holds the others, each once.       *)
LEMMA WithoutAtHolds ==
  ASSUME NEW list \in Seq(Nat), NEW i \in DOMAIN list,
         \A j, k \in DOMAIN list : list[j] = list[k] => j = k
  PROVE  LET w == WithoutAt(list, i) IN
         /\ w \in Seq(Nat)
         /\ \A j \in DOMAIN w : \E k \in DOMAIN list : k # i /\ w[j] = list[k]
         /\ \A j, k \in DOMAIN w : w[j] = w[k] => j = k
         /\ \A k \in DOMAIN list : k # i => \E j \in DOMAIN w : w[j] = list[k]
<1> DEFINE n == Len(list)
           w == WithoutAt(list, i)
<1>1. n \in Nat /\ DOMAIN list = 1 .. n /\ i \in 1 .. n /\ n - 1 \in Nat
      /\ \A j \in 1 .. n : list[j] \in Nat
  OBVIOUS
<1>2. /\ w \in [1 .. n - 1 -> Nat]
      /\ \A j \in 1 .. n - 1 : w[j] = IF j = i THEN list[n] ELSE list[j]
  BY <1>1 DEF WithoutAt
<1> HIDE DEF w, n
<1>3. w \in Seq(Nat) /\ DOMAIN w = 1 .. n - 1
  BY <1>1, <1>2
<1>4. ASSUME NEW j \in DOMAIN w
      PROVE  \E k \in DOMAIN list : k # i /\ w[j] = list[k] /\ k = IF j = i THEN n ELSE j
  BY <1>1, <1>2, <1>3
<1>5. ASSUME NEW j \in DOMAIN w, NEW k \in DOMAIN w, w[j] = w[k]
      PROVE  j = k
  <2>1. (IF j = i THEN n ELSE j) = (IF k = i THEN n ELSE k)
    BY <1>4, <1>5
  <2>2. QED
    BY <1>1, <1>3, <2>1
<1>6. ASSUME NEW k \in DOMAIN list, k # i
      PROVE  \E j \in DOMAIN w : w[j] = list[k]
  <2>1. CASE k = n
    BY <1>1, <1>2, <1>3, <1>6, <2>1
  <2>2. CASE k # n
    BY <1>1, <1>2, <1>3, <1>6, <2>2
  <2>3. QED
    BY <2>1, <2>2
<1>7. QED
  BY <1>3, <1>4, <1>5, <1>6 DEF w

(* A block appended to a vector that does not hold it.                     *)
LEMMA AppendHolds ==
  ASSUME NEW list \in Seq(Nat), NEW p \in Nat
  PROVE  LET w == Append(list, p) IN
         /\ w \in Seq(Nat)
         /\ DOMAIN list \subseteq DOMAIN w /\ Len(list) + 1 \in DOMAIN w
         /\ w[Len(list) + 1] = p
         /\ \A i \in DOMAIN list : w[i] = list[i]
         /\ \A i \in DOMAIN w : i \in DOMAIN list \/ i = Len(list) + 1
OBVIOUS

(* The lists of handles, of one who looks for a bucket.                    *)
LEMMA ListHolds ==
  ASSUME ListsInv, NEW h \in Handles, NEW b
  PROVE  /\ List(h, b) \in Seq(Nat)
         /\ \A i \in DOMAIN List(h, b) :
              /\ b \in DOMAIN lists[h]
              /\ List(h, b)[i] \in DOMAIN hdr /\ hdr[List(h, b)[i]] = Header("free", h, b)
         /\ \A i, j \in DOMAIN List(h, b) : List(h, b)[i] = List(h, b)[j] => i = j
BY DEF ListsInv, List

-----------------------------------------------------------------------------
(* A block that was free or did not exist is given out: nobody else has    *)
(* it, and it is as large as was asked for.                                *)
LEMMA GivenOutKeeps ==
  ASSUME LiveInv, usable \subseteq Handles, NEW h \in usable, NEW n \in Nat \ {0}, NEW p \in Nat,
         p \in DOMAIN hdr => hdr[p].magic = "free",
         hdr' = Put(hdr, p, Header("used", h, Bucket(n))), live' = live \cup {Block(p, n, h)},
         UNCHANGED <<usable, moved>>
  PROVE  LiveInv'
<1>1. /\ DOMAIN hdr' = DOMAIN hdr \cup {p} /\ hdr'[p] = Header("used", h, Bucket(n))
      /\ \A q \in DOMAIN hdr : q # p => hdr'[q] = hdr[q]
  <2> DEFINE H == Header("used", h, Bucket(n))
  <2>1. hdr' = Put(hdr, p, H)
    OBVIOUS
  <2> HIDE DEF H
  <2>2. /\ DOMAIN hdr' = DOMAIN hdr \cup {p} /\ hdr'[p] = H
        /\ \A q \in DOMAIN hdr : q # p => hdr'[q] = hdr[q]
    BY ONLY <2>1 DEF Put
  <2>3. QED
    BY <2>2 DEF H
<1>2. /\ hdr'[p].magic = "used" /\ hdr'[p].handle = h /\ hdr'[p].bucket = Bucket(n)
      /\ n <= Bucket(n)
  BY <1>1, BucketFits DEF Header
<1> DEFINE y == Block(p, n, h)
<1>3. y.p = p /\ y.size = n /\ y.handle = h /\ y \in [p : Nat, size : Nat, handle : usable']
  BY DEF Block
<1>4. \A x \in live : x.p # p
  BY DEF LiveInv
<1>5. live' = live \cup {y}
  OBVIOUS
<1> HIDE DEF y
<1>6. ASSUME NEW x \in live'
      PROVE  /\ x \in [p : Nat, size : Nat, handle : usable']
             /\ x.p \in DOMAIN hdr' /\ hdr'[x.p].magic = "used"
             /\ hdr'[x.p].handle = x.handle /\ x.size <= hdr'[x.p].bucket
  <2>1. CASE x = y
    BY <1>1, <1>2, <1>3, <2>1
  <2>2. CASE x # y
    BY <1>1, <1>4, <1>5, <2>2 DEF LiveInv
  <2>3. QED
    BY <2>1, <2>2
<1>7. \A x, z \in live' : x.p = z.p => x = z
  BY <1>3, <1>4, <1>5 DEF LiveInv
<1>8. ASSUME NEW q \in DOMAIN hdr', hdr'[q].magic = "used", hdr'[q].handle \in usable'
      PROVE  q \in moved' \/ \E x \in live' : x.p = q
  <2>1. CASE q = p
    BY <1>3, <1>5, <2>1
  <2>2. CASE q # p
    BY <1>1, <1>5, <1>8, <2>2 DEF LiveInv
  <2>3. QED
    BY <2>1, <2>2
<1>9. QED
  BY <1>6, <1>7, <1>8 DEF LiveInv

(* A block used again leaves the list it was on, and only that one.        *)
LEMMA ReuseKeeps ==
  ASSUME IInv, NEW h \in usable, NEW n \in Sizes, NEW align \in Aligns, Reuse(h, n, align),
         UNCHANGED <<handle, usable, moved, inside>>
  PROVE  IInv'
<1> DEFINE b == Bucket(n)
           list == List(h, b)
           i == Last(Reusable(list, align))
           p == list[i]
<1>1. h \in Handles /\ usable \subseteq Handles /\ n \in Nat \ {0} /\ b \in Nat \ {0}
  BY BucketFits, MspaceAssumption DEF IInv, HandlesInv
<1>2. /\ list \in Seq(Nat)
      /\ \A j \in DOMAIN list : b \in DOMAIN lists[h] /\ list[j] \in DOMAIN hdr
           /\ hdr[list[j]] = Header("free", h, b)
      /\ \A j, k \in DOMAIN list : list[j] = list[k] => j = k
  BY <1>1, ListHolds DEF IInv
<1>3. i \in DOMAIN list
  <2>1. Reusable(list, align) # {} /\ Reusable(list, align) \in SUBSET (1 .. Len(list))
        /\ Len(list) \in Nat
    BY <1>2 DEF Reuse, Reusable
  <2>2. i \in Reusable(list, align)
    BY <2>1, LastIsOne
  <2>3. QED
    BY <2>2 DEF Reusable
<1>4. /\ b \in DOMAIN lists[h] /\ list = lists[h][b]
      /\ p \in DOMAIN hdr /\ p \in Nat /\ hdr[p] = Header("free", h, b)
  BY <1>2, <1>3 DEF List
<1>5. /\ lists' = [lists EXCEPT ![h][b] = WithoutAt(lists[h][b], i)]
      /\ hdr' = Put(hdr, p, Header("used", h, b))
      /\ live' = live \cup {Block(p, n, h)} /\ pools' = pools
  BY DEF Reuse
<1>6. PICK w : /\ w = WithoutAt(list, i) /\ w \in Seq(Nat)
               /\ \A j \in DOMAIN w : \E k \in DOMAIN list : k # i /\ w[j] = list[k]
               /\ \A j, k \in DOMAIN w : w[j] = w[k] => j = k
               /\ \A k \in DOMAIN list : k # i => \E j \in DOMAIN w : w[j] = list[k]
  BY <1>2, <1>3, WithoutAtHolds
<1>7. /\ DOMAIN lists' = Handles
      /\ \A g \in Handles \ {h} : lists'[g] = lists[g]
      /\ DOMAIN lists'[h] = DOMAIN lists[h] /\ lists'[h][b] = w
      /\ \A c \in DOMAIN lists[h] \ {b} : lists'[h][c] = lists[h][c]
  BY <1>1, <1>4, <1>5, <1>6 DEF IInv, ListsInv
<1>8. LiveInv'
  <2>1. hdr[p].magic = "free" /\ hdr' = Put(hdr, p, Header("used", h, Bucket(n)))
    BY <1>4, <1>5 DEF Header
  <2> HIDE DEF p, b
  <2>2. QED
    BY <1>1, <1>4, <1>5, <2>1, GivenOutKeeps DEF IInv
<1>9. PICK H : H = Header("used", h, b)
  OBVIOUS
<1>10. /\ DOMAIN hdr' = DOMAIN hdr /\ hdr'[p] = H
       /\ \A q \in DOMAIN hdr : q # p => hdr'[q] = hdr[q]
  <2> HIDE DEF p, b
  <2>1. QED
    BY <1>4, <1>5, <1>9 DEF Put
<1>11. H.magic = "used" /\ H.bucket = b /\ H.handle = h /\ H \in Hdr
  BY <1>1, <1>9 DEF Header, Hdr
<1>12. hdr[p].magic = "free" /\ hdr[p].bucket = b /\ hdr[p].handle = h
  BY <1>4 DEF Header
<1> HIDE DEF p, i, list, b
<1>13. Layout(pools', hdr', inside')
  <2>1. PICK hd2 : hd2 = hdr'
    OBVIOUS
  <2>2. /\ DOMAIN hd2 = DOMAIN hdr
        /\ \A q \in DOMAIN hdr :
             hd2[q] \in Hdr /\ hd2[q].bucket = hdr[q].bucket /\ hd2[q].handle = hdr[q].handle
    BY <1>10, <1>11, <1>12, <2>1 DEF IInv, Layout
  <2>3. Layout(pools, hd2, inside)
    BY <2>2, SameLayout DEF IInv
  <2>4. QED
    BY <1>5, <2>1, <2>3
<1>14. ListsInv'
  <2>1. ASSUME NEW g \in Handles, NEW c \in DOMAIN lists'[g]
        PROVE  /\ lists'[g][c] \in Seq(Nat)
               /\ \A j \in DOMAIN lists'[g][c] :
                    /\ lists'[g][c][j] \in DOMAIN hdr'
                    /\ hdr'[lists'[g][c][j]] = Header("free", g, c)
               /\ \A j, k \in DOMAIN lists'[g][c] : lists'[g][c][j] = lists'[g][c][k] => j = k
    <3>1. CASE g = h /\ c = b
      <4>1. ASSUME NEW j \in DOMAIN w
            PROVE  w[j] \in DOMAIN hdr /\ w[j] # p /\ hdr[w[j]] = Header("free", h, b)
        <5>1. PICK k \in DOMAIN list : k # i /\ w[j] = list[k]
          BY <1>6
        <5>2. list[k] # list[i]
          BY <1>2, <1>3, <5>1
        <5>3. QED
          BY <1>2, <5>1, <5>2 DEF p
      <4>2. QED
        BY <1>6, <1>7, <1>10, <3>1, <4>1
    <3>2. CASE ~(g = h /\ c = b)
      <4>1. c \in DOMAIN lists[g] /\ lists'[g][c] = lists[g][c]
        BY <1>7, <2>1, <3>2
      <4>2. \A j \in DOMAIN lists[g][c] :
              lists[g][c][j] \in DOMAIN hdr /\ hdr[lists[g][c][j]] = Header("free", g, c)
        BY <4>1 DEF IInv, ListsInv
      <4>3. \A j \in DOMAIN lists[g][c] : lists[g][c][j] # p
        BY <1>12, <3>2, <4>2 DEF Header
      <4>4. QED
        BY <1>10, <4>1, <4>2, <4>3 DEF IInv, ListsInv
    <3>3. QED
      BY <3>1, <3>2
  <2>2. ASSUME NEW q \in DOMAIN hdr', hdr'[q].magic = "free"
        PROVE  LET l == IF hdr'[q].bucket \in DOMAIN lists'[hdr'[q].handle]
                        THEN lists'[hdr'[q].handle][hdr'[q].bucket] ELSE <<>> IN
               \E j \in DOMAIN l : l[j] = q
    <3>1. q # p /\ q \in DOMAIN hdr /\ hdr'[q] = hdr[q] /\ hdr[q].magic = "free"
      BY <1>10, <1>11, <2>2
    <3>2. PICK g, c : g = hdr[q].handle /\ c = hdr[q].bucket
      OBVIOUS
    <3>3. g \in Handles
      BY <3>1, <3>2, BlockFacts DEF IInv
    <3>4. PICK k \in DOMAIN List(g, c) : List(g, c)[k] = q
      BY <3>1, <3>2 DEF IInv, ListsInv
    <3>5. c \in DOMAIN lists[g] /\ List(g, c) = lists[g][c]
      BY <3>3, <3>4, ListHolds DEF IInv, List
    <3>6. CASE g = h /\ c = b
      <4>1. k # i /\ k \in DOMAIN list /\ list[k] = q
        BY <3>1, <3>4, <3>6 DEF p, list
      <4>2. PICK j \in DOMAIN w : w[j] = q
        BY <1>6, <4>1
      <4>3. QED
        BY <1>7, <3>1, <3>2, <3>5, <3>6, <4>2
    <3>7. CASE ~(g = h /\ c = b)
      <4>1. c \in DOMAIN lists'[g] /\ lists'[g][c] = lists[g][c]
        BY <1>7, <3>3, <3>5, <3>7
      <4>2. QED
        BY <3>1, <3>2, <3>4, <3>5, <4>1
    <3>8. QED
      BY <3>6, <3>7
  <2>3. QED
    BY <1>7, <2>1, <2>2 DEF ListsInv, List
<1>15. HandlesInv'
  BY <1>5 DEF IInv, HandlesInv
<1>16. QED
  BY <1>8, <1>13, <1>14, <1>15 DEF IInv

(* The pool with its memory, as EnsureDefaultMspace leaves it.             *)
LEMMA EnsuredLayout ==
  ASSUME Layout(pools, hdr, inside), NEW h \in Handles
  PROVE  /\ Layout([pools EXCEPT ![h] = Ensured(h)], hdr, inside)
         /\ [pools EXCEPT ![h] = Ensured(h)] \in [Handles -> Pool]
         /\ h # 0 => [pools EXCEPT ![h] = Ensured(h)] = pools
<1>1. pools \in [Handles -> Pool]
  BY DEF Layout
<1>2. CASE h = 0 /\ pools[0].base = 0
  <2>1. Ensured(h) = [base |-> Default.base, cap |-> Default.len, used |-> 0]
    BY <1>2 DEF Ensured
  <2>2. Layout([pools EXCEPT ![0] = [base |-> Default.base, cap |-> Default.len, used |-> 0]],
               hdr, inside)
    BY <1>2, EnsureKeeps
  <2>3. QED
    BY <1>2, <2>1, <2>2 DEF Layout
<1>3. CASE ~(h = 0 /\ pools[0].base = 0)
  <2>1. [pools EXCEPT ![h] = Ensured(h)] = pools
    BY <1>1, <1>3 DEF Ensured
  <2>2. QED
    BY <1>1, <2>1
<1>4. QED
  BY <1>2, <1>3

(* A block carved behind the others; or nothing but the memory of pool 0.  *)
LEMMA CarveStepKeeps ==
  ASSUME IInv, NEW h \in usable, NEW n \in Sizes, NEW align \in Aligns, Carve(h, n, align),
         UNCHANGED <<handle, usable, moved, inside>>
  PROVE  IInv'
<1> DEFINE m == Ensured(h)
           p == BlockAt(m, align)
           b == Bucket(n)
           qs == [pools EXCEPT ![h] = m]
<1>1. h \in Handles /\ usable \subseteq Handles /\ n \in Nat \ {0} /\ b \in Nat \ {0}
      /\ align \in Nat \ {0}
  BY BucketFits, MspaceAssumption DEF IInv, HandlesInv
<1>2. /\ Layout(qs, hdr, inside) /\ qs \in [Handles -> Pool] /\ (h # 0 => qs = pools)
      /\ pools \in [Handles -> Pool]
  BY <1>1, EnsuredLayout DEF IInv, Layout
<1>3. /\ qs[h] = m /\ m \in Pool
      /\ m.base \in Nat /\ m.cap \in Nat /\ m.used \in Nat
      /\ \A g \in Handles \ {0} : qs[g] = pools[g]
  <2>1. qs[h] = m
    BY <1>1, <1>2
  <2>2. m \in Pool
    BY <1>1, <1>2, <2>1
  <2>3. \A g \in Handles \ {0} : qs[g] = pools[g]
    BY <1>1, <1>2
  <2>4. QED
    BY <2>1, <2>2, <2>3 DEF Pool
<1>4. p \in Nat /\ m.base + m.used + 1 <= p
  <2>1. m.base + m.used + 1 \in Nat
    BY <1>3
  <2> HIDE DEF m
  <2>2. QED
    BY <1>1, <2>1, RoundUpFits DEF BlockAt, HdrLen
<1>5. CASE /\ m.base # 0 /\ p + b <= m.base + m.cap
           /\ pools' = [pools EXCEPT ![h] = [m EXCEPT !.used = (p + b) - m.base]]
           /\ hdr' = Put(hdr, p, Header("used", h, b))
           /\ live' = live \cup {Block(p, n, h)} /\ lists' = lists
  <2>1. pools' = [qs EXCEPT ![h] = [qs[h] EXCEPT !.used = (p + b) - qs[h].base]]
    BY <1>1, <1>2, <1>3, <1>5
  <2>2. /\ qs[h].base # 0 /\ qs[h].base + qs[h].used + 1 <= p
        /\ p + b <= qs[h].base + qs[h].cap /\ p < qs[h].base + qs[h].cap
    BY <1>1, <1>3, <1>4, <1>5
  <2>3. hdr' = Put(hdr, p, Header("used", h, b)) /\ live' = live \cup {Block(p, n, h)}
        /\ lists' = lists
    BY <1>5
  <2>4. \A g \in Handles \ {0} : pools'[g].base = pools[g].base
    BY <1>1, <1>2, <1>3, <2>1 DEF Pool
  <2> HIDE DEF qs, m, p, b
  <2>5. Layout([qs EXCEPT ![h] = [qs[h] EXCEPT !.used = (p + b) - qs[h].base]],
               Put(hdr, p, Header("used", h, b)), inside)
    BY <1>1, <1>2, <1>4, <2>2, CarveKeeps
  <2>6. p \notin DOMAIN hdr
    BY <1>1, <1>2, <1>4, <2>2, BehindUsedIsNew
  <2>7. Layout(pools', hdr', inside')
    BY <2>1, <2>3, <2>5
  <2>8. HandlesInv'
    <3>1. \A g \in Handles : g > handle => g # 0
      BY MspaceAssumption DEF IInv, HandlesInv, Handles
    <3>2. QED
      BY <2>4, <3>1 DEF IInv, HandlesInv
  <2>9. LiveInv'
    <3>1. hdr' = Put(hdr, p, Header("used", h, Bucket(n)))
      BY <2>3 DEF b
    <3>2. QED
      BY <1>1, <1>4, <2>3, <2>6, <3>1, GivenOutKeeps DEF IInv
  <2>10. ListsInv'
    <3>1. PICK H : H = Header("used", h, b)
      OBVIOUS
    <3>2. /\ DOMAIN hdr' = DOMAIN hdr \cup {p} /\ hdr'[p] = H
          /\ \A q \in DOMAIN hdr : hdr'[q] = hdr[q]
      BY <2>3, <2>6, <3>1 DEF Put
    <3>3. H.magic = "used"
      BY <3>1 DEF Header
    <3>4. ASSUME NEW g \in Handles, NEW c \in DOMAIN lists[g]
          PROVE  /\ lists[g][c] \in Seq(Nat)
                 /\ \A j \in DOMAIN lists[g][c] :
                      /\ lists[g][c][j] \in DOMAIN hdr'
                      /\ hdr'[lists[g][c][j]] = Header("free", g, c)
                 /\ \A j, k \in DOMAIN lists[g][c] : lists[g][c][j] = lists[g][c][k] => j = k
      BY <3>2, <3>4 DEF IInv, ListsInv
    <3>5. ASSUME NEW q \in DOMAIN hdr', hdr'[q].magic = "free"
          PROVE  q \in DOMAIN hdr /\ hdr'[q] = hdr[q] /\ hdr[q].magic = "free"
      BY <3>2, <3>3, <3>5
    <3>6. QED
      BY <2>3, <3>4, <3>5 DEF IInv, ListsInv, List
  <2>11. QED
    BY <2>7, <2>8, <2>9, <2>10 DEF IInv
<1>6. CASE pools' = [pools EXCEPT ![h] = m] /\ UNCHANGED <<hdr, live, lists>>
  <2>1. Layout(pools', hdr', inside')
    BY <1>2, <1>6
  <2>2. HandlesInv'
    <3>1. \A g \in Handles : g > handle => g # 0
      BY MspaceAssumption DEF IInv, HandlesInv, Handles
    <3>2. QED
      BY <1>3, <1>6, <3>1 DEF IInv, HandlesInv
  <2>3. ListsInv' /\ LiveInv'
    BY <1>6 DEF IInv, ListsInv, LiveInv, List
  <2>4. QED
    BY <2>1, <2>2, <2>3 DEF IInv
<1>7. \/ /\ m.base # 0 /\ p + b <= m.base + m.cap
         /\ pools' = [pools EXCEPT ![h] = [m EXCEPT !.used = (p + b) - m.base]]
         /\ hdr' = Put(hdr, p, Header("used", h, b))
         /\ live' = live \cup {Block(p, n, h)}
      \/ /\ pools' = [pools EXCEPT ![h] = m]
         /\ UNCHANGED <<hdr, live>>
  BY ONLY Carve(h, n, align) DEF Carve
<1>8. lists' = lists
  BY ONLY Carve(h, n, align) DEF Carve
<1> HIDE DEF m, p, b
<1>9. QED
  BY <1>5, <1>6, <1>7, <1>8

(* Realloc remembers the block that it left behind.                        *)
LEMMA ReallocKeeps ==
  ASSUME IInv, NEW x \in live, Realloc(x)
  PROVE  IInv'
<1>1. /\ live' = live \ {x} /\ moved' = moved \cup {x.p}
      /\ UNCHANGED <<pools, handle, lists, hdr, usable, inside>>
  BY DEF Realloc
<1>2. HandlesInv' /\ ListsInv'
  BY <1>1 DEF IInv, HandlesInv, ListsInv, List
<1>3. LiveInv'
  BY <1>1 DEF IInv, LiveInv
<1>4. QED
  BY <1>1, <1>2, <1>3 DEF IInv

-----------------------------------------------------------------------------
(* A block the guest has lies in the memory of its pool, so that Free finds *)
(* a pool for it, and its header is that of a block in use.                *)
LEMMA HeldIsReclaimable ==
  ASSUME IInv, NEW x \in live
  PROVE  Reclaimable(x.p)
<1> DEFINE p == x.p
           h == hdr[p].handle
<1>1. p \in DOMAIN hdr /\ hdr[p].magic = "used"
  BY DEF IInv, LiveInv
<1> HIDE DEF p
<1>2. /\ h \in Handles /\ p \in Nat /\ hdr[p].bucket \in Nat \ {0} /\ pools[h].base # 0
      /\ pools[h].base \in Nat /\ pools[h].cap \in Nat /\ pools[h].used \in Nat
      /\ pools[h].used <= pools[h].cap
      /\ pools[h].base + 1 <= p /\ p + hdr[p].bucket <= pools[h].base + pools[h].used
  BY <1>1, BlockFacts DEF IInv
<1> HIDE DEF h
<1>3. h \in Holding(p)
  BY <1>2 DEF Holding, HdrLen
<1>4. QED
  BY <1>1, <1>3 DEF Reclaimable, p

(* A freed block goes to the list of its own pool and bucket.              *)
LEMMA FreeKeeps ==
  ASSUME IInv, NEW x \in live, Free(x)
  PROVE  IInv'
<1> DEFINE p == x.p
           h == hdr[p].handle
           b == hdr[p].bucket
           list == List(h, b)
<1>1. /\ live' = live \ {x} /\ UNCHANGED <<pools, handle, usable, moved, inside>>
      /\ lists' = [lists EXCEPT ![h] = Put(lists[h], b, Append(list, p))]
      /\ hdr' = [hdr EXCEPT ![p].magic = "free"]
  BY HeldIsReclaimable DEF Free, MspaceReclaim, Home
<1>2. /\ p \in DOMAIN hdr /\ hdr[p].magic = "used" /\ h = x.handle
      /\ \A y \in live : y # x => y.p # p
  BY DEF IInv, LiveInv
<1>3. h \in Handles /\ p \in Nat /\ b \in Nat \ {0} /\ hdr[p] \in Hdr
  <2> HIDE DEF p
  <2>1. QED
    BY <1>2, BlockFacts DEF IInv, Layout
<1>4. /\ list \in Seq(Nat)
      /\ \A j \in DOMAIN list : b \in DOMAIN lists[h] /\ list[j] \in DOMAIN hdr
           /\ hdr[list[j]] = Header("free", h, b)
      /\ \A j, k \in DOMAIN list : list[j] = list[k] => j = k
  BY <1>3, ListHolds DEF IInv
<1>5. PICK n : n = Len(list) + 1
  OBVIOUS
<1>6. PICK w : /\ w = Append(list, p) /\ w \in Seq(Nat)
               /\ DOMAIN list \subseteq DOMAIN w /\ n \in DOMAIN w /\ w[n] = p
               /\ \A j \in DOMAIN list : w[j] = list[j]
               /\ \A j \in DOMAIN w : j \in DOMAIN list \/ j = n
  <2>1. PICK w : w = Append(list, p)
    OBVIOUS
  <2>2. p \in Nat /\ list \in Seq(Nat)
    BY <1>3, <1>4
  <2> HIDE DEF p, list
  <2>3. QED
    BY <1>5, <2>1, <2>2, AppendHolds
<1>7. /\ DOMAIN lists' = Handles
      /\ \A g \in Handles \ {h} : lists'[g] = lists[g]
      /\ DOMAIN lists'[h] = DOMAIN lists[h] \cup {b} /\ lists'[h][b] = w
      /\ \A c \in DOMAIN lists[h] \ {b} : lists'[h][c] = lists[h][c]
  <2>1. lists'[h] = Put(lists[h], b, w) /\ DOMAIN lists' = Handles
        /\ \A g \in Handles \ {h} : lists'[g] = lists[g]
    BY <1>1, <1>3, <1>6 DEF IInv, ListsInv
  <2>2. QED
    BY <2>1 DEF Put
<1>8. /\ DOMAIN hdr' = DOMAIN hdr
      /\ hdr'[p] = Header("free", h, b)
      /\ hdr'[p] \in Hdr /\ hdr'[p].bucket = b /\ hdr'[p].handle = h /\ hdr'[p].magic = "free"
      /\ \A q \in DOMAIN hdr : q # p => hdr'[q] = hdr[q]
  <2>1. DOMAIN hdr' = DOMAIN hdr /\ hdr'[p] = [hdr[p] EXCEPT !.magic = "free"]
        /\ \A q \in DOMAIN hdr : q # p => hdr'[q] = hdr[q]
    BY <1>1, <1>2
  <2>2. [hdr[p] EXCEPT !.magic = "free"] = Header("free", h, b)
    BY <1>3 DEF Hdr, Header
  <2>3. PICK H : H = Header("free", h, b)
    OBVIOUS
  <2>4. H.magic = "free" /\ H.bucket = b /\ H.handle = h /\ H \in Hdr
    BY <1>3, <2>3 DEF Header, Hdr
  <2>5. QED
    BY <2>1, <2>2, <2>3, <2>4
<1>9. \A j \in DOMAIN list : list[j] # p
  BY <1>2, <1>4 DEF Header
<1>10. b = hdr[p].bucket /\ h = hdr[p].handle /\ list = List(h, b) /\ p = x.p
  OBVIOUS
<1> HIDE DEF p, h, b, list
<1>11. Layout(pools', hdr', inside')
  <2>1. PICK hd2 : hd2 = hdr'
    OBVIOUS
  <2>2. /\ DOMAIN hd2 = DOMAIN hdr
        /\ \A q \in DOMAIN hdr :
             hd2[q] \in Hdr /\ hd2[q].bucket = hdr[q].bucket /\ hd2[q].handle = hdr[q].handle
    BY <1>8, <1>10, <2>1 DEF IInv, Layout
  <2>3. Layout(pools, hd2, inside)
    BY <2>2, SameLayout DEF IInv
  <2>4. QED
    BY <1>1, <2>1, <2>3
<1>12. ListsInv'
  <2>1. ASSUME NEW g \in Handles, NEW c \in DOMAIN lists'[g]
        PROVE  /\ lists'[g][c] \in Seq(Nat)
               /\ \A j \in DOMAIN lists'[g][c] :
                    /\ lists'[g][c][j] \in DOMAIN hdr'
                    /\ hdr'[lists'[g][c][j]] = Header("free", g, c)
               /\ \A j, k \in DOMAIN lists'[g][c] : lists'[g][c][j] = lists'[g][c][k] => j = k
    <3>1. CASE g = h /\ c = b
      <4>1. \A j \in DOMAIN w : w[j] \in DOMAIN hdr' /\ hdr'[w[j]] = Header("free", h, b)
        BY <1>2, <1>4, <1>6, <1>8, <1>9
      <4>2. \A j, k \in DOMAIN w : w[j] = w[k] => j = k
        BY <1>4, <1>6, <1>9
      <4>3. lists'[g][c] = w
        BY <1>7, <3>1
      <4>4. QED
        BY <1>6, <3>1, <4>1, <4>2, <4>3
    <3>2. CASE ~(g = h /\ c = b)
      <4>1. c \in DOMAIN lists[g] /\ lists'[g][c] = lists[g][c]
        BY <1>7, <2>1, <3>2
      <4>2. \A j \in DOMAIN lists[g][c] :
              lists[g][c][j] \in DOMAIN hdr /\ hdr[lists[g][c][j]] = Header("free", g, c)
        BY <4>1 DEF IInv, ListsInv
      <4>3. \A j \in DOMAIN lists[g][c] : lists[g][c][j] # p
        BY <1>2, <4>2 DEF Header
      <4>4. QED
        BY <1>8, <4>1, <4>2, <4>3 DEF IInv, ListsInv
    <3>3. QED
      BY <3>1, <3>2
  <2>2. ASSUME NEW q \in DOMAIN hdr', hdr'[q].magic = "free"
        PROVE  LET l == IF hdr'[q].bucket \in DOMAIN lists'[hdr'[q].handle]
                        THEN lists'[hdr'[q].handle][hdr'[q].bucket] ELSE <<>> IN
               \E j \in DOMAIN l : l[j] = q
    <3>1. CASE q = p
      BY <1>6, <1>7, <1>8, <3>1
    <3>2. CASE q # p
      <4>1. q \in DOMAIN hdr /\ hdr'[q] = hdr[q] /\ hdr[q].magic = "free"
        BY <1>8, <2>2, <3>2
      <4>2. PICK g, c : g = hdr[q].handle /\ c = hdr[q].bucket
        OBVIOUS
      <4>3. g \in Handles
        BY <4>1, <4>2, BlockFacts DEF IInv
      <4>4. PICK k \in DOMAIN List(g, c) : List(g, c)[k] = q
        BY <4>1, <4>2 DEF IInv, ListsInv
      <4>5. c \in DOMAIN lists[g] /\ List(g, c) = lists[g][c]
        BY <4>3, <4>4, ListHolds DEF IInv, List
      <4>6. CASE g = h /\ c = b
        <5>1. hdr'[q].handle = h /\ hdr'[q].bucket = b
          BY <4>1, <4>2, <4>6
        <5>2. k \in DOMAIN w /\ w[k] = q
          BY <1>6, <1>10, <4>4, <4>6
        <5>3. QED
          BY <1>7, <5>1, <5>2
      <4>7. CASE ~(g = h /\ c = b)
        <5>1. c \in DOMAIN lists'[g] /\ lists'[g][c] = lists[g][c]
          BY <1>7, <4>3, <4>5, <4>7
        <5>2. QED
          BY <4>1, <4>2, <4>4, <4>5, <5>1
      <4>8. QED
        BY <4>6, <4>7
    <3>3. QED
      BY <3>1, <3>2
  <2>3. QED
    BY <1>7, <2>1, <2>2 DEF ListsInv, List
<1>13. LiveInv'
  <2>1. ASSUME NEW y \in live'
        PROVE  /\ y \in [p : Nat, size : Nat, handle : usable']
               /\ y.p \in DOMAIN hdr' /\ hdr'[y.p].magic = "used"
               /\ hdr'[y.p].handle = y.handle /\ y.size <= hdr'[y.p].bucket
    <3>1. y \in live /\ y # x /\ y.p # p
      BY <1>1, <1>2
    <3>2. QED
      BY <1>1, <1>8, <3>1 DEF IInv, LiveInv
  <2>2. \A y, z \in live' : y.p = z.p => y = z
    BY <1>1 DEF IInv, LiveInv
  <2>3. ASSUME NEW q \in DOMAIN hdr', hdr'[q].magic = "used", hdr'[q].handle \in usable'
        PROVE  q \in moved' \/ \E y \in live' : y.p = q
    <3>1. q # p /\ q \in DOMAIN hdr /\ hdr'[q] = hdr[q]
      BY <1>8, <2>3
    <3>2. q \in moved \/ \E y \in live : y.p = q
      BY <1>1, <2>3, <3>1 DEF IInv, LiveInv
    <3>3. QED
      BY <1>1, <1>10, <3>1, <3>2
  <2>4. QED
    BY <2>1, <2>2, <2>3 DEF LiveInv
<1>14. HandlesInv'
  BY <1>1 DEF IInv, HandlesInv
<1>15. QED
  BY <1>11, <1>12, <1>13, <1>14 DEF IInv

(* A block freed again is in its list already: nothing happens.            *)
LEMMA FreeAgainKeeps ==
  ASSUME IInv, NEW p \in DOMAIN hdr, FreeAgain(p)
  PROVE  IInv'
<1>1. UNCHANGED <<pools, handle, lists, hdr, usable, live, moved, inside>>
  BY DEF FreeAgain, MspaceReclaim, Reclaimable
<1>2. QED
  BY <1>1 DEF IInv, HandlesInv, ListsInv, LiveInv, List

-----------------------------------------------------------------------------
(* Before the first call no pool has memory and no block exists.           *)
LEMMA Initially == Init => IInv
<1> SUFFICES ASSUME Init PROVE IInv
  OBVIOUS
<1>1. 0 \in Handles /\ Default.base \in Nat \ {0}
  BY MemoryFacts, MspaceAssumption DEF Handles
<1>2. /\ pools \in [Handles -> Pool] /\ \A h \in Handles : pools[h].base = 0
      /\ DOMAIN hdr = {} /\ live = {} /\ usable = {0} /\ handle = 0
  BY DEF Init, Pool, NoMemory
<1>3. inside \in [Handles -> SUBSET (Nat \ {0})] /\ inside[0] = {Default.base}
  BY <1>1 DEF Init
<1>4. Layout(pools, hdr, inside)
  BY <1>1, <1>2, <1>3 DEF Layout, BlocksInv, PoolsInv, BasesInv, RootsInv
<1>5. HandlesInv
  BY <1>1, <1>2 DEF HandlesInv, Handles
<1>6. ListsInv
  <2>1. DOMAIN lists = Handles /\ \A h \in Handles : DOMAIN lists[h] = {}
    BY DEF Init
  <2>2. QED
    BY <1>2, <2>1 DEF ListsInv
<1>7. LiveInv
  BY <1>2 DEF LiveInv
<1>8. QED
  BY <1>4, <1>5, <1>6, <1>7 DEF IInv

(* Every call keeps the layout, the lists and what the guest has.          *)
LEMMA Stepwise == IInv /\ [Next]_vars => IInv'
<1> SUFFICES ASSUME IInv, [Next]_vars PROVE IInv'
  OBVIOUS
<1>1. ASSUME NEW r \in Arenas, NEW cap \in Caps, CreateOnArena(r, cap) PROVE IInv'
  BY <1>1, CreateOnArenaKeeps
<1>2. ASSUME NEW x \in live, NEW cap \in Caps, CreateInBlock(x, cap) PROVE IInv'
  BY <1>2, CreateInBlockKeeps
<1>3. ASSUME NEW h \in Handles, Destroy(h) PROVE IInv'
  BY <1>3, DestroyKeeps
<1>4. ASSUME NEW h \in Handles, NEW n \in Sizes, NEW align \in Aligns, Malloc(h, n, align)
      PROVE  IInv'
  <2>1. h \in usable /\ UNCHANGED <<handle, usable, moved, inside>>
        /\ (Reuse(h, n, align) \/ Carve(h, n, align))
    BY <1>4 DEF Malloc
  <2>2. CASE Reuse(h, n, align)
    BY <2>1, <2>2, ReuseKeeps
  <2>3. CASE Carve(h, n, align)
    BY <2>1, <2>3, CarveStepKeeps
  <2>4. QED
    BY <2>1, <2>2, <2>3
<1>5. ASSUME NEW x \in live, Realloc(x) PROVE IInv'
  BY <1>5, ReallocKeeps
<1>6. ASSUME NEW x \in live, Free(x) PROVE IInv'
  BY <1>6, FreeKeeps
<1>7. ASSUME NEW p \in DOMAIN hdr, FreeAgain(p) PROVE IInv'
  BY <1>7, FreeAgainKeeps
<1>8. CASE UNCHANGED vars
  BY <1>8 DEF vars, IInv, HandlesInv, ListsInv, LiveInv, List
<1>9. QED
  BY <1>1, <1>2, <1>3, <1>4, <1>5, <1>6, <1>7, <1>8 DEF Next

(* The strengthened invariant holds of every reachable state.              *)
LEMMA Invariance == Spec => []IInv
<1>1. QED
  BY Initially, Stepwise, PTL DEF Spec

(* Blocks in use are apart, or one's pool is in the other: what            *)
(* MspaceRemember promises of the tail it cuts off, and what               *)
(* MspaceBumpAlloc and the lists make of it.                               *)
THEOREM LiveApartHolds == Spec => []LiveApart
<1>1. IInv => LiveApart
  <2> SUFFICES ASSUME IInv, NEW x \in live, NEW y \in live, x # y,
                      ~Apart(Room(x), Room(y))
               PROVE  x.p \in inside[y.handle] \/ y.p \in inside[x.handle]
    BY DEF LiveApart
  <2>1. PICK p, q, g, h, a, b :
          /\ p = x.p /\ q = y.p /\ g = x.handle /\ h = y.handle
          /\ a = hdr[p].bucket /\ b = hdr[q].bucket
    OBVIOUS
  <2>2. /\ p \in DOMAIN hdr /\ q \in DOMAIN hdr /\ p # q
        /\ hdr[p].handle = g /\ hdr[q].handle = h
    BY <2>1 DEF IInv, LiveInv
  <2>3. /\ g \in Handles /\ p \in Nat /\ a \in Nat \ {0} /\ pools[g].base # 0
        /\ pools[g].base \in Nat /\ pools[g].cap \in Nat /\ pools[g].used \in Nat
        /\ pools[g].used <= pools[g].cap
        /\ pools[g].base + 1 <= p /\ p + a <= pools[g].base + pools[g].used
    BY <2>1, <2>2, BlockFacts DEF IInv
  <2>4. /\ h \in Handles /\ q \in Nat /\ b \in Nat \ {0} /\ pools[h].base # 0
        /\ pools[h].base \in Nat /\ pools[h].cap \in Nat /\ pools[h].used \in Nat
        /\ pools[h].used <= pools[h].cap
        /\ pools[h].base + 1 <= q /\ q + b <= pools[h].base + pools[h].used
    BY <2>1, <2>2, BlockFacts DEF IInv
  <2>5. ~(p + a + 1 <= q) /\ ~(q + b + 1 <= p)
    <3>1. ~Apart([base |-> p - 1, len |-> 1 + a], [base |-> q - 1, len |-> 1 + b])
      BY <2>1 DEF Room, HdrLen
    <3>2. QED
      BY <2>3, <2>4, <3>1 DEF Apart
  <2>6. g # h
    BY <2>1, <2>2, <2>5 DEF IInv, Layout, BlocksInv, HdrLen
  <2>7. ~Disjoint(pools, g, h)
    BY <2>3, <2>4, <2>5 DEF Disjoint
  <2>8. CASE NestedIn(pools, hdr, inside, g, h)
    <3>1. PICK r \in inside[g] :
            /\ r \in DOMAIN hdr /\ hdr[r].handle = h
            /\ r <= pools[g].base /\ pools[g].base + pools[g].cap <= r + hdr[r].bucket
      BY <2>8 DEF NestedIn
    <3>2. r \in Nat /\ hdr[r].bucket \in Nat
      BY <3>1, BlockFacts DEF IInv
    <3>3. r <= p /\ p + a <= r + hdr[r].bucket
      BY <2>3, <3>1, <3>2
    <3>4. CASE r # q
      <4>1. r + hdr[r].bucket + 1 <= q \/ q + b + 1 <= r
        BY <2>1, <2>2, <3>1, <3>4 DEF IInv, Layout, BlocksInv, HdrLen
      <4>2. QED
        BY <2>3, <2>4, <2>5, <3>2, <3>3, <4>1
    <3>5. QED
      BY <2>1, <3>1, <3>4
  <2>9. CASE NestedIn(pools, hdr, inside, h, g)
    <3>1. PICK r \in inside[h] :
            /\ r \in DOMAIN hdr /\ hdr[r].handle = g
            /\ r <= pools[h].base /\ pools[h].base + pools[h].cap <= r + hdr[r].bucket
      BY <2>9 DEF NestedIn
    <3>2. r \in Nat /\ hdr[r].bucket \in Nat
      BY <3>1, BlockFacts DEF IInv
    <3>3. r <= q /\ q + b <= r + hdr[r].bucket
      BY <2>4, <3>1, <3>2
    <3>4. CASE r # p
      <4>1. r + hdr[r].bucket + 1 <= p \/ p + a + 1 <= r
        BY <2>1, <2>2, <3>1, <3>4 DEF IInv, Layout, BlocksInv, HdrLen
      <4>2. QED
        BY <2>3, <2>4, <2>5, <3>2, <3>3, <4>1
    <3>5. QED
      BY <2>1, <3>1, <3>4
  <2>10. QED
    BY <2>3, <2>4, <2>6, <2>7, <2>8, <2>9 DEF IInv, Layout, PoolsInv
<1>2. QED
  BY Invariance, <1>1, PTL

(* MspaceReclaim puts a block on the list of its own pool and bucket, and  *)
(* MspaceBumpAlloc takes it off before it gives it out.                    *)
THEOREM ListsAreHomeHolds == Spec => []ListsAreHome
<1>1. IInv => ListsAreHome
  BY DEF IInv, ListsInv, LiveInv, ListsAreHome
<1>2. QED
  BY Invariance, <1>1, PTL

(* A block of a pool in use is the guest's, on a list, or Realloc left it. *)
THEOREM NothingLeaksHolds == Spec => []NothingLeaks
<1>1. IInv => NothingLeaks
  <2> SUFFICES ASSUME IInv, NEW p \in DOMAIN hdr, hdr[p].handle \in usable
               PROVE  \/ p \in {x.p : x \in live} \cup moved
                      \/ \E i \in DOMAIN List(hdr[p].handle, hdr[p].bucket) :
                           List(hdr[p].handle, hdr[p].bucket)[i] = p
    BY DEF NothingLeaks
  <2>1. hdr[p].magic = "used" \/ hdr[p].magic = "free"
    BY DEF IInv, Layout, Hdr
  <2>2. QED
    BY <2>1 DEF IInv, ListsInv, LiveInv
<1>2. QED
  BY Invariance, <1>1, PTL

(* sceLibcMspaceFree of a block the guest has always finds a pool that     *)
(* holds it, whatever was created, destroyed and cut off before: no free   *)
(* is silently dropped.                                                    *)
THEOREM FreesAreTaken == Spec => [](\A x \in live : Reclaimable(x.p))
<1>1. IInv => \A x \in live : Reclaimable(x.p)
  BY HeldIsReclaimable
<1>2. QED
  BY Invariance, <1>1, PTL

-----------------------------------------------------------------------------
(* The static guards. *)

(* The inductive invariant.  OneBuilder alone is not inductive: it needs   *)
(* to know that the table's owner and the thread inside the constructor    *)
(* are the same until CxaGuardFinish, and SkippedIsBuilt needs to know     *)
(* who may still take the byte back.                                       *)
GuardInv == TypeOK /\ OwnerInv /\ ByteInv /\ SkippedIsBuilt

(* Initially nobody builds, owns or has skipped anything.                  *)
LEMMA GuardInitInv == GuardInit => GuardInv
BY NoneIsNoThread
DEF GuardInit, GuardInv, TypeOK, PC, OwnerInv, ByteInv, SkippedIsBuilt, Building

(* The type part of the invariant, step by step.  That depth stays a       *)
(* natural number needs OwnerInv: only a builder finishes.                 *)
LEMMA GuardStepType == GuardInv /\ [GuardNext]_guardVars => TypeOK'
<1> SUFFICES ASSUME GuardInv, [GuardNext]_guardVars PROVE TypeOK'
  OBVIOUS
<1> USE DEF GuardInv, TypeOK, PC, Building
<1>1. ASSUME NEW t \in Threads, NEW g \in Guards, AcquireFastPath(t, g)
      PROVE TypeOK'
  BY <1>1 DEF AcquireFastPath
<1>2. ASSUME NEW t \in Threads, NEW g \in Guards, CallAcquire(t, g)
      PROVE TypeOK'
  BY <1>2 DEF CallAcquire
<1>3. ASSUME NEW t \in Threads, NEW g \in Guards,
             CallRelease(t, g) \/ CallAbort(t, g)
      PROVE TypeOK'
  <2>1. CASE CallRelease(t, g)
    BY <2>1 DEF CallRelease
  <2>2. CASE CallAbort(t, g)
    BY <2>2 DEF CallAbort
  <2>3. QED
    BY <1>3, <2>1, <2>2
<1>4. ASSUME NEW t \in Threads,
             AcquireLocked(t) \/ Wake(t) \/ WaitCapExpires(t)
      PROVE TypeOK'
  <2>1. arg[t] \in Guards
    OBVIOUS
  <2>2. CASE AnswerBuilt(t, arg[t])
    BY <1>4, <2>1, <2>2 DEF AcquireLocked, MayBuild, Wake, WaitCapExpires, AnswerBuilt
  <2>3. CASE AnswerBuild(t, arg[t])
    BY <1>4, <2>1, <2>3 DEF AcquireLocked, MayBuild, Wake, WaitCapExpires, AnswerBuild
  <2>4. CASE UNCHANGED <<owner, depth, skipped>>
    BY <1>4, <2>4
    DEF AcquireLocked, MayBuild, Wake, WaitCapExpires, AfterWait, AnswerBuilt, AnswerBuild
  <2>5. QED
    BY <1>4, <2>2, <2>3, <2>4 DEF AcquireLocked, MayBuild, Wake, WaitCapExpires, AfterWait
<1>5. ASSUME NEW t \in Threads, CxaGuardFinish(t)
      PROVE TypeOK'
  BY <1>5 DEF CxaGuardFinish, FinishedBy, OwnerInv
<1>6. ASSUME NEW t \in Threads, NotifyAll(t)
      PROVE TypeOK'
  BY <1>6 DEF NotifyAll
<1>7. CASE UNCHANGED guardVars
  BY <1>7 DEF guardVars
<1>8. QED
  BY <1>1, <1>2, <1>3, <1>4, <1>5, <1>6, <1>7 DEF GuardNext

(* The rest of the invariant, for guests that do not re-enter a static     *)
(* they are constructing.                                                  *)
LEMMA GuardStepInv == ASSUME ~Reentrant PROVE GuardInv /\ [GuardNext]_guardVars => GuardInv'
<1> SUFFICES ASSUME GuardInv, [GuardNext]_guardVars
             PROVE (OwnerInv /\ ByteInv /\ SkippedIsBuilt)'
  BY GuardStepType DEF GuardInv
<1> USE NoneIsNoThread
    DEF GuardInv, TypeOK, PC, Building, OwnerInv, ByteInv, SkippedIsBuilt
<1>1. ASSUME NEW t \in Threads, NEW g \in Guards, AcquireFastPath(t, g)
      PROVE (OwnerInv /\ ByteInv /\ SkippedIsBuilt)'
  BY <1>1 DEF AcquireFastPath
<1>2. ASSUME NEW t \in Threads, NEW g \in Guards, CallAcquire(t, g)
      PROVE (OwnerInv /\ ByteInv /\ SkippedIsBuilt)'
  <2>1. OwnerInv'
    BY <1>2 DEF CallAcquire
  <2>2. ByteInv' /\ SkippedIsBuilt'
    BY <1>2 DEF CallAcquire
  <2>3. QED
    BY <2>1, <2>2
<1>3. ASSUME NEW t \in Threads, NEW g \in Guards, CallRelease(t, g)
      PROVE (OwnerInv /\ ByteInv /\ SkippedIsBuilt)'
  <2>1. OwnerInv'
    BY <1>3 DEF CallRelease
  <2>2. ByteInv'
    BY <1>3 DEF CallRelease
  <2>3. SkippedIsBuilt'
    BY <1>3 DEF CallRelease
  <2>4. QED
    BY <2>1, <2>2, <2>3
<1>4. ASSUME NEW t \in Threads, NEW g \in Guards, CallAbort(t, g)
      PROVE (OwnerInv /\ ByteInv /\ SkippedIsBuilt)'
  <2>1. byte[g] = 0
    BY <1>4 DEF CallAbort
  <2>2. OwnerInv'
    BY <1>4 DEF CallAbort
  <2>3. ByteInv'
    BY <1>4, <2>1 DEF CallAbort
  <2>4. SkippedIsBuilt'
    BY <1>4, <2>1 DEF CallAbort
  <2>5. QED
    BY <2>2, <2>3, <2>4
<1>5. ASSUME NEW t \in Threads, AcquireLocked(t)
      PROVE (OwnerInv /\ ByteInv /\ SkippedIsBuilt)'
  <2>1. owner[arg[t]] # t
    BY <1>5 DEF AcquireLocked, MayBuild
  <2>2. OwnerInv'
    BY <1>5, <2>1 DEF AcquireLocked, MayBuild, AnswerBuilt, AnswerBuild
  <2>3. ByteInv'
    BY <1>5, <2>1 DEF AcquireLocked, MayBuild, AnswerBuilt, AnswerBuild
  <2>4. SkippedIsBuilt'
    BY <1>5 DEF AcquireLocked, MayBuild, AnswerBuilt, AnswerBuild
  <2>5. QED
    BY <2>2, <2>3, <2>4
<1>6. ASSUME NEW t \in Threads, Wake(t) \/ WaitCapExpires(t)
      PROVE (OwnerInv /\ ByteInv /\ SkippedIsBuilt)'
  <2> USE DEF Wake, WaitCapExpires, AfterWait, AnswerBuilt, AnswerBuild
  <2>1. owner[arg[t]] # t
    BY <1>6
  <2>2. OwnerInv'
    BY <1>6, <2>1
  <2>3. ByteInv'
    BY <1>6, <2>1
  <2>4. SkippedIsBuilt'
    BY <1>6
  <2>5. QED
    BY <2>2, <2>3, <2>4
<1>7. ASSUME NEW t \in Threads, CxaGuardFinish(t)
      PROVE (OwnerInv /\ ByteInv /\ SkippedIsBuilt)'
  <2>1. owner[arg[t]] = t /\ depth[t][arg[t]] = 1
    BY <1>7 DEF CxaGuardFinish, FinishedBy
  <2>2. OwnerInv'
    BY <1>7, <2>1 DEF CxaGuardFinish, FinishedBy
  <2>3. ByteInv'
    BY <1>7, <2>1 DEF CxaGuardFinish, FinishedBy
  <2>4. SkippedIsBuilt'
    BY <1>7 DEF CxaGuardFinish, FinishedBy
  <2>5. QED
    BY <2>2, <2>3, <2>4
<1>8. ASSUME NEW t \in Threads, NotifyAll(t)
      PROVE (OwnerInv /\ ByteInv /\ SkippedIsBuilt)'
  BY <1>8 DEF NotifyAll
<1>9. CASE UNCHANGED guardVars
  BY <1>9 DEF guardVars
<1>10. QED
  BY <1>1, <1>2, <1>3, <1>4, <1>5, <1>6, <1>7, <1>8, <1>9 DEF GuardNext

(* The inductive invariant holds of every behaviour.                       *)
LEMMA GuardInvariance == ASSUME ~Reentrant PROVE GuardSpec => []GuardInv
BY GuardInitInv, GuardStepInv, PTL DEF GuardSpec

(* However many threads race to a static, at most one constructs it.       *)
THEOREM OneBuilderHolds == ASSUME ~Reentrant PROVE GuardSpec => []OneBuilder
<1>1. GuardInv => OneBuilder
  BY DEF GuardInv, OwnerInv, OneBuilder, Building
<1>2. QED
  BY <1>1, GuardInvariance, PTL

(* Who is told "built" by other means than the cap finds it built.         *)
THEOREM SkippedIsBuiltHolds == ASSUME ~Reentrant PROVE GuardSpec => []SkippedIsBuilt
<1>1. GuardInv => SkippedIsBuilt
  BY DEF GuardInv
<1>2. QED
  BY <1>1, GuardInvariance, PTL

(* notify_all after the unlock loses no wakeup.                            *)
THEOREM NoLostWakeupHolds == ASSUME ~Reentrant PROVE GuardSpec => []NoLostWakeup
<1>1. GuardInit => NoLostWakeup
  BY DEF GuardInit, NoLostWakeup
<1>2. GuardInv /\ NoLostWakeup /\ [GuardNext]_guardVars => NoLostWakeup'
  <2> SUFFICES ASSUME GuardInv, NoLostWakeup, [GuardNext]_guardVars PROVE NoLostWakeup'
    OBVIOUS
  <2> USE NoneIsNoThread DEF GuardInv, TypeOK, PC, NoLostWakeup
  <2>1. ASSUME NEW t \in Threads, NEW g \in Guards,
               \/ AcquireFastPath(t, g)
               \/ CallAcquire(t, g)
               \/ CallRelease(t, g)
               \/ CallAbort(t, g)
        PROVE NoLostWakeup'
    BY <2>1 DEF AcquireFastPath, CallAcquire, CallRelease, CallAbort
  <2>2. ASSUME NEW t \in Threads, AcquireLocked(t)
        PROVE NoLostWakeup'
    BY <2>2 DEF AcquireLocked, MayBuild, AnswerBuilt, AnswerBuild
  <2>3. ASSUME NEW t \in Threads, Wake(t) \/ WaitCapExpires(t)
        PROVE NoLostWakeup'
    BY <2>3 DEF Wake, WaitCapExpires, AfterWait, AnswerBuilt, AnswerBuild
  <2>4. ASSUME NEW t \in Threads, CxaGuardFinish(t)
        PROVE NoLostWakeup'
    BY <2>4 DEF CxaGuardFinish, FinishedBy
  <2>5. ASSUME NEW t \in Threads, NotifyAll(t)
        PROVE NoLostWakeup'
    BY <2>5 DEF NotifyAll
  <2>6. CASE UNCHANGED guardVars
    BY <2>6 DEF guardVars
  <2>7. QED
    BY <2>1, <2>2, <2>3, <2>4, <2>5, <2>6 DEF GuardNext
<1>3. QED
  BY <1>1, <1>2, GuardInvariance, PTL DEF GuardSpec
=============================================================================
