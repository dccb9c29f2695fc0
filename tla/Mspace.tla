-------------------------------- MODULE Mspace --------------------------------
(***************************************************************************)
(* The sceLibcMspace* heaps of core.cpp: pools inside guest memory, each a *)
(* bump allocator with free lists per size bucket, a 16-byte header in     *)
(* front of every block, and pools created in blocks of other pools or on  *)
(* the base of a pool that exists already.                                 *)
(*                                                                         *)
(* Addresses count units of the header's size.  Every handler takes        *)
(* g_mspace_mtx once, but Free, whose two sections are one step here: no   *)
(* region ever goes away, and the pointer is nobody else's in between.     *)
(*                                                                         *)
(* What the guest writes is left out, its discipline is not: it gives a    *)
(* pool memory it holds, frees a block only when it uses no pool inside    *)
(* it, uses nothing of a pool it destroyed and keeps its arenas.  It may   *)
(* free a block twice.  A request that no pool can serve goes to the       *)
(* host's heap, whose blocks lie in no pool and are not modelled.          *)
(***************************************************************************)
EXTENDS Integers, Sequences

CONSTANTS
  MaxPools,     (* bound: calls of sceLibcMspaceCreate                     *)
  Default,      (* the memory of handle 0: [base, len]                     *)
  Arenas,       (* other memory the guest may create pools on              *)
  Caps,         (* capacities it asks for                                  *)
  Sizes,        (* sizes it asks for                                       *)
  Aligns,       (* alignments, 16 bytes being 1                            *)
  Fine, Coarse, FineLimit  (* 64, 4096 and 4096 bytes                      *)

Ranges == [base : Nat \ {0}, len : Nat \ {0}]
Apart(r, s) == r.base + r.len <= s.base \/ s.base + s.len <= r.base

ASSUME MspaceAssumption ==
  /\ MaxPools \in Nat
  /\ Arenas \subseteq Ranges /\ Default \in Ranges
  /\ \A r \in Arenas : Apart(r, Default) /\ \A s \in Arenas \ {r} : Apart(r, s)
  /\ Caps \subseteq Nat /\ Sizes \subseteq Nat \ {0} /\ Aligns \subseteq Nat \ {0}
  /\ {Fine, Coarse} \subseteq Nat \ {0} /\ FineLimit \in Nat

VARIABLES
  pools,    (* g_mspace; an unknown handle is one without memory: base 0   *)
  handle,   (* s_fake_mspace: the last handle given                        *)
  lists,    (* g_mspace_free: per handle and bucket, a vector of blocks    *)
  hdr,      (* the header in front of each block ever carved from a pool   *)
  usable,   (* guest: the pools it has and has not destroyed               *)
  live,     (* guest: the blocks it has                                    *)
  moved,    (* history: pool blocks Realloc moved to the host's heap       *)
  inside    (* history: per pool, the memories and blocks it lies in       *)

vars == <<pools, handle, lists, hdr, usable, live, moved, inside>>

HdrLen == 1
Handles == 0 .. MaxPools
NoMemory == [base |-> 0, cap |-> 0, used |-> 0]

Init ==
  /\ pools = [h \in Handles |-> NoMemory] /\ handle = 0
  /\ lists = [h \in Handles |-> [b \in {} |-> <<>>]]
  /\ hdr = [p \in {} |-> NoMemory]
  /\ usable = {0} /\ live = {} /\ moved = {}
  /\ inside = [h \in Handles |-> IF h = 0 THEN {Default.base} ELSE {}]

RoundUp(n, k) == ((n + k - 1) \div k) * k
Bucket(n) == IF n <= FineLimit THEN RoundUp(n, Fine) ELSE RoundUp(n, Coarse)

-----------------------------------------------------------------------------
(* MspaceRemember: a second pool on a base gets the tail of the first, if  *)
(* the first has not come that far, else no memory.  A pool the guest      *)
(* destroyed counts as well: Destroy forgets nothing.                      *)
SameBase(base) == {g \in Handles : pools[g].base = base}
First(hs) == CHOOSE g \in hs : \A h \in hs : g <= h

Spare_AnyTail(f, cap) == cap # 0 /\ f.cap > cap
Spare(f, cap) == cap # 0 /\ f.cap > cap /\ f.cap - cap > f.used

MspaceRemember(h, base, cap, place) ==
  LET f == First(SameBase(base)) IN
  IF SameBase(base) = {}
  THEN /\ pools' = [pools EXCEPT ![h] = [base |-> base, cap |-> cap, used |-> 0]]
       /\ inside' = [inside EXCEPT ![h] = place]
  ELSE IF Spare(pools[f], cap)
  THEN /\ pools' = [pools EXCEPT
                      ![f].cap = @ - cap,
                      ![h] = [base |-> base + pools[f].cap - cap, cap |-> cap, used |-> 0]]
       /\ inside' = [inside EXCEPT ![h] = inside[f]]
  ELSE /\ pools' = [pools EXCEPT ![h] = [NoMemory EXCEPT !.cap = cap]]
       /\ UNCHANGED inside

Create(base, cap, place) ==
  /\ handle < MaxPools /\ handle' = handle + 1
  /\ MspaceRemember(handle + 1, base, cap, place)
  /\ usable' = usable \cup {handle + 1}
  /\ UNCHANGED <<lists, hdr, live, moved>>

CreateOnArena(r, cap) ==
  cap <= r.len /\ Create(r.base, cap, {r.base})

CreateInBlock(x, cap) ==
  cap <= x.size /\ Create(x.p, cap, inside[x.handle] \cup {x.p})

Destroy(h) ==
  /\ h \in usable \ {0}
  /\ \A g \in usable, x \in live : x.handle = h => x.p \notin inside[g]
  /\ usable' = usable \ {h}
  /\ live' = {x \in live : x.handle # h}
  /\ UNCHANGED <<pools, handle, lists, hdr, moved, inside>>

-----------------------------------------------------------------------------
(* MspaceBumpAlloc.  A block of the right bucket is used again, the last   *)
(* one that is aligned, and the vector's last takes its place.             *)
List(h, b) == IF b \in DOMAIN lists[h] THEN lists[h][b] ELSE <<>>

Reusable(list, align) == {i \in DOMAIN list : list[i] % align = 0}
Last(is) == CHOOSE i \in is : \A j \in is : j <= i

WithoutAt_Cut(list, i) == SubSeq(list, 1, i - 1)
WithoutAt(list, i) ==
  [j \in 1 .. Len(list) - 1 |-> IF j = i THEN list[Len(list)] ELSE list[j]]

Header(magic, h, b) == [magic |-> magic, bucket |-> b, handle |-> h]
Block(p, n, h) == [p |-> p, size |-> n, handle |-> h]

Put(f, x, y) == [z \in DOMAIN f \cup {x} |-> IF z = x THEN y ELSE f[z]]

Reuse(h, n, align) ==
  LET b == Bucket(n)
      i == Last(Reusable(List(h, b), align))
      p == List(h, b)[i] IN
  /\ Reusable(List(h, b), align) # {}
  /\ lists' = [lists EXCEPT ![h][b] = WithoutAt(@, i)]
  /\ hdr' = Put(hdr, p, Header("used", h, b))
  /\ live' = live \cup {Block(p, n, h)}
  /\ UNCHANGED pools

(* EnsureDefaultMspace: handle 0 gets its memory with its first request.   *)
Ensured(h) ==
  IF h = 0 /\ pools[0].base = 0
  THEN [base |-> Default.base, cap |-> Default.len, used |-> 0] ELSE pools[h]

BlockAt(m, align) == RoundUp(m.base + m.used + HdrLen, align)

(* The pool is full, has no memory, or memory that cannot be written: the  *)
(* request goes to the host's heap.                                        *)
Carve(h, n, align) ==
  LET m == Ensured(h)
      p == BlockAt(m, align)
      end == p + Bucket(n) IN
  /\ Reusable(List(h, Bucket(n)), align) = {}
  /\ \/ /\ m.base # 0 /\ end <= m.base + m.cap
        /\ pools' = [pools EXCEPT ![h] = [m EXCEPT !.used = end - m.base]]
        /\ hdr' = Put(hdr, p, Header("used", h, Bucket(n)))
        /\ live' = live \cup {Block(p, n, h)}
     \/ /\ pools' = [pools EXCEPT ![h] = m]
        /\ UNCHANGED <<hdr, live>>
  /\ UNCHANGED lists

(* Malloc, Calloc, Memalign, and Realloc of nothing.                       *)
Malloc(h, n, align) ==
  /\ h \in usable
  /\ Reuse(h, n, align) \/ Carve(h, n, align)
  /\ UNCHANGED <<handle, usable, moved, inside>>

(* Realloc of a pool's block copies it to the host's heap and frees        *)
(* nothing.                                                                *)
Unpooled(p) == \A g \in usable : p \notin inside[g]

Realloc(x) ==
  /\ x \in live /\ Unpooled(x.p)
  /\ live' = live \ {x} /\ moved' = moved \cup {x.p}
  /\ UNCHANGED <<pools, handle, lists, hdr, usable, inside>>

-----------------------------------------------------------------------------
(* IsInMspaceRegion, then MspaceReclaim: a block goes to the list that its *)
(* header names, unless the header says that it is there already.          *)
Holding(p) == {h \in Handles : LET m == pools[h] IN
  m.base # 0 /\ m.cap # 0 /\ m.base + HdrLen <= p /\ p < m.base + m.cap}

Home_ByRange(p) == First(Holding(p))
Home(p) == hdr[p].handle

Reclaimable(p) == Holding(p) # {} /\ hdr[p].magic = "used"

MspaceReclaim(p) ==
  IF Reclaimable(p)
  THEN LET b == hdr[p].bucket IN
       /\ lists' = [lists EXCEPT ![Home(p)] = Put(@, b, Append(List(Home(p), b), p))]
       /\ hdr' = [hdr EXCEPT ![p].magic = "free"]
  ELSE UNCHANGED <<lists, hdr>>

Free(x) ==
  /\ x \in live /\ Unpooled(x.p)
  /\ live' = live \ {x}
  /\ MspaceReclaim(x.p)
  /\ UNCHANGED <<pools, handle, usable, moved, inside>>

(* The guest frees a block that it freed before and nobody got since.      *)
FreeAgain(p) ==
  /\ p \in DOMAIN hdr /\ hdr[p].magic = "free" /\ hdr[p].handle \in usable
  /\ MspaceReclaim(p)
  /\ UNCHANGED <<pools, handle, usable, live, moved, inside>>

Next ==
  \/ \E r \in Arenas, cap \in Caps : CreateOnArena(r, cap)
  \/ \E x \in live, cap \in Caps : CreateInBlock(x, cap)
  \/ \E h \in Handles : Destroy(h)
  \/ \E h \in Handles, n \in Sizes, align \in Aligns : Malloc(h, n, align)
  \/ \E x \in live : Realloc(x) \/ Free(x)
  \/ \E p \in DOMAIN hdr : FreeAgain(p)

Spec == Init /\ [][Next]_vars

-----------------------------------------------------------------------------
(* Two blocks the guest has do not share memory, unless it created the     *)
(* pool of one inside the other: over any number of creations on one base, *)
(* destructions, reuses and double frees ("both stay inside guest memory   *)
(* and do not collide", of the tail cut off in MspaceRemember).            *)
Room(x) == [base |-> x.p - HdrLen, len |-> HdrLen + hdr[x.p].bucket]

LiveApart ==
  \A x, y \in live :
    x # y /\ ~Apart(Room(x), Room(y))
      => x.p \in inside[y.handle] \/ y.p \in inside[x.handle]

(* A listed block is free, listed once, in its own pool's list and of the  *)
(* bucket it was carved with, however the regions of pools overlap; and    *)
(* who has a block has no less than was asked for (MspaceReclaim reads the *)
(* pool from the header and not from the range the address is in).         *)
ListsAreHome ==
  /\ \A h \in Handles : \A b \in DOMAIN lists[h] :
       LET list == lists[h][b] IN
       /\ \A i \in DOMAIN list : hdr[list[i]] = Header("free", h, b)
       /\ \A i, j \in DOMAIN list : list[i] = list[j] => i = j
  /\ \A x \in live : hdr[x.p].magic = "used" /\ x.size <= hdr[x.p].bucket

(* No memory of a pool in use is lost but through Realloc: a block carved  *)
(* from it is the guest's or can be had again (what Free says it does now  *)
(* that it is no longer empty).                                            *)
NothingLeaks ==
  \A p \in DOMAIN hdr : hdr[p].handle \in usable =>
    \/ p \in {x.p : x \in live} \cup moved
    \/ \E i \in DOMAIN List(hdr[p].handle, hdr[p].bucket) :
         List(hdr[p].handle, hdr[p].bucket)[i] = p
=============================================================================
