---------------------------- MODULE DirectMemory ----------------------------
(***************************************************************************)
(* The physical direct memory of src/core.cpp: the best-fit free list of   *)
(* DmemAllocRange and DmemFreeRange, and the accounting the handlers of    *)
(* sceKernelAllocateDirectMemory, sceKernelAllocateMainDirectMemory and    *)
(* sceKernelReleaseDirectMemory keep beside it.                            *)
(*                                                                         *)
(* g_dmem_mutex is taken once for the range and once more for the counter, *)
(* which the handler has compared with the cap before, without it: three   *)
(* steps.  Addresses count pages of 16 KB.  g_dmem_allocated_ranges, which *)
(* nothing reads, is left out.                                             *)
(*                                                                         *)
(* DmemAllocRange reads the length of what it splits through a reference   *)
(* that its own insertion into the vector has invalidated: it sees the     *)
(* range now at that index, the prefix, or what a freed buffer holds.      *)
(***************************************************************************)
EXTENDS Integers, FiniteSets, Sequences, Functions

CONSTANTS
  Threads,   (* guest threads                                              *)
  Limit,     (* kDirectMemSize                                             *)
  Cap,       (* kMaxMainDmem: that less the margin                         *)
  Requests,  (* what is asked for: [lo, hi, len, align], hi = 0 for none   *)
  Stale      (* lengths a freed buffer may be read as, beside its old one  *)

Pages == 0 .. Limit - 1
PageRange == {r \in [start : Pages, len : 1 .. Limit] : r.start + r.len <= Limit}

(* What the list may hold once a length was read wrong.                    *)
DmemRange == [start : Nat, len : Nat \ {0}]

ASSUME SizesAssumption == Limit \in Nat \ {0} /\ Cap \in Nat /\ Stale \subseteq Nat
ASSUME RequestsAssumption ==
  Requests \subseteq [lo : Nat, hi : Nat, len : 1 .. Limit, align : Nat \ {0}]

VARIABLES
  free,       (* g_dmem_free_ranges                                        *)
  capacity,   (* its vector's capacity                                     *)
  allocated,  (* g_main_dmem_allocated                                     *)
  blocks,     (* g_main_dmem_allocated_map, as ranges                      *)
  pc,         (* where each guest thread is                                *)
  req,        (* the request, or the range, its call is about              *)
  held,       (* pages the guest was told it has                           *)
  misread,    (* history: a wrong length left a wrong range in the list    *)
  whole       (* history: the guest released exactly what calls gave it    *)

vars == <<free, capacity, allocated, blocks, pc, req, held, misread, whole>>

Idle == [start |-> 0, len |-> 1]

TypeOK ==
  /\ free \in Seq(DmemRange) /\ capacity \in Nat /\ blocks \subseteq PageRange
  /\ allocated \in Nat
  /\ pc \in [Threads -> {"out", "take", "count", "unmap"}]
  /\ req \in [Threads -> Requests \cup PageRange]
  /\ \A t \in Threads :
       /\ pc[t] = "take" => req[t] \in Requests
       /\ pc[t] \in {"count", "unmap"} => req[t] \in PageRange
  /\ held \subseteq Pages
  /\ misread \in BOOLEAN /\ whole \in BOOLEAN

Init ==
  /\ free = <<[start |-> 0, len |-> Limit]>> /\ capacity = 1
  /\ allocated = 0 /\ blocks = {}
  /\ pc = [t \in Threads |-> "out"] /\ req = [t \in Threads |-> Idle]
  /\ held = {}
  /\ misread = FALSE /\ whole = TRUE

-----------------------------------------------------------------------------
End(r) == r.start + r.len
PagesOf(r) == r.start .. End(r) - 1
Lesser(a, b) == IF a < b THEN a ELSE b
Greater(a, b) == IF a > b THEN a ELSE b

-----------------------------------------------------------------------------
(* DmemAllocRange.                                                         *)
Hi(q) == IF q.hi = 0 \/ q.hi > Limit THEN Limit ELSE q.hi

Fits(f, p, q) ==
  /\ p % q.align = 0
  /\ f.start <= p /\ q.lo <= p
  /\ p + q.len <= Lesser(End(f), Hi(q))

(* The first aligned place of the range.                                   *)
Place(f, p, q) == Fits(f, p, q) /\ \A o \in Pages : Fits(f, o, q) => p <= o

Remaining(f, p, q) == Lesser(End(f), Hi(q)) - p - q.len

(* The range with the least left over, the first of those with as little.  *)
BestFit(i, p, q) ==
  /\ Place(free[i], p, q)
  /\ \A j \in DOMAIN free, o \in Pages : Place(free[j], o, q) =>
       \/ Remaining(free[i], p, q) < Remaining(free[j], o, q)
       \/ Remaining(free[i], p, q) = Remaining(free[j], o, q) /\ i <= j

(* The length of the range f, its prefix before p cut off, as it is read:  *)
(* the insertion moves the range on, or all of them to a new buffer.       *)
Lengths(f, p) ==
  IF p = f.start THEN {f.len}
  ELSE IF Len(free) < capacity THEN {p - f.start}
  ELSE {End(f) - p} \cup Stale

(* A vector that is full grows by half, by one at least.                   *)
NewCapacity(c) == Greater(c + c \div 2, c + 1)

Piece(start, len) == IF len > 0 THEN <<[start |-> start, len |-> len]>> ELSE <<>>

(* What is left of it beyond len pages at p: a prefix and a suffix.        *)
Left_NoPrefix(f, p, len, seen) == Piece(p + len, seen - len)
Left(f, p, len, seen) == Piece(f.start, p - f.start) \o Piece(p + len, seen - len)

Replaced(i, parts) == SubSeq(free, 1, i - 1) \o parts \o SubSeq(free, i + 1, Len(free))

(* The handler looks at the cap ...                                        *)
Allocate(t, q) ==
  /\ pc[t] = "out"
  /\ allocated + q.len <= Cap
  /\ pc' = [pc EXCEPT ![t] = "take"]
  /\ req' = [req EXCEPT ![t] = q]
  /\ UNCHANGED <<free, capacity, allocated, blocks, held, misread, whole>>

(* ... takes a range, or answers ENOMEM ...                                *)
Take(t, i, p, seen) ==
  LET f == free[i]  len == req[t].len IN
  /\ BestFit(i, p, req[t])
  /\ free' = Replaced(i, Left(f, p, len, seen))
  /\ capacity' = IF p > f.start /\ Len(free) = capacity THEN NewCapacity(capacity) ELSE capacity
  /\ misread' = (misread \/ Left(f, p, len, seen) # Left(f, p, len, End(f) - p))
  /\ pc' = [pc EXCEPT ![t] = "count"]
  /\ req' = [req EXCEPT ![t] = [start |-> p, len |-> len]]

DmemAllocRange(t) ==
  /\ pc[t] = "take"
  /\ \/ \E i \in DOMAIN free, p \in Pages : \E seen \in Lengths(free[i], p) : Take(t, i, p, seen)
     \/ /\ \A i \in DOMAIN free, p \in Pages : ~Fits(free[i], p, req[t])
        /\ pc' = [pc EXCEPT ![t] = "out"]
        /\ req' = [req EXCEPT ![t] = Idle]
        /\ UNCHANGED <<free, capacity, misread>>
  /\ UNCHANGED <<allocated, blocks, held, whole>>

(* ... and counts it before it tells the guest.                            *)
CountAllocated(t) ==
  /\ pc[t] = "count"
  /\ allocated' = allocated + req[t].len
  /\ blocks' = {b \in blocks : b.start # req[t].start} \cup {req[t]}
  /\ held' = held \cup PagesOf(req[t])
  /\ pc' = [pc EXCEPT ![t] = "out"]
  /\ req' = [req EXCEPT ![t] = Idle]
  /\ UNCHANGED <<free, capacity, misread, whole>>

-----------------------------------------------------------------------------
(* DmemFreeRange: the list with the range, sorted by start; std::sort is   *)
(* not stable.                                                             *)
Sorted_Not(list) == {list}
Sorted(list) ==
  {s \in {[i \in DOMAIN list |-> list[p[i]]] : p \in Bijection(DOMAIN list, DOMAIN list)} :
     \A i, j \in DOMAIN list : i < j => s[i].start <= s[j].start}

(* A range joins the last one so far, if it overlaps or touches that.      *)
Joined_Overlap(merged, r) ==
  LET n == Len(merged) IN
  IF n > 0 /\ End(merged[n]) > r.start
    THEN [merged EXCEPT ![n].len = Greater(End(merged[n]), End(r)) - merged[n].start]
    ELSE Append(merged, r)
Joined(merged, r) ==
  LET n == Len(merged) IN
  IF n > 0 /\ End(merged[n]) >= r.start
    THEN [merged EXCEPT ![n].len = Greater(End(merged[n]), End(r)) - merged[n].start]
    ELSE Append(merged, r)

Merged(list) ==
  LET merged[i \in 0 .. Len(list)] ==
        IF i = 0 THEN <<>> ELSE Joined(merged[i - 1], list[i])
  IN  merged[Len(list)]

BlockAt(r) == {b \in blocks : b.start = r.start}

Counted_Unlisted(r) == IF BlockAt(r) = {} /\ allocated >= r.len THEN allocated - r.len ELSE allocated
Counted(r) ==
  IF BlockAt(r) # {}
    THEN LET b == CHOOSE b \in BlockAt(r) : TRUE IN
         IF allocated >= b.len THEN allocated - b.len ELSE 0
    ELSE IF allocated >= r.len THEN allocated - r.len ELSE allocated

(* sceKernelReleaseDirectMemory, up to the virtual ranges.                 *)
DmemFreeRange(t, r) ==
  /\ pc[t] = "out"
  /\ PagesOf(r) \subseteq held
  /\ held' = held \ PagesOf(r)
  /\ \E list \in Sorted(Append(free, r)) : free' = Merged(list)
  /\ capacity' = Len(free) + 1
  /\ allocated' = Counted(r)
  /\ blocks' = blocks \ BlockAt(r)
  /\ whole' = (whole /\ r \in blocks)
  /\ pc' = [pc EXCEPT ![t] = "unmap"]
  /\ req' = [req EXCEPT ![t] = r]
  /\ UNCHANGED misread

ReleaseReturns(t) ==
  /\ pc[t] = "unmap"
  /\ pc' = [pc EXCEPT ![t] = "out"]
  /\ req' = [req EXCEPT ![t] = Idle]
  /\ UNCHANGED <<free, capacity, allocated, blocks, held, misread, whole>>

-----------------------------------------------------------------------------
Next ==
  \E t \in Threads :
    \/ \E q \in Requests : Allocate(t, q)
    \/ DmemAllocRange(t) \/ CountAllocated(t)
    \/ \E r \in PageRange : DmemFreeRange(t, r)
    \/ ReleaseReturns(t)

Spec == Init /\ [][Next]_vars

-----------------------------------------------------------------------------
Unused == UNION {PagesOf(free[i]) : i \in DOMAIN free}
Taken(t) == IF pc[t] = "count" THEN PagesOf(req[t]) ELSE {}
InTransit == UNION {Taken(t) : t \in Threads}

(* "Suffix bolme (artik bolge)" (core.cpp:1642): what is left over of a    *)
(* range stays in the free list, whatever alignment or search_start cut    *)
(* off before it.                                                          *)
LeftoverStaysFree ==
  [][\A t \in Threads : pc[t] = "take" /\ pc'[t] = "count" =>
       Unused' = Unused \ PagesOf(req'[t])]_vars

(* No page is lost and none is handed out twice, as long as no length was  *)
(* read wrong: the free list, the guest and the calls about to answer      *)
(* divide the memory among them, through every splitting and merging.      *)
PoolIsPartitioned ==
  ~misread =>
    /\ Unused \cup held \cup InTransit = Pages
    /\ Unused \cap held = {}
    /\ \A t \in Threads :
         /\ Taken(t) \cap (Unused \cup held) = {}
         /\ \A u \in Threads : u # t => Taken(t) \cap Taken(u) = {}

(* ENOMEM from the free list is the truth, likewise: no aligned run of     *)
(* unused pages in the window was long enough, whatever ranges they lie in.*)
NoMemoryIsTrue ==
  [][\A t \in Threads : ~misread /\ pc[t] = "take" /\ pc'[t] = "out" =>
       \A p \in Pages : p % req[t].align = 0 /\ req[t].lo <= p /\ p + req[t].len <= Hi(req[t])
         => ~ p .. p + req[t].len - 1 \subseteq Unused]_vars

(* A release mends the list, damaged or not: it adds the pages released,   *)
(* loses none, and what is contiguous is one range again, in order.        *)
InOrder(list) == \A i, j \in DOMAIN list : i < j => End(list[i]) < list[j].start
ReleaseMends ==
  [][\A t \in Threads, r \in PageRange : DmemFreeRange(t, r) =>
       Unused' = Unused \cup PagesOf(r) /\ InOrder(free')]_vars

(* The counter the cap is compared with counts what the guest has, as long *)
(* as the guest releases what it was given in one piece.                   *)
CounterIsExact == whole /\ ~misread => allocated = Cardinality(held)

(* The ranges implement the pool of pages, until a length is read wrong.   *)
Pool ==
  INSTANCE PagePool WITH unused <- Unused, used <- held \cup InTransit, sound <- ~misread
ImplementsPool == Pool!Spec
=============================================================================
