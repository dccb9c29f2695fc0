------------------------------ MODULE DirectMap ------------------------------
(***************************************************************************)
(* Direct memory and where the guest sees it: DirectMemory together with   *)
(* the list of virtual ranges, g_virt_dmem_regions, that                   *)
(* sceKernelMapDirectMemory, sceKernelBatchMap and                         *)
(* sceKernelReleaseDirectMemory of src/core.cpp keep under a mutex of its  *)
(* own.  Releasing physical memory takes it only after the range is free   *)
(* again.  The pages the host commits and decommits, and the recycling     *)
(* branch no caller asks for, are left out.                                *)
(***************************************************************************)
EXTENDS DirectMemory

CONSTANTS
  VPages,  (* pages of virtual addresses: 0 .. VPages - 1                  *)
  Prots,   (* protections                                                  *)
  NoPhys,  (* 0xffffffff0000: mapped to no physical memory                 *)
  Mappings, (* what sceKernelMapDirectMemory is called with                *)
  Batches   (* what sceKernelBatchMap is called with                       *)

VAddrs == 0 .. VPages - 1    (* counted from an address that is not null *)
Region == [vaddr : VAddrs, size : 1 .. VPages, phys : Pages \cup {NoPhys}, prot : Prots]
Entry == [op : {"map", "unmap"}, vaddr : VAddrs, size : 1 .. VPages,
          phys : Pages \cup {NoPhys}, prot : Prots]

ASSUME VirtualAssumption ==
  /\ VPages \in Nat \ {0}
  /\ NoPhys \in Nat /\ NoPhys > Limit + VPages
ASSUME CallsAssumption ==
  /\ Mappings \subseteq {e \in Entry : e.op = "map" /\ e.phys # NoPhys}
  /\ Batches \subseteq Seq(Entry)

VARIABLE regions   (* g_virt_dmem_regions                                  *)

mapVars == <<vars, regions>>

MapTypeOK == TypeOK /\ regions \in Seq(Region)

MapInit == Init /\ regions = <<>>

-----------------------------------------------------------------------------
EndV(r) == r.vaddr + r.size
(* What a region keeps of itself when the range u is unmapped.             *)
RightPhys_Unmoved(reg, from) == reg.phys
RightPhys(reg, from) == IF reg.phys = NoPhys THEN NoPhys ELSE reg.phys + (from - reg.vaddr)

LeftPart(reg, u) == [reg EXCEPT !.size = u.vaddr - reg.vaddr]
RightPart(reg, u) ==
  [reg EXCEPT !.vaddr = EndV(u), !.size = EndV(reg) - EndV(u), !.phys = RightPhys(reg, EndV(u))]

Survivors(reg, u) ==
  LET left == IF reg.vaddr < u.vaddr THEN <<LeftPart(reg, u)>> ELSE <<>>
      right == IF EndV(u) < EndV(reg) THEN <<RightPart(reg, u)>> ELSE <<>>
  IN  IF EndV(u) <= reg.vaddr \/ u.vaddr >= EndV(reg) THEN <<reg>> ELSE left \o right

DmemUnmapVirtRange(regs, u) ==
  LET survivors[i \in 0 .. Len(regs)] ==
        IF i = 0 THEN <<>> ELSE survivors[i - 1] \o Survivors(regs[i], u)
  IN  survivors[Len(regs)]

(* The new range, joined to the last of the list where it continues it.    *)
Continues_AnyPhys(last, e) == EndV(last) = e.vaddr /\ last.prot = e.prot
Continues(last, e) ==
  /\ EndV(last) = e.vaddr /\ last.prot = e.prot
  /\ \/ e.phys = NoPhys /\ last.phys = NoPhys
     \/ last.phys + last.size = e.phys

AsRegion(e) == [vaddr |-> e.vaddr, size |-> e.size, phys |-> e.phys, prot |-> e.prot]

Join(regs, e) ==
  LET n == Len(regs)
  IN IF n > 0 /\ Continues(regs[n], e)
       THEN [regs EXCEPT ![n].size = @ + e.size]
       ELSE Append(regs, AsRegion(e))

DmemMapVirtRange(regs, e) == Join(DmemUnmapVirtRange(regs, e), e)

-----------------------------------------------------------------------------
(* The guest maps what it has, at an address inside the virtual range.     *)
Mappable(e) ==
  /\ EndV(e) <= VPages
  /\ e.op = "map" /\ e.phys # NoPhys => e.phys .. e.phys + e.size - 1 \subseteq held

MapDirectMemory(t, e) ==
  /\ pc[t] = "out" /\ Mappable(e)
  /\ regions' = DmemMapVirtRange(regions, e)
  /\ UNCHANGED vars

(* A batch: all its unmappings, then its mappings, joined among themselves *)
(* first.  What it commits and decommits meanwhile is left out.            *)
NewRegions(batch) ==
  LET new[i \in 0 .. Len(batch)] ==
        IF i = 0 THEN <<>>
        ELSE IF batch[i].op = "map" THEN Join(new[i - 1], batch[i]) ELSE new[i - 1]
  IN  new[Len(batch)]

Unmapped(regs, batch) ==
  LET left[i \in 0 .. Len(batch)] ==
        IF i = 0 THEN regs
        ELSE IF batch[i].op = "unmap" THEN DmemUnmapVirtRange(left[i - 1], batch[i])
        ELSE left[i - 1]
  IN  left[Len(batch)]

Mapped(regs, new) ==
  LET with[i \in 0 .. Len(new)] ==
        IF i = 0 THEN regs ELSE DmemMapVirtRange(with[i - 1], new[i])
  IN  with[Len(new)]

BatchMap(t, batch) ==
  /\ pc[t] = "out" /\ \A i \in DOMAIN batch : Mappable(batch[i])
  /\ regions' = Mapped(Unmapped(regions, batch), NewRegions(batch))
  /\ UNCHANGED vars

(* The second half of sceKernelReleaseDirectMemory: whole regions go, if   *)
(* they BEGIN in the released range.                                       *)
Erased(regs, r) ==
  LET kept[i \in 0 .. Len(regs)] ==
        IF i = 0 THEN <<>>
        ELSE IF regs[i].phys \in PagesOf(r) THEN kept[i - 1] ELSE Append(kept[i - 1], regs[i])
  IN  kept[Len(regs)]

ReleaseUnmaps(t) ==
  /\ ReleaseReturns(t)
  /\ regions' = Erased(regions, req[t])

MapNext ==
  \E t \in Threads :
    \/ /\ \/ \E q \in Requests : Allocate(t, q)
          \/ DmemAllocRange(t) \/ CountAllocated(t)
          \/ \E r \in PageRange : DmemFreeRange(t, r)
       /\ UNCHANGED regions
    \/ ReleaseUnmaps(t)
    \/ \E e \in Mappings : MapDirectMemory(t, e)
    \/ \E batch \in Batches : BatchMap(t, batch)

MapSpec == MapInit /\ [][MapNext]_mapVars

-----------------------------------------------------------------------------
Covers(g, v) == g.vaddr <= v /\ v < EndV(g)

(* Where the list says an address leads to: {} for nowhere.                *)
PhysAt(g, v) == IF g.phys = NoPhys THEN NoPhys ELSE g.phys + (v - g.vaddr)
Translation(regs, v) == {PhysAt(regs[i], v) : i \in {j \in DOMAIN regs : Covers(regs[j], v)}}

(* Mapping a range changes where exactly its own addresses lead, and they  *)
(* lead where it says; the list's order and its joins do not matter.       *)
MappingIsExact ==
  [][\A t \in Threads, e \in Mappings : MapDirectMemory(t, e) =>
       \A v \in VAddrs : Translation(regions', v) =
         IF Covers(e, v) THEN {PhysAt(e, v)} ELSE Translation(regions, v)]_mapVars

(* A batch makes an address lead where the last of its mappings says that  *)
(* covers it, whatever it unmaps there before or after; what only its      *)
(* unmappings cover leads nowhere, and the rest where it did.              *)
BatchIsExact ==
  [][\A t \in Threads, batch \in Batches : BatchMap(t, batch) =>
       \A v \in VAddrs :
         LET covering == {i \in DOMAIN batch : Covers(batch[i], v)}
             maps == {i \in covering : batch[i].op = "map"}
         IN  IF covering = {} THEN Translation(regions', v) = Translation(regions, v)
             ELSE IF maps = {} THEN Translation(regions', v) = {}
             ELSE \E i \in maps :
                    /\ \A j \in maps : j <= i
                    /\ Translation(regions', v) = {PhysAt(batch[i], v)}]_mapVars

(* An address leads to physical memory the guest has, or is in the middle  *)
(* of releasing.  This is NOT an invariant of the code: a region joined    *)
(* across two allocations outlives the release of the second.              *)
MappedIsHeld ==
  \A v \in VAddrs : Translation(regions, v) \subseteq
    held \cup {NoPhys} \cup UNION {PagesOf(req[t]) : t \in {u \in Threads : pc[u] = "unmap"}}
=============================================================================
