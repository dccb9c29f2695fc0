------------------------------ MODULE PagePool ------------------------------
(***************************************************************************)
(* What sceKernelAllocateDirectMemory and sceKernelReleaseDirectMemory     *)
(* promise: pages of physical memory are handed out in contiguous runs, a  *)
(* page to one holder at a time, and a page given back can be had again.   *)
(* Once the pool is unsound nothing is promised any more.                  *)
(***************************************************************************)
EXTENDS Integers

CONSTANT Pages    (* numbers of the pages of direct memory                 *)
VARIABLES
  unused,         (* the pages nobody has                                  *)
  used,           (* those handed out                                      *)
  sound           (* has the pool kept its promise                         *)

Init == unused = Pages /\ used = {} /\ sound = TRUE

Take(run) ==
  /\ run \subseteq unused
  /\ unused' = unused \ run /\ used' = used \cup run

Give(run) ==
  /\ run \subseteq used
  /\ unused' = unused \cup run /\ used' = used \ run

Next ==
  \/ sound /\ sound' /\ \E first, last \in Pages : Take(first .. last) \/ Give(first .. last)
  \/ sound' = FALSE

Spec == Init /\ [][Next]_<<unused, used, sound>>
=============================================================================
