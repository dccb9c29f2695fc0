------------------------------- MODULE Fiber --------------------------------
(***************************************************************************)
(* sceFiber* on Windows fibers: src/fiber.cpp.  A context is an OS thread  *)
(* (converted to a fiber at its first Run) or a guest fiber; SwitchToFiber *)
(* suspends the caller's context inside the call it made and continues the *)
(* target inside the call IT was suspended in, on the caller's OS thread.  *)
(*                                                                         *)
(* The code asks of a fiber only that it is registered: any guest code may *)
(* run, switch to, initialize again or finalize any fiber, wherever that   *)
(* sits.  What Windows and the heap then do is modelled up to the point    *)
(* where nothing can be said any more: two threads on one context, or the  *)
(* end of the process.  nested is a history of how the guest has behaved.  *)
(* A switch and what the resumed call does before it returns are one step, *)
(* as guest code learns of a switch only from code behind it.  A context   *)
(* does not switch to itself, which Windows leaves open, and the object of *)
(* a fiber finalized while it ran is not used for another.  The values     *)
(* passed along are left out.                                              *)
(***************************************************************************)
EXTENDS Naturals, FiniteSets

CONSTANTS
  Threads,       (* OS threads of the guest                                *)
  Fibers,        (* the guest's SceFiber objects                           *)
  None,          (* nullptr                                                *)
  Gone           (* a pointer to a deleted Windows fiber                   *)

ASSUME Distinct ==
  /\ Threads \cap Fibers = {} /\ None # Gone
  /\ None \notin Threads \cup Fibers /\ Gone \notin Threads \cup Fibers

Contexts == Threads \cup Fibers

VARIABLES
  running,   (* the context each OS thread executes; None once it exited   *)
  cur,       (* its t_current                                              *)
  fibers,    (* g_fibers: the registered guest fibers                      *)
  made,      (* fibers whose win_fiber exists                              *)
  resumeTo,  (* GuestFiber::resume_to                                      *)
  frame,     (* the call a suspended context sits in, and its locals       *)
  nested     (* history: the guest left fibers that are run, or that sit   *)
             (* in Switch, alone, and ran none whose entry had returned    *)

vars == <<running, cur, fibers, made, resumeTo, frame, nested>>

(* prev and gf are the locals of Run, Switch and ReturnToThread.           *)
Frame == [kind : {"none", "call", "return", "dead"},
          prev : Fibers \cup {None}, gf : Fibers \cup {None}]
NoFrame == [kind |-> "none", prev |-> None, gf |-> None]

TypeOK ==
  /\ running \in [Threads -> Contexts \cup {None}]
  /\ cur \in [Threads -> Fibers \cup {None}]
  /\ fibers \subseteq Fibers /\ made \subseteq Fibers
  /\ resumeTo \in [Fibers -> Contexts \cup {None, Gone}]
  /\ frame \in [Contexts -> Frame]
  /\ nested \in BOOLEAN

Init ==
  /\ running = [t \in Threads |-> t]
  /\ cur = [t \in Threads |-> None]
  /\ fibers = {} /\ made = {}
  /\ resumeTo = [f \in Fibers |-> None]
  /\ frame = [c \in Contexts |-> NoFrame]
  /\ nested = TRUE

Running(c) == \E t \in Threads : running[t] = c
OnThread(t) == running[t] = t
OnFiber(t) == running[t] \in Fibers

(* A fiber nobody is inside, and one that can be run.                      *)
Free(f) == ~Running(f) /\ frame[f].kind # "call"
Idle(f) == Free(f) /\ frame[f].kind # "dead"

(* No context is executed by two OS threads; past that point nothing is    *)
(* modelled.                                                               *)
Apart ==
  \A t, u \in Threads : running[t] = running[u] /\ running[t] # None => t = u
MayCall(t) == running[t] # None /\ Apart

(* The process ends.                                                       *)
Die == running' = [t \in Threads |-> None] /\ UNCHANGED cur

-----------------------------------------------------------------------------
(* What becomes of t_current where a context goes on: in FiberProc, behind *)
(* the switch of Run and Switch, behind that of ReturnToThread.            *)
Restored_Prev(c) == IF frame[c].kind = "none" THEN c ELSE frame[c].prev
Restored(c) ==
  CASE frame[c].kind = "none" -> c
    [] frame[c].kind = "call" -> frame[c].prev
    [] OTHER -> frame[c].gf

(* SwitchToFiber, on OS thread t.  Behind a FiberProc that already         *)
(* returned there is only the end of the OS thread.                        *)
Land(t, c) ==
  \/ /\ c # Gone /\ ~Running(c) /\ frame[c].kind # "dead"
     /\ running' = [running EXCEPT ![t] = c]
     /\ cur' = [cur EXCEPT ![t] = Restored(c)]
  \/ /\ c # Gone /\ ~Running(c) /\ frame[c].kind = "dead"
     /\ running' = [running EXCEPT ![t] = None]
     /\ UNCHANGED cur
  \/ /\ Running(c)
     /\ running' = [running EXCEPT ![t] = c]
     /\ UNCHANGED cur
  \/ c = Gone /\ Die

SwitchToFiber(t, c, fr) ==
  /\ Land(t, c)
  /\ frame' = [d \in Contexts |->
                 IF d = running[t] THEN fr
                 ELSE IF d = c /\ frame[c].kind # "dead" THEN NoFrame ELSE frame[d]]

(* A fiber's record and its Windows fiber are deleted.                     *)
Delete(f) ==
  /\ made' = made \ {f}
  /\ resumeTo' = [g \in Fibers |-> IF g = f THEN None
                                   ELSE IF resumeTo[g] = f THEN Gone ELSE resumeTo[g]]
  /\ frame' = [frame EXCEPT ![f] = NoFrame]

(* Initialize again deletes the fiber's old context first.  Under a thread *)
(* that executes it that ends the process, under the caller itself the     *)
(* thread, with g_mutex locked for ever.                                   *)
Initialize(t, f) ==
  /\ MayCall(t) /\ (f \in fibers \/ f \notin made)
  /\ \/ /\ ~Running(f)
        /\ fibers' = fibers \cup {f}
        /\ Delete(f)
        /\ nested' = (nested /\ Free(f))
        /\ UNCHANGED <<running, cur>>
     \/ /\ Running(f) /\ Die
        /\ nested' = FALSE
        /\ UNCHANGED <<fibers, made, resumeTo, frame>>

(* Run and Switch, of any registered fiber: it will return to the CALLER's *)
(* context, and is created if it is new.  They differ in the value they    *)
(* answer only.                                                            *)
Caller_First(t, f) == IF resumeTo[f] = None THEN running[t] ELSE resumeTo[f]
Caller(t, f) == running[t]

Locals(t, f) == [kind |-> "call", prev |-> cur[t], gf |-> f]

Enter(t, f) ==
  /\ MayCall(t) /\ f \in fibers /\ f # running[t]
  /\ resumeTo' = [resumeTo EXCEPT ![f] = Caller(t, f)]
  /\ made' = made \cup {f}
  /\ nested' = (nested /\ Idle(f))
  /\ UNCHANGED fibers
  /\ SwitchToFiber(t, f, Locals(t, f))

(* Where a fiber goes back to, read from its record; a record freed by a   *)
(* Finalize of the running fiber may still hold it, or anything.           *)
Back(t, f) == IF resumeTo[f] # None THEN resumeTo[f] ELSE t
Backs(t, f) == {Back(t, f)} \cup (IF f \in fibers THEN {} ELSE {t, Gone})

(* ReturnToThread goes to whoever switched to the fiber last, which need   *)
(* not be a thread.                                                        *)
ReturnToThread(t) ==
  /\ MayCall(t) /\ cur[t] # None
  /\ UNCHANGED <<fibers, made, resumeTo, nested>>
  /\ \E c \in Backs(t, cur[t]) :
       SwitchToFiber(t, c, [kind |-> "return", prev |-> None, gf |-> cur[t]])

(* The entry point returns: FiberProc goes back, and must not be resumed.  *)
EntryReturns(t) ==
  /\ MayCall(t) /\ OnFiber(t)
  /\ UNCHANGED <<fibers, made, resumeTo, nested>>
  /\ \E c \in Backs(t, running[t]) :
       SwitchToFiber(t, c, [kind |-> "dead", prev |-> None, gf |-> None])

(* Finalize frees the fiber's record in any case, and its Windows fiber    *)
(* unless it is the CALLING thread's t_current; under another thread that  *)
(* executes it, that ends the process.                                     *)
Finalize(t, f) ==
  /\ MayCall(t) /\ f \in fibers
  /\ fibers' = fibers \ {f}
  /\ nested' = (nested /\ Free(f))
  /\ \/ f = cur[t] /\ UNCHANGED <<running, cur, made, resumeTo, frame>>
     \/ f # cur[t] /\ ~Running(f) /\ Delete(f) /\ UNCHANGED <<running, cur>>
     \/ f # cur[t] /\ Running(f) /\ Die /\ UNCHANGED <<made, resumeTo, frame>>

-----------------------------------------------------------------------------
Next ==
  \E t \in Threads :
    \/ \E f \in Fibers : Initialize(t, f) \/ Enter(t, f) \/ Finalize(t, f)
    \/ ReturnToThread(t)
    \/ EntryReturns(t)

Spec == Init /\ [][Next]_vars

(* A guest fiber does not keep its thread: it returns, however often it    *)
(* calls something else first.                                             *)
FiberReturns(f) == \E t \in Threads : running[t] = f /\ ReturnToThread(t)
FairSpec == Spec /\ \A f \in Fibers : SF_vars(FiberReturns(f))

-----------------------------------------------------------------------------
(* t_current, a thread-local, names the fiber its thread really executes,  *)
(* through every switch and when a fiber moves from thread to thread, for  *)
(* any guest: ReturnToThread and Finalize believe it blindly.              *)
CurrentIsRunning ==
  Apart => \A t \in Threads : running[t] # None =>
             cur[t] = IF running[t] \in Fibers THEN running[t] ELSE None

(* No context is executed by two OS threads, as long as the guest leaves   *)
(* fibers that are run or sit in Switch alone: resume_to, one slot for all *)
(* the threads a fiber visits, never leads into a context in use.          *)
OneThreadPerContext == nested => Apart

(* The way back from what thread t executes, from each fiber to the        *)
(* context its resume_to names, never comes to t: it ends elsewhere, or,   *)
(* after two fibers switched to each other, goes round in a circle.        *)
Lost(t) ==
  \E S \in SUBSET (Contexts \cup {None, Gone}) :
    /\ running[t] \in S /\ t \notin S
    /\ \A f \in S \cap Fibers : resumeTo[f] \in S

(* A guest that nests its switches loses no thread: the way back leads     *)
(* through its own callers to the thread's own context.                    *)
NobodyIsLost == nested => \A t \in Threads : ~Lost(t)

=============================================================================
