------------------------------ MODULE CxaGuard ------------------------------
(***************************************************************************)
(* The __cxa_guard_acquire / _release / _abort handlers of src/core.cpp:   *)
(* the blocking table that serialises the construction of the guest's      *)
(* function-local statics.  A guest thread asks to build a static; one     *)
(* thread is told to build, the others wait on one condition variable,     *)
(* at most for a cap, after which they go on as if the static were built.  *)
(*                                                                         *)
(* The guard byte lives in guest memory and is read and written OUTSIDE    *)
(* the table's mutex; notify_all also happens after the unlock.  Each of   *)
(* these is a step of its own here.                                        *)
(***************************************************************************)
EXTENDS Naturals, FiniteSets

CONSTANTS
  Threads,    (* guest threads                                             *)
  Guards,     (* addresses of guard variables, one per static              *)
  None,       (* owner = 0: nobody builds                                  *)
  MaxNest,    (* bound: statics one thread may have under construction     *)
  Reentrant,  (* may a constructor come back to its own static (guest UB)  *)
  CapExpires  (* may the wait cap (PSEMU_GUARD_WAIT_MS) run out            *)

ASSUME NoneIsNoThread == None \notin Threads
ASSUME Parameters == /\ MaxNest \in Nat \ {0}
                     /\ Reentrant \in BOOLEAN
                     /\ CapExpires \in BOOLEAN

VARIABLES
  byte,     (* the guest's guard byte                                      *)
  owner,    (* CxaGuardState::owner                                        *)
  done,     (* the guards whose CxaGuardState::done is true                *)
  pc,       (* where each thread is                                        *)
  arg,      (* the guard its current call is about                         *)
  depth,    (* constructions of each guard a thread is inside of           *)
  signaled, (* waiters with a notification they have not looked at yet     *)
  skipped   (* <<t, g>>: t was told by a regular 0 that g is built         *)

guardVars == <<byte, owner, done, pc, arg, depth, signaled, skipped>>

PC == {"run", "acquire", "wait", "release", "abort", "notify"}

TypeOK ==
  /\ byte \in [Guards -> {0, 1}]
  /\ owner \in [Guards -> Threads \cup {None}]
  /\ done \subseteq Guards
  /\ pc \in [Threads -> PC]
  /\ arg \in [Threads -> Guards]
  /\ depth \in [Threads -> [Guards -> Nat]]
  /\ signaled \subseteq Threads
  /\ skipped \subseteq Threads \X Guards

GuardInit ==
  /\ byte = [g \in Guards |-> 0]
  /\ owner = [g \in Guards |-> None]
  /\ done = {}
  /\ pc = [t \in Threads |-> "run"]
  /\ arg \in [Threads -> Guards]
  /\ depth = [t \in Threads |-> [g \in Guards |-> 0]]
  /\ signaled = {}
  /\ skipped = {}

Building(t, g) == depth[t][g] > 0

-----------------------------------------------------------------------------
(* __cxa_guard_acquire *)

(* The handler of acquire reads the guard byte before it takes any lock:   *)
(* a set byte answers 0 at once.                                           *)
AcquireFastPath(t, g) ==
  /\ pc[t] = "run"
  /\ byte[g] = 1
  /\ skipped' = skipped \cup {<<t, g>>}
  /\ UNCHANGED <<byte, owner, done, pc, arg, depth, signaled>>

CallAcquire(t, g) ==
  /\ pc[t] = "run"
  /\ byte[g] = 0
  /\ Building(t, g) => Reentrant /\ depth[t][g] < 2
  /\ ~Building(t, g) => Cardinality({h \in Guards : Building(t, h)}) < MaxNest
  /\ pc' = [pc EXCEPT ![t] = "acquire"]
  /\ arg' = [arg EXCEPT ![t] = g]
  /\ UNCHANGED <<byte, owner, done, depth, signaled, skipped>>

AnswerBuilt(t, g) ==
  /\ pc' = [pc EXCEPT ![t] = "run"]
  /\ skipped' = skipped \cup {<<t, g>>}
  /\ UNCHANGED <<owner, depth>>

AnswerBuild(t, g) ==
  /\ pc' = [pc EXCEPT ![t] = "run"]
  /\ owner' = [owner EXCEPT ![g] = t]
  /\ depth' = [depth EXCEPT ![t][g] = @ + 1]
  /\ UNCHANGED skipped

(* Nobody builds it, or the caller itself does (it would wait for itself). *)
MayBuild_Anyone(t, g) == TRUE
MayBuild_NotAgain(t, g) == owner[g] = None
MayBuild(t, g) == owner[g] \in {None, t}

(* CxaGuardAcquire up to the wait, under g_cxa_guard_mtx.                  *)
AcquireLocked(t) ==
  LET g == arg[t] IN
  /\ pc[t] = "acquire"
  /\ \/ /\ g \in done \/ byte[g] = 1
        /\ AnswerBuilt(t, g)
     \/ /\ g \notin done /\ byte[g] = 0
        /\ MayBuild(t, g)
        /\ AnswerBuild(t, g)
     \/ /\ g \notin done /\ byte[g] = 0
        /\ ~MayBuild(t, g)
        /\ pc' = [pc EXCEPT ![t] = "wait"]
        /\ UNCHANGED <<owner, depth, skipped>>
  /\ signaled' = signaled \ {t}
  /\ UNCHANGED <<byte, done, arg>>

(* What the waiter does once its predicate holds.                          *)
AfterWait_Skips(t, g) ==
  /\ g \in done \/ owner[g] = None
  /\ AnswerBuilt(t, g)
AfterWait(t, g) ==
  /\ g \in done \/ owner[g] = None
  /\ IF g \in done \/ byte[g] = 1 THEN AnswerBuilt(t, g) ELSE AnswerBuild(t, g)

(* The predicate is looked at again when a notification arrives ...        *)
Wake(t) ==
  LET g == arg[t] IN
  /\ pc[t] = "wait"
  /\ t \in signaled
  /\ signaled' = signaled \ {t}
  /\ \/ AfterWait(t, g)
     \/ /\ g \notin done /\ owner[g] # None
        /\ UNCHANGED <<owner, pc, depth, skipped>>
  /\ UNCHANGED <<byte, done, arg>>

(* ... and when the cap runs out, whose failure answers 0 all the same.    *)
WaitCapExpires(t) ==
  LET g == arg[t] IN
  /\ CapExpires
  /\ pc[t] = "wait"
  /\ signaled' = signaled \ {t}
  /\ \/ AfterWait(t, g)
     \/ /\ g \notin done /\ owner[g] # None
        /\ pc' = [pc EXCEPT ![t] = "run"]
        /\ UNCHANGED <<owner, depth, skipped>>
  /\ UNCHANGED <<byte, done, arg>>

-----------------------------------------------------------------------------
(* __cxa_guard_release and __cxa_guard_abort *)

(* Only a thread told to build ends a construction.  The byte is written   *)
(* first, outside the mutex.                                               *)
CallRelease(t, g) ==
  /\ pc[t] = "run"
  /\ Building(t, g)
  /\ byte' = [byte EXCEPT ![g] = 1]
  /\ pc' = [pc EXCEPT ![t] = "release"]
  /\ arg' = [arg EXCEPT ![t] = g]
  /\ UNCHANGED <<owner, done, depth, signaled, skipped>>

CallAbort(t, g) ==
  /\ pc[t] = "run"
  /\ Building(t, g)
  /\ byte' = [byte EXCEPT ![g] = 0]
  /\ pc' = [pc EXCEPT ![t] = "abort"]
  /\ arg' = [arg EXCEPT ![t] = g]
  /\ UNCHANGED <<owner, done, depth, signaled, skipped>>

(* CxaGuardFinish under the mutex ...                                      *)
FinishedBy(t) == IF pc[t] = "release" THEN done \cup {arg[t]} ELSE done

CxaGuardFinish_KeepsOwner(t) ==
  /\ pc[t] \in {"release", "abort"}
  /\ owner' = [owner EXCEPT ![arg[t]] = IF pc[t] = "release" THEN None ELSE @]
  /\ done' = FinishedBy(t)
  /\ depth' = [depth EXCEPT ![t][arg[t]] = @ - 1]
  /\ pc' = [pc EXCEPT ![t] = "notify"]
  /\ UNCHANGED <<byte, arg, signaled, skipped>>
CxaGuardFinish(t) ==
  LET g == arg[t] IN
  /\ pc[t] \in {"release", "abort"}
  /\ owner' = [owner EXCEPT ![g] = None]
  /\ done' = FinishedBy(t)
  /\ depth' = [depth EXCEPT ![t][g] = @ - 1]
  /\ pc' = [pc EXCEPT ![t] = "notify"]
  /\ UNCHANGED <<byte, arg, signaled, skipped>>

(* ... and its notify_all after the unlock.  One condition variable serves *)
(* every guard, so waiters of other guards wake for nothing.               *)
NotifyAll_One(t) ==
  /\ pc[t] = "notify"
  /\ pc' = [pc EXCEPT ![t] = "run"]
  /\ \/ \E w \in Threads : pc[w] = "wait" /\ signaled' = signaled \cup {w}
     \/ (\A w \in Threads : pc[w] # "wait") /\ UNCHANGED signaled
  /\ UNCHANGED <<byte, owner, done, arg, depth, skipped>>
NotifyAll(t) ==
  /\ pc[t] = "notify"
  /\ pc' = [pc EXCEPT ![t] = "run"]
  /\ signaled' = signaled \cup {w \in Threads : pc[w] = "wait"}
  /\ UNCHANGED <<byte, owner, done, arg, depth, skipped>>

-----------------------------------------------------------------------------
GuardNext ==
  \E t \in Threads :
    \/ \E g \in Guards : \/ AcquireFastPath(t, g)
                         \/ CallAcquire(t, g)
                         \/ CallRelease(t, g)
                         \/ CallAbort(t, g)
    \/ AcquireLocked(t)
    \/ Wake(t)
    \/ WaitCapExpires(t)
    \/ CxaGuardFinish(t)
    \/ NotifyAll(t)

GuardSpec == GuardInit /\ [][GuardNext]_guardVars

(* A thread inside a handler keeps running (weak fairness); a cap may run  *)
(* out and need not, so that no wait below ends by it.  A constructor that *)
(* gets to run terminates, and does not throw every time it is tried:      *)
(* strong fairness, as each nested acquire and each retry interrupts it.   *)
(* No thread is obliged to call acquire.                                   *)
Fairness ==
  \A t \in Threads :
    /\ WF_guardVars(AcquireLocked(t))
    /\ WF_guardVars(Wake(t))
    /\ WF_guardVars(CxaGuardFinish(t))
    /\ WF_guardVars(NotifyAll(t))
    /\ \A g \in Guards : SF_guardVars(CallRelease(t, g))

FairSpec == GuardSpec /\ Fairness

-----------------------------------------------------------------------------
(* Two threads never construct the same static at the same time: the crash *)
(* at RVA 0x37f34c that the table was written against.                     *)
OneBuilder ==
  \A g \in Guards, t, u \in Threads :
    Building(t, g) /\ Building(u, g) => t = u

(* A thread told "already built" by anything but an expired cap really     *)
(* finds the static built, and it stays built for that thread: no later    *)
(* abort takes the byte back.                                              *)
SkippedIsBuilt == \A t \in Threads, g \in Guards :
  <<t, g>> \in skipped => byte[g] = 1

(* A waiter whose static needs nobody any more (built, or given up) has a  *)
(* notification pending or on its way: no wakeup is lost although          *)
(* notify_all runs outside the mutex.                                      *)
NoLostWakeup ==
  \A t \in Threads :
    pc[t] = "wait" /\ (arg[t] \in done \/ owner[arg[t]] = None) =>
      t \in signaled \/ \E u \in Threads : pc[u] = "notify"

(* t waits for a thread that waits for a thread ... and none of them can   *)
(* end its construction: constructors of statics nested in a circle.       *)
Deadlocked(t) ==
  \E S \in SUBSET Threads :
    t \in S /\ \A u \in S : pc[u] = "wait" /\ owner[arg[u]] \in S

(* Without the cap every wait ends, in a handover or in the news that the  *)
(* static is built, unless constructors wait for each other in a circle:   *)
(* the wakeups all get through, however the waiters of several statics and *)
(* the aborts fall together, and the cap is needed for circles only.       *)
OnlyCirclesWait == \A t \in Threads : pc[t] = "wait" ~> pc[t] = "run" \/ Deadlocked(t)

(* What OneBuilder rests on: who builds, up to the moment the table is     *)
(* told otherwise, is the table's owner and nobody else is.                *)
OwnerInv ==
  \A t \in Threads, g \in Guards :
    /\ Building(t, g) => owner[g] = t /\ depth[t][g] = 1 /\ g \notin done
    /\ owner[g] = t => Building(t, g)
    /\ pc[t] \in {"acquire", "wait"} /\ arg[t] = g => ~Building(t, g)
    /\ pc[t] \in {"release", "abort"} /\ arg[t] = g => Building(t, g)

(* The guest's byte runs ahead of the table only in the hands of the       *)
(* owner, between its write and CxaGuardFinish.                            *)
ByteInv ==
  /\ \A g \in Guards :
       /\ g \in done => byte[g] = 1 /\ owner[g] = None
       /\ byte[g] = 1 /\ g \notin done =>
            \E t \in Threads : owner[g] = t /\ pc[t] = "release" /\ arg[t] = g
  /\ \A t \in Threads :
       /\ pc[t] = "release" => byte[arg[t]] = 1
       /\ pc[t] = "abort" => byte[arg[t]] = 0
=============================================================================
