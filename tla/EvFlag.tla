------------------------------- MODULE EvFlag -------------------------------
(***************************************************************************)
(* sceKernel*EventFlag as src/evflag.cpp implements it: a bit pattern      *)
(* under a mutex, and a condition variable its waiters sleep on, at most   *)
(* for a cap.  One flag: flags share nothing but the registry.             *)
(*                                                                         *)
(* Every operation looks the handle up in the registry first, under the    *)
(* registry's mutex only, and notifies after it has left the flag's mutex; *)
(* both are steps of their own, so a Delete or a Cancel can fall between.  *)
(***************************************************************************)
EXTENDS Naturals, FiniteSets

CONSTANTS
  Threads,     (* guest threads                                            *)
  Bits,        (* the bits of the pattern                                  *)
  Requests,    (* what threads wait for: records [bits, mode, clear]       *)
  CapExpires   (* may a timeout or PSEMU_EVFLAG_WAIT_MS run out            *)

Modes == {"and", "or"}
Clears == {"none", "all", "pat"}

ASSUME ThreadsAssumption == IsFiniteSet(Threads)
ASSUME RequestsAssumption ==
  Requests \subseteq [bits : SUBSET Bits, mode : Modes, clear : Clears]

Just(b) == [bits |-> b, mode |-> "and", clear |-> "none"]
NoArgs == Just({})

ASSUME CapAssumption == CapExpires \in BOOLEAN

VARIABLES
  registered, (* the flag is in g_flags                                    *)
  pattern,    (* Flag::pattern, as the set of its bits                     *)
  waiters,    (* Flag::waiters                                             *)
  canceled,   (* Flag::canceled                                            *)
  deleted,    (* Flag::deleted                                             *)
  pc,         (* where each thread is, or what its last call answered      *)
  req,        (* the arguments of its current call                         *)
  signaled    (* waiters with a notification they have not looked at yet   *)

vars == <<registered, pattern, waiters, canceled, deleted, pc, req, signaled>>
flag == <<registered, pattern, waiters, canceled, deleted>>

Answers == {"ok", "timeout", "canceled", "inval"}
Calls == {"set", "clear", "poll", "enter", "cancel", "erase"}
PC == Answers \cup Calls \cup {"wait", "delete", "notify", "cancelNotify", "reset"}

TypeOK ==
  /\ registered \in BOOLEAN /\ canceled \in BOOLEAN /\ deleted \in BOOLEAN
  /\ pattern \subseteq Bits
  /\ waiters = Cardinality({t \in Threads : pc[t] = "wait"})
  /\ pc \in [Threads -> PC]
  /\ req \in [Threads -> [bits : SUBSET Bits, mode : Modes, clear : Clears]]
  /\ signaled \subseteq Threads

Init ==
  /\ registered = TRUE /\ canceled = FALSE /\ deleted = FALSE
  /\ pattern \in SUBSET Bits
  /\ waiters = 0
  /\ pc = [t \in Threads |-> "ok"]
  /\ req = [t \in Threads |-> NoArgs]
  /\ signaled = {}

(* The next step of a call; with an answer its arguments are gone.         *)
Goto(t, p) ==
  /\ pc' = [pc EXCEPT ![t] = p]
  /\ req' = [req EXCEPT ![t] = IF p \in Answers THEN NoArgs ELSE @]

-----------------------------------------------------------------------------
(* The waiting condition and what a satisfied wait clears.                 *)
Satisfied(p, r) ==
  \/ r.bits = {}
  \/ r.mode = "or" /\ r.bits \cap p # {}
  \/ r.mode = "and" /\ r.bits \subseteq p

ApplyClear(p, r) ==
  CASE r.clear = "all" -> {}
    [] r.clear = "pat" -> p \ r.bits
    [] OTHER -> p

(* The predicate of the wait.                                              *)
Due(t) == deleted \/ canceled \/ Satisfied(pattern, req[t])

-----------------------------------------------------------------------------
(* Every call starts with the lookup of its handle.                        *)
Call(t, op, args) ==
  /\ pc[t] \in Answers
  /\ \/ /\ registered
        /\ pc' = [pc EXCEPT ![t] = op]
        /\ req' = [req EXCEPT ![t] = args]
     \/ ~registered /\ Goto(t, "inval")
  /\ UNCHANGED <<flag, signaled>>

Set_Silent(t) ==
  /\ pc[t] = "set"
  /\ pattern' = pattern \cup req[t].bits
  /\ Goto(t, "ok")
  /\ UNCHANGED <<registered, waiters, canceled, deleted, signaled>>
Set(t) ==
  /\ pc[t] = "set"
  /\ pattern' = pattern \cup req[t].bits
  /\ Goto(t, "notify")
  /\ UNCHANGED <<registered, waiters, canceled, deleted, signaled>>

(* The argument of Clear names the bits to KEEP.                           *)
Clear(t) ==
  /\ pc[t] = "clear"
  /\ pattern' = pattern \cap req[t].bits
  /\ Goto(t, "ok")
  /\ UNCHANGED <<registered, waiters, canceled, deleted, signaled>>

Poll(t) ==
  /\ pc[t] = "poll"
  /\ \/ /\ Satisfied(pattern, req[t])
        /\ pattern' = ApplyClear(pattern, req[t])
        /\ Goto(t, "ok")
     \/ /\ ~Satisfied(pattern, req[t])
        /\ Goto(t, "timeout")
        /\ UNCHANGED pattern
  /\ UNCHANGED <<registered, waiters, canceled, deleted, signaled>>

(* What a Wait does after its wait_for: the answer and the clearing.       *)
Leave_Unchecked(t) ==
  IF Satisfied(pattern, req[t])
    THEN pattern' = ApplyClear(pattern, req[t]) /\ Goto(t, "ok")
    ELSE UNCHANGED pattern /\ Goto(t, IF deleted \/ canceled THEN "canceled" ELSE "timeout")
Leave(t) ==
  IF deleted \/ canceled
    THEN UNCHANGED pattern /\ Goto(t, "canceled")
    ELSE IF Satisfied(pattern, req[t])
      THEN pattern' = ApplyClear(pattern, req[t]) /\ Goto(t, "ok")
      ELSE UNCHANGED pattern /\ Goto(t, "timeout")

Sleep(t) == Goto(t, "wait") /\ waiters' = waiters + 1 /\ UNCHANGED pattern

(* The predicate is looked at before the first sleep ...                   *)
EnterWait(t) ==
  /\ pc[t] = "enter"
  /\ \/ Due(t) /\ Leave(t) /\ UNCHANGED waiters
     \/ ~Due(t) /\ Sleep(t)
  /\ signaled' = signaled \ {t}
  /\ UNCHANGED <<registered, canceled, deleted>>

(* ... again at every notification ...                                     *)
Wake(t) ==
  /\ pc[t] = "wait" /\ t \in signaled
  /\ \/ Due(t) /\ Leave(t) /\ waiters' = waiters - 1
     \/ ~Due(t) /\ UNCHANGED <<pc, req, pattern, waiters>>
  /\ signaled' = signaled \ {t}
  /\ UNCHANGED <<registered, canceled, deleted>>

(* ... and once more when the time is up.                                  *)
WaitCapExpires(t) ==
  /\ CapExpires /\ pc[t] = "wait"
  /\ Leave(t) /\ waiters' = waiters - 1
  /\ signaled' = signaled \ {t}
  /\ UNCHANGED <<registered, canceled, deleted>>

(* Cancel: pattern and mark, notify, take the mark back.                   *)
CancelMark(t) ==
  /\ pc[t] = "cancel"
  /\ pattern' = req[t].bits /\ canceled' = TRUE
  /\ Goto(t, "cancelNotify")
  /\ UNCHANGED <<registered, waiters, deleted, signaled>>

CancelReset_Forgets(t) ==
  /\ pc[t] = "reset"
  /\ Goto(t, "ok")
  /\ UNCHANGED <<flag, signaled>>
CancelReset(t) ==
  /\ pc[t] = "reset"
  /\ canceled' = FALSE
  /\ Goto(t, "ok")
  /\ UNCHANGED <<registered, pattern, waiters, deleted, signaled>>

(* Delete leaves the registry, then marks the flag, whose memory stays.    *)
DeleteErase(t) ==
  /\ pc[t] = "erase"
  /\ registered' = FALSE
  /\ Goto(t, "delete")
  /\ UNCHANGED <<pattern, waiters, canceled, deleted, signaled>>

DeleteMark_Silent(t) ==
  /\ pc[t] = "delete"
  /\ deleted' = TRUE
  /\ Goto(t, "ok")
  /\ UNCHANGED <<registered, pattern, waiters, canceled, signaled>>
DeleteMark(t) ==
  /\ pc[t] = "delete"
  /\ deleted' = TRUE
  /\ Goto(t, "notify")
  /\ UNCHANGED <<registered, pattern, waiters, canceled, signaled>>

(* notify_all of Set, Delete and Cancel, after the mutex is released.      *)
NotifyAll(t) ==
  /\ pc[t] \in {"notify", "cancelNotify"}
  /\ Goto(t, IF pc[t] = "notify" THEN "ok" ELSE "reset")
  /\ signaled' = signaled \cup {u \in Threads : pc[u] = "wait"}
  /\ UNCHANGED <<flag>>

-----------------------------------------------------------------------------
Handler(t) ==
  \/ Set(t) \/ Clear(t) \/ Poll(t)
  \/ EnterWait(t) \/ Wake(t)
  \/ CancelMark(t) \/ CancelReset(t)
  \/ DeleteErase(t) \/ DeleteMark(t)
  \/ NotifyAll(t)

GuestCall(t) ==
  \/ \E b \in SUBSET Bits \ {{}} : Call(t, "set", Just(b))
  \/ \E b \in SUBSET Bits \ {Bits} : Call(t, "clear", Just(b))
  \/ \E b \in SUBSET Bits : Call(t, "cancel", Just(b))
  \/ \E op \in {"enter", "poll"}, r \in Requests : Call(t, op, r)
  \/ Call(t, "erase", NoArgs)

Next == \E t \in Threads : GuestCall(t) \/ Handler(t) \/ WaitCapExpires(t)

Spec == Init /\ [][Next]_vars

(* A thread inside a call keeps running.  A cap may run out and need not:  *)
(* what ends a wait below is the notification, never the cap; and no       *)
(* thread is obliged to call.                                              *)
FairSpec == Spec /\ \A t \in Threads : WF_vars(Handler(t))

-----------------------------------------------------------------------------
(* A waiter whose condition holds, or whose flag is canceled or deleted,   *)
(* has a notification pending or on its way, although Set, Cancel and      *)
(* Delete notify outside the mutex.                                        *)
NoLostWakeup ==
  \A t \in Threads : pc[t] = "wait" /\ Due(t) =>
    t \in signaled \/ \E u \in Threads : pc[u] \in {"notify", "cancelNotify"}

(* "Cancel is one-shot, the flag must be usable afterwards": the mark does *)
(* not outlive the Cancels in progress, also when two of them overlap.     *)
CancelIsOneShot ==
  canceled => \E t \in Threads : pc[t] \in {"cancelNotify", "reset"}

(* No fake answer (the reason why an expired cap answers ETIMEDOUT): Wait  *)
(* succeeds only on a live flag whose pattern satisfies it, times out only *)
(* when nothing was due, and is canceled only by a Cancel or a Delete.     *)
AnswersAreTrue ==
  [][\A t \in Threads : pc[t] \in {"enter", "wait"} =>
       /\ pc'[t] = "ok" => Satisfied(pattern, req[t]) /\ ~deleted /\ ~canceled
       /\ pc'[t] = "timeout" => ~Due(t)
       /\ pc'[t] = "canceled" =>
            \/ deleted
            \/ \E u \in Threads : pc[u] \in {"cancelNotify", "reset"}]_vars

(* "Wake the waiters, or they hang for ever" (Delete), without the cap: a  *)
(* sleeper whose flag was deleted or canceled or whose condition came true *)
(* is answered, unless that is undone first: a Clear or another wait that  *)
(* takes the bits, or the Cancel that takes its mark back.                 *)
DueIsAnswered ==
  \A t \in Threads :
    pc[t] = "wait" /\ Due(t) ~> pc[t] \in Answers \/ (pc[t] = "wait" /\ ~Due(t))
=============================================================================
