---------------------------- MODULE EvFlagProofs ----------------------------
(***************************************************************************)
(* Proofs about EvFlag for any number of threads, any pattern and any      *)
(* requests, with and without the cap.                                     *)
(***************************************************************************)
EXTENDS EvFlag, TLAPS, FiniteSetTheorems

(* Who sleeps, and what the flag's counter of them says.                   *)
Waiting == {t \in Threads : pc[t] = "wait"}

(* NoLostWakeup and CancelIsOneShot are inductive beside the types.        *)
IInv == TypeOK /\ NoLostWakeup /\ CancelIsOneShot

USE DEF PC, Answers, Calls, Modes, Clears

-----------------------------------------------------------------------------
(* Clearing bits satisfies nobody: what a smaller pattern satisfies, the   *)
(* larger one satisfied.                                                   *)
LEMMA SatisfiedIsMonotone ==
  ASSUME NEW p, NEW q \in SUBSET p, NEW r, Satisfied(q, r)
  PROVE  Satisfied(p, r)
BY DEF Satisfied

(* A satisfied wait or poll only clears bits.                              *)
LEMMA ApplyClearShrinks ==
  ASSUME NEW p, NEW r
  PROVE  ApplyClear(p, r) \subseteq p
BY DEF ApplyClear

(* Leaving a wait answers and clears bits at most.                         *)
LEMMA LeaveAnswers ==
  ASSUME TypeOK, NEW t \in Threads, Leave(t)
  PROVE  /\ pattern' \subseteq pattern
         /\ \E a \in {"ok", "timeout", "canceled"} :
              pc' = [pc EXCEPT ![t] = a] /\ req' = [req EXCEPT ![t] = NoArgs]
<1>1. ApplyClear(pattern, req[t]) \subseteq pattern
  BY ApplyClearShrinks
<1>2. QED
  BY <1>1 DEF Leave, Goto

(* The counter after one thread fell asleep or woke up, or none did.       *)
LEMMA WaitersStep ==
  ASSUME TypeOK, pc' \in [Threads -> PC], NEW t \in Threads,
         \A u \in Threads \ {t} : pc'[u] = pc[u],
         \/ pc[t] = "wait" /\ pc'[t] # "wait" /\ waiters' = waiters - 1
         \/ pc[t] # "wait" /\ pc'[t] = "wait" /\ waiters' = waiters + 1
         \/ (pc[t] = "wait" <=> pc'[t] = "wait") /\ waiters' = waiters
  PROVE  waiters' = Cardinality({u \in Threads : pc'[u] = "wait"})
<1>1. IsFiniteSet(Waiting) /\ waiters = Cardinality(Waiting)
  BY ThreadsAssumption, FS_Subset DEF TypeOK, Waiting
<1>2. CASE pc[t] = "wait" /\ pc'[t] # "wait" /\ waiters' = waiters - 1
  <2>1. {u \in Threads : pc'[u] = "wait"} = Waiting \ {t} /\ t \in Waiting
    BY <1>2 DEF Waiting
  <2>2. QED
    BY <1>1, <1>2, <2>1, FS_RemoveElement
<1>3. CASE pc[t] # "wait" /\ pc'[t] = "wait" /\ waiters' = waiters + 1
  <2>1. {u \in Threads : pc'[u] = "wait"} = Waiting \cup {t} /\ t \notin Waiting
    BY <1>3 DEF Waiting
  <2>2. QED
    BY <1>1, <1>3, <2>1, FS_AddElement
<1>4. CASE (pc[t] = "wait" <=> pc'[t] = "wait") /\ waiters' = waiters
  <2>1. {u \in Threads : pc'[u] = "wait"} = Waiting
    BY <1>4 DEF Waiting
  <2>2. QED
    BY <1>1, <1>4, <2>1
<1>5. QED
  BY <1>2, <1>3, <1>4

-----------------------------------------------------------------------------
(* Initially nobody is in a call.                                          *)
LEMMA InitIInv == Init => IInv
<1> SUFFICES ASSUME Init PROVE IInv
  OBVIOUS
<1>1. {t \in Threads : pc[t] = "wait"} = {}
  BY DEF Init
<1>2. TypeOK
  BY <1>1, FS_EmptySet DEF Init, TypeOK, NoArgs, Just
<1>3. QED
  BY <1>2 DEF Init, IInv, NoLostWakeup, CancelIsOneShot

(* The types, with the counter of waiters, step by step.                   *)
LEMMA StepTypeOK == IInv /\ [Next]_vars => TypeOK'
<1> SUFFICES ASSUME IInv, [Next]_vars PROVE TypeOK'
  OBVIOUS
<1> USE DEF IInv
<1>0. NoArgs \in [bits : SUBSET Bits, mode : Modes, clear : Clears]
  BY DEF NoArgs, Just
<1>1. ASSUME NEW t \in Threads, GuestCall(t)
      PROVE TypeOK'
  <2>1. \A b \in SUBSET Bits : Just(b) \in [bits : SUBSET Bits, mode : Modes, clear : Clears]
    BY DEF Just
  <2>2. PICK op \in Calls, args \in [bits : SUBSET Bits, mode : Modes, clear : Clears] :
          Call(t, op, args)
    BY <1>0, <1>1, <2>1, RequestsAssumption DEF GuestCall
  <2>3. /\ pc' \in [Threads -> PC] /\ \A u \in Threads \ {t} : pc'[u] = pc[u]
        /\ pc[t] # "wait" /\ pc'[t] # "wait" /\ waiters' = waiters
    BY <2>2 DEF Call, Goto, flag, TypeOK
  <2>4. waiters' = Cardinality({u \in Threads : pc'[u] = "wait"})
    BY <2>3, WaitersStep
  <2>5. QED
    BY <1>0, <2>2, <2>3, <2>4 DEF Call, Goto, flag, TypeOK
<1>2. ASSUME NEW t \in Threads,
             \/ Set(t) \/ Clear(t) \/ Poll(t) \/ CancelMark(t) \/ CancelReset(t)
             \/ DeleteErase(t) \/ DeleteMark(t) \/ NotifyAll(t)
      PROVE TypeOK'
  <2>1. ApplyClear(pattern, req[t]) \subseteq pattern
    BY ApplyClearShrinks
  <2>2. /\ pc' \in [Threads -> PC] /\ \A u \in Threads \ {t} : pc'[u] = pc[u]
        /\ pc[t] # "wait" /\ pc'[t] # "wait" /\ waiters' = waiters
    BY <1>2 DEF Set, Clear, Poll, CancelMark, CancelReset, DeleteErase, DeleteMark,
                NotifyAll, Goto, flag, TypeOK
  <2>3. waiters' = Cardinality({u \in Threads : pc'[u] = "wait"})
    BY <2>2, WaitersStep
  <2>4. req' \in [Threads -> [bits : SUBSET Bits, mode : Modes, clear : Clears]]
    BY <1>0, <1>2 DEF Set, Clear, Poll, CancelMark, CancelReset, DeleteErase, DeleteMark,
                NotifyAll, Goto, TypeOK
  <2>5. pattern' \subseteq Bits
    BY <1>2, <2>1 DEF Set, Clear, Poll, CancelMark, CancelReset, DeleteErase, DeleteMark,
                NotifyAll, flag, TypeOK
  <2>6. QED
    BY <1>2, <2>2, <2>3, <2>4, <2>5
    DEF Set, Clear, Poll, CancelMark, CancelReset, DeleteErase, DeleteMark,
        NotifyAll, flag, TypeOK
<1>3. ASSUME NEW t \in Threads, EnterWait(t) \/ Wake(t) \/ WaitCapExpires(t)
      PROVE TypeOK'
  <2>1. /\ pc' \in [Threads -> PC] /\ \A u \in Threads \ {t} : pc'[u] = pc[u]
        /\ req' \in [Threads -> [bits : SUBSET Bits, mode : Modes, clear : Clears]]
        /\ pattern' \subseteq Bits
        /\ \/ pc[t] = "wait" /\ pc'[t] # "wait" /\ waiters' = waiters - 1
           \/ pc[t] # "wait" /\ pc'[t] = "wait" /\ waiters' = waiters + 1
           \/ (pc[t] = "wait" <=> pc'[t] = "wait") /\ waiters' = waiters
    <3>1. CASE Leave(t)
      <4>1. PICK a \in {"ok", "timeout", "canceled"} :
              pc' = [pc EXCEPT ![t] = a] /\ req' = [req EXCEPT ![t] = NoArgs]
        BY <3>1, LeaveAnswers
      <4>2. pattern' \subseteq pattern
        BY <3>1, LeaveAnswers
      <4>3. \/ pc[t] # "wait" /\ waiters' = waiters
            \/ pc[t] = "wait" /\ waiters' = waiters - 1
        BY <1>3, <4>1 DEF EnterWait, Wake, WaitCapExpires, Sleep, Goto, TypeOK
      <4>4. QED
        BY <1>0, <4>1, <4>2, <4>3 DEF TypeOK
    <3>2. CASE Sleep(t) /\ EnterWait(t)
      BY <1>3, <3>2 DEF EnterWait, Sleep, Goto, TypeOK
    <3>3. CASE UNCHANGED <<pc, req, pattern, waiters>>
      BY <3>3 DEF TypeOK
    <3>4. QED
      BY <1>3, <3>1, <3>2, <3>3 DEF EnterWait, Wake, WaitCapExpires
  <2>2. waiters' = Cardinality({u \in Threads : pc'[u] = "wait"})
    BY <2>1, WaitersStep
  <2>3. QED
    BY <1>3, <2>1, <2>2 DEF EnterWait, Wake, WaitCapExpires, TypeOK
<1>4. CASE UNCHANGED vars
  BY <1>4 DEF vars, TypeOK
<1>5. QED
  BY <1>1, <1>2, <1>3, <1>4 DEF Next, Handler

(* Whoever sleeps goes on sleeping with the same request, and unless the   *)
(* step is the one that makes its condition true, was due already.         *)
LEMMA StepNoLostWakeup == IInv /\ [Next]_vars => NoLostWakeup'
<1> SUFFICES ASSUME IInv, [Next]_vars, NEW w \in Threads, pc'[w] = "wait", Due(w)'
             PROVE  w \in signaled' \/ \E u \in Threads : pc'[u] \in {"notify", "cancelNotify"}
  BY DEF NoLostWakeup
<1> USE DEF IInv
<1>a. ASSUME pc[w] = "wait", req'[w] = req[w], pattern' \subseteq pattern,
             deleted' => deleted, canceled' => canceled
      PROVE  w \in signaled \/ \E u \in Threads : pc[u] \in {"notify", "cancelNotify"}
  <2>1. Due(w)
    BY <1>a, SatisfiedIsMonotone DEF Due
  <2>2. QED
    BY <1>a, <2>1 DEF NoLostWakeup
<1>1. ASSUME NEW t \in Threads, NEW op \in Calls, NEW args, Call(t, op, args)
      PROVE  w \in signaled' \/ \E u \in Threads : pc'[u] \in {"notify", "cancelNotify"}
  <2>1. /\ w # t /\ pc[w] = "wait" /\ req'[w] = req[w] /\ UNCHANGED <<flag, signaled>>
        /\ pc[t] \in Answers /\ \A u \in Threads \ {t} : pc'[u] = pc[u]
    BY <1>1 DEF Call, Goto, flag, TypeOK
  <2>2. QED
    BY <1>a, <2>1 DEF flag
<1>2. ASSUME NEW t \in Threads,
             \/ Clear(t) \/ Poll(t) \/ CancelReset(t) \/ DeleteErase(t)
      PROVE  w \in signaled' \/ \E u \in Threads : pc'[u] \in {"notify", "cancelNotify"}
  <2>1. ApplyClear(pattern, req[t]) \subseteq pattern
    BY ApplyClearShrinks
  <2>2. /\ w # t /\ pc[w] = "wait" /\ req'[w] = req[w]
        /\ pc[t] \notin {"notify", "cancelNotify"} /\ \A u \in Threads \ {t} : pc'[u] = pc[u]
    BY <1>2 DEF Clear, Poll, CancelReset, DeleteErase, Goto, TypeOK
  <2>3. /\ pattern' \subseteq pattern /\ signaled' = signaled
        /\ (deleted' => deleted) /\ (canceled' => canceled)
    BY <1>2, <2>1 DEF Clear, Poll, CancelReset, DeleteErase, flag
  <2>4. QED
    BY <1>a, <2>2, <2>3
<1>3. ASSUME NEW t \in Threads, Set(t) \/ CancelMark(t) \/ DeleteMark(t)
      PROVE  w \in signaled' \/ \E u \in Threads : pc'[u] \in {"notify", "cancelNotify"}
  BY <1>3 DEF Set, CancelMark, DeleteMark, Goto, TypeOK
<1>4. ASSUME NEW t \in Threads, NotifyAll(t)
      PROVE  w \in signaled' \/ \E u \in Threads : pc'[u] \in {"notify", "cancelNotify"}
  BY <1>4 DEF NotifyAll, Goto, TypeOK
<1>5. ASSUME NEW t \in Threads, EnterWait(t) \/ Wake(t) \/ WaitCapExpires(t)
      PROVE  w \in signaled' \/ \E u \in Threads : pc'[u] \in {"notify", "cancelNotify"}
  <2>1. deleted' = deleted /\ canceled' = canceled /\ signaled' = signaled \ {t}
    BY <1>5 DEF EnterWait, Wake, WaitCapExpires
  <2>2. CASE Leave(t)
    <3>1. /\ w # t /\ pc[w] = "wait" /\ req'[w] = req[w] /\ pattern' \subseteq pattern
          /\ \A u \in Threads \ {t} : pc'[u] = pc[u]
      BY <2>2, LeaveAnswers DEF TypeOK
    <3>2. pc[t] \in {"enter", "wait"}
      BY <1>5 DEF EnterWait, Wake, WaitCapExpires
    <3>3. QED
      BY <1>a, <2>1, <3>1, <3>2
  <2>3. CASE ~Due(t) /\ (Sleep(t) \/ UNCHANGED <<pc, req, pattern, waiters>>)
    <3>1. /\ pattern' = pattern /\ req' = req /\ \A u \in Threads \ {t} : pc'[u] = pc[u]
      BY <2>3 DEF Sleep, Goto, TypeOK
    <3>2. w # t
      BY <2>1, <2>3, <3>1 DEF Due
    <3>3. pc[t] \in {"enter", "wait"}
      BY <1>5 DEF EnterWait, Wake, WaitCapExpires
    <3>4. QED
      BY <1>a, <2>1, <3>1, <3>2, <3>3
  <2>4. QED
    BY <1>5, <2>2, <2>3 DEF EnterWait, Wake, WaitCapExpires
<1>6. CASE UNCHANGED vars
  BY <1>6, <1>a DEF vars
<1>7. QED
  BY <1>1, <1>2, <1>3, <1>4, <1>5, <1>6 DEF Next, Handler, GuestCall

(* A mark is taken back by the Cancel that is inside.                      *)
LEMMA StepCancelIsOneShot == IInv /\ [Next]_vars => CancelIsOneShot'
<1> SUFFICES ASSUME IInv, [Next]_vars, canceled'
             PROVE  \E u \in Threads : pc'[u] \in {"cancelNotify", "reset"}
  BY DEF CancelIsOneShot
<1> USE DEF IInv, CancelIsOneShot
<1>1. ASSUME NEW t \in Threads, canceled, pc[t] \notin {"cancelNotify", "reset"},
             \A u \in Threads \ {t} : pc'[u] = pc[u]
      PROVE  \E u \in Threads : pc'[u] \in {"cancelNotify", "reset"}
  BY <1>1
<1>2. ASSUME NEW t \in Threads, NEW op \in Calls, NEW args, Call(t, op, args)
      PROVE  \E u \in Threads : pc'[u] \in {"cancelNotify", "reset"}
  BY <1>1, <1>2 DEF Call, Goto, flag, TypeOK
<1>3. ASSUME NEW t \in Threads,
             Set(t) \/ Clear(t) \/ Poll(t) \/ DeleteErase(t) \/ DeleteMark(t)
      PROVE  \E u \in Threads : pc'[u] \in {"cancelNotify", "reset"}
  BY <1>1, <1>3 DEF Set, Clear, Poll, DeleteErase, DeleteMark, Goto, flag, TypeOK
<1>4. ASSUME NEW t \in Threads, CancelMark(t) \/ CancelReset(t) \/ NotifyAll(t)
      PROVE  \E u \in Threads : pc'[u] \in {"cancelNotify", "reset"}
  BY <1>4 DEF CancelMark, CancelReset, NotifyAll, Goto, flag, TypeOK
<1>5. ASSUME NEW t \in Threads, EnterWait(t) \/ Wake(t) \/ WaitCapExpires(t)
      PROVE  \E u \in Threads : pc'[u] \in {"cancelNotify", "reset"}
  <2>1. canceled /\ pc[t] \in {"enter", "wait"}
    BY <1>5 DEF EnterWait, Wake, WaitCapExpires
  <2>2. \A u \in Threads \ {t} : pc'[u] = pc[u]
    <3>1. CASE Leave(t)
      BY <3>1, LeaveAnswers DEF TypeOK
    <3>2. CASE Sleep(t) \/ UNCHANGED <<pc, req, pattern, waiters>>
      BY <3>2 DEF Sleep, Goto, TypeOK
    <3>3. QED
      BY <1>5, <3>1, <3>2 DEF EnterWait, Wake, WaitCapExpires
  <2>3. QED
    BY <1>1, <2>1, <2>2
<1>6. CASE UNCHANGED vars
  BY <1>6 DEF vars
<1>7. QED
  BY <1>2, <1>3, <1>4, <1>5, <1>6 DEF Next, Handler, GuestCall

-----------------------------------------------------------------------------
(* The types, no lost wakeup and one-shot cancels hold together.           *)
LEMMA Invariance == Spec => []IInv
<1>1. IInv /\ [Next]_vars => IInv'
  BY StepTypeOK, StepNoLostWakeup, StepCancelIsOneShot DEF IInv
<1>2. QED
  BY InitIInv, <1>1, PTL DEF Spec

(* Type correctness of the flag (evflag.cpp's Flag), of its waiters and    *)
(* their requests: the counter a Cancel reports is the number of sleepers. *)
THEOREM TypeHolds == Spec => []TypeOK
<1>1. IInv => TypeOK
  BY DEF IInv
<1>2. QED
  BY <1>1, Invariance, PTL

(* A waiter that is due is notified or about to be, although Set, Cancel   *)
(* and Delete notify behind the mutex, whatever several waiters' clearing  *)
(* does to the pattern in between.                                         *)
THEOREM NoLostWakeupHolds == Spec => []NoLostWakeup
<1>1. IInv => NoLostWakeup
  BY DEF IInv
<1>2. QED
  BY <1>1, Invariance, PTL

(* The mark of a Cancel does not outlive the Cancels in progress, however  *)
(* many overlap: the flag stays usable.                                    *)
THEOREM CancelIsOneShotHolds == Spec => []CancelIsOneShot
<1>1. IInv => CancelIsOneShot
  BY DEF IInv
<1>2. QED
  BY <1>1, Invariance, PTL

(* No wait is answered falsely, in any interleaving with Sets, Clears,     *)
(* Cancels and Deletes: what the answer claims was so when it was given.   *)
THEOREM AnswersAreTrueHolds == Spec => AnswersAreTrue
<1> DEFINE Answered(t) ==
      pc[t] \in {"enter", "wait"} =>
       /\ pc'[t] = "ok" => Satisfied(pattern, req[t]) /\ ~deleted /\ ~canceled
       /\ pc'[t] = "timeout" => ~Due(t)
       /\ pc'[t] = "canceled" =>
            \/ deleted
            \/ \E u \in Threads : pc[u] \in {"cancelNotify", "reset"}
<1>1. ASSUME IInv, [Next]_vars PROVE [\A t \in Threads : Answered(t)]_vars
  <2> SUFFICES ASSUME NEW w \in Threads, pc[w] \in {"enter", "wait"}, Next PROVE Answered(w)
    BY <1>1
  <2> USE <1>1 DEF IInv
  <2>1. ASSUME pc'[w] = pc[w] PROVE Answered(w)
    BY <2>1
  <2>2. ASSUME NEW t \in Threads, NEW op \in Calls, NEW args, Call(t, op, args)
        PROVE  Answered(w)
    BY <2>1, <2>2 DEF Call, Goto, TypeOK
  <2>3. ASSUME NEW t \in Threads,
               \/ Set(t) \/ Clear(t) \/ Poll(t) \/ CancelMark(t) \/ CancelReset(t)
               \/ DeleteErase(t) \/ DeleteMark(t) \/ NotifyAll(t)
        PROVE  Answered(w)
    BY <2>1, <2>3 DEF Set, Clear, Poll, CancelMark, CancelReset, DeleteErase, DeleteMark,
                      NotifyAll, Goto, TypeOK
  <2>4. ASSUME NEW t \in Threads, t # w, EnterWait(t) \/ Wake(t) \/ WaitCapExpires(t)
        PROVE  Answered(w)
    <3>1. CASE Leave(t)
      BY <2>1, <2>4, <3>1, LeaveAnswers DEF TypeOK
    <3>2. CASE Sleep(t) \/ UNCHANGED <<pc, req, pattern, waiters>>
      BY <2>1, <2>4, <3>2 DEF Sleep, Goto, TypeOK
    <3>3. QED
      BY <2>4, <3>1, <3>2 DEF EnterWait, Wake, WaitCapExpires
  <2>5. ASSUME EnterWait(w) \/ Wake(w) \/ WaitCapExpires(w)
        PROVE  Answered(w)
    <3>1. CASE Leave(w)
      <4>1. CASE deleted \/ canceled
        BY <3>1, <4>1 DEF Leave, Goto, TypeOK, CancelIsOneShot
      <4>2. CASE ~(deleted \/ canceled)
        BY <3>1, <4>2 DEF Leave, Goto, TypeOK, Due
      <4>3. QED
        BY <4>1, <4>2
    <3>2. CASE Sleep(w)
      BY <3>2 DEF Sleep, Goto, TypeOK
    <3>3. CASE UNCHANGED <<pc, req, pattern, waiters>>
      BY <2>1, <3>3
    <3>4. QED
      BY <2>5, <3>1, <3>2, <3>3 DEF EnterWait, Wake, WaitCapExpires
  <2>6. QED
    BY <2>2, <2>3, <2>4, <2>5 DEF Next, Handler, GuestCall
<1>2. Spec => [][\A t \in Threads : Answered(t)]_vars
  BY <1>1, Invariance, PTL DEF Spec
<1>3. QED
  BY <1>2 DEF AnswersAreTrue
=============================================================================
