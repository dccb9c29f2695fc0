----------------------------- MODULE FiberProofs -----------------------------
(***************************************************************************)
(* What a thread executes and where it will return to, for any number of   *)
(* threads and fibers.  For any guest the locals of suspended calls keep   *)
(* t_current right.  Of a guest that nests its switches, the contexts a    *)
(* thread has left in Run and Switch form a chain from what it executes    *)
(* down to its own: each waits for the next, which remembers it in         *)
(* resume_to.                                                              *)
(***************************************************************************)
EXTENDS Fiber, TLAPS

(* The locals of a suspended call name the fiber that made it.             *)
LocalsInv ==
  \A c \in Contexts :
    /\ frame[c].kind = "call" => frame[c].prev = IF c \in Fibers THEN c ELSE None
    /\ frame[c].kind = "return" => frame[c].gf = c /\ c \in Fibers

(* A thread's own context that sits in no call is being executed, until    *)
(* the process ends.                                                       *)
ThreadsInv ==
  (\E u \in Threads : running[u] # None) =>
    \A t \in Threads : frame[t].kind = "none" => Running(t)

AnyInv == TypeOK /\ LocalsInv /\ ThreadsInv /\ CurrentIsRunning

(* Under any guest, what is switched to restores its own t_current.        *)
LEMMA SwitchKeeps ==
  ASSUME AnyInv, NEW t \in Threads, MayCall(t), NEW c \in Contexts \cup {Gone},
         NEW fr \in Frame, fr.kind \in {"call", "return", "dead"},
         fr.kind = "call" => fr.prev = IF running[t] \in Fibers THEN running[t] ELSE None,
         fr.kind = "return" => fr.gf = running[t] /\ running[t] \in Fibers,
         SwitchToFiber(t, c, fr), fibers' \in SUBSET Fibers, made' \in SUBSET Fibers,
         resumeTo' \in [Fibers -> Contexts \cup {None, Gone}], nested' \in BOOLEAN
  PROVE  AnyInv'
<1>1. TypeOK /\ LocalsInv /\ ThreadsInv /\ CurrentIsRunning /\ Apart /\ running[t] # None
  BY DEF AnyInv, MayCall
<1>2. /\ Land(t, c)
      /\ frame' = [d \in Contexts |->
                     IF d = running[t] THEN fr
                     ELSE IF d = c /\ frame[c].kind # "dead" THEN NoFrame ELSE frame[d]]
  BY DEF SwitchToFiber
<1>3. NoFrame.kind = "none" /\ NoFrame \in Frame
  BY DEF NoFrame, Frame
<1>4. /\ running[t] \in Contexts /\ None \notin Contexts /\ Gone \notin Contexts
      /\ \A u \in Threads : u \in Contexts /\ u \notin Fibers
      /\ \A u \in Threads : running[u] \in Contexts \cup {None}
      /\ \A d \in Contexts : frame[d] \in Frame
      /\ \A d \in Contexts : d \in Fibers \/ d \in Threads
  BY <1>1, Distinct DEF TypeOK, Contexts
<1>5. frame' \in [Contexts -> Frame]
  BY <1>2, <1>3, <1>4
<1>6. LocalsInv'
  <2>1. \A d \in Contexts : \/ d = running[t] /\ frame'[d] = fr
                            \/ frame'[d] = NoFrame
                            \/ frame'[d] = frame[d]
    BY <1>2
  <2>2. QED
    BY <1>1, <1>3, <2>1 DEF LocalsInv
<1>7. ASSUME c # Gone, ~Running(c), frame[c].kind # "dead"
      PROVE  Restored(c) = IF c \in Fibers THEN c ELSE None
  <2>1. c \in Contexts /\ frame[c].kind \in {"none", "call", "return"}
    BY <1>4, <1>7 DEF Frame
  <2>2. CASE frame[c].kind = "none"
    BY <1>1, <1>4, <1>7, <2>1, <2>2 DEF Restored, ThreadsInv
  <2>3. CASE frame[c].kind = "call"
    BY <1>1, <2>1, <2>3 DEF Restored, LocalsInv
  <2>4. CASE frame[c].kind = "return"
    BY <1>1, <2>1, <2>4 DEF Restored, LocalsInv
  <2>5. QED
    BY <2>1, <2>2, <2>3, <2>4
<1>8. /\ running' \in [Threads -> Contexts \cup {None}]
      /\ cur' \in [Threads -> Fibers \cup {None}]
      /\ CurrentIsRunning'
      /\ \/ \A u \in Threads : running'[u] = None
         \/ \A d \in Threads : Running(d) /\ d # running[t] => Running(d)'
  <2>1. CASE c # Gone /\ ~Running(c) /\ frame[c].kind # "dead" /\ cur' = [cur EXCEPT ![t] = Restored(c)]
             /\ running' = [running EXCEPT ![t] = c]
    <3>1. cur' = [cur EXCEPT ![t] = IF c \in Fibers THEN c ELSE None] /\ c \in Contexts
      BY <1>7, <2>1
    <3>2. /\ running'[t] = c /\ cur'[t] = IF c \in Fibers THEN c ELSE None
          /\ \A u \in Threads \ {t} : running'[u] = running[u] /\ cur'[u] = cur[u]
      BY <1>1, <2>1, <3>1 DEF TypeOK
    <3>3. running' \in [Threads -> Contexts \cup {None}] /\ cur' \in [Threads -> Fibers \cup {None}]
      BY <1>1, <2>1, <3>1 DEF TypeOK
    <3>4. CurrentIsRunning'
      BY <1>1, <3>2 DEF CurrentIsRunning
    <3>5. \A d \in Threads : Running(d) /\ d # running[t] => Running(d)'
      BY <3>2 DEF Running
    <3>6. QED
      BY <3>3, <3>4, <3>5
  <2>2. CASE running' = [running EXCEPT ![t] = None] /\ UNCHANGED cur
    <3>1. running'[t] = None /\ \A u \in Threads \ {t} : running'[u] = running[u]
      BY <1>1, <2>2 DEF TypeOK
    <3>2. running' \in [Threads -> Contexts \cup {None}] /\ cur' \in [Threads -> Fibers \cup {None}]
      BY <1>1, <2>2 DEF TypeOK
    <3>3. CurrentIsRunning'
      BY <1>1, <2>2, <3>1 DEF CurrentIsRunning
    <3>4. \A d \in Threads : Running(d) /\ d # running[t] => Running(d)'
      BY <3>1 DEF Running
    <3>5. QED
      BY <3>2, <3>3, <3>4
  <2>3. CASE Running(c) /\ running' = [running EXCEPT ![t] = c] /\ UNCHANGED cur
    <3>1. PICK u \in Threads : running[u] = c
      BY <2>3 DEF Running
    <3>2. c \in Contexts
      BY <1>4, <3>1, Distinct DEF Contexts
    <3>3. running'[t] = c /\ \A v \in Threads \ {t} : running'[v] = running[v]
      BY <1>1, <2>3 DEF TypeOK
    <3>4. running' \in [Threads -> Contexts \cup {None}] /\ cur' \in [Threads -> Fibers \cup {None}]
      BY <1>1, <2>3, <3>2 DEF TypeOK
    <3>5. CurrentIsRunning'
      <4>1. CASE u = t
        BY <1>1, <2>3, <3>1, <3>3, <4>1 DEF CurrentIsRunning
      <4>2. CASE u # t
        <5>1. running'[u] = c /\ running'[t] = c /\ c # None
          BY <1>4, <3>1, <3>2, <3>3, <4>2
        <5>2. ~Apart'
          BY <4>2, <5>1 DEF Apart
        <5>3. QED
          BY <5>2 DEF CurrentIsRunning
      <4>3. QED
        BY <4>1, <4>2
    <3>6. \A d \in Threads : Running(d) /\ d # running[t] => Running(d)'
      BY <3>3 DEF Running
    <3>7. QED
      BY <3>4, <3>5, <3>6
  <2>4. CASE Die
    BY <1>1, <2>4 DEF Die, CurrentIsRunning, TypeOK
  <2>5. QED
    BY <1>2, <2>1, <2>2, <2>3, <2>4 DEF Land
<1>9. ThreadsInv'
  <2>1. SUFFICES ASSUME NEW u \in Threads, running'[u] # None,
                        NEW d \in Threads, frame'[d].kind = "none"
                 PROVE  Running(d)'
    BY DEF ThreadsInv
  <2>2. d # running[t] \/ frame'[d] = fr
    BY <1>2, <1>4
  <2>3. d # running[t] /\ \A e \in Threads : Running(e) /\ e # running[t] => Running(e)'
    BY <1>8, <2>1, <2>2
  <2>4. CASE d # c
    BY <1>1, <1>2, <1>4, <2>1, <2>3, <2>4 DEF ThreadsInv
  <2>5. CASE d = c
    <3>1. d # Gone /\ frame[d] \in Frame
      BY <1>4
    <3>2. frame[d].kind # "dead"
      BY <1>2, <1>4, <2>1, <2>3, <2>5
    <3>3. running' = [running EXCEPT ![t] = c] \/ Die
      BY <1>2, <2>5, <3>1, <3>2 DEF Land
    <3>4. CASE running' = [running EXCEPT ![t] = c]
      BY <1>1, <2>5, <3>4 DEF TypeOK, Running
    <3>5. CASE Die
      BY <2>1, <3>5 DEF Die
    <3>6. QED
      BY <3>3, <3>4, <3>5
  <2>6. QED
    BY <2>4, <2>5
<1>10. QED
  BY <1>5, <1>6, <1>8, <1>9 DEF AnyInv, TypeOK

(* Deleting a fiber touches no thread's locals.                            *)
LEMMA DeleteKeeps ==
  ASSUME AnyInv, NEW f \in Fibers, Delete(f), UNCHANGED <<running, cur>>,
         fibers' \in SUBSET Fibers, nested' \in BOOLEAN
  PROVE  AnyInv'
<1>1. TypeOK /\ LocalsInv /\ ThreadsInv /\ CurrentIsRunning
  BY DEF AnyInv
<1>2. NoFrame.kind = "none" /\ NoFrame \in Frame /\ f \notin Threads /\ f \in Contexts
  BY Distinct DEF NoFrame, Frame, Contexts
<1>3. frame' = [frame EXCEPT ![f] = NoFrame] /\ made' \subseteq made
  BY DEF Delete
<1>4. resumeTo' \in [Fibers -> Contexts \cup {None, Gone}]
  BY <1>1 DEF Delete, TypeOK
<1>5. TypeOK'
  BY <1>1, <1>2, <1>3, <1>4 DEF TypeOK
<1>6. /\ frame'[f] = NoFrame /\ \A c \in Contexts \ {f} : frame'[c] = frame[c]
  BY <1>1, <1>2, <1>3 DEF TypeOK
<1>7. LocalsInv'
  BY <1>1, <1>2, <1>6 DEF LocalsInv
<1>8. ThreadsInv'
  BY <1>1, <1>2, <1>6 DEF ThreadsInv, Running, Contexts
<1>9. CurrentIsRunning'
  BY <1>1 DEF CurrentIsRunning, Apart
<1>10. QED
  BY <1>5, <1>7, <1>8, <1>9 DEF AnyInv

(* So does the end of the process.                                         *)
LEMMA DieKeeps ==
  ASSUME AnyInv, Die, UNCHANGED <<made, resumeTo, frame>>,
         fibers' \in SUBSET Fibers, nested' \in BOOLEAN
  PROVE  AnyInv'
BY DEF AnyInv, Die, TypeOK, LocalsInv, ThreadsInv, CurrentIsRunning

(* A return goes to a context, or to a deleted one.                        *)
LEMMA BacksAreContexts ==
  ASSUME AnyInv, NEW t \in Threads, NEW f \in Fibers
  PROVE  Backs(t, f) \subseteq Contexts \cup {Gone}
BY DEF AnyInv, TypeOK, Backs, Back, Contexts

(* t_current is right through every call of any guest.                     *)
LEMMA AnyGuest == Spec => []AnyInv
<1>1. Init => AnyInv
  BY Distinct DEF Init, AnyInv, TypeOK, LocalsInv, ThreadsInv, CurrentIsRunning, Running, Apart,
     NoFrame, Frame, Contexts
<1>2. ASSUME AnyInv, [Next]_vars PROVE AnyInv'
  <2>1. TypeOK /\ CurrentIsRunning
    BY <1>2 DEF AnyInv
  <2>2. ASSUME NEW t \in Threads, NEW f \in Fibers, Initialize(t, f) PROVE AnyInv'
    <3>1. nested' \in BOOLEAN /\ fibers' \in SUBSET Fibers
      BY <2>1, <2>2 DEF Initialize, TypeOK
    <3>2. QED
      BY <1>2, <2>2, <3>1, DeleteKeeps, DieKeeps DEF Initialize
  <2>3. ASSUME NEW t \in Threads, NEW f \in Fibers, Finalize(t, f) PROVE AnyInv'
    <3>1. nested' \in BOOLEAN /\ fibers' \in SUBSET Fibers
      BY <2>1, <2>3 DEF Finalize, TypeOK
    <3>2. CASE Delete(f) /\ UNCHANGED <<running, cur>>
      BY <1>2, <3>1, <3>2, DeleteKeeps
    <3>3. CASE Die /\ UNCHANGED <<made, resumeTo, frame>>
      BY <1>2, <3>1, <3>3, DieKeeps
    <3>4. CASE UNCHANGED <<running, cur, made, resumeTo, frame>>
      BY <1>2, <3>1, <3>4 DEF AnyInv, TypeOK, LocalsInv, ThreadsInv, CurrentIsRunning, Running,
         Apart
    <3>5. QED
      BY <2>3, <3>2, <3>3, <3>4 DEF Finalize
  <2>4. ASSUME NEW t \in Threads, NEW f \in Fibers, Enter(t, f) PROVE AnyInv'
    <3>1. /\ MayCall(t) /\ SwitchToFiber(t, f, Locals(t, f)) /\ Apart /\ running[t] # None
          /\ resumeTo' = [resumeTo EXCEPT ![f] = running[t]]
          /\ nested' = (nested /\ Idle(f)) /\ made' = made \cup {f} /\ fibers' = fibers
      BY <2>4 DEF Enter, Caller, MayCall
    <3>2. cur[t] = IF running[t] \in Fibers THEN running[t] ELSE None
      BY <2>1, <3>1 DEF CurrentIsRunning
    <3>3. /\ Locals(t, f) \in Frame /\ Locals(t, f).kind = "call"
          /\ Locals(t, f).prev = cur[t] /\ f \in Contexts
      BY <3>2 DEF Locals, Frame, Contexts
    <3>4. /\ resumeTo' \in [Fibers -> Contexts \cup {None, Gone}] /\ nested' \in BOOLEAN
          /\ made' \in SUBSET Fibers /\ fibers' \in SUBSET Fibers
      BY <2>1, <3>1 DEF TypeOK
    <3> HIDE DEF Locals
    <3>5. QED
      BY <1>2, <3>1, <3>2, <3>3, <3>4, SwitchKeeps
  <2>5. ASSUME NEW t \in Threads, ReturnToThread(t) PROVE AnyInv'
    <3> DEFINE fr == [kind |-> "return", prev |-> None, gf |-> cur[t]]
    <3>1. /\ MayCall(t) /\ cur[t] # None /\ Apart /\ running[t] # None
          /\ UNCHANGED <<fibers, made, resumeTo, nested>>
      BY <2>5 DEF ReturnToThread, MayCall
    <3>2. cur[t] = running[t] /\ cur[t] \in Fibers
      BY <2>1, <3>1 DEF CurrentIsRunning
    <3>3. PICK c \in Contexts \cup {Gone} : SwitchToFiber(t, c, fr)
      BY <1>2, <2>5, <3>2, BacksAreContexts DEF ReturnToThread
    <3>4. fr \in Frame /\ fr.kind = "return" /\ fr.gf = running[t]
      BY <3>2 DEF Frame
    <3> HIDE DEF fr
    <3>5. QED
      BY <1>2, <2>1, <3>1, <3>2, <3>3, <3>4, SwitchKeeps DEF TypeOK
  <2>6. ASSUME NEW t \in Threads, EntryReturns(t) PROVE AnyInv'
    <3> DEFINE fr == [kind |-> "dead", prev |-> None, gf |-> None]
    <3>1. MayCall(t) /\ running[t] \in Fibers /\ UNCHANGED <<fibers, made, resumeTo, nested>>
      BY <2>6 DEF EntryReturns, OnFiber
    <3>2. PICK c \in Contexts \cup {Gone} : SwitchToFiber(t, c, fr)
      BY <1>2, <2>6, <3>1, BacksAreContexts DEF EntryReturns
    <3>3. fr \in Frame /\ fr.kind = "dead"
      BY DEF Frame
    <3> HIDE DEF fr
    <3>4. QED
      BY <1>2, <2>1, <3>1, <3>2, <3>3, SwitchKeeps DEF TypeOK
  <2>7. CASE UNCHANGED vars
    BY <1>2, <2>7 DEF vars, AnyInv, TypeOK, LocalsInv, ThreadsInv, CurrentIsRunning, Running, Apart
  <2>8. QED
    BY <1>2, <2>2, <2>3, <2>4, <2>5, <2>6, <2>7 DEF Next
<1>3. QED
  BY <1>1, <1>2, PTL DEF Spec

(* t_current names the fiber its thread really executes, through every     *)
(* switch and on whatever thread a fiber goes on, for any guest: nothing   *)
(* is asked of it.                                                         *)
THEOREM CurrentIsRunningHolds == Spec => []CurrentIsRunning
BY AnyGuest, PTL DEF AnyInv

-----------------------------------------------------------------------------
Waiting(c) == frame[c].kind = "call"
Inside(f) == Running(f) \/ Waiting(f)

(* No thread ends, and what is executed sits in no call.                   *)
KindsInv ==
  /\ \A t \in Threads : running[t] # None /\ frame[t].kind \in {"none", "call"}
  /\ \A c \in Contexts : Running(c) => frame[c].kind = "none"

(* The links of the chain, down and up.                                    *)
WaitersInv ==
  \A c \in Contexts : Waiting(c) =>
    frame[c].gf \in Fibers /\ Inside(frame[c].gf) /\ resumeTo[frame[c].gf] = c
ResumeInv ==
  \A f \in Fibers : Inside(f) =>
    /\ f \in fibers /\ resumeTo[f] \in Contexts
    /\ Waiting(resumeTo[f]) /\ frame[resumeTo[f]].gf = f

ChainInv ==
  /\ KindsInv /\ WaitersInv /\ ResumeInv /\ Apart
  /\ \A t \in Threads : ~Lost(t)

IInv == AnyInv /\ (nested => ChainInv)

(* What a context sits in, and what a thread executes, have their types.   *)
LEMMA Facts ==
  ASSUME AnyInv, ChainInv
  PROVE  /\ \A t \in Threads : running[t] \in Contexts /\ Running(running[t])
         /\ \A t \in Threads : cur[t] = IF running[t] \in Fibers THEN running[t] ELSE None
         /\ \A t, u \in Threads : running[t] = running[u] => t = u
         /\ \A c \in Contexts : frame[c] \in Frame
         /\ \A f \in Fibers : f \in Contexts /\ f \notin Threads /\ f # None /\ f # Gone
         /\ \A t \in Threads : t \in Contexts /\ t \notin Fibers /\ t # None /\ t # Gone
         /\ \A c \in Contexts : c \in Fibers \/ c \in Threads
BY Distinct DEF AnyInv, ChainInv, TypeOK, KindsInv, CurrentIsRunning, Apart, Running, Contexts

(* Cutting a set the way back stays in down to the contexts on some chain. *)
LEMMA OnChains ==
  ASSUME AnyInv, ChainInv, NEW t \in Threads,
         NEW S \in SUBSET (Contexts \cup {None, Gone}), running[t] \in S,
         \A g \in S \cap Fibers : Inside(g) => resumeTo[g] \in S
  PROVE  t \in S
<1> DEFINE S0 == {c \in S : c \in Threads \/ (c \in Fibers /\ Inside(c))}
<1>1. KindsInv /\ ResumeInv /\ ~Lost(t)
  BY DEF ChainInv
<1>2. running[t] \in S0
  BY Facts DEF Inside
<1>3. \A g \in S0 \cap Fibers : resumeTo[g] \in S0
  BY <1>1, Facts DEF ResumeInv, Inside
<1>4. S0 \in SUBSET (Contexts \cup {None, Gone})
  OBVIOUS
<1> HIDE DEF S0
<1>5. t \in S0
  BY <1>1, <1>2, <1>3, <1>4 DEF Lost
<1>6. QED
  BY <1>5 DEF S0

(* A fiber nobody is inside is deleted, or forgotten, without disturbing   *)
(* a chain.                                                                *)
LEMMA DeleteKeepsChains ==
  ASSUME AnyInv, ChainInv, NEW f \in Fibers, Free(f), Delete(f), UNCHANGED <<running, cur>>,
         fibers \ {f} \subseteq fibers'
  PROVE  ChainInv'
<1>1. TypeOK /\ KindsInv /\ WaitersInv /\ ResumeInv /\ Apart
  BY DEF ChainInv, AnyInv
<1>2. /\ frame' = [frame EXCEPT ![f] = NoFrame]
      /\ resumeTo' = [g \in Fibers |-> IF g = f THEN None
                                       ELSE IF resumeTo[g] = f THEN Gone ELSE resumeTo[g]]
      /\ NoFrame.kind = "none"
  BY DEF Delete, NoFrame
<1>3. /\ f \in Contexts /\ frame'[f] = NoFrame
      /\ \A c \in Contexts \ {f} : frame'[c] = frame[c]
  BY <1>1, <1>2, Facts DEF TypeOK
<1>4. \A c : Running(c)' <=> Running(c)
  BY DEF Running
<1>5. ~Waiting(f) /\ ~Inside(f)
  BY DEF Free, Waiting, Inside
<1>6. \A c \in Contexts : Waiting(c)' <=> Waiting(c)
  BY <1>2, <1>3, <1>5 DEF Waiting
<1>7. \A g \in Fibers : (Inside(g)' <=> Inside(g)) /\ (Inside(g) => g # f)
  BY <1>4, <1>5, <1>6, Facts DEF Inside
<1>8. \A g \in Fibers : Inside(g) => resumeTo'[g] = resumeTo[g] /\ resumeTo[g] # f
  BY <1>1, <1>2, <1>5, <1>7 DEF ResumeInv
<1>9. KindsInv'
  BY <1>1, <1>2, <1>3, <1>4 DEF KindsInv
<1>10. WaitersInv'
  <2>1. ASSUME NEW c \in Contexts, Waiting(c)'
        PROVE  \E g \in Fibers : frame'[c].gf = g /\ Inside(g)' /\ resumeTo'[g] = c
    <3>1. Waiting(c) /\ c # f /\ frame'[c] = frame[c]
      BY <1>3, <1>5, <1>6, <2>1
    <3>2. frame[c].gf \in Fibers /\ Inside(frame[c].gf) /\ resumeTo[frame[c].gf] = c
      BY <1>1, <3>1 DEF WaitersInv
    <3>3. QED
      BY <1>7, <1>8, <3>1, <3>2
  <2>2. QED
    BY <2>1 DEF WaitersInv, Inside, Running, Waiting
<1>11. ResumeInv'
  <2>1. ASSUME NEW g \in Fibers, Inside(g)'
        PROVE  \E c \in Contexts :
                 g \in fibers' /\ resumeTo'[g] = c /\ Waiting(c)' /\ frame'[c].gf = g
    <3>1. Inside(g) /\ g # f
      BY <1>7, <2>1
    <3>2. /\ g \in fibers /\ resumeTo[g] \in Contexts /\ Waiting(resumeTo[g])
          /\ frame[resumeTo[g]].gf = g
      BY <1>1, <3>1 DEF ResumeInv
    <3>3. QED
      BY <1>3, <1>6, <1>8, <3>1, <3>2
  <2>2. QED
    BY <2>1 DEF ResumeInv, Waiting
<1>12. ASSUME NEW t \in Threads, Lost(t)' PROVE FALSE
  <2>1. PICK S \in SUBSET (Contexts \cup {None, Gone}) :
               /\ running[t] \in S /\ t \notin S
               /\ \A g \in S \cap Fibers : resumeTo'[g] \in S
    BY <1>12 DEF Lost
  <2>2. \A g \in S \cap Fibers : Inside(g) => resumeTo[g] \in S
    BY <1>8, <2>1
  <2>3. QED
    BY <2>1, <2>2, OnChains
<1>13. QED
  BY <1>1, <1>9, <1>10, <1>11, <1>12 DEF ChainInv, Apart

-----------------------------------------------------------------------------
(* Run and Switch: the caller waits for the fiber, which goes on where it  *)
(* was, in its entry or behind ReturnToThread.                             *)
LEMMA EnterStep ==
  ASSUME AnyInv, ChainInv, NEW t \in Threads, NEW f \in Fibers, Idle(f), Enter(t, f)
  PROVE  /\ running' = [running EXCEPT ![t] = f]
         /\ f # running[t] /\ ~Running(f) /\ ~Waiting(f) /\ f \in fibers /\ fibers' = fibers
         /\ frame'[running[t]].kind = "call" /\ frame'[running[t]].gf = f
         /\ frame'[f].kind = "none"
         /\ \A c \in Contexts \ {f, running[t]} : frame'[c] = frame[c]
         /\ resumeTo' = [resumeTo EXCEPT ![f] = running[t]]
<1>1. /\ Land(t, f) /\ f # running[t] /\ f \in fibers /\ fibers' = fibers
      /\ resumeTo' = [resumeTo EXCEPT ![f] = running[t]]
      /\ frame' = [d \in Contexts |->
                     IF d = running[t] THEN Locals(t, f)
                     ELSE IF d = f /\ frame[f].kind # "dead" THEN NoFrame ELSE frame[d]]
  BY DEF Enter, Caller, SwitchToFiber
<1>2. ~Running(f) /\ ~Waiting(f) /\ frame[f].kind # "dead"
  BY DEF Idle, Free, Waiting
<1>3. running' = [running EXCEPT ![t] = f]
  BY <1>1, <1>2, Facts DEF Land
<1>4. running[t] \in Contexts /\ f \in Contexts
  BY Facts
<1>5. QED
  BY <1>1, <1>2, <1>3, <1>4 DEF Locals, NoFrame

(* The chain of the caller grows by the fiber it enters.                   *)
LEMMA EnterKeepsChains ==
  ASSUME AnyInv, ChainInv, NEW t \in Threads, NEW f \in Fibers, Idle(f), Enter(t, f)
  PROVE  ChainInv'
<1>0. PICK c0 \in Contexts : c0 = running[t]
  BY Facts
<1>1. TypeOK /\ KindsInv /\ WaitersInv /\ ResumeInv /\ Apart
  BY DEF ChainInv, AnyInv
<1>2. /\ running' = [running EXCEPT ![t] = f]
      /\ f # c0 /\ ~Running(f) /\ ~Waiting(f) /\ f \in fibers /\ fibers' = fibers
      /\ frame'[c0].kind = "call" /\ frame'[c0].gf = f /\ frame'[f].kind = "none"
      /\ \A c \in Contexts \ {f, c0} : frame'[c] = frame[c]
      /\ resumeTo' = [resumeTo EXCEPT ![f] = c0]
  BY <1>0, EnterStep
<1>3. Running(c0) /\ ~Waiting(c0) /\ ~Inside(f) /\ f \in Contexts
  BY <1>0, <1>1, <1>2, Facts DEF KindsInv, Waiting, Inside
<1>4. /\ running'[t] = f /\ \A u \in Threads \ {t} : running'[u] = running[u]
      /\ resumeTo'[f] = c0 /\ \A g \in Fibers \ {f} : resumeTo'[g] = resumeTo[g]
  BY <1>1, <1>2 DEF TypeOK
<1>5. \A c \in Contexts : Running(c)' <=> c = f \/ (c # c0 /\ Running(c))
  <2>1. \A u \in Threads : running[u] = c0 => u = t
    BY <1>0, Facts
  <2>2. QED
    BY <1>0, <1>2, <1>4, <2>1 DEF Running
<1>6. \A c \in Contexts : Waiting(c)' <=> c = c0 \/ Waiting(c)
  BY <1>2 DEF Waiting
<1>7. \A g \in Fibers : Inside(g)' <=> g = f \/ Inside(g)
  BY <1>3, <1>5, <1>6, Facts DEF Inside
<1>8. KindsInv'
  BY <1>1, <1>2, <1>4, <1>5, Facts DEF KindsInv
<1>9. WaitersInv'
  <2>1. ASSUME NEW c \in Contexts, Waiting(c)'
        PROVE  \E g \in Fibers : frame'[c].gf = g /\ Inside(g)' /\ resumeTo'[g] = c
    <3>1. CASE c = c0
      BY <1>2, <1>4, <1>7, <3>1
    <3>2. CASE c # c0
      <4>1. c # f /\ Waiting(c) /\ frame'[c] = frame[c]
        BY <1>2, <1>6, <2>1, <3>2
      <4>2. frame[c].gf \in Fibers /\ Inside(frame[c].gf) /\ resumeTo[frame[c].gf] = c
        BY <1>1, <4>1 DEF WaitersInv
      <4>3. QED
        BY <1>3, <1>4, <1>7, <4>1, <4>2
    <3>3. QED
      BY <3>1, <3>2
  <2>2. QED
    BY <2>1 DEF WaitersInv, Inside, Running, Waiting
<1>10. ResumeInv'
  <2>1. ASSUME NEW g \in Fibers, Inside(g)'
        PROVE  \E c \in Contexts :
                 g \in fibers' /\ resumeTo'[g] = c /\ Waiting(c)' /\ frame'[c].gf = g
    <3>1. CASE g = f
      BY <1>2, <1>4, <1>6, <3>1
    <3>2. CASE g # f
      <4>1. /\ g \in fibers /\ resumeTo[g] \in Contexts /\ Waiting(resumeTo[g])
            /\ frame[resumeTo[g]].gf = g
        BY <1>1, <1>7, <2>1, <3>2 DEF ResumeInv
      <4>2. resumeTo[g] # c0 /\ resumeTo[g] # f /\ resumeTo'[g] = resumeTo[g]
        BY <1>2, <1>3, <1>4, <3>2, <4>1
      <4>3. QED
        BY <1>2, <1>6, <4>1, <4>2
    <3>3. QED
      BY <3>1, <3>2
  <2>2. QED
    BY <2>1 DEF ResumeInv, Waiting
<1>11. ASSUME NEW u \in Threads, Lost(u)' PROVE FALSE
  <2>1. PICK S \in SUBSET (Contexts \cup {None, Gone}) :
               /\ running'[u] \in S /\ u \notin S
               /\ \A g \in S \cap Fibers : resumeTo'[g] \in S
    BY <1>11 DEF Lost
  <2>2. \A g \in S \cap Fibers : Inside(g) => resumeTo[g] \in S
    BY <1>3, <1>4, <2>1
  <2>3. running[u] \in S
    BY <1>0, <1>4, <2>1
  <2>4. QED
    BY <2>1, <2>2, <2>3, OnChains
<1>12. Apart'
  <2>1. \A u \in Threads : running[u] # f
    BY <1>2 DEF Running
  <2>2. QED
    BY <1>1, <1>4, <2>1 DEF Apart
<1>13. QED
  BY <1>8, <1>9, <1>10, <1>11, <1>12 DEF ChainInv

-----------------------------------------------------------------------------
(* ReturnToThread, and the end of a fiber's entry: the one who waited goes *)
(* on behind its Run or Switch, and the chain loses its top.               *)
LEMMA BackKeepsChains ==
  ASSUME AnyInv, ChainInv, NEW t \in Threads, OnFiber(t), UNCHANGED <<fibers, resumeTo>>,
         NEW fr, fr.kind \in {"return", "dead"},
         NEW c \in Backs(t, running[t]), SwitchToFiber(t, c, fr)
  PROVE  ChainInv'
<1>1. TypeOK /\ KindsInv /\ WaitersInv /\ ResumeInv /\ Apart
  BY DEF ChainInv, AnyInv
<1>2. PICK f \in Fibers : f = running[t]
  BY DEF OnFiber
<1>3. Running(f) /\ Inside(f) /\ ~Waiting(f) /\ f \in Contexts
  BY <1>1, <1>2, Facts DEF Inside, KindsInv, Waiting
<1>4. PICK b \in Contexts : b = resumeTo[f] /\ Waiting(b) /\ frame[b].gf = f /\ f \in fibers
  BY <1>1, <1>3 DEF ResumeInv
<1>5. b # f /\ b # None /\ b # Gone /\ ~Running(b) /\ frame[b].kind # "dead"
  BY <1>1, <1>3, <1>4, Facts DEF KindsInv, Waiting
<1>6. c = b
  BY <1>2, <1>4, <1>5 DEF Backs, Back
<1>7. /\ running' = [running EXCEPT ![t] = b] /\ frame'[b] = NoFrame /\ frame'[f] = fr
      /\ \A d \in Contexts \ {b, f} : frame'[d] = frame[d]
  BY <1>2, <1>3, <1>5, <1>6 DEF SwitchToFiber, Land
<1>8. /\ running'[t] = b /\ \A u \in Threads \ {t} : running'[u] = running[u]
      /\ NoFrame.kind = "none"
  BY <1>1, <1>7 DEF TypeOK, NoFrame
<1>9. \A d \in Contexts : Running(d)' <=> d = b \/ (d # f /\ Running(d))
  <2>1. \A u \in Threads : running[u] = f => u = t
    BY <1>2, Facts
  <2>2. QED
    BY <1>2, <1>5, <1>8, <2>1 DEF Running
<1>10. KindsInv'
  BY <1>1, <1>2, <1>4, <1>5, <1>7, <1>8, <1>9, Facts DEF KindsInv
<1>11. \A d \in Contexts : Waiting(d)' <=> d # b /\ Waiting(d)
  BY <1>3, <1>5, <1>7, <1>8 DEF Waiting
<1>12. \A g \in Fibers : Inside(g)' <=> g # f /\ Inside(g)
  BY <1>3, <1>4, <1>5, <1>9, <1>11, Facts DEF Inside
<1>13. WaitersInv'
  <2>1. ASSUME NEW d \in Contexts, Waiting(d)'
        PROVE  \E g \in Fibers : frame'[d].gf = g /\ Inside(g)' /\ resumeTo'[g] = d
    <3>1. d # b /\ d # f /\ Waiting(d) /\ frame'[d] = frame[d]
      BY <1>3, <1>7, <1>11, <2>1
    <3>2. frame[d].gf \in Fibers /\ Inside(frame[d].gf) /\ resumeTo[frame[d].gf] = d
      BY <1>1, <3>1 DEF WaitersInv
    <3>3. QED
      BY <1>4, <1>12, <3>1, <3>2
  <2>2. QED
    BY <2>1 DEF WaitersInv, Inside, Running, Waiting
<1>14. ResumeInv'
  <2>1. ASSUME NEW g \in Fibers, Inside(g)'
        PROVE  \E d \in Contexts :
                 g \in fibers' /\ resumeTo'[g] = d /\ Waiting(d)' /\ frame'[d].gf = g
    <3>1. /\ g # f /\ g \in fibers /\ resumeTo[g] \in Contexts /\ Waiting(resumeTo[g])
          /\ frame[resumeTo[g]].gf = g
      BY <1>1, <1>12, <2>1 DEF ResumeInv
    <3>2. resumeTo[g] # b /\ resumeTo[g] # f
      BY <1>3, <1>4, <3>1
    <3>3. QED
      BY <1>7, <1>11, <3>1, <3>2
  <2>2. QED
    BY <2>1 DEF ResumeInv, Waiting
<1>15. ASSUME NEW u \in Threads, Lost(u)' PROVE FALSE
  <2>1. PICK S \in SUBSET (Contexts \cup {None, Gone}) :
               /\ running'[u] \in S /\ u \notin S
               /\ \A g \in S \cap Fibers : resumeTo[g] \in S
    BY <1>15 DEF Lost
  <2> DEFINE S1 == IF u = t THEN S \cup {f} ELSE S
  <2>2. /\ S1 \in SUBSET (Contexts \cup {None, Gone})
        /\ running[u] \in S1
        /\ \A g \in S1 \cap Fibers : Inside(g) => resumeTo[g] \in S1
    BY <1>2, <1>3, <1>4, <1>8, <2>1
  <2> HIDE DEF S1
  <2>3. u \in S1
    BY <2>2, OnChains
  <2>4. QED
    BY <2>1, <2>3, Facts DEF S1
<1>16. Apart'
  <2>1. \A u \in Threads : running[u] # b
    BY <1>5 DEF Running
  <2>2. QED
    BY <1>1, <1>8, <2>1 DEF Apart
<1>17. QED
  BY <1>10, <1>13, <1>14, <1>15, <1>16 DEF ChainInv

-----------------------------------------------------------------------------
(* The chains hold through every call of a guest that nests its switches.  *)
LEMMA Invariance == Spec => []IInv
<1>1. ASSUME Init, AnyInv PROVE ChainInv
  <2>1. /\ running = [t \in Threads |-> t] /\ resumeTo = [f \in Fibers |-> None]
        /\ frame = [c \in Contexts |-> NoFrame] /\ NoFrame.kind = "none"
    BY <1>1 DEF Init, NoFrame
  <2>2. KindsInv /\ Apart
    BY <2>1, Distinct DEF KindsInv, Apart, Contexts
  <2>3. \A c \in Contexts : ~Waiting(c)
    BY <2>1 DEF Waiting
  <2>4. \A f \in Fibers : ~Inside(f)
    BY <2>1, <2>3, Distinct DEF Inside, Running, Contexts
  <2>5. \A t \in Threads : ~Lost(t)
    BY <2>1 DEF Lost
  <2>6. QED
    BY <2>2, <2>3, <2>4, <2>5 DEF ChainInv, WaitersInv, ResumeInv
<1>2. ASSUME AnyInv, ChainInv, nested', nested, [Next]_vars PROVE ChainInv'
  <2> USE <1>2
  <2>1. ASSUME NEW t \in Threads, NEW f \in Fibers, Initialize(t, f) PROVE ChainInv'
    <3>1. Free(f) /\ Delete(f) /\ UNCHANGED <<running, cur>> /\ fibers' = fibers \cup {f}
      BY <2>1 DEF Initialize
    <3>2. QED
      BY <3>1, DeleteKeepsChains
  <2>2. ASSUME NEW t \in Threads, NEW f \in Fibers, Finalize(t, f) PROVE ChainInv'
    <3>1. Free(f) /\ fibers' = fibers \ {f} /\ MayCall(t)
      BY <2>2 DEF Finalize
    <3>2. f # cur[t] /\ ~Running(f)
      BY <3>1, Facts DEF Free
    <3>3. Delete(f) /\ UNCHANGED <<running, cur>>
      BY <2>2, <3>2 DEF Finalize
    <3>4. QED
      BY <3>1, <3>3, DeleteKeepsChains
  <2>3. ASSUME NEW t \in Threads, NEW f \in Fibers, Enter(t, f) PROVE ChainInv'
    <3>1. Idle(f)
      BY <2>3 DEF Enter
    <3>2. QED
      BY <2>3, <3>1, EnterKeepsChains
  <2>4. ASSUME NEW t \in Threads, ReturnToThread(t) PROVE ChainInv'
    <3> DEFINE fr == [kind |-> "return", prev |-> None, gf |-> cur[t]]
    <3>1. cur[t] = running[t] /\ OnFiber(t) /\ UNCHANGED <<fibers, resumeTo>>
      BY <2>4, Facts DEF ReturnToThread, OnFiber
    <3>2. PICK c \in Backs(t, running[t]) : SwitchToFiber(t, c, fr)
      BY <2>4, <3>1 DEF ReturnToThread
    <3>3. fr.kind \in {"return", "dead"}
      OBVIOUS
    <3> HIDE DEF fr
    <3>4. QED
      BY <3>1, <3>2, <3>3, BackKeepsChains
  <2>5. ASSUME NEW t \in Threads, EntryReturns(t) PROVE ChainInv'
    <3> DEFINE fr == [kind |-> "dead", prev |-> None, gf |-> None]
    <3>1. OnFiber(t) /\ UNCHANGED <<fibers, resumeTo>>
      BY <2>5 DEF EntryReturns
    <3>2. PICK c \in Backs(t, running[t]) : SwitchToFiber(t, c, fr)
      BY <2>5 DEF EntryReturns
    <3>3. fr.kind \in {"return", "dead"}
      OBVIOUS
    <3> HIDE DEF fr
    <3>4. QED
      BY <3>1, <3>2, <3>3, BackKeepsChains
  <2>6. CASE UNCHANGED vars
    BY <2>6 DEF vars, ChainInv, KindsInv, WaitersInv, ResumeInv, Waiting, Inside, Running, Apart,
       Lost
  <2>7. QED
    BY <2>1, <2>2, <2>3, <2>4, <2>5, <2>6 DEF Next
<1>3. ASSUME [Next]_vars, nested' PROVE nested
  BY <1>3 DEF Next, vars, Initialize, Finalize, Enter, ReturnToThread, EntryReturns
<1>4. Init /\ AnyInv => (nested => ChainInv)
  BY <1>1
<1>5. AnyInv /\ (nested => ChainInv) /\ [Next]_vars => (nested => ChainInv)'
  BY <1>2, <1>3
<1> DEFINE Nests == nested => ChainInv
<1> HIDE DEF Nests
<1>6. Spec => []Nests
  <2>1. Init /\ AnyInv => Nests
    BY <1>4 DEF Nests
  <2>2. AnyInv /\ Nests /\ [Next]_vars => Nests'
    BY <1>5 DEF Nests
  <2>3. QED
    BY AnyGuest, <2>1, <2>2, PTL DEF Spec
<1>7. AnyInv /\ Nests => IInv
  BY DEF IInv, Nests
<1>8. QED
  BY AnyGuest, <1>6, <1>7, PTL

(* No two threads execute one context, as long as the guest leaves fibers  *)
(* that run or sit in Switch alone: resume_to never leads into a context   *)
(* in use, on whatever thread a fiber goes on.                             *)
THEOREM OneThreadPerContextHolds == Spec => []OneThreadPerContext
<1>1. IInv => OneThreadPerContext
  BY DEF IInv, ChainInv, OneThreadPerContext
<1>2. QED
  BY Invariance, <1>1, PTL

(* Of such a guest, the way back along resume_to leads every thread to its *)
(* own context: through no deleted fiber, no other thread and no circle.   *)
THEOREM NobodyIsLostHolds == Spec => []NobodyIsLost
<1>1. IInv => NobodyIsLost
  BY DEF IInv, ChainInv, NobodyIsLost
<1>2. QED
  BY Invariance, <1>1, PTL
=============================================================================
