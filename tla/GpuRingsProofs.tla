--------------------------- MODULE GpuRingsProofs ---------------------------
(***************************************************************************)
(* PausedIsQuiet and IdleIsTrue for any number of threads, rings and       *)
(* batches, whatever the guest submits.                                    *)
(***************************************************************************)
EXTENDS GpuRings, TLAPS

(* Why PausedIsQuiet holds: the pausing thread owns Gpu::m_mutex, so the   *)
(* rings it has found idle stay idle and no ring is created behind it.     *)
Pausing(t) == call[t] = [call |-> "pause"] /\ pc[t] \notin {"out", "lock"}

CallInv ==
  \A t \in Threads :
    /\ pc[t] # "out" => call[t] \in Calls
    /\ pc[t] = "push" => call[t] \in [call : {"submit"}, ring : Rings, kind : Kinds]
    /\ pc[t] \in {"mark", "gfxIdle", "gfxFence", "computeIdle", "computeFence",
                  "drain", "paused"} => call[t] \in [call : {"done", "pause"}]
    /\ pc[t] = "mark" => call[t].call = "done"
    /\ pc[t] \in {"drain", "paused"} => call[t].call = "pause"
    /\ pc[t] \in {"out", "lock", "push", "mark", "gfxIdle", "gfxFence"} => waited[t] = {}

MutexInv == \A t \in Threads : pc[t] = "push" \/ Pausing(t) => gpuMutex = t

UnmadeInv == Compute \ made \subseteq idle

PauseInv ==
  \A t \in Threads : Pausing(t) =>
    /\ seen[t] = made
    /\ pc[t] # "gfxIdle" => Gfx \in idle
    /\ pc[t] = "computeIdle" => waited[t] \subseteq idle
    /\ pc[t] \in {"computeFence", "drain", "paused"} => Rings \subseteq idle
    /\ pc[t] = "paused" => Drained

IInv == TypeOK /\ CallInv /\ IdleIsTrue /\ MutexInv /\ UnmadeInv /\ PauseInv

(* Every state has its types.                                              *)
LEMMA InitInv == Init => IInv
<1> SUFFICES ASSUME Init PROVE IInv
  OBVIOUS
<1>1. TypeOK
  <2>1. <<>> \in Seq(Kinds)
    OBVIOUS
  <2> QED
    BY <2>1 DEF Init, TypeOK, Places
<1>2. CallInv /\ IdleIsTrue /\ MutexInv /\ UnmadeInv /\ PauseInv
  BY DEF Init, CallInv, IdleIsTrue, MutexInv, UnmadeInv, PauseInv, Pausing, Rings
<1> QED
  BY <1>1, <1>2 DEF IInv

(* Types are kept. *)
LEMMA TypeStep == IInv /\ [Next]_vars => TypeOK'
<1> SUFFICES ASSUME IInv, [Next]_vars PROVE TypeOK'
  OBVIOUS
<1> USE GfxIsNoCompute, NoneIsNoThread DEF IInv, TypeOK, Calls, Places, CallInv
<1>1. ASSUME NEW t \in Threads, NEW c \in Calls, Ask(t, c) PROVE TypeOK'
  BY <1>1 DEF Ask, Goto, ringVars, labels
<1>2. ASSUME NEW t \in Threads, Lock(t) PROVE TypeOK'
  BY <1>2 DEF Lock, Goto, ringVars, labels
<1>3. ASSUME NEW t \in Threads, SubmitGfx(t) PROVE TypeOK'
  <2>1. call[t].kind \in Kinds /\ Gfx \in Rings
    BY <1>3 DEF SubmitGfx, Rings
  <2>2. batches' \in [Rings -> Seq(Kinds)]
    BY <1>3, <2>1 DEF SubmitGfx, Push
  <2> QED
    BY <1>3, <2>2 DEF SubmitGfx, Push, Return, Goto, labels
<1>4. ASSUME NEW t \in Threads, SubmitCompute(t) PROVE TypeOK'
  BY <1>4 DEF SubmitCompute, Push, Return, Goto, labels
<1>5. ASSUME NEW t \in Threads, RingDone(t) PROVE TypeOK'
  BY <1>5 DEF RingDone, Goto, ringVars, labels
<1>6. ASSUME NEW t \in Threads, WaitGfx(t) PROVE TypeOK'
  BY <1>6 DEF WaitGfx, Goto, ringVars, labels
<1>7. ASSUME NEW t \in Threads, WaitCompute(t) PROVE TypeOK'
  BY <1>7 DEF WaitCompute, ringVars, labels
<1>8. ASSUME NEW t \in Threads, AllIdle(t) PROVE TypeOK'
  BY <1>8 DEF AllIdle, Goto, ringVars, labels
<1>9. ASSUME NEW t \in Threads, AllFenced(t) PROVE TypeOK'
  <2>1. CASE call[t].call = "done"
    <3>1. /\ pc' = [pc EXCEPT ![t] = "out"] /\ call' = [call EXCEPT ![t] = None]
          /\ seen' = [seen EXCEPT ![t] = {}] /\ waited' = [waited EXCEPT ![t] = {}]
      BY <1>9, <2>1 DEF AllFenced, Return, Goto
    <3>2. UNCHANGED <<gpuMutex, made, ringVars, done, written, onGpu, labels, submits, stops>>
      BY <1>9 DEF AllFenced
    <3> QED
      BY <3>1, <3>2 DEF ringVars, labels
  <2>2. CASE call[t].call # "done"
    BY <1>9, <2>2 DEF AllFenced, Goto, ringVars, labels
  <2> QED
    BY <2>1, <2>2
<1>10. ASSUME NEW t \in Threads, LabelDrain(t) PROVE TypeOK'
  BY <1>10 DEF LabelDrain, Goto, ringVars, labels
<1>11. ASSUME NEW t \in Threads, ResumeSubmissions(t) PROVE TypeOK'
  BY <1>11 DEF ResumeSubmissions, Return, Goto, ringVars, labels
<1>12. ASSUME NEW r \in Rings, Fetch(r) PROVE TypeOK'
  <2>1. CASE batches[r] = <<>>
    BY <1>12, <2>1 DEF Fetch, GetCmdBatch, GoIdle, guest, labels
  <2>2. CASE batches[r] # <<>>
    <3>1. batches[r] \in Seq(Kinds)
      OBVIOUS
    <3>2. Head(batches[r]) \in Kinds /\ Tail(batches[r]) \in Seq(Kinds)
      BY <2>2, <3>1
    <3>3. /\ running' = [running EXCEPT ![r] = Head(batches[r])]
          /\ batches' = [batches EXCEPT ![r] = Tail(batches[r])]
          /\ idle' = idle \ {r}
      BY <1>12, <2>2 DEF Fetch, GetCmdBatch
    <3>4. UNCHANGED <<gpuMutex, made, done, written, onGpu, labels, guest>>
      BY <1>12 DEF Fetch
    <3>5. batches' \in [Rings -> Seq(Kinds)] /\ running' \in [Rings -> Kinds \cup {None}]
      BY <3>2, <3>3
    <3> QED
      BY <3>3, <3>4, <3>5 DEF guest, labels
  <2> QED
    BY <2>1, <2>2
<1>13. ASSUME NEW r \in Rings, RunBatch(r) PROVE TypeOK'
  BY <1>13 DEF RunBatch, guest, labels
<1>14. ASSUME NEW r \in Rings, GpuCompletes(r) PROVE TypeOK'
  BY <1>14 DEF GpuCompletes, guest, ringVars
<1>15. CASE LabelScan
  BY <1>15 DEF LabelScan, guest, ringVars
<1>16. CASE LabelCallbacks
  BY <1>16 DEF LabelCallbacks, CalledBack, guest, ringVars
<1>17. CASE UNCHANGED vars
  BY <1>17 DEF vars, guest, ringVars, labels
<1> QED
  BY <1>1, <1>2, <1>3, <1>4, <1>5, <1>6, <1>7, <1>8, <1>9, <1>10,
     <1>11, <1>12, <1>13, <1>14, <1>15, <1>16, <1>17 DEF Next, Guest

(* A thread's place tells which call it is in. *)
LEMMA CallStep == IInv /\ [Next]_vars => CallInv'
<1> SUFFICES ASSUME IInv, [Next]_vars PROVE CallInv'
  OBVIOUS
<1> USE GfxIsNoCompute, NoneIsNoThread DEF IInv, TypeOK, Calls, Places, CallInv
<1>1. ASSUME NEW t \in Threads, NEW c \in Calls, Ask(t, c) PROVE CallInv'
  BY <1>1 DEF Ask, Goto, ringVars, labels
<1>2. ASSUME NEW t \in Threads, Lock(t) PROVE CallInv'
  BY <1>2 DEF Lock, Goto, ringVars, labels
<1>3. ASSUME NEW t \in Threads, SubmitGfx(t) PROVE CallInv'
  BY <1>3 DEF SubmitGfx, Push, Return, Goto, labels, Fenced
<1>4. ASSUME NEW t \in Threads, SubmitCompute(t) PROVE CallInv'
  BY <1>4 DEF SubmitCompute, Push, Return, Goto, labels
<1>5. ASSUME NEW t \in Threads, RingDone(t) PROVE CallInv'
  BY <1>5 DEF RingDone, Goto, ringVars, labels
<1>6. ASSUME NEW t \in Threads, WaitGfx(t) PROVE CallInv'
  BY <1>6 DEF WaitGfx, Goto, ringVars, labels
<1>7. ASSUME NEW t \in Threads, WaitCompute(t) PROVE CallInv'
  BY <1>7 DEF WaitCompute, ringVars, labels
<1>8. ASSUME NEW t \in Threads, AllIdle(t) PROVE CallInv'
  BY <1>8 DEF AllIdle, Goto, ringVars, labels
<1>9. ASSUME NEW t \in Threads, AllFenced(t) PROVE CallInv'
  BY <1>9 DEF AllFenced, Return, Goto, ringVars, labels
<1>10. ASSUME NEW t \in Threads, LabelDrain(t) PROVE CallInv'
  BY <1>10 DEF LabelDrain, Goto, ringVars, labels
<1>11. ASSUME NEW t \in Threads, ResumeSubmissions(t) PROVE CallInv'
  BY <1>11 DEF ResumeSubmissions, Return, Goto, ringVars, labels
<1>12. ASSUME NEW r \in Rings, Fetch(r) PROVE CallInv'
  BY <1>12 DEF Fetch, GetCmdBatch, GoIdle, guest, labels
<1>13. ASSUME NEW r \in Rings, RunBatch(r) PROVE CallInv'
  BY <1>13 DEF RunBatch, guest, labels
<1>14. ASSUME NEW r \in Rings, GpuCompletes(r) PROVE CallInv'
  BY <1>14 DEF GpuCompletes, guest, ringVars
<1>15. CASE LabelScan
  BY <1>15 DEF LabelScan, guest, ringVars
<1>16. CASE LabelCallbacks
  BY <1>16 DEF LabelCallbacks, CalledBack, guest, ringVars
<1>17. CASE UNCHANGED vars
  BY <1>17 DEF vars, guest, ringVars, labels
<1> QED
  BY <1>1, <1>2, <1>3, <1>4, <1>5, <1>6, <1>7, <1>8, <1>9, <1>10,
     <1>11, <1>12, <1>13, <1>14, <1>15, <1>16, <1>17 DEF Next, Guest

(* An idle ring has nothing to do. *)
LEMMA IdleStep == IInv /\ [Next]_vars => IdleIsTrue'
<1> SUFFICES ASSUME IInv, [Next]_vars PROVE IdleIsTrue'
  OBVIOUS
<1> USE GfxIsNoCompute, NoneIsNoThread DEF IInv, TypeOK, CallInv, IdleIsTrue
<1>1. ASSUME NEW t \in Threads, NEW c \in Calls, Ask(t, c) PROVE IdleIsTrue'
  BY <1>1 DEF Ask, Goto, ringVars, labels
<1>2. ASSUME NEW t \in Threads, Lock(t) PROVE IdleIsTrue'
  BY <1>2 DEF Lock, Goto, ringVars, labels
<1>3. ASSUME NEW t \in Threads, SubmitGfx(t) PROVE IdleIsTrue'
  BY <1>3 DEF SubmitGfx, Push, Return, Goto, labels, Fenced
<1>4. ASSUME NEW t \in Threads, SubmitCompute(t) PROVE IdleIsTrue'
  BY <1>4 DEF SubmitCompute, Push, Return, Goto, labels
<1>5. ASSUME NEW t \in Threads, RingDone(t) PROVE IdleIsTrue'
  BY <1>5 DEF RingDone, Goto, ringVars, labels
<1>6. ASSUME NEW t \in Threads, WaitGfx(t) PROVE IdleIsTrue'
  BY <1>6 DEF WaitGfx, Goto, ringVars, labels
<1>7. ASSUME NEW t \in Threads, WaitCompute(t) PROVE IdleIsTrue'
  BY <1>7 DEF WaitCompute, ringVars, labels
<1>8. ASSUME NEW t \in Threads, AllIdle(t) PROVE IdleIsTrue'
  BY <1>8 DEF AllIdle, Goto, ringVars, labels
<1>9. ASSUME NEW t \in Threads, AllFenced(t) PROVE IdleIsTrue'
  BY <1>9 DEF AllFenced, Return, Goto, ringVars, labels
<1>10. ASSUME NEW t \in Threads, LabelDrain(t) PROVE IdleIsTrue'
  BY <1>10 DEF LabelDrain, Goto, ringVars, labels
<1>11. ASSUME NEW t \in Threads, ResumeSubmissions(t) PROVE IdleIsTrue'
  BY <1>11 DEF ResumeSubmissions, Return, Goto, ringVars, labels
<1>12. ASSUME NEW r \in Rings, Fetch(r) PROVE IdleIsTrue'
  BY <1>12 DEF Fetch, GetCmdBatch, GoIdle, guest, labels
<1>13. ASSUME NEW r \in Rings, RunBatch(r) PROVE IdleIsTrue'
  BY <1>13 DEF RunBatch, guest, labels
<1>14. ASSUME NEW r \in Rings, GpuCompletes(r) PROVE IdleIsTrue'
  BY <1>14 DEF GpuCompletes, guest, ringVars
<1>15. CASE LabelScan
  BY <1>15 DEF LabelScan, guest, ringVars
<1>16. CASE LabelCallbacks
  BY <1>16 DEF LabelCallbacks, CalledBack, guest, ringVars
<1>17. CASE UNCHANGED vars
  BY <1>17 DEF vars, guest, ringVars, labels
<1> QED
  BY <1>1, <1>2, <1>3, <1>4, <1>5, <1>6, <1>7, <1>8, <1>9, <1>10,
     <1>11, <1>12, <1>13, <1>14, <1>15, <1>16, <1>17 DEF Next, Guest

(* Whoever submits or pauses owns Gpu::m_mutex. *)
LEMMA MutexStep == IInv /\ [Next]_vars => MutexInv'
<1> SUFFICES ASSUME IInv, [Next]_vars PROVE MutexInv'
  OBVIOUS
<1> USE GfxIsNoCompute, NoneIsNoThread DEF IInv, TypeOK, CallInv, MutexInv, Pausing, Calls
<1>1. ASSUME NEW t \in Threads, NEW c \in Calls, Ask(t, c) PROVE MutexInv'
  BY <1>1 DEF Ask, Goto, ringVars, labels
<1>2. ASSUME NEW t \in Threads, Lock(t) PROVE MutexInv'
  BY <1>2 DEF Lock, Goto, ringVars, labels
<1>3. ASSUME NEW t \in Threads, SubmitGfx(t) PROVE MutexInv'
  BY <1>3 DEF SubmitGfx, Push, Return, Goto, labels, Fenced
<1>4. ASSUME NEW t \in Threads, SubmitCompute(t) PROVE MutexInv'
  BY <1>4 DEF SubmitCompute, Push, Return, Goto, labels
<1>5. ASSUME NEW t \in Threads, RingDone(t) PROVE MutexInv'
  BY <1>5 DEF RingDone, Goto, ringVars, labels
<1>6. ASSUME NEW t \in Threads, WaitGfx(t) PROVE MutexInv'
  BY <1>6 DEF WaitGfx, Goto, ringVars, labels
<1>7. ASSUME NEW t \in Threads, WaitCompute(t) PROVE MutexInv'
  BY <1>7 DEF WaitCompute, ringVars, labels
<1>8. ASSUME NEW t \in Threads, AllIdle(t) PROVE MutexInv'
  BY <1>8 DEF AllIdle, Goto, ringVars, labels
<1>9. ASSUME NEW t \in Threads, AllFenced(t) PROVE MutexInv'
  BY <1>9 DEF AllFenced, Return, Goto, ringVars, labels
<1>10. ASSUME NEW t \in Threads, LabelDrain(t) PROVE MutexInv'
  BY <1>10 DEF LabelDrain, Goto, ringVars, labels
<1>11. ASSUME NEW t \in Threads, ResumeSubmissions(t) PROVE MutexInv'
  BY <1>11 DEF ResumeSubmissions, Return, Goto, ringVars, labels
<1>12. ASSUME NEW r \in Rings, Fetch(r) PROVE MutexInv'
  BY <1>12 DEF Fetch, GetCmdBatch, GoIdle, guest, labels
<1>13. ASSUME NEW r \in Rings, RunBatch(r) PROVE MutexInv'
  BY <1>13 DEF RunBatch, guest, labels
<1>14. ASSUME NEW r \in Rings, GpuCompletes(r) PROVE MutexInv'
  BY <1>14 DEF GpuCompletes, guest, ringVars
<1>15. CASE LabelScan
  BY <1>15 DEF LabelScan, guest, ringVars
<1>16. CASE LabelCallbacks
  BY <1>16 DEF LabelCallbacks, CalledBack, guest, ringVars
<1>17. CASE UNCHANGED vars
  BY <1>17 DEF vars, guest, ringVars, labels
<1> QED
  BY <1>1, <1>2, <1>3, <1>4, <1>5, <1>6, <1>7, <1>8, <1>9, <1>10,
     <1>11, <1>12, <1>13, <1>14, <1>15, <1>16, <1>17 DEF Next, Guest

(* A ring nobody created is idle. *)
LEMMA UnmadeStep == IInv /\ [Next]_vars => UnmadeInv'
<1> SUFFICES ASSUME IInv, [Next]_vars PROVE UnmadeInv'
  OBVIOUS
<1> USE GfxIsNoCompute, NoneIsNoThread DEF IInv, TypeOK, CallInv, UnmadeInv, IdleIsTrue
<1>1. ASSUME NEW t \in Threads, NEW c \in Calls, Ask(t, c) PROVE UnmadeInv'
  BY <1>1 DEF Ask, Goto, ringVars, labels
<1>2. ASSUME NEW t \in Threads, Lock(t) PROVE UnmadeInv'
  BY <1>2 DEF Lock, Goto, ringVars, labels
<1>3. ASSUME NEW t \in Threads, SubmitGfx(t) PROVE UnmadeInv'
  BY <1>3 DEF SubmitGfx, Push, Return, Goto, labels, Fenced
<1>4. ASSUME NEW t \in Threads, SubmitCompute(t) PROVE UnmadeInv'
  BY <1>4 DEF SubmitCompute, Push, Return, Goto, labels
<1>5. ASSUME NEW t \in Threads, RingDone(t) PROVE UnmadeInv'
  BY <1>5 DEF RingDone, Goto, ringVars, labels
<1>6. ASSUME NEW t \in Threads, WaitGfx(t) PROVE UnmadeInv'
  BY <1>6 DEF WaitGfx, Goto, ringVars, labels
<1>7. ASSUME NEW t \in Threads, WaitCompute(t) PROVE UnmadeInv'
  BY <1>7 DEF WaitCompute, ringVars, labels
<1>8. ASSUME NEW t \in Threads, AllIdle(t) PROVE UnmadeInv'
  BY <1>8 DEF AllIdle, Goto, ringVars, labels
<1>9. ASSUME NEW t \in Threads, AllFenced(t) PROVE UnmadeInv'
  BY <1>9 DEF AllFenced, Return, Goto, ringVars, labels
<1>10. ASSUME NEW t \in Threads, LabelDrain(t) PROVE UnmadeInv'
  BY <1>10 DEF LabelDrain, Goto, ringVars, labels
<1>11. ASSUME NEW t \in Threads, ResumeSubmissions(t) PROVE UnmadeInv'
  BY <1>11 DEF ResumeSubmissions, Return, Goto, ringVars, labels
<1>12. ASSUME NEW r \in Rings, Fetch(r) PROVE UnmadeInv'
  BY <1>12 DEF Fetch, GetCmdBatch, GoIdle, guest, labels
<1>13. ASSUME NEW r \in Rings, RunBatch(r) PROVE UnmadeInv'
  BY <1>13 DEF RunBatch, guest, labels
<1>14. ASSUME NEW r \in Rings, GpuCompletes(r) PROVE UnmadeInv'
  BY <1>14 DEF GpuCompletes, guest, ringVars
<1>15. CASE LabelScan
  BY <1>15 DEF LabelScan, guest, ringVars
<1>16. CASE LabelCallbacks
  BY <1>16 DEF LabelCallbacks, CalledBack, guest, ringVars
<1>17. CASE UNCHANGED vars
  BY <1>17 DEF vars, guest, ringVars, labels
<1> QED
  BY <1>1, <1>2, <1>3, <1>4, <1>5, <1>6, <1>7, <1>8, <1>9, <1>10,
     <1>11, <1>12, <1>13, <1>14, <1>15, <1>16, <1>17 DEF Next, Guest

(* What the pausing thread has found idle stays idle. *)
LEMMA PauseStep == IInv /\ [Next]_vars => PauseInv'
<1> SUFFICES ASSUME IInv, [Next]_vars PROVE PauseInv'
  OBVIOUS
<1> USE GfxIsNoCompute, NoneIsNoThread DEF IInv, TypeOK, CallInv, IdleIsTrue,
            MutexInv, UnmadeInv, PauseInv, Pausing, Drained, Rings
<1>1. ASSUME NEW t \in Threads, NEW c \in Calls, Ask(t, c) PROVE PauseInv'
  BY <1>1 DEF Ask, Goto, ringVars, labels
<1>2. ASSUME NEW t \in Threads, Lock(t) PROVE PauseInv'
  BY <1>2 DEF Lock, Goto, ringVars, labels
<1>3. ASSUME NEW t \in Threads, SubmitGfx(t) PROVE PauseInv'
  BY <1>3 DEF SubmitGfx, Push, Return, Goto, labels, Fenced
<1>4. ASSUME NEW t \in Threads, SubmitCompute(t) PROVE PauseInv'
  BY <1>4 DEF SubmitCompute, Push, Return, Goto, labels
<1>5. ASSUME NEW t \in Threads, RingDone(t) PROVE PauseInv'
  BY <1>5 DEF RingDone, Goto, ringVars, labels
<1>6. ASSUME NEW t \in Threads, WaitGfx(t) PROVE PauseInv'
  <2>1. CASE pc[t] = "gfxIdle"
    BY <1>6, <2>1 DEF WaitGfx, Goto, ringVars, labels
  <2>2. CASE pc[t] = "gfxFence"
    <3>1. waited[t] = {}
      BY <2>2 DEF CallInv
    <3> QED
      BY <1>6, <2>2, <3>1 DEF WaitGfx, Goto, ringVars, labels
  <2> QED
    BY <1>6, <2>1, <2>2 DEF WaitGfx
<1>7. ASSUME NEW t \in Threads, WaitCompute(t) PROVE PauseInv'
  BY <1>7 DEF WaitCompute, ringVars, labels
<1>8. ASSUME NEW t \in Threads, AllIdle(t) PROVE PauseInv'
  BY <1>8 DEF AllIdle, Goto, ringVars, labels
<1>9. ASSUME NEW t \in Threads, AllFenced(t) PROVE PauseInv'
  BY <1>9 DEF AllFenced, Return, Goto, ringVars, labels
<1>10. ASSUME NEW t \in Threads, LabelDrain(t) PROVE PauseInv'
  BY <1>10 DEF LabelDrain, Goto, ringVars, labels
<1>11. ASSUME NEW t \in Threads, ResumeSubmissions(t) PROVE PauseInv'
  BY <1>11 DEF ResumeSubmissions, Return, Goto, ringVars, labels
<1>12. ASSUME NEW r \in Rings, Fetch(r) PROVE PauseInv'
  BY <1>12 DEF Fetch, GetCmdBatch, GoIdle, guest, labels
<1>13. ASSUME NEW r \in Rings, RunBatch(r) PROVE PauseInv'
  BY <1>13 DEF RunBatch, guest, labels
<1>14. ASSUME NEW r \in Rings, GpuCompletes(r) PROVE PauseInv'
  BY <1>14 DEF GpuCompletes, guest, ringVars
<1>15. CASE LabelScan
  BY <1>15 DEF LabelScan, guest, ringVars
<1>16. CASE LabelCallbacks
  BY <1>16 DEF LabelCallbacks, CalledBack, guest, ringVars
<1>17. CASE UNCHANGED vars
  BY <1>17 DEF vars, guest, ringVars, labels
<1> QED
  BY <1>1, <1>2, <1>3, <1>4, <1>5, <1>6, <1>7, <1>8, <1>9, <1>10,
     <1>11, <1>12, <1>13, <1>14, <1>15, <1>16, <1>17 DEF Next, Guest

(* The inductive invariant of the rings holds of every behaviour.          *)
LEMMA Invariance == Spec => []IInv
<1>1. IInv /\ [Next]_vars => IInv'
  BY TypeStep, CallStep, IdleStep, MutexStep, UnmadeStep, PauseStep DEF IInv
<1> QED
  BY InitInv, <1>1, PTL DEF Spec
(* Every state has its types.                                              *)
THEOREM TypeHolds == Spec => []TypeOK
BY Invariance, PTL DEF IInv

(* m_idle tells the truth: an idle ring has no batch, queued or running.   *)
THEOREM IdleIsTrueHolds == Spec => []IdleIsTrue
BY Invariance, PTL DEF IInv

(* PauseSubmissions returns with the GPU quiet, and it stays quiet until   *)
(* ResumeSubmissions.                                                      *)
THEOREM PausedIsQuietHolds == Spec => []PausedIsQuiet
<1>1. IInv => PausedIsQuiet
  <2> SUFFICES ASSUME IInv, NEW t \in Threads, pc[t] = "paused"
               PROVE /\ \A r \in Rings : batches[r] = <<>> /\ running[r] = None /\ onGpu[r] = 0
                     /\ fired = 0 /\ inFlight = 0
    BY DEF PausedIsQuiet
  <2>1. Pausing(t)
    BY DEF IInv, CallInv, Pausing
  <2>2. Rings \subseteq idle /\ Drained
    BY <2>1 DEF IInv, PauseInv
  <2> QED
    BY <2>2 DEF IInv, IdleIsTrue, Drained
<1> QED
  BY Invariance, <1>1, PTL
=============================================================================
