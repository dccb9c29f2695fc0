------------------------------ MODULE GpuRings ------------------------------
(***************************************************************************)
(* The submission rings of graphics/guest_gpu/graphicsRun.cpp: guest       *)
(* threads queue command buffers under Gpu::m_mutex, each ring's thread    *)
(* executes its own, the host GPU completes what they record, and the      *)
(* label thread (host_gpu/objects/label.cpp) runs the completion callbacks.*)
(* Gpu::PauseSubmissions, taken by page faults and unmappings, stops all   *)
(* of that; Gpu::Done is the guest's suspend point.                        *)
(*                                                                         *)
(* A wait on a condition variable is a guard: CondVar::Wait returns after  *)
(* 10 ms at the latest, so a waiter always gets to read its condition.     *)
(* Each ring has a command processor of its own here.                      *)
(***************************************************************************)
EXTENDS Naturals, Sequences

CONSTANTS
  Threads,     (* guest threads                                            *)
  Gfx,         (* the graphics ring                                        *)
  Compute,     (* the compute rings                                        *)
  None,
  Disciplined, (* guest: a write is queued before the wait for it          *)
  MaxBatches,  (* bound: batches ever submitted                            *)
  MaxStops     (* bound: calls of Done and PauseSubmissions                *)

ASSUME GfxIsNoCompute == Gfx \notin Compute
ASSUME NoneIsNoThread == None \notin Threads
ASSUME BoundsAreNumbers == MaxBatches \in Nat /\ MaxStops \in Nat

Rings == {Gfx} \cup Compute

(* What matters of a command buffer: whether it writes a word of memory at *)
(* its end of pipe or waits for that word to be written.                   *)
Kinds == {"write", "wait"}
Calls == [call : {"submit"}, ring : Rings, kind : Kinds]
           \cup [call : {"done", "pause"}]

VARIABLES
  gpuMutex,  (* the owner of Gpu::m_mutex                                  *)
  made,      (* compute rings GetRing has created                          *)
  batches,   (* m_cmd_batches, m_direct_batches                            *)
  idle,      (* rings with m_idle set                                       *)
  done,      (* m_done of the graphics ring                                *)
  running,   (* the batch a ring's thread executes, or None                *)
  written,   (* the word of memory                                         *)
  onGpu,     (* command buffers at the host GPU, each with one label       *)
  fired,     (* label submissions whose event is set, not yet seen         *)
  inFlight,  (* m_callbacks_in_flight                                      *)
  pc, call,  (* each guest thread: where, in which call                    *)
  seen,      (* the compute rings it copied                                *)
  waited,    (* those it is done with in this loop                         *)
  submits, stops (* calls so far, for the bounds                           *)

labels == <<fired, inFlight>>
ringVars == <<batches, idle, running>>
guest == <<pc, call, seen, waited, submits, stops>>
vars == <<gpuMutex, made, ringVars, done, written, onGpu, labels, guest>>

Places == {"out", "lock", "push", "mark", "gfxIdle", "gfxFence", "computeIdle",
           "computeFence", "drain", "paused"}

TypeOK ==
  /\ gpuMutex \in Threads \cup {None} /\ made \subseteq Compute
  /\ batches \in [Rings -> Seq(Kinds)] /\ idle \subseteq Rings
  /\ done \in BOOLEAN /\ running \in [Rings -> Kinds \cup {None}]
  /\ written \in BOOLEAN /\ onGpu \in [Rings -> Nat]
  /\ fired \in Nat /\ inFlight \in Nat
  /\ pc \in [Threads -> Places] /\ call \in [Threads -> Calls \cup {None}]
  /\ seen \in [Threads -> SUBSET Compute] /\ waited \in [Threads -> SUBSET Compute]
  /\ submits \in Nat /\ stops \in Nat

Init ==
  /\ gpuMutex = None /\ made = {}
  /\ batches = [r \in Rings |-> <<>>] /\ idle = Rings
  /\ done = TRUE /\ running = [r \in Rings |-> None]
  /\ written = FALSE /\ onGpu = [r \in Rings |-> 0]
  /\ fired = 0 /\ inFlight = 0
  /\ pc = [t \in Threads |-> "out"] /\ call = [t \in Threads |-> None]
  /\ seen = [t \in Threads |-> {}] /\ waited = [t \in Threads |-> {}]
  /\ submits = 0 /\ stops = 0

-----------------------------------------------------------------------------
(* Guest threads.                                                          *)
Goto(t, place) == pc' = [pc EXCEPT ![t] = place]

Return(t) ==
  /\ Goto(t, "out")
  /\ call' = [call EXCEPT ![t] = None]
  /\ seen' = [seen EXCEPT ![t] = {}] /\ waited' = [waited EXCEPT ![t] = {}]

WriteIsQueued ==
  \/ written
  \/ \E r \in Rings : running[r] = "write" \/ \E i \in DOMAIN batches[r] : batches[r][i] = "write"

Ask(t, c) ==
  /\ pc[t] = "out"
  /\ IF c.call = "submit"
       THEN /\ submits < MaxBatches
            /\ c.kind = "wait" /\ Disciplined => WriteIsQueued
            /\ submits' = submits + 1 /\ UNCHANGED stops
       ELSE /\ stops < MaxStops
            /\ stops' = stops + 1 /\ UNCHANGED submits
  /\ call' = [call EXCEPT ![t] = c]
  /\ Goto(t, "lock")
  /\ UNCHANGED <<gpuMutex, made, ringVars, done, written, onGpu, labels, seen, waited>>

(* GpuMutexLock.  Done gives the mutex back once it has copied the rings.  *)
Lock(t) ==
  /\ pc[t] = "lock" /\ gpuMutex = None
  /\ gpuMutex' = IF call[t].call = "done" THEN None ELSE t
  /\ seen' = [seen EXCEPT ![t] = IF call[t].call = "submit" THEN {} ELSE made]
  /\ Goto(t, CASE call[t].call = "submit" -> "push"
               [] call[t].call = "done" -> "mark"
               [] call[t].call = "pause" -> "gfxIdle")
  /\ UNCHANGED <<made, ringVars, done, written, onGpu, labels, call, waited, submits, stops>>

(* CommandProcessor::BufferWait gets through: the ring's thread is not     *)
(* inside a batch (m_run_mutex) and every fence is signalled.              *)
Fenced(r) == running[r] = None /\ onGpu[r] = 0

(* The first submission after Done waits until the ring is idle and resets *)
(* the command processor, with Gpu::m_mutex held.                          *)
Push_StillIdle(t, r) ==
  /\ batches' = [batches EXCEPT ![r] = Append(@, call[t].kind)]
  /\ UNCHANGED idle
Push(t, r) ==
  /\ batches' = [batches EXCEPT ![r] = Append(@, call[t].kind)]
  /\ idle' = idle \ {r}

SubmitGfx(t) ==
  /\ pc[t] = "push" /\ call[t].ring = Gfx
  /\ done => Gfx \in idle /\ Fenced(Gfx)
  /\ done' = FALSE
  /\ Push(t, Gfx)
  /\ gpuMutex' = None
  /\ Return(t)
  /\ UNCHANGED <<made, running, written, onGpu, labels, submits, stops>>

SubmitCompute(t) ==
  /\ pc[t] = "push" /\ call[t].ring \in Compute
  /\ made' = made \cup {call[t].ring}
  /\ Push(t, call[t].ring)
  /\ gpuMutex' = None
  /\ Return(t)
  /\ UNCHANGED <<done, running, written, onGpu, labels, submits, stops>>

RingDone(t) ==
  /\ pc[t] = "mark"
  /\ done => Gfx \in idle
  /\ done' = TRUE
  /\ Goto(t, "gfxIdle")
  /\ UNCHANGED <<gpuMutex, made, ringVars, written, onGpu, labels, call, seen, waited,
                 submits, stops>>

(* Gpu::Done and Gpu::WaitLocked from here on: first the graphics ring ... *)
WaitGfx(t) ==
  /\ \/ pc[t] = "gfxIdle" /\ Gfx \in idle /\ Goto(t, "gfxFence")
     \/ pc[t] = "gfxFence" /\ Fenced(Gfx) /\ Goto(t, "computeIdle")
  /\ UNCHANGED <<gpuMutex, made, ringVars, done, written, onGpu, labels, call, seen,
                 waited, submits, stops>>

(* ... then every compute ring, in two loops ...                           *)
WaitCompute(t) ==
  \E r \in seen[t] \ waited[t] :
    /\ \/ pc[t] = "computeIdle" /\ r \in idle
       \/ pc[t] = "computeFence" /\ Fenced(r)
    /\ waited' = [waited EXCEPT ![t] = @ \cup {r}]
    /\ UNCHANGED <<gpuMutex, made, ringVars, done, written, onGpu, labels, pc, call, seen,
                   submits, stops>>

AllIdle(t) ==
  /\ pc[t] = "computeIdle" /\ waited[t] = seen[t]
  /\ waited' = [waited EXCEPT ![t] = {}]
  /\ Goto(t, "computeFence")
  /\ UNCHANGED <<gpuMutex, made, ringVars, done, written, onGpu, labels, call, seen,
                 submits, stops>>

(* ... and PauseSubmissions drains the labels as well.                     *)
AllFenced(t) ==
  /\ pc[t] = "computeFence" /\ waited[t] = seen[t]
  /\ IF call[t].call = "done"
       THEN Return(t)
       ELSE Goto(t, "drain") /\ UNCHANGED <<call, seen, waited>>
  /\ UNCHANGED <<gpuMutex, made, ringVars, done, written, onGpu, labels, submits, stops>>

Drained_Seen == (\A r \in Rings : onGpu[r] = 0) /\ fired = 0
Drained == (\A r \in Rings : onGpu[r] = 0) /\ fired = 0 /\ inFlight = 0

LabelDrain(t) ==
  /\ pc[t] = "drain" /\ Drained
  /\ Goto(t, "paused")
  /\ UNCHANGED <<gpuMutex, made, ringVars, done, written, onGpu, labels, call, seen,
                 waited, submits, stops>>

ResumeSubmissions(t) ==
  /\ pc[t] = "paused"
  /\ gpuMutex' = None
  /\ Return(t)
  /\ UNCHANGED <<made, ringVars, done, written, onGpu, labels, submits, stops>>

-----------------------------------------------------------------------------
(* The rings' threads, the host GPU and the label thread.                  *)
GoIdle_Never(r) == FALSE /\ UNCHANGED idle
GoIdle(r) == r \notin idle /\ idle' = idle \cup {r}

GetCmdBatch(r) ==
  IF batches[r] = <<>>
    THEN GoIdle(r) /\ UNCHANGED <<batches, running>>
    ELSE /\ running' = [running EXCEPT ![r] = Head(batches[r])]
         /\ batches' = [batches EXCEPT ![r] = Tail(@)]
         /\ idle' = idle \ {r}

Fetch(r) ==
  /\ running[r] = None
  /\ GetCmdBatch(r)
  /\ UNCHANGED <<gpuMutex, made, done, written, onGpu, labels, guest>>

(* CommandProcessor::Run up to BufferFlush; WaitRegMem spins.              *)
RunBatch(r) ==
  /\ running[r] # None
  /\ running[r] = "wait" => written
  /\ written' = (written \/ running[r] = "write")
  /\ onGpu' = [onGpu EXCEPT ![r] = @ + 1]
  /\ running' = [running EXCEPT ![r] = None]
  /\ UNCHANGED <<gpuMutex, made, batches, idle, done, labels, guest>>

GpuCompletes(r) ==
  /\ onGpu[r] > 0
  /\ onGpu' = [onGpu EXCEPT ![r] = @ - 1]
  /\ fired' = fired + 1
  /\ UNCHANGED <<gpuMutex, made, ringVars, done, written, inFlight, guest>>

(* LabelManager::ThreadRun: collect what fired, call back, count down.     *)
LabelScan ==
  /\ inFlight = 0 /\ fired > 0
  /\ inFlight' = fired /\ fired' = 0
  /\ UNCHANGED <<gpuMutex, made, ringVars, done, written, onGpu, guest>>

CalledBack_AlsoFired == inFlight + fired
CalledBack == inFlight

LabelCallbacks ==
  /\ inFlight > 0
  /\ inFlight' = inFlight - CalledBack
  /\ UNCHANGED <<fired, gpuMutex, made, ringVars, done, written, onGpu, guest>>

-----------------------------------------------------------------------------
Guest(t) ==
  \/ Lock(t) \/ SubmitGfx(t) \/ SubmitCompute(t) \/ RingDone(t) \/ WaitGfx(t)
  \/ WaitCompute(t) \/ AllIdle(t) \/ AllFenced(t) \/ LabelDrain(t) \/ ResumeSubmissions(t)

Next ==
  \/ \E t \in Threads : Guest(t) \/ \E c \in Calls : Ask(t, c)
  \/ \E r \in Rings : Fetch(r) \/ RunBatch(r) \/ GpuCompletes(r)
  \/ LabelScan \/ LabelCallbacks

Spec == Init /\ [][Next]_vars

(* Every thread that can go on does, and the host GPU completes its work.  *)
(* Calls are bounded, so nobody is overtaken at Gpu::m_mutex for ever.     *)
FairSpec ==
  /\ Spec
  /\ \A t \in Threads : WF_vars(Guest(t))
  /\ \A r \in Rings : WF_vars(Fetch(r)) /\ WF_vars(RunBatch(r)) /\ WF_vars(GpuCompletes(r))
  /\ WF_vars(LabelScan) /\ WF_vars(LabelCallbacks)

-----------------------------------------------------------------------------
(* While a thread holds the pause nothing of the GPU runs: no batch is     *)
(* queued or executed, no command buffer is at the host GPU, no label is   *)
(* pending and no callback runs.  HandleFault and UnmapGpuRange work on    *)
(* the caches and on guest memory relying on it.                           *)
PausedIsQuiet ==
  \A t \in Threads : pc[t] = "paused" =>
    /\ \A r \in Rings : batches[r] = <<>> /\ running[r] = None /\ onGpu[r] = 0
    /\ fired = 0 /\ inFlight = 0

(* m_idle tells the truth to whoever waits for it without the ring's       *)
(* thread: an idle ring has no batch, queued or in execution.              *)
IdleIsTrue == \A r \in Rings : r \in idle => batches[r] = <<>> /\ running[r] = None

(* Every call returns, or holds the pause.                                 *)
CallsReturn == \A t \in Threads : pc[t] = "lock" ~> pc[t] \in {"out", "paused"}

(* Submitting the write that a ring waits for returns: the comment in      *)
(* ThreadBatchRun says that Submit cannot block, its queue being an        *)
(* unbounded list.                                                         *)
SubmitReturns ==
  \A t \in Threads :
    pc[t] = "lock" /\ call[t] \in [call : {"submit"}, ring : Rings, kind : {"write"}]
      ~> pc[t] = "out"
=============================================================================
