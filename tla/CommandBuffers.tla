---------------------------- MODULE CommandBuffers ----------------------------
(***************************************************************************)
(* The command processors' recording and submission of Vulkan command      *)
(* buffers: CommandScheduler and CommandProcessor's Buffer* operations     *)
(* (commandProcessor.h, graphicsRun.cpp), CommandBuffer's fences and what  *)
(* it retains (context.cpp), and the set-up of a draw or dispatch, which a *)
(* page fault may interrupt with a readback of every processor's work      *)
(* (renderDraw.cpp, renderCompute.cpp, descriptors.cpp).  Labels adds the  *)
(* label thread.                                                           *)
(*                                                                         *)
(* CommandProcessor::m_mutex is one recursive mutex for all processors:    *)
(* what runs under it without waiting for a fence is one step here.        *)
(***************************************************************************)
EXTENDS Naturals, Sequences, FiniteSets

CONSTANTS
  CPs,         (* the command processors, each with its ring's thread      *)
  None,        (* nobody                                                   *)
  NumSlots,    (* CommandScheduler::BuffersNum                             *)
  Images,      (* images the texture cache may hold                        *)
  MaxBatches, MaxCommands, MaxFlushes, MaxFaults  (* bounds on what all the
                                              threads do together          *)

ASSUME CommandAssumption ==
  /\ None \notin CPs
  /\ NumSlots \in Nat \ {0, 1} /\ IsFiniteSet(CPs)
  /\ {MaxBatches, MaxCommands, MaxFlushes, MaxFaults} \subseteq Nat
  /\ Images \cap (1 .. MaxCommands) = {}

Slots == 0 .. NumSlots - 1
LabelIds == 1 .. MaxCommands
Things == Images \cup LabelIds   (* what shared pointers keep alive        *)

(* A recorded draw (or dispatch) names the images its descriptors and its  *)
(* framebuffer point to, a label the event the GPU is to set; fresh: its   *)
(* set-up read the generation of the recording it is part of.              *)
Command == [bound : SUBSET Images, targets : SUBSET Images,
            label : {0} \cup LabelIds, fresh : BOOLEAN]

(* open: the native buffer is in the recording state; executed: m_execute; *)
(* keeps: m_fence_resources.  A fence is signalled when its slot is not in *)
(* the GPU's queue, and a generation only ever compared with the one that  *)
(* a set-up in progress read: local's stale says that they differ.         *)
Buffer == [open : BOOLEAN, executed : BOOLEAN, keeps : SUBSET Things, cmds : Seq(Command)]

VARIABLES
  buf,       (* per processor and slot, its CommandBuffer                  *)
  current,   (* m_current; NumSlots before BufferInit                      *)
  gpu,       (* per processor, the submitted slots the GPU has to execute  *)
  mutex,     (* who holds CommandProcessor::m_mutex                        *)
  pc, local, (* where each ring's thread is, and its local variables       *)
  cached,    (* images the texture cache owns                              *)
  dirty,     (* of those, the ones only the GPU has the content of         *)
  parked,    (* t_parked_resources of each ring thread                     *)
  events,    (* label events the GPU has set                               *)
  count,     (* how often the bounded operations ran                       *)
  exited     (* the process stopped at an EXIT                             *)

processors == <<buf, current, gpu, mutex>>
images == <<cached, dirty, parked>>
cbVars == <<processors, pc, local, images, events, count, exited>>

Active(p) == current[p] # NumSlots
Cur(p) == buf[p][current[p]]

NoLocal == [stale |-> FALSE, resolved |-> {}, bound |-> {}, targets |-> {}, stage |-> 1,
            todo |-> {}, on |-> 0, then |-> "idle"]
NewBuffer == [open |-> FALSE, executed |-> FALSE, keeps |-> {}, cmds |-> <<>>]

CbInit ==
  /\ buf = [p \in CPs |-> [s \in Slots |-> NewBuffer]]
  /\ current = [p \in CPs |-> NumSlots] /\ gpu = [p \in CPs |-> <<>>]
  /\ mutex = None
  /\ pc = [p \in CPs |-> "idle"] /\ local = [p \in CPs |-> NoLocal]
  /\ cached = {} /\ dirty = {} /\ parked = [p \in CPs |-> {}] /\ events = {}
  /\ count = [batches |-> 0, draws |-> 0, labels |-> 0, flushes |-> 0, faults |-> 0]
  /\ exited = FALSE

-----------------------------------------------------------------------------
MayCommand == count.draws + count.labels < MaxCommands

(* One command buffer.                                                     *)
Begun(b) == [b EXCEPT !.open = TRUE, !.cmds = <<>>]
Submitted(b) == [b EXCEPT !.open = FALSE, !.executed = TRUE]
Kept(b, things) == [b EXCEPT !.keeps = @ \cup things]
Recorded(b, cmd) == [b EXCEPT !.cmds = Append(@, cmd)]

(* FinalizeFence, after the wait; reset: the native buffer is reset too.   *)
(* (The memory of the host stream, which a reset takes back of a buffer    *)
(* that was never submitted as well, is left out.)                         *)
Finalized(b, reset) ==
  IF ~b.executed THEN b
  ELSE [b EXCEPT !.executed = FALSE, !.keeps = {},
                 !.open = IF reset THEN FALSE ELSE @,
                 !.cmds = IF reset THEN <<>> ELSE @]

BegunAgain_Reset(b) == Finalized(b, TRUE)
BegunAgain(b) == Begun(Finalized(b, TRUE))

Pending(p) == {gpu[p][i] : i \in DOMAIN gpu[p]}
FenceDone(p, s) == buf[p][s].executed => s \notin Pending(p)

(* What a ring thread lets go while descriptors are being set up is parked *)
(* until the set-up is over (ResourceReleaseDeferral).                     *)
Parked_Not(p, then, things) == parked
Parked(p, then, things) ==
  IF then = "setup" THEN [parked EXCEPT ![p] = @ \cup things] ELSE parked

-----------------------------------------------------------------------------
BufferInit(p) ==
  IF Active(p) THEN UNCHANGED <<buf, current>>
  ELSE /\ current' = [current EXCEPT ![p] = 0]
       /\ buf' = [buf EXCEPT ![p][0] = Begun(@)]

(* A ring's thread takes a batch (and the run mutex, which it alone takes  *)
(* here) and, with the first one, begins its processor's first buffer.     *)
BatchBegin(p) ==
  /\ pc[p] = "idle" /\ mutex = None
  /\ count.batches < MaxBatches /\ count' = [count EXCEPT !.batches = @ + 1]
  /\ BufferInit(p)
  /\ pc' = [pc EXCEPT ![p] = "batch"]
  /\ UNCHANGED <<gpu, mutex, local, images, events, exited>>

-----------------------------------------------------------------------------
(* Submitting.  End fails on a buffer that is not recording, Submit on one *)
(* that is executing, and either stops the process.                        *)
CanSubmit(p) == Cur(p).open /\ ~Cur(p).executed

Exit ==
  /\ exited' = TRUE
  /\ UNCHANGED <<processors, pc, local, images, events, count>>

SubmitAll(ps) ==
  /\ buf' = [p \in CPs |-> IF p \in ps THEN [buf[p] EXCEPT ![current[p]] = Submitted(@)]
                           ELSE buf[p]]
  /\ gpu' = [p \in CPs |-> IF p \in ps THEN Append(gpu[p], current[p]) ELSE gpu[p]]

(* BufferFlush and BufferFlushAndWait: the current buffer is submitted and *)
(* the next one waited for, with m_mutex held.  then says what follows:    *)
(* the batch goes on, waits for what was submitted, or is over.            *)
Flush(p, then) ==
  /\ pc[p] = "batch" /\ mutex = None
  /\ then = "idle" \/ count.flushes < MaxFlushes
  /\ IF CanSubmit(p)
     THEN /\ SubmitAll({p}) /\ mutex' = p
          /\ current' = [current EXCEPT ![p] = (@ + 1) % NumSlots]
          /\ local' = [local EXCEPT ![p].then = then, ![p].on = current[p]]
          /\ pc' = [pc EXCEPT ![p] = "next"]
          /\ count' = IF then = "idle" THEN count ELSE [count EXCEPT !.flushes = @ + 1]
          /\ UNCHANGED <<images, events, exited>>
     ELSE Exit

BeginNext(p) ==
  /\ pc[p] = "next" /\ FenceDone(p, current[p])
  /\ buf' = [buf EXCEPT ![p][current[p]] = BegunAgain(@)]
  /\ mutex' = None /\ pc' = [pc EXCEPT ![p] = local[p].then]
  /\ local' = IF local[p].then = "submitted" THEN local ELSE [local EXCEPT ![p] = NoLocal]
  /\ UNCHANGED <<current, gpu, images, events, count, exited>>

WaitForSubmitted(p) ==
  /\ pc[p] = "submitted" /\ FenceDone(p, local[p].on)
  /\ buf' = [buf EXCEPT ![p][local[p].on] = Finalized(@, FALSE)]
  /\ pc' = [pc EXCEPT ![p] = "batch"] /\ local' = [local EXCEPT ![p] = NoLocal]
  /\ UNCHANGED <<current, gpu, mutex, images, events, count, exited>>

(* BufferWait on the processor's own thread: every slot in turn, with      *)
(* m_mutex held; nobody looks in between.                                  *)
WaitAllBegin(p) ==
  /\ pc[p] = "batch" /\ mutex = None /\ count.flushes < MaxFlushes
  /\ mutex' = p /\ pc' = [pc EXCEPT ![p] = "all"]
  /\ count' = [count EXCEPT !.flushes = @ + 1]
  /\ UNCHANGED <<buf, current, gpu, local, images, events, exited>>

WaitAll(p) ==
  /\ pc[p] = "all" /\ \A s \in Slots : FenceDone(p, s)
  /\ buf' = [buf EXCEPT ![p] = [s \in Slots |-> Finalized(@[s], TRUE)]]
  /\ mutex' = None /\ pc' = [pc EXCEPT ![p] = "batch"]
  /\ UNCHANGED <<current, gpu, local, images, events, count, exited>>

-----------------------------------------------------------------------------
(* FinishCommandProcessors: every processor's current buffer is submitted, *)
(* then waited for, reset and begun again, one processor after the other,  *)
(* with m_mutex held, although not the run mutexes of the others.          *)
FinishBegin(p, then) ==
  LET ps == {q \in CPs : Active(q)} IN
  IF \A q \in ps : CanSubmit(q)
  THEN /\ SubmitAll(ps) /\ mutex' = p
       /\ local' = [local EXCEPT ![p].then = then, ![p].todo = ps]
       /\ pc' = [pc EXCEPT ![p] = "resume"]
       /\ exited' = exited
  ELSE /\ exited' = TRUE /\ UNCHANGED <<buf, gpu, mutex, local, pc>>

(* SynchronizeGpu.                                                         *)
SynchronizeGpu(p) ==
  /\ pc[p] = "batch" /\ mutex = None /\ count.flushes < MaxFlushes
  /\ FinishBegin(p, "batch")
  /\ count' = [count EXCEPT !.flushes = @ + 1]
  /\ UNCHANGED <<current, images, events>>

Resume(p, q) ==
  LET left == local[p].todo \ {q} IN
  /\ pc[p] = "resume" /\ q \in local[p].todo /\ FenceDone(q, current[q])
  /\ buf' = [buf EXCEPT ![q][current[q]] = BegunAgain(@)]
  /\ parked' = Parked(p, local[p].then, IF Cur(q).executed THEN Cur(q).keeps ELSE {})
  /\ local' = [local EXCEPT ![p].todo = left, ![p].stale = @ \/ q = p]
  /\ pc' = [pc EXCEPT ![p] = IF left = {} THEN local[p].then ELSE "resume"]
  /\ mutex' = IF left = {} /\ local[p].then = "batch" THEN None ELSE mutex
  /\ UNCHANGED <<current, gpu, cached, dirty, events, count, exited>>

-----------------------------------------------------------------------------
(* A draw or a dispatch, with m_mutex held from here to Record.  The draw  *)
(* looks its targets up before it begins the loop that reads the recording *)
(* generation, binds and checks the generation.                            *)
Prepare(p, targets) ==
  /\ pc[p] = "batch" /\ mutex = None /\ MayCommand
  /\ mutex' = p /\ pc' = [pc EXCEPT ![p] = "setup"]
  /\ cached' = cached \cup targets /\ dirty' = dirty \cup targets
  /\ buf' = [buf EXCEPT ![p][current[p]] = Kept(@, targets)]
  /\ local' = [local EXCEPT ![p] = [NoLocal EXCEPT !.targets = targets]]
  /\ count' = [count EXCEPT !.draws = @ + 1]
  /\ UNCHANGED <<current, gpu, parked, events, exited>>

(* A lookup finds or creates the image and retains it until the fence.     *)
Resolve(p, i) ==
  /\ pc[p] = "setup" /\ i \notin local[p].resolved
  /\ cached' = cached \cup {i}
  /\ buf' = [buf EXCEPT ![p][current[p]] = Kept(@, {i})]
  /\ local' = [local EXCEPT ![p].resolved = @ \cup {i}, ![p].bound = @ \cup {i}]
  /\ UNCHANGED <<current, gpu, mutex, pc, dirty, parked, events, count, exited>>

(* A lookup may retire images that overlap: the cache lets go of them.  An *)
(* image the GPU alone has the content of is copied from, and retained, or *)
(* downloaded, and not; one that guest memory agrees with is dropped.      *)
Retire(p, i) ==
  /\ pc[p] = "setup" /\ i \in cached
  /\ cached' = cached \ {i} /\ dirty' = dirty \ {i}
  /\ \/ i \in dirty /\ buf' = [buf EXCEPT ![p][current[p]] = Kept(@, {i})]
     \/ UNCHANGED buf
  /\ UNCHANGED <<current, gpu, mutex, pc, local, parked, events, count, exited>>

(* Reading guest memory faults on a page the GPU wrote: the handler        *)
(* finishes every processor's work and downloads what was written there.   *)
Fault(p, downloaded) ==
  /\ pc[p] \in {"setup", "bound"} /\ count.faults < MaxFaults
  /\ FinishBegin(p, pc[p])
  /\ dirty' = dirty \ downloaded
  /\ count' = [count EXCEPT !.faults = @ + 1]
  /\ UNCHANGED <<current, cached, parked, events>>

(* BindDescriptors returns: its deferral ends, its raw pointers are gone.  *)
(* A draw binds twice, for its vertex and for its pixel shader.            *)
ScopeEnd(p) ==
  /\ pc[p] = "setup"
  /\ parked' = [parked EXCEPT ![p] = {}]
  /\ local' = [local EXCEPT ![p].resolved = {}]
  /\ pc' = [pc EXCEPT ![p] = "bound"]
  /\ UNCHANGED <<processors, cached, dirty, events, count, exited>>

NextStage(p) ==
  /\ pc[p] = "bound" /\ local[p].stage = 1 /\ local[p].targets # {}
  /\ local' = [local EXCEPT ![p].stage = 2]
  /\ pc' = [pc EXCEPT ![p] = "setup"]
  /\ UNCHANGED <<processors, images, events, count, exited>>

LastStage(p) == local[p].stage = 2 \/ local[p].targets = {}

Retry(p) ==
  /\ pc[p] = "bound" /\ LastStage(p) /\ local[p].stale
  /\ local' = [local EXCEPT ![p].stale = FALSE, ![p].bound = {}, ![p].stage = 1]
  /\ pc' = [pc EXCEPT ![p] = "setup"]
  /\ UNCHANGED <<processors, images, events, count, exited>>

MayRecord_Unchecked(p) == TRUE
MayRecord(p) == ~local[p].stale

Record(p) ==
  /\ pc[p] = "bound" /\ LastStage(p) /\ MayRecord(p)
  /\ buf' = [buf EXCEPT ![p][current[p]] =
               Recorded(@, [bound |-> local[p].bound, targets |-> local[p].targets,
                            label |-> 0, fresh |-> ~local[p].stale])]
  /\ mutex' = None /\ pc' = [pc EXCEPT ![p] = "batch"]
  /\ local' = [local EXCEPT ![p] = NoLocal]
  /\ UNCHANGED <<current, gpu, images, events, count, exited>>

-----------------------------------------------------------------------------
(* The GPU executes a queue's buffers in order, sets the labels' events as *)
(* it gets to them, and signals the fence behind the last command.         *)
Unset(b) == {i \in DOMAIN b.cmds : b.cmds[i].label \notin {0} \cup events}

GpuExecute(p) ==
  /\ gpu[p] # <<>>
  /\ LET s == Head(gpu[p])
         b == buf[p][s] IN
     IF Unset(b) # {}
     THEN LET i == CHOOSE i \in Unset(b) : \A j \in Unset(b) : i <= j IN
          /\ events' = events \cup {b.cmds[i].label}
          /\ UNCHANGED gpu
     ELSE gpu' = [gpu EXCEPT ![p] = Tail(@)] /\ UNCHANGED events
  /\ UNCHANGED <<buf, current, mutex, pc, local, images, count, exited>>

CpStep(p) ==
  \/ BatchBegin(p)
  \/ \E then \in {"batch", "submitted", "idle"} : Flush(p, then)
  \/ BeginNext(p) \/ WaitForSubmitted(p) \/ WaitAllBegin(p) \/ WaitAll(p)
  \/ SynchronizeGpu(p) \/ \E q \in CPs : Resume(p, q)
  \/ \E targets \in {{}} \cup {{i} : i \in Images} : Prepare(p, targets)
  \/ \E i \in Images : Resolve(p, i) \/ Retire(p, i)
  \/ \E downloaded \in SUBSET dirty : Fault(p, downloaded)
  \/ ScopeEnd(p) \/ NextStage(p) \/ Retry(p) \/ Record(p)
=============================================================================
