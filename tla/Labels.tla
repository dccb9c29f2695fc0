-------------------------------- MODULE Labels --------------------------------
(***************************************************************************)
(* The label thread (objects/label.cpp), which polls the events the GPU    *)
(* sets at the end of the pipe and runs their callbacks, composed with the *)
(* command processors that record the labels.  GpuRings has the count of   *)
(* the callbacks in flight and those who wait for it.                      *)
(*                                                                         *)
(* The renderer's only use of a label is SubmitLabel: create, set once and *)
(* delete, with the processors' mutex held, so that the GPU cannot set the *)
(* event in between.  A label is therefore its one submission here, and    *)
(* the three calls are one step.  CondVar::Wait may come back at any time: *)
(* the thread that finds no submission just looks again.                   *)
(***************************************************************************)
EXTENDS CommandBuffers

VARIABLES
  subs,      (* submissions the thread has not seen set, in m_labels' order *)
  thread,    (* where the label thread is, in its list and with its labels *)
  called,    (* history: labels whose callbacks have run                   *)
  seen       (* history: the events that were set when the scan began      *)

manager == <<subs, thread, called, seen>>
vars == <<cbVars, manager>>

Idle == [at |-> "idle", pos |-> 1, fired |-> <<>>, done |-> 0]

Init ==
  /\ CbInit
  /\ subs = <<>> /\ thread = Idle /\ called = {} /\ seen = {}

Elements(s) == {s[i] : i \in DOMAIN s}

-----------------------------------------------------------------------------
(* LabelManager::Set: the recording buffer and the submission both keep    *)
(* the event.                                                              *)
SubmitLabel(p) ==
  /\ pc[p] = "batch" /\ mutex = None /\ thread.at # "scan" /\ MayCommand
  /\ LET l == count.labels + 1 IN
     /\ buf' = [buf EXCEPT ![p][current[p]] =
                  Recorded(Kept(@, {l}), [bound |-> {}, targets |-> {}, label |-> l,
                                          fresh |-> TRUE])]
     /\ subs' = Append(subs, l)
     /\ count' = [count EXCEPT !.labels = l]
  /\ UNCHANGED <<current, gpu, mutex, pc, local, images, events, exited, thread, called, seen>>

-----------------------------------------------------------------------------
(* ThreadRun.  The scan holds the manager's mutex, while the GPU sets      *)
(* events behind it and ahead of it.                                       *)
ScanBegin ==
  /\ thread.at = "idle" /\ subs # <<>>
  /\ thread' = [Idle EXCEPT !.at = "scan"]
  /\ seen' = events
  /\ UNCHANGED <<cbVars, subs, called>>

Noticed_First(fired, l) == <<l>> \o fired
Noticed(fired, l) == Append(fired, l)

(* A submission whose event is set leaves the list there and then.         *)
Erased(list, i) == [j \in 1 .. Len(list) - 1 |-> IF j < i THEN list[j] ELSE list[j + 1]]

Poll ==
  /\ thread.at = "scan" /\ thread.pos <= Len(subs)
  /\ LET l == subs[thread.pos] IN
     IF l \in events
     THEN /\ thread' = [thread EXCEPT !.fired = Noticed(@, l)]
          /\ subs' = Erased(subs, thread.pos)
     ELSE thread' = [thread EXCEPT !.pos = @ + 1] /\ UNCHANGED subs
  /\ UNCHANGED <<cbVars, called, seen>>

ScanEnd ==
  /\ thread.at = "scan" /\ thread.pos > Len(subs)
  /\ thread' = [thread EXCEPT !.at = "call"]
  /\ UNCHANGED <<cbVars, subs, called, seen>>

Callback ==
  /\ thread.at = "call" /\ thread.done < Len(thread.fired)
  /\ called' = called \cup {thread.fired[thread.done + 1]}
  /\ thread' = [thread EXCEPT !.done = @ + 1]
  /\ UNCHANGED <<cbVars, subs, seen>>

(* With the iteration, finished_submissions lets go of the events.         *)
IterationEnd ==
  /\ thread.at = "call" /\ thread.done = Len(thread.fired)
  /\ thread' = Idle /\ seen' = {}
  /\ UNCHANGED <<cbVars, subs, called>>

-----------------------------------------------------------------------------
RingStep(p) ==
  \/ CpStep(p) /\ UNCHANGED manager
  \/ SubmitLabel(p)
GpuStep(p) == GpuExecute(p) /\ UNCHANGED manager
LabelStep == ScanBegin \/ Poll \/ ScanEnd \/ Callback \/ IterationEnd

Next ==
  /\ ~exited
  /\ \/ \E p \in CPs : RingStep(p) \/ GpuStep(p)
     \/ LabelStep

Spec == Init /\ [][Next]_vars

-----------------------------------------------------------------------------
(* What keeps a thing alive: the cache, a command buffer, a deferral, a    *)
(* submission, the label thread's iteration.                               *)
Alive ==
  cached \cup Elements(subs) \cup Elements(thread.fired)
  \cup (UNION {parked[p] : p \in CPs}) \cup (UNION {buf[p][s].keeps : p \in CPs, s \in Slots})

(* The commands of the buffers the GPU has been given and not yet signalled. *)
InUse == UNION {UNION {Elements(buf[p][s].cmds) : s \in Pending(p)} : p \in CPs}

(* Nothing is destroyed that a pending command buffer uses through its     *)
(* descriptors or its labels, or that a set-up in progress points to,      *)
(* although fences release what they kept in the middle of a set-up and    *)
(* the label thread drops an event while its buffer still executes         *)
(* (ResourceReleaseDeferral, RetainResourceUntilFence, LabelManager::Set). *)
UsedIsAlive ==
  /\ \A c \in InUse : c.bound \cup ({c.label} \ {0}) \subseteq Alive
  /\ \A p \in CPs : local[p].resolved \subseteq Alive

(* A command is part of the recording its set-up began in: after a fault's *)
(* readback reset the buffer, with its host stream and descriptor sets,    *)
(* the draw is set up again (the generation checks of renderDraw.cpp and   *)
(* renderCompute.cpp).                                                     *)
SetUpInThisRecording ==
  \A p \in CPs : \A s \in Slots : \A c \in Elements(buf[p][s].cmds) : c.fresh

(* What is submitted was recording and is not executing: a readback leaves *)
(* every processor's current buffer begun again, a flush the next one, so  *)
(* neither End's nor Submit's check stops the process (context.cpp).       *)
SubmitsWhatRecords == ~exited

(* A label's callbacks overtake those of one recorded before it only if    *)
(* the GPU set the earlier one's event during the very scan: what was set  *)
(* when ThreadRun began its scan is called in the order it was recorded.   *)
OvertakenInScan ==
  [][\A l \in called' \ called : \A k \in 1 .. l - 1 : k \in seen => k \in called]_vars

(* The images a pending draw renders to are alive: "FindTexture and        *)
(* FindRenderTarget retain cache records on their recording commands.      *)
(* Erasing the lookup owner therefore defers Vulkan destruction until the  *)
(* last referencing fence" (textureCache.cpp:869).                         *)
TargetsAreAlive == \A c \in InUse : c.targets \subseteq Alive
=============================================================================
