----------------------------- MODULE FlipQueue ------------------------------
(***************************************************************************)
(* The flip queue of graphics/presentation/videoOut.cpp with the three     *)
(* kinds of threads that meet in it:                                       *)
(*   - guest threads call sceVideoOutSubmitFlip (Reserve, then a batch in  *)
(*     the graphics ring that will prepare the flip) and submit command    *)
(*     buffers that flip or wait for a flip;                               *)
(*   - the graphics ring's thread executes those batches in order;         *)
(*   - the window thread presents the front request, vblank by vblank.     *)
(* m_mutex is taken and released several times in most operations: each    *)
(* locked section is a step.  Flip events belong to another module; the    *)
(* completion label of a flip finds it completed and changes nothing.      *)
(***************************************************************************)
EXTENDS Naturals, Sequences, FiniteSets

CONSTANTS
  Threads,    (* guest threads that submit flips                           *)
  Handles,    (* opened video outs                                         *)
  Buffers,    (* display buffer indices                                    *)
  None,
  Capacity,   (* VIDEO_OUT_FLIP_QUEUE_CAPACITY                             *)
  Rates,      (* flip rates a video out may have been set to               *)
  Period,     (* the vblank count is kept modulo this                      *)
  CpuBudget,  (* bound: flips from SubmitFlip the guest lets be pending    *)
  MaxFlips,   (* bound: flips ever asked for                               *)
  MaxRing     (* bound: batches in the graphics ring                       *)

ASSUME Sizes == Capacity \in Nat /\ CpuBudget \in Nat /\ Period \in Nat \ {0}
ASSUME RatesDividePeriod ==
  Rates \subseteq Nat /\ \A r \in Rates : Period % (r + 1) = 0
ASSUME ThreadsAssumption == IsFiniteSet(Threads)
ASSUME NoneIsNothing == None \notin Handles \X Buffers

Sources == {"cpu", "gpu"}
States == {"Reserved", "Recording", "Ready", "Presenting"}
Request == [id : Nat, cfg : Handles, index : Buffers, source : Sources,
            state : States]
Batch == [kind : {"flip", "wait"}, cfg : Handles, index : Buffers]
           \cup [kind : {"prepare"}]

VARIABLES
  requests,    (* m_requests                                               *)
  cpuRequests, (* m_cpu_requests                                           *)
  processing,  (* m_processing                                             *)
  nextId,      (* m_next_request_id                                        *)
  pendingNum,  (* flip_status.flipPendingNum of each video out             *)
  gcQueueNum,  (* flip_status.gcQueueNum of each video out                 *)
  flipRate,    (* VideoOutConfig::flip_rate                                *)
  vblank,      (* vblank_status.count, modulo Period                       *)
  ring,        (* batches queued in the graphics ring                      *)
  submitting,  (* the flip a guest thread is inside SubmitFlip with        *)
  gpc, batch, gid, (* the ring's thread: where, on which batch and request *)
  ppc, snap    (* the window thread: where, and its copy of the front      *)

queue == <<requests, cpuRequests, nextId, pendingNum, gcQueueNum>>
gpu == <<gpc, batch, gid>>
window == <<ppc, snap, processing, vblank>>
guest == <<ring, submitting>>
vars == <<queue, gpu, window, guest, flipRate>>

NoBatch == [kind |-> "prepare"]
GpuPC == {"fetch", "reserve", "slot", "slotSleep", "pick", "begin", "record",
          "complete", "flipWait", "flipSleep", "exited"}
WindowPC == {"take", "due", "start", "present", "end"}

TypeOK ==
  /\ requests \in Seq(Request) /\ cpuRequests \in Seq(Request)
  /\ processing \in BOOLEAN
  /\ nextId \in Nat
  /\ pendingNum \in [Handles -> Nat] /\ gcQueueNum \in [Handles -> Nat]
  /\ flipRate \in [Handles -> Rates] /\ vblank \in 0 .. Period - 1
  /\ ring \in Seq(Batch)
  /\ submitting \in [Threads -> (Handles \X Buffers) \cup {None}]
  /\ gpc \in GpuPC /\ batch \in Batch /\ gid \in Nat
  /\ ppc \in WindowPC /\ snap \in Request \cup {None}

Init ==
  /\ requests = <<>> /\ cpuRequests = <<>>
  /\ processing = FALSE
  /\ nextId = 1
  /\ pendingNum = [h \in Handles |-> 0] /\ gcQueueNum = [h \in Handles |-> 0]
  /\ flipRate \in [Handles -> Rates] /\ vblank = 0
  /\ ring = <<>>
  /\ submitting = [t \in Threads |-> None]
  /\ gpc = "fetch" /\ batch = NoBatch /\ gid = 0
  /\ ppc = "take" /\ snap = None

-----------------------------------------------------------------------------
Elements(s) == {s[i] : i \in DOMAIN s}
Pending == Elements(requests) \cup Elements(cpuRequests)
Total == Len(requests) + Len(cpuRequests)
Count(s, P(_)) == Cardinality({i \in DOMAIN s : P(s[i])})
HasId(s, id) == \E i \in DOMAIN s : s[i].id = id

Full_IgnoresCpu == Len(requests) >= Capacity
Full == Total >= Capacity

(* FlipQueue::Reserve on success, into the list of its source.             *)
Reserve(h, b, source) ==
  LET r == [id |-> nextId, cfg |-> h, index |-> b, source |-> source,
            state |-> "Reserved"] IN
  /\ ~Full
  /\ nextId' = nextId + 1
  /\ IF source = "gpu"
       THEN requests' = Append(requests, r) /\ UNCHANGED cpuRequests
       ELSE cpuRequests' = Append(cpuRequests, r) /\ UNCHANGED requests
  /\ pendingNum' = [pendingNum EXCEPT ![h] = Total + 1]
  /\ gcQueueNum' = [gcQueueNum EXCEPT ![h] = IF source = "gpu" THEN @ + 1 ELSE @]

-----------------------------------------------------------------------------
(* Guest threads.  The guest does not flip a buffer                        *)
(* from the CPU while a command buffer of its own waits for that buffer,   *)
(* and does not submit such a wait while a SubmitFlip of it is in progress.*)
WaitInFlight(h, b) ==
  \E w \in Elements(ring) \cup (IF gpc = "fetch" THEN {} ELSE {batch}) :
    w.kind = "wait" /\ w.cfg = h /\ w.index = b

(* Flips accepted so far or asked for by a command buffer: MaxFlips bounds *)
(* what the guest asks for, not what the queue accepts.                    *)
Asked == nextId - 1 + Count(ring, LAMBDA w : w.kind = "flip")
           + (IF gpc \in {"reserve", "slot", "slotSleep"} THEN 1 ELSE 0)

CpuPending == Count(requests, LAMBDA r : r.source = "cpu") + Len(cpuRequests)

(* sceVideoOutSubmitFlip: reserve (or answer FLIP_QUEUE_FULL) ...          *)
SubmitFlip(t, h, b) ==
  /\ submitting[t] = None
  /\ Asked < MaxFlips /\ CpuPending < CpuBudget
  /\ ~WaitInFlight(h, b)
  /\ Reserve(h, b, "cpu")
  /\ submitting' = [submitting EXCEPT ![t] = <<h, b>>]
  /\ UNCHANGED <<gpu, window, ring, flipRate>>

(* ... and queue the batch that will prepare SOME accepted flip.           *)
SubmitFlipPreparation_Skipped(t) ==
  /\ submitting[t] # None
  /\ submitting' = [submitting EXCEPT ![t] = None]
  /\ UNCHANGED <<queue, gpu, window, ring, flipRate>>
SubmitFlipPreparation(t) ==
  /\ submitting[t] # None
  /\ ring' = Append(ring, [kind |-> "prepare"])
  /\ submitting' = [submitting EXCEPT ![t] = None]
  /\ UNCHANGED <<queue, gpu, window, flipRate>>

(* A command buffer that flips, or waits for a flip, at the end of pipe.   *)
SubmitCommands(kind, h, b) ==
  /\ Len(ring) < MaxRing
  /\ kind = "flip" => Asked < MaxFlips
  /\ kind = "wait" => \A t \in Threads : submitting[t] # <<h, b>>
  /\ ring' = Append(ring, [kind |-> kind, cfg |-> h, index |-> b])
  /\ UNCHANGED <<queue, gpu, window, submitting, flipRate>>

(* sceVideoOutWaitVblank counts a vblank of its own; the guest calls it    *)
(* only at full flip rate.                                                 *)
WaitVblank ==
  /\ \A h \in Handles : flipRate[h] = 0
  /\ vblank' = (vblank + 1) % Period
  /\ UNCHANGED <<queue, gpu, guest, ppc, snap, processing, flipRate>>

-----------------------------------------------------------------------------
(* The graphics ring's thread.                                             *)
FetchBatch ==
  /\ gpc = "fetch" /\ ring # <<>>
  /\ batch' = Head(ring) /\ ring' = Tail(ring)
  /\ gpc' = CASE batch'.kind = "flip" -> "reserve"
              [] batch'.kind = "wait" -> "flipWait"
              [] OTHER -> "pick"
  /\ UNCHANGED <<queue, window, gid, submitting, flipRate>>

(* PrepareDisplayBufferFlip: reserve, or wait for a slot and try again.    *)
ReserveFromGpu ==
  /\ gpc = "reserve"
  /\ \/ /\ Reserve(batch.cfg, batch.index, "gpu")
        /\ gid' = nextId /\ gpc' = "begin"
     \/ Full /\ gpc' = "slot" /\ UNCHANGED <<queue, gid>>
  /\ UNCHANGED <<window, guest, batch, flipRate>>

(* A full queue without a flip in presentation order can never drain: only *)
(* this thread would put one there.  The code EXITs, and the process ends. *)
WaitForSubmitSlot ==
  /\ gpc = "slot"
  /\ gpc' = CASE ~Full -> "reserve"
              [] Full /\ requests # <<>> -> "slotSleep"
              [] OTHER -> "exited"
  /\ UNCHANGED <<queue, window, guest, batch, gid, flipRate>>

(* PrepareNextCpu: the oldest flip from SubmitFlip, whoever's batch it is. *)
NextCpu_Newest == cpuRequests[Len(cpuRequests)].id
NextCpu == Head(cpuRequests).id

PrepareNextCpu ==
  /\ gpc = "pick" /\ cpuRequests # <<>>
  /\ gid' = NextCpu /\ gpc' = "begin"
  /\ UNCHANGED <<queue, window, guest, batch, flipRate>>

(* Prepare: a CPU flip moves behind the flips already in presentation      *)
(* order; the frame is recorded outside the lock.                          *)
Moved_ToFront(r) == <<r>> \o requests
Moved(r) == Append(requests, r)

SetState(s, id, st) ==
  [i \in DOMAIN s |-> IF s[i].id = id THEN [s[i] EXCEPT !.state = st] ELSE s[i]]
WithoutAt_Keeps(s, i) == s
WithoutAt(s, i) == [j \in 1 .. Len(s) - 1 |-> IF j < i THEN s[j] ELSE s[j + 1]]

PrepareBegin ==
  /\ gpc = "begin"
  /\ IF HasId(requests, gid)
       THEN /\ requests' = SetState(requests, gid, "Recording")
            /\ UNCHANGED cpuRequests
       ELSE \E i \in DOMAIN cpuRequests :
              /\ cpuRequests[i].id = gid
              /\ requests' = Moved([cpuRequests[i] EXCEPT !.state = "Recording"])
              /\ cpuRequests' = WithoutAt(cpuRequests, i)
  /\ gpc' = "record"
  /\ UNCHANGED <<nextId, pendingNum, gcQueueNum, window, guest, batch, gid, flipRate>>

PrepareEnd ==
  /\ gpc = "record"
  /\ gpc' = "complete"
  /\ UNCHANGED <<queue, window, guest, batch, gid, flipRate>>

Complete ==
  /\ gpc = "complete"
  /\ requests' = SetState(requests, gid, "Ready")
  /\ gpc' = "fetch" /\ batch' = NoBatch /\ gid' = 0
  /\ UNCHANGED <<cpuRequests, nextId, pendingNum, gcQueueNum, window, guest, flipRate>>

(* R_WAIT_FLIP_DONE: no request of that buffer, prepared or not.           *)
WaitFlipDone ==
  /\ gpc = "flipWait"
  /\ IF \E r \in Pending : r.cfg = batch.cfg /\ r.index = batch.index
       THEN gpc' = "flipSleep" /\ UNCHANGED batch
       ELSE gpc' = "fetch" /\ batch' = NoBatch
  /\ UNCHANGED <<queue, window, guest, gid, flipRate>>

-----------------------------------------------------------------------------
(* The window thread: one round per vblank.                                *)
FrontReady == IF requests = <<>> THEN FALSE ELSE Head(requests).state = "Ready"

TakeFront ==
  /\ ppc = "take"
  /\ \/ /\ FrontReady
        /\ processing' = TRUE /\ snap' = Head(requests)
        /\ ppc' = "due"
     \/ ~FrontReady /\ ppc' = "end" /\ UNCHANGED <<processing, snap>>
  /\ UNCHANGED <<queue, gpu, guest, vblank, flipRate>>

Due(h) == flipRate[h] = 0 \/ vblank % (flipRate[h] + 1) = 0

CheckDue ==
  /\ ppc = "due"
  /\ \/ Due(snap.cfg) /\ ppc' = "start" /\ UNCHANGED <<processing, snap>>
     \/ ~Due(snap.cfg) /\ ppc' = "end" /\ processing' = FALSE /\ snap' = None
  /\ UNCHANGED <<queue, gpu, guest, vblank, flipRate>>

StartPresenting ==
  /\ ppc = "start"
  /\ requests' = SetState(requests, snap.id, "Presenting")
  /\ ppc' = "present"
  /\ UNCHANGED <<cpuRequests, nextId, pendingNum, gcQueueNum, gpu, guest,
                 snap, processing, vblank, flipRate>>

(* The presented request leaves; both kinds of sleepers look again.        *)
Woken_Done(pc) == IF pc = "flipSleep" THEN "flipWait" ELSE pc
Woken(pc) == CASE pc = "flipSleep" -> "flipWait"
               [] pc = "slotSleep" -> "slot"
               [] OTHER -> pc

GcQueueLess(n, source) == IF source = "gpu" /\ n > 0 THEN n - 1 ELSE n

StillPending == Total - 1

FinishPresenting ==
  /\ ppc = "present"
  /\ requests' = Tail(requests)
  /\ pendingNum' = [pendingNum EXCEPT ![snap.cfg] = StillPending]
  /\ gcQueueNum' = [gcQueueNum EXCEPT ![snap.cfg] = GcQueueLess(@, snap.source)]
  /\ processing' = FALSE /\ snap' = None
  /\ gpc' = Woken(gpc)
  /\ ppc' = "end"
  /\ UNCHANGED <<cpuRequests, nextId, guest, batch, gid, vblank, flipRate>>

EndVblank ==
  /\ ppc = "end"
  /\ vblank' = (vblank + 1) % Period
  /\ ppc' = "take"
  /\ UNCHANGED <<queue, gpu, guest, snap, processing, flipRate>>

-----------------------------------------------------------------------------
Ring == \/ FetchBatch \/ ReserveFromGpu \/ WaitForSubmitSlot \/ PrepareNextCpu
        \/ PrepareBegin \/ PrepareEnd \/ Complete \/ WaitFlipDone
Window == TakeFront \/ CheckDue \/ StartPresenting \/ FinishPresenting \/ EndVblank

Running == gpc # "exited"

Next ==
  /\ Running
  /\ \/ \E t \in Threads :
          \/ \E h \in Handles, b \in Buffers : SubmitFlip(t, h, b)
          \/ SubmitFlipPreparation(t)
     \/ \E kind \in {"flip", "wait"}, h \in Handles, b \in Buffers : SubmitCommands(kind, h, b)
     \/ WaitVblank
     \/ Ring \/ Window

Spec == Init /\ [][Next]_vars

(* The ring's thread and the window thread keep running, and a guest       *)
(* thread inside SubmitFlip comes to its end.                              *)
FairSpec ==
  /\ Spec
  /\ WF_vars(Ring) /\ WF_vars(Running /\ Window)
  /\ \A t \in Threads : WF_vars(Running /\ SubmitFlipPreparation(t))

-----------------------------------------------------------------------------
(* Both lists together never exceed the queue's capacity.                  *)
WithinCapacity == Total <= Capacity

(* Between the locked sections of Flip the front request stays the one the *)
(* window thread copied, in the state it left it in: what the EXITs "queue *)
(* processing is already active", "changed before presentation" and        *)
(* "changed while processing" assert.                                      *)
PresenterOwnsFront ==
  /\ ppc \in {"take", "end"} => ~processing
  /\ ppc \in {"due", "start", "present"} =>
       /\ processing /\ requests # <<>>
       /\ Head(requests) =
            [snap EXCEPT !.state = IF ppc = "present" THEN "Presenting" ELSE "Ready"]

(* Every preparation batch finds an accepted flip, and Prepare finds its   *)
(* request untouched since: the EXITs "no accepted request", "cannot       *)
(* prepare" and "changed while recording".                                 *)
PrepareFindsRequest ==
  /\ gpc = "pick" => cpuRequests # <<>>
  /\ gpc = "begin" =>
       \E r \in IF HasId(requests, gid) THEN Elements(requests) ELSE Elements(cpuRequests) :
         r.id = gid /\ r.state = "Reserved"
  /\ gpc \in {"record", "complete"} =>
       \E r \in Elements(requests) : r.id = gid /\ r.state = "Recording"

(* To those who flip, the two lists, the moves between them and the states *)
(* of a request are one queue: accepting, preparing and showing implements *)
(* FlipFifo.  No flip is dropped, doubled or altered on the way.           *)
Accepted(r) == [id |-> r.id, cfg |-> r.cfg, index |-> r.index, source |-> r.source]
Fifo == INSTANCE FlipFifo
          WITH waiting <- {Accepted(r) : r \in Pending}, room <- Capacity - Total,
               accepted <- nextId - 1
ImplementsFifo == Fifo!Spec

(* The flips of one source are shown in the order they were accepted, also *)
(* when several guest threads submit and their batches change places.      *)
ShownInOrder ==
  [][ppc = "present" /\ ppc' = "end" =>
       \A r \in Pending : r.source = snap.source => snap.id <= r.id]_vars

(* Every accepted flip is shown, whatever the ring's thread is waiting for,*)
(* unless the queue is full of flips that only that thread could prepare   *)
(* and the process has ended over it.                                      *)
EveryFlipIsShown ==
  \A id \in 1 .. MaxFlips :
    (\E r \in Pending : r.id = id) ~> ~Running \/ ~ \E r \in Pending : r.id = id

(* The ring's thread gets past every wait for a slot or for a flip, or     *)
(* ends the process: it never sleeps on in a queue that cannot drain.      *)
RingGoesOn == gpc \in {"slotSleep", "flipSleep"} ~> ~Running \/ gpc = "fetch"
=============================================================================
