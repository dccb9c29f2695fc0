-------------------------- MODULE FlipQueueProofs ---------------------------
(***************************************************************************)
(* Bounds and order of the flip queue for any number of guest threads,     *)
(* video outs and buffers and any capacity.                                *)
(***************************************************************************)
EXTENDS FlipQueue, TLAPS, FiniteSetTheorems

(* What the handlers work on: well-formed lists, and a batch that names    *)
(* the flip to make while the ring's thread is about to make one.          *)
ListsInv ==
  /\ requests \in Seq(Request) /\ cpuRequests \in Seq(Request)
  /\ nextId \in Nat /\ ring \in Seq(Batch) /\ batch \in Batch
  /\ gpc \in {"reserve", "slot", "slotSleep"} => batch.kind = "flip"

(* The flip the window thread presents is still in the list.               *)
FrontInv == ppc \in {"due", "start", "present"} => requests # <<>>

IInv == ListsInv /\ FrontInv /\ WithinCapacity

(* Changing the state of a request leaves it a request.                   *)
LEMMA StateKeepsType ==
  ASSUME NEW r \in Request, NEW st \in States
  PROVE  [r EXCEPT !.state = st] \in Request
BY DEF Request

(* A list with one request in another state is a list as long as before.   *)
LEMMA SetStateKeeps ==
  ASSUME NEW s \in Seq(Request), NEW id, NEW st \in States
  PROVE  SetState(s, id, st) \in Seq(Request) /\ Len(SetState(s, id, st)) = Len(s)
<1>1. \A i \in 1 .. Len(s) : s[i] \in Request /\ [s[i] EXCEPT !.state = st] \in Request
  BY StateKeepsType
<1>2. Len(s) \in Nat /\ DOMAIN s = 1 .. Len(s)
  OBVIOUS
<1>3. SetState(s, id, st) \in [1 .. Len(s) -> Request]
  BY <1>1, <1>2 DEF SetState
<1> QED
  BY <1>2, <1>3

(* A list without one of its requests is one shorter.                      *)
LEMMA WithoutAtShortens ==
  ASSUME NEW s \in Seq(Request), NEW i \in DOMAIN s
  PROVE  WithoutAt(s, i) \in Seq(Request) /\ Len(WithoutAt(s, i)) = Len(s) - 1
<1>1. Len(s) - 1 \in Nat
  OBVIOUS
<1>2. WithoutAt(s, i) \in [1 .. Len(s) - 1 -> Request]
  BY DEF WithoutAt
<1> QED
  BY <1>1, <1>2

(* A place is taken only in a queue that has one.                          *)
LEMMA ReserveStep ==
  ASSUME IInv, NEW h \in Handles, NEW b \in Buffers, NEW source \in Sources,
         Reserve(h, b, source)
  PROVE  /\ requests' \in Seq(Request) /\ cpuRequests' \in Seq(Request)
         /\ nextId' \in Nat /\ WithinCapacity'
         /\ requests # <<>> => requests' # <<>>
<1> DEFINE r == [id |-> nextId, cfg |-> h, index |-> b, source |-> source,
                 state |-> "Reserved"]
<1>1. r \in Request
  BY DEF Request, States, IInv, ListsInv
<1>2. ~Full /\ nextId' = nextId + 1
  BY DEF Reserve
<1>3. \/ requests' = Append(requests, r) /\ cpuRequests' = cpuRequests
      \/ source = "cpu" /\ cpuRequests' = Append(cpuRequests, r) /\ requests' = requests
  BY DEF Reserve, Sources
<1> HIDE DEF r
<1>4. requests \in Seq(Request) /\ cpuRequests \in Seq(Request) /\ nextId \in Nat
  BY DEF IInv, ListsInv
<1>5. Len(requests) + Len(cpuRequests) < Capacity
  BY <1>2, <1>4, Sizes DEF Full, Total
<1>6. CASE requests' = Append(requests, r) /\ cpuRequests' = cpuRequests
  BY <1>1, <1>2, <1>4, <1>5, <1>6, Sizes DEF IInv, WithinCapacity, Total
<1>7. CASE source = "cpu" /\ cpuRequests' = Append(cpuRequests, r) /\ requests' = requests
  BY <1>1, <1>2, <1>4, <1>5, <1>7, Sizes DEF WithinCapacity, Total
<1> QED
  BY <1>3, <1>6, <1>7

(* The inductive invariant of the queue holds of every behaviour.          *)
LEMMA Invariance == Spec => []IInv
<1>1. Init => IInv
  <2> SUFFICES ASSUME Init PROVE IInv
    OBVIOUS
  <2>1. <<>> \in Seq(Request) /\ <<>> \in Seq(Batch) /\ Len(<<>>) = 0
    OBVIOUS
  <2> QED
    BY <2>1, Sizes DEF Init, IInv, ListsInv, FrontInv, WithinCapacity, Total,
       NoBatch, Batch
<1>2. ASSUME IInv, [Next]_vars PROVE IInv'
  <2> USE <1>2 DEF IInv
  <2>1. ASSUME NEW t \in Threads, NEW h \in Handles, NEW b \in Buffers, SubmitFlip(t, h, b)
        PROVE  IInv'
    <3>1. Reserve(h, b, "cpu")
      BY <2>1 DEF SubmitFlip
    <3>2. UNCHANGED <<gpu, window, ring>>
      BY <2>1 DEF SubmitFlip
    <3>3. /\ requests' \in Seq(Request) /\ cpuRequests' \in Seq(Request)
          /\ nextId' \in Nat /\ WithinCapacity'
          /\ requests # <<>> => requests' # <<>>
      BY <3>1, ReserveStep DEF Sources
    <3> QED
      BY <3>2, <3>3 DEF gpu, window, ListsInv, FrontInv
  <2>2. ASSUME NEW t \in Threads, SubmitFlipPreparation(t) PROVE IInv'
    <3>1. [kind |-> "prepare"] \in Batch
      BY DEF Batch
    <3> QED
      BY <2>2, <3>1 DEF SubmitFlipPreparation, queue, gpu, window, ListsInv,
         FrontInv, WithinCapacity, Total
  <2>3. ASSUME NEW kind \in {"flip", "wait"}, NEW h \in Handles, NEW b \in Buffers,
               SubmitCommands(kind, h, b)
        PROVE  IInv'
    <3>1. [kind |-> kind, cfg |-> h, index |-> b] \in Batch
      BY DEF Batch
    <3> QED
      BY <2>3, <3>1 DEF SubmitCommands, queue, gpu, window, ListsInv,
         FrontInv, WithinCapacity, Total
  <2>4. CASE WaitVblank
    BY <2>4 DEF WaitVblank, queue, gpu, guest, ListsInv, FrontInv,
       WithinCapacity, Total
  <2>5. CASE FetchBatch
    <3>1. Head(ring) \in Batch /\ Tail(ring) \in Seq(Batch)
      BY <2>5 DEF FetchBatch, ListsInv
    <3>2. gpc' = CASE Head(ring).kind = "flip" -> "reserve"
                   [] Head(ring).kind = "wait" -> "flipWait"
                   [] OTHER -> "pick"
      BY <2>5 DEF FetchBatch
    <3> QED
      BY <2>5, <3>1, <3>2 DEF FetchBatch, queue, window, ListsInv, FrontInv,
         WithinCapacity, Total
  <2>6. CASE ReserveFromGpu
    <3>1. CASE Reserve(batch.cfg, batch.index, "gpu") /\ gpc' = "begin"
      <4>1. batch.cfg \in Handles /\ batch.index \in Buffers
        BY <2>6 DEF ReserveFromGpu, ListsInv, Batch
      <4>2. /\ requests' \in Seq(Request) /\ cpuRequests' \in Seq(Request)
            /\ nextId' \in Nat /\ WithinCapacity'
            /\ requests # <<>> => requests' # <<>>
        BY <3>1, <4>1, ReserveStep DEF Sources
      <4> QED
        BY <2>6, <3>1, <4>2 DEF ReserveFromGpu, window, guest, ListsInv, FrontInv
    <3>2. CASE gpc' = "slot" /\ UNCHANGED queue
      BY <2>6, <3>2 DEF ReserveFromGpu, queue, window, guest, ListsInv,
         FrontInv, WithinCapacity, Total
    <3> QED
      BY <2>6, <3>1, <3>2 DEF ReserveFromGpu
  <2>7. CASE WaitForSubmitSlot \/ PrepareNextCpu \/ PrepareEnd
    BY <2>7 DEF WaitForSubmitSlot, PrepareNextCpu, PrepareEnd, queue, window, guest,
       ListsInv, FrontInv, WithinCapacity, Total
  <2>8. CASE PrepareBegin
    <3>1. CASE HasId(requests, gid)
      <4>1. requests' \in Seq(Request) /\ Len(requests') = Len(requests)
        BY <2>8, <3>1, SetStateKeeps DEF PrepareBegin, ListsInv, States
      <4> QED
        BY <2>8, <3>1, <4>1 DEF PrepareBegin, window, guest, ListsInv,
           FrontInv, WithinCapacity, Total
    <3>2. CASE ~HasId(requests, gid)
      <4>1. PICK i \in DOMAIN cpuRequests :
              /\ requests' = Moved([cpuRequests[i] EXCEPT !.state = "Recording"])
              /\ cpuRequests' = WithoutAt(cpuRequests, i)
        BY <2>8, <3>2 DEF PrepareBegin
      <4>2. [cpuRequests[i] EXCEPT !.state = "Recording"] \in Request
        <5>1. cpuRequests[i] \in Request
          BY DEF ListsInv
        <5> QED
          BY <5>1, StateKeepsType DEF States
      <4>3. requests' \in Seq(Request) /\ Len(requests') = Len(requests) + 1
        BY <4>1, <4>2 DEF Moved, ListsInv
      <4>4. cpuRequests' \in Seq(Request) /\ Len(cpuRequests') = Len(cpuRequests) - 1
        BY <4>1, WithoutAtShortens DEF ListsInv
      <4> QED
        BY <2>8, <4>3, <4>4, Sizes DEF PrepareBegin, window, guest, ListsInv,
           FrontInv, WithinCapacity, Total
    <3> QED
      BY <3>1, <3>2
  <2>9. CASE Complete
    <3>1. requests' \in Seq(Request) /\ Len(requests') = Len(requests)
      BY <2>9, SetStateKeeps DEF Complete, ListsInv, States
    <3>2. batch' \in Batch /\ gpc' = "fetch"
      BY <2>9 DEF Complete, NoBatch, Batch
    <3>3. UNCHANGED <<cpuRequests, nextId, ppc, ring>>
      BY <2>9 DEF Complete, window, guest
    <3> QED
      BY <3>1, <3>2, <3>3 DEF ListsInv, FrontInv, WithinCapacity, Total
  <2>10. CASE WaitFlipDone
    BY <2>10 DEF WaitFlipDone, queue, window, guest, ListsInv, FrontInv,
       WithinCapacity, Total, NoBatch, Batch
  <2>11. CASE TakeFront \/ CheckDue \/ EndVblank
    BY <2>11 DEF TakeFront, FrontReady, CheckDue, EndVblank, queue, gpu, guest, ListsInv,
       FrontInv, WithinCapacity, Total
  <2>12. CASE StartPresenting
    <3>1. requests' \in Seq(Request) /\ Len(requests') = Len(requests)
      BY <2>12, SetStateKeeps DEF StartPresenting, ListsInv, States
    <3>2. UNCHANGED <<cpuRequests, nextId, gpc, batch, ring>> /\ ppc' = "present"
      BY <2>12 DEF StartPresenting, gpu, guest
    <3>3. requests # <<>> => requests' # <<>>
      BY <3>1 DEF ListsInv
    <3>4. ListsInv' /\ WithinCapacity'
      BY <3>1, <3>2 DEF ListsInv, WithinCapacity, Total
    <3> QED
      BY <2>12, <3>2, <3>3, <3>4 DEF StartPresenting, FrontInv
  <2>13. CASE FinishPresenting
    <3>1. requests # <<>>
      BY <2>13 DEF FinishPresenting, FrontInv
    <3>2. requests' \in Seq(Request) /\ Len(requests') = Len(requests) - 1
      BY <2>13, <3>1 DEF FinishPresenting, ListsInv
    <3> QED
      BY <2>13, <3>2, Sizes DEF FinishPresenting, Woken, guest, ListsInv, FrontInv,
         WithinCapacity, Total
  <2>14. CASE UNCHANGED vars
    BY <2>14 DEF vars, queue, gpu, window, guest, ListsInv, FrontInv,
       WithinCapacity, Total
  <2> QED
    BY <2>1, <2>2, <2>3, <2>4, <2>5, <2>6, <2>7, <2>8, <2>9, <2>10, <2>11, <2>12, <2>13,
       <2>14 DEF Next, Ring, Window
<1> QED
  BY <1>1, <1>2, PTL DEF Spec

(* Both lists together never exceed VIDEO_OUT_FLIP_QUEUE_CAPACITY.         *)
THEOREM WithinCapacityHolds == Spec => []WithinCapacity
BY Invariance, PTL DEF IInv

-----------------------------------------------------------------------------
(* Requests are numbered as they are accepted.  In both lists together no  *)
(* number occurs twice; those of one source stand in the order of their    *)
(* numbers, first those in presentation order, then the unprepared ones.   *)
Numbered(rs, cs, n) ==
  /\ \A i \in DOMAIN rs : rs[i].id < n
  /\ \A i, j \in DOMAIN rs : i < j =>
       rs[i].id # rs[j].id /\ (rs[i].source = rs[j].source => rs[i].id < rs[j].id)
  /\ \A i \in DOMAIN cs : cs[i].id < n /\ cs[i].source = "cpu" /\ cs[i].state = "Reserved"
  /\ \A i, j \in DOMAIN cs : i < j => cs[i].id < cs[j].id
  /\ \A i \in DOMAIN rs, j \in DOMAIN cs :
       rs[i].id # cs[j].id /\ (rs[i].source = "cpu" => rs[i].id < cs[j].id)

NumberedInv == Numbered(requests, cpuRequests, nextId)

(* A flip of the ring's batch is in presentation order from its            *)
(* reservation on, a flip of SubmitFlip from its preparation on.           *)
InState(s, id, st) == \E i \in DOMAIN s : s[i].id = id /\ s[i].state = st

RingInv ==
  /\ gpc = "pick" => batch.kind = "prepare"
  /\ gpc = "begin" =>
       IF batch.kind = "prepare" THEN cpuRequests # <<>> /\ gid = cpuRequests[1].id
       ELSE InState(requests, gid, "Reserved")
  /\ gpc \in {"record", "complete"} => InState(requests, gid, "Recording")

(* For every unprepared flip there is a batch that will prepare one: it is *)
(* still to be queued, in the ring, or being executed.                     *)
Prepares(s) == Cardinality({i \in DOMAIN s : s[i].kind = "prepare"})
ToQueue == {t \in Threads : submitting[t] # None}
TurnNow == IF gpc = "pick" \/ (gpc = "begin" /\ batch.kind = "prepare") THEN 1 ELSE 0

TurnsInv == Len(cpuRequests) = Prepares(ring) + Cardinality(ToQueue) + TurnNow

(* The window thread's copy of the front, and what the guest threads hold. *)
SnapInv == ppc \in {"due", "start", "present"} => snap \in Request
SubmittingInv == submitting \in [Threads -> (Handles \X Buffers) \cup {None}]

OrderInv ==
  /\ SubmittingInv /\ SnapInv
  /\ NumberedInv /\ RingInv /\ TurnsInv /\ PresenterOwnsFront

-----------------------------------------------------------------------------
(* The elements of a longer sequence, and of a shorter one.                *)
LEMMA AppendElements ==
  ASSUME NEW S, NEW s \in Seq(S), NEW e \in S
  PROVE  /\ Append(s, e) \in Seq(S)
         /\ Len(s) \in Nat /\ DOMAIN s = 1 .. Len(s)
         /\ DOMAIN Append(s, e) = 1 .. Len(s) + 1
         /\ \A i \in 1 .. Len(s) : Append(s, e)[i] = s[i]
         /\ Append(s, e)[Len(s) + 1] = e
OBVIOUS

(* A queue without its front request.                                      *)
LEMMA TailElements ==
  ASSUME NEW S, NEW s \in Seq(S), s # <<>>
  PROVE  /\ Tail(s) \in Seq(S)
         /\ Len(s) \in Nat \ {0} /\ DOMAIN s = 1 .. Len(s)
         /\ DOMAIN Tail(s) = 1 .. Len(s) - 1
         /\ \A i \in 1 .. Len(s) - 1 : Tail(s)[i] = s[i + 1]
         /\ Head(s) = s[1]
OBVIOUS

(* A request of the queue.                                                 *)
LEMMA RequestElements ==
  ASSUME NEW s \in Seq(Request), NEW i \in DOMAIN s
  PROVE  s[i] \in Request /\ s[i].id \in Nat
<1>1. s[i] \in Request
  OBVIOUS
<1>2. QED
  BY <1>1 DEF Request

(* A request with the next number goes to the end of the list in           *)
(* presentation order ...                                                  *)
LEMMA NumberedAppendGpu ==
  ASSUME NEW rs \in Seq(Request), NEW cs \in Seq(Request), NEW n \in Nat, Numbered(rs, cs, n),
         NEW r \in Request, r.id = n, r.source = "gpu"
  PROVE  Numbered(Append(rs, r), cs, n + 1)
<1> DEFINE qs == Append(rs, r)
<1>1. /\ Len(rs) \in Nat /\ DOMAIN rs = 1 .. Len(rs) /\ DOMAIN qs = 1 .. Len(rs) + 1
      /\ \A i \in 1 .. Len(rs) : qs[i] = rs[i] /\ rs[i].id \in Nat
      /\ qs[Len(rs) + 1] = r
      /\ \A i \in DOMAIN cs : cs[i].id \in Nat
  BY AppendElements, RequestElements
<1> HIDE DEF qs
<1>2. \A i \in DOMAIN qs : i \in DOMAIN rs \/ i = Len(rs) + 1
  BY <1>1
<1>3. \A i \in DOMAIN qs : qs[i].id < n + 1
  BY <1>1, <1>2 DEF Numbered
<1>4. \A i, j \in DOMAIN qs : i < j =>
        qs[i].id # qs[j].id /\ (qs[i].source = qs[j].source => qs[i].id < qs[j].id)
  BY <1>1, <1>2 DEF Numbered
<1>5. \A i \in DOMAIN qs, j \in DOMAIN cs :
        qs[i].id # cs[j].id /\ (qs[i].source = "cpu" => qs[i].id < cs[j].id)
  BY <1>1, <1>2 DEF Numbered
<1>6. \A i \in DOMAIN cs : cs[i].id < n + 1
  BY <1>1 DEF Numbered
<1>7. Numbered(qs, cs, n + 1)
  BY <1>3, <1>4, <1>5, <1>6 DEF Numbered
<1>8. QED
  BY <1>7 DEF qs

(* ... or, from SubmitFlip, to the end of the unprepared ones.             *)
LEMMA NumberedAppendCpu ==
  ASSUME NEW rs \in Seq(Request), NEW cs \in Seq(Request), NEW n \in Nat, Numbered(rs, cs, n),
         NEW r \in Request, r.id = n, r.source = "cpu", r.state = "Reserved"
  PROVE  Numbered(rs, Append(cs, r), n + 1)
<1> DEFINE ds == Append(cs, r)
<1>1. /\ Len(cs) \in Nat /\ DOMAIN cs = 1 .. Len(cs) /\ DOMAIN ds = 1 .. Len(cs) + 1
      /\ \A i \in 1 .. Len(cs) : ds[i] = cs[i] /\ cs[i].id \in Nat
      /\ ds[Len(cs) + 1] = r
      /\ \A i \in DOMAIN rs : rs[i].id \in Nat
  BY AppendElements, RequestElements
<1> HIDE DEF ds
<1>2. \A i \in DOMAIN ds : i \in DOMAIN cs \/ i = Len(cs) + 1
  BY <1>1
<1>3. \A i \in DOMAIN rs : rs[i].id < n + 1
  BY <1>1 DEF Numbered
<1>4. \A i \in DOMAIN ds : ds[i].id < n + 1 /\ ds[i].source = "cpu" /\ ds[i].state = "Reserved"
  BY <1>1, <1>2 DEF Numbered
<1>5. \A i, j \in DOMAIN ds : i < j => ds[i].id < ds[j].id
  BY <1>1, <1>2 DEF Numbered
<1>6. \A i \in DOMAIN rs, j \in DOMAIN ds :
        rs[i].id # ds[j].id /\ (rs[i].source = "cpu" => rs[i].id < ds[j].id)
  BY <1>1, <1>2 DEF Numbered
<1>7. Numbered(rs, ds, n + 1)
  BY <1>3, <1>4, <1>5, <1>6 DEF Numbered
<1>8. QED
  BY <1>7 DEF ds

(* Changing a state changes no number.                                     *)
LEMMA NumberedSetState ==
  ASSUME NEW rs \in Seq(Request), NEW cs, NEW n, Numbered(rs, cs, n), NEW id, NEW st \in States
  PROVE  Numbered(SetState(rs, id, st), cs, n)
<1> DEFINE qs == SetState(rs, id, st)
<1>1. /\ DOMAIN qs = DOMAIN rs
      /\ \A i \in DOMAIN rs : qs[i].id = rs[i].id /\ qs[i].source = rs[i].source
  BY DEF SetState
<1> HIDE DEF qs
<1>2. Numbered(qs, cs, n)
  BY <1>1 DEF Numbered
<1>3. QED
  BY <1>2 DEF qs

(* The oldest unprepared flip moves behind those in presentation order.    *)
LEMMA NumberedMove ==
  ASSUME NEW rs \in Seq(Request), NEW cs \in Seq(Request), NEW n, Numbered(rs, cs, n),
         cs # <<>>, NEW r \in Request, r.id = cs[1].id, r.source = cs[1].source
  PROVE  Numbered(Append(rs, r), WithoutAt(cs, 1), n)
<1> DEFINE qs == Append(rs, r)
           ds == WithoutAt(cs, 1)
<1>1. /\ Len(rs) \in Nat /\ DOMAIN rs = 1 .. Len(rs) /\ DOMAIN qs = 1 .. Len(rs) + 1
      /\ \A i \in 1 .. Len(rs) : qs[i] = rs[i] /\ rs[i].id \in Nat
      /\ qs[Len(rs) + 1] = r
  BY AppendElements, RequestElements
<1>2. /\ Len(cs) \in Nat \ {0} /\ DOMAIN cs = 1 .. Len(cs) /\ DOMAIN ds = 1 .. Len(cs) - 1
      /\ \A i \in 1 .. Len(cs) - 1 : ds[i] = cs[i + 1]
      /\ \A i \in 1 .. Len(cs) : cs[i].id \in Nat
  <2>1. Len(cs) \in Nat \ {0} /\ DOMAIN cs = 1 .. Len(cs)
    OBVIOUS
  <2>2. DOMAIN ds = 1 .. Len(cs) - 1 /\ \A i \in 1 .. Len(cs) - 1 : ds[i] = cs[i + 1]
    BY <2>1 DEF WithoutAt
  <2>3. QED
    BY <2>1, <2>2, RequestElements
<1> HIDE DEF qs, ds
<1>3. \A i \in DOMAIN qs : i \in DOMAIN rs \/ i = Len(rs) + 1
  BY <1>1
<1>4. 1 \in DOMAIN cs /\ r.source = "cpu"
  BY <1>2 DEF Numbered
<1>5. \A i \in DOMAIN ds : i + 1 \in DOMAIN cs /\ 1 < i + 1 /\ ds[i] = cs[i + 1]
  BY <1>2
<1>6. \A i \in DOMAIN qs : qs[i].id < n
  BY <1>1, <1>3, <1>4 DEF Numbered
<1>7. \A i, j \in DOMAIN qs : i < j =>
        qs[i].id # qs[j].id /\ (qs[i].source = qs[j].source => qs[i].id < qs[j].id)
  BY <1>1, <1>3, <1>4 DEF Numbered
<1>8. \A i \in DOMAIN ds : ds[i].id < n /\ ds[i].source = "cpu" /\ ds[i].state = "Reserved"
  BY <1>5 DEF Numbered
<1>9. \A i, j \in DOMAIN ds : i < j => ds[i].id < ds[j].id
  <2>1. \A i, j \in DOMAIN ds : i < j => i + 1 < j + 1
    BY <1>2
  <2>2. QED
    BY <1>5, <2>1 DEF Numbered
<1>10. \A i \in DOMAIN qs, j \in DOMAIN ds :
        qs[i].id # ds[j].id /\ (qs[i].source = "cpu" => qs[i].id < ds[j].id)
  <2>1. \A j \in DOMAIN ds : r.id < ds[j].id /\ r.id \in Nat /\ ds[j].id \in Nat
    <3>1. \A j \in DOMAIN cs : 1 < j => cs[1].id < cs[j].id
      BY <1>4 DEF Numbered
    <3>2. QED
      BY <1>2, <1>4, <1>5, <3>1
  <2>2. QED
    BY <1>1, <1>3, <1>5, <2>1 DEF Numbered
<1>11. Numbered(qs, ds, n)
  BY <1>6, <1>7, <1>8, <1>9, <1>10 DEF Numbered
<1>12. QED
  BY <1>11 DEF qs, ds

(* The front leaves.                                                       *)
LEMMA NumberedTail ==
  ASSUME NEW rs \in Seq(Request), rs # <<>>, NEW cs, NEW n, Numbered(rs, cs, n)
  PROVE  Numbered(Tail(rs), cs, n)
<1> DEFINE qs == Tail(rs)
<1>1. /\ Len(rs) \in Nat \ {0} /\ DOMAIN rs = 1 .. Len(rs) /\ DOMAIN qs = 1 .. Len(rs) - 1
      /\ \A i \in DOMAIN qs : qs[i] = rs[i + 1]
  BY TailElements
<1> HIDE DEF qs
<1>2. \A i \in DOMAIN qs : i + 1 \in DOMAIN rs /\ qs[i] = rs[i + 1]
  BY <1>1
<1>3. \A i, j \in DOMAIN qs : i < j => i + 1 < j + 1
  BY <1>1
<1>4. Numbered(qs, cs, n)
  BY <1>2, <1>3 DEF Numbered
<1>5. QED
  BY <1>4 DEF qs

-----------------------------------------------------------------------------
(* The request being prepared is not the one being presented: who changes  *)
(* the one leaves the other alone.                                         *)
LEMMA PrepareLeavesFront ==
  ASSUME NEW rs \in Seq(Request), NEW cs, NEW n, Numbered(rs, cs, n), rs # <<>>,
         NEW id, NEW st, InState(rs, id, st), rs[1].state # st, NEW new \in States
  PROVE  SetState(rs, id, new)[1] = rs[1]
<1>1. PICK k \in DOMAIN rs : rs[k].id = id /\ rs[k].state = st
  BY DEF InState
<1>2. Len(rs) \in Nat \ {0} /\ DOMAIN rs = 1 .. Len(rs)
  OBVIOUS
<1>3. 1 < k
  BY <1>1, <1>2
<1>4. rs[1].id # id
  BY <1>1, <1>2, <1>3 DEF Numbered
<1>5. QED
  BY <1>2, <1>4 DEF SetState

(* The request that is prepared is the one whose id is given.              *)
LEMMA PrepareSetsState ==
  ASSUME NEW rs \in Seq(Request), NEW id, NEW st, InState(rs, id, st), NEW new \in States
  PROVE  InState(SetState(rs, id, new), id, new)
<1>1. PICK k \in DOMAIN rs : rs[k].id = id
  BY DEF InState
<1>2. rs[k] \in Request
  BY RequestElements
<1>3. [rs[k] EXCEPT !.state = new].id = id /\ [rs[k] EXCEPT !.state = new].state = new
  BY <1>1, <1>2 DEF Request
<1>4. QED
  BY <1>1, <1>3 DEF InState, SetState

(* Presenting the front request leaves those in another state as they are, *)
(* wherever they now stand.                                                *)
LEMMA PresentingLeavesOthers ==
  ASSUME NEW rs \in Seq(Request), NEW cs, NEW n, Numbered(rs, cs, n), rs # <<>>,
         NEW id, NEW st, InState(rs, id, st), rs[1].state # st, NEW new \in States
  PROVE  InState(SetState(rs, rs[1].id, new), id, st) /\ InState(Tail(rs), id, st)
<1>1. PICK k \in DOMAIN rs : rs[k].id = id /\ rs[k].state = st
  BY DEF InState
<1>2. Len(rs) \in Nat \ {0} /\ DOMAIN rs = 1 .. Len(rs)
  OBVIOUS
<1>3. 1 < k
  BY <1>1, <1>2
<1>4. rs[1].id # rs[k].id
  BY <1>1, <1>2, <1>3 DEF Numbered
<1>5. SetState(rs, rs[1].id, new)[k] = rs[k] /\ k \in DOMAIN SetState(rs, rs[1].id, new)
  BY <1>4 DEF SetState
<1>6. k - 1 \in DOMAIN Tail(rs) /\ Tail(rs)[k - 1] = rs[k]
  BY <1>2, <1>3, TailElements
<1>7. QED
  BY <1>1, <1>5, <1>6 DEF InState

(* How the batches that prepare are counted as the ring gains and loses    *)
(* one.                                                                    *)
LEMMA PreparesAppend ==
  ASSUME NEW s \in Seq(Batch), NEW b \in Batch
  PROVE  /\ Prepares(s) \in Nat
         /\ Prepares(Append(s, b)) = Prepares(s) + (IF b.kind = "prepare" THEN 1 ELSE 0)
<1> DEFINE S == {i \in DOMAIN s : s[i].kind = "prepare"}
           T == {i \in DOMAIN Append(s, b) : Append(s, b)[i].kind = "prepare"}
<1>1. /\ Len(s) \in Nat /\ DOMAIN s = 1 .. Len(s) /\ DOMAIN Append(s, b) = 1 .. Len(s) + 1
      /\ \A i \in 1 .. Len(s) : Append(s, b)[i] = s[i]
      /\ Append(s, b)[Len(s) + 1] = b
  BY AppendElements
<1>2. IsFiniteSet(S) /\ Cardinality(S) \in Nat
  <2>1. IsFiniteSet(1 .. Len(s))
    BY <1>1, FS_Interval
  <2>2. QED
    BY <1>1, <2>1, FS_Subset, FS_CardinalityType
<1>3. T = IF b.kind = "prepare" THEN S \cup {Len(s) + 1} ELSE S
  BY <1>1
<1>4. Len(s) + 1 \notin S
  BY <1>1
<1> HIDE DEF S, T
<1>5. Cardinality(T) = Cardinality(S) + (IF b.kind = "prepare" THEN 1 ELSE 0)
  <2>1. CASE b.kind = "prepare"
    <3>1. T = S \cup {Len(s) + 1}
      BY <1>3, <2>1
    <3>2. Cardinality(T) = Cardinality(S) + 1
      BY <1>2, <1>4, <3>1, FS_AddElement
    <3>3. QED
      BY <2>1, <3>2
  <2>2. CASE b.kind # "prepare"
    BY <1>2, <1>3, <2>2
  <2>3. QED
    BY <2>1, <2>2
<1>6. QED
  BY <1>2, <1>5 DEF S, T, Prepares

(* The batches that prepare a flip, when the first batch leaves the ring.  *)
LEMMA PreparesTail ==
  ASSUME NEW s \in Seq(Batch), s # <<>>
  PROVE  /\ Prepares(Tail(s)) \in Nat
         /\ Prepares(s) = Prepares(Tail(s)) + (IF Head(s).kind = "prepare" THEN 1 ELSE 0)
<1> DEFINE S == {i \in DOMAIN s : s[i].kind = "prepare"}
           T == {i \in DOMAIN Tail(s) : Tail(s)[i].kind = "prepare"}
           U == {i \in 2 .. Len(s) : s[i].kind = "prepare"}
           f == [i \in T |-> i + 1]
<1>1. /\ Len(s) \in Nat \ {0} /\ DOMAIN s = 1 .. Len(s) /\ DOMAIN Tail(s) = 1 .. Len(s) - 1
      /\ \A i \in 1 .. Len(s) - 1 : Tail(s)[i] = s[i + 1]
      /\ Head(s) = s[1]
  BY TailElements
<1>2. IsFiniteSet(U) /\ IsFiniteSet(T) /\ Cardinality(T) \in Nat
  <2>1. IsFiniteSet(2 .. Len(s)) /\ IsFiniteSet(1 .. Len(s) - 1)
    BY <1>1, FS_Interval
  <2>2. QED
    BY <1>1, <2>1, FS_Subset, FS_CardinalityType
<1>3. f \in Bijection(T, U)
  <2>1. f \in [T -> U]
    BY <1>1
  <2>2. \A i, j \in T : f[i] = f[j] => i = j
    BY <1>1
  <2>3. \A u \in U : u - 1 \in T /\ f[u - 1] = u
    BY <1>1
  <2>4. QED
    <3> HIDE DEF T, U, f
    <3>1. \A u \in U : \E i \in T : f[i] = u
      BY <2>3
    <3>2. f \in Injection(T, U)
      BY <2>1, <2>2 DEF Injection, IsInjective
    <3>3. f \in Surjection(T, U)
      BY <2>1, <3>1 DEF Surjection
    <3>4. QED
      BY <3>2, <3>3 DEF Bijection
<1>4. S = IF Head(s).kind = "prepare" THEN U \cup {1} ELSE U
  BY <1>1
<1>5. 1 \notin U
  OBVIOUS
<1> HIDE DEF S, T, U, f
<1>6. Cardinality(U) = Cardinality(T)
  BY <1>2, <1>3, FS_Bijection DEF ExistsBijection
<1>7. Cardinality(S) = Cardinality(T) + (IF Head(s).kind = "prepare" THEN 1 ELSE 0)
  <2>1. CASE Head(s).kind = "prepare"
    <3>1. S = U \cup {1}
      BY <1>4, <2>1
    <3>2. Cardinality(S) = Cardinality(U) + 1
      BY <1>2, <1>5, <3>1, FS_AddElement
    <3>3. QED
      BY <1>6, <2>1, <3>2
  <2>2. CASE Head(s).kind # "prepare"
    BY <1>2, <1>4, <1>6, <2>2
  <2>3. QED
    BY <2>1, <2>2
<1>8. QED
  BY <1>2, <1>7 DEF S, T, Prepares

-----------------------------------------------------------------------------
(* Types the steps below rely on.                                          *)
LEMMA Counted ==
  ASSUME IInv, OrderInv
  PROVE  /\ requests \in Seq(Request) /\ cpuRequests \in Seq(Request) /\ nextId \in Nat
         /\ Prepares(ring) \in Nat /\ IsFiniteSet(ToQueue) /\ Cardinality(ToQueue) \in Nat
<1>1. ring \in Seq(Batch) /\ NoBatch \in Batch
  BY DEF IInv, ListsInv, NoBatch, Batch
<1>2. Prepares(ring) \in Nat
  BY <1>1, PreparesAppend
<1>3. IsFiniteSet(ToQueue) /\ Cardinality(ToQueue) \in Nat
  BY ThreadsAssumption, FS_Subset, FS_CardinalityType DEF ToQueue
<1>4. QED
  BY <1>2, <1>3 DEF IInv, ListsInv

(* A guest thread's SubmitFlip takes the next number and owes a batch.     *)
LEMMA OrderSubmitFlip ==
  ASSUME IInv, OrderInv, NEW t \in Threads, NEW h \in Handles, NEW b \in Buffers,
         SubmitFlip(t, h, b)
  PROVE  OrderInv'
<1> DEFINE r == [id |-> nextId, cfg |-> h, index |-> b, source |-> "cpu",
                 state |-> "Reserved"]
<1>1. /\ requests' = requests /\ cpuRequests' = Append(cpuRequests, r)
      /\ nextId' = nextId + 1
  BY DEF SubmitFlip, Reserve
<1>2. /\ submitting[t] = None /\ submitting' = [submitting EXCEPT ![t] = <<h, b>>]
      /\ UNCHANGED <<gpu, window, ring>>
  BY DEF SubmitFlip
<1>3. r \in Request /\ r.id = nextId /\ r.source = "cpu" /\ r.state = "Reserved"
  BY Counted DEF Request, Sources, States
<1> HIDE DEF r
<1>4. NumberedInv'
  BY <1>1, <1>3, Counted, NumberedAppendCpu DEF NumberedInv, OrderInv
<1>5. /\ Len(cpuRequests') = Len(cpuRequests) + 1 /\ cpuRequests' # <<>>
      /\ cpuRequests # <<>> => cpuRequests'[1] = cpuRequests[1]
  BY <1>1, <1>3, Counted
<1>6. RingInv'
  BY <1>1, <1>2, <1>5 DEF OrderInv, RingInv, gpu
<1>7. SubmittingInv' /\ Cardinality(ToQueue') = Cardinality(ToQueue) + 1
  <2>1. <<h, b>> \in Handles \X Buffers
    OBVIOUS
  <2>2. SubmittingInv' /\ ToQueue' = ToQueue \cup {t} /\ t \notin ToQueue
    BY <1>2, <2>1, NoneIsNothing DEF OrderInv, SubmittingInv, ToQueue
  <2>3. QED
    BY <2>2, Counted, FS_AddElement
<1>8. TurnsInv'
  <2>1. TurnNow' = TurnNow /\ TurnNow \in Nat /\ Prepares(ring)' = Prepares(ring)
    BY <1>2 DEF TurnNow, gpu
  <2>2. QED
    BY <1>5, <1>7, <2>1, Counted DEF OrderInv, TurnsInv
<1>9. SnapInv' /\ PresenterOwnsFront'
  BY <1>1, <1>2 DEF OrderInv, SnapInv, PresenterOwnsFront, window
<1>10. QED
  BY <1>4, <1>6, <1>7, <1>8, <1>9 DEF OrderInv

(* The other steps of the guest queue batches, or let a vblank pass.       *)
LEMMA OrderGuest ==
  ASSUME IInv, OrderInv,
         \/ \E t \in Threads : SubmitFlipPreparation(t)
         \/ \E kind \in {"flip", "wait"}, h \in Handles, b \in Buffers : SubmitCommands(kind, h, b)
         \/ WaitVblank
  PROVE  OrderInv'
<1>1. /\ UNCHANGED <<queue, gpu, ppc, snap, processing>>
  BY DEF SubmitFlipPreparation, SubmitCommands, WaitVblank, window
<1>2. NumberedInv' /\ RingInv' /\ SnapInv' /\ PresenterOwnsFront'
  BY <1>1 DEF OrderInv, NumberedInv, RingInv, SnapInv, PresenterOwnsFront, queue, gpu
<1>3. TurnNow' = TurnNow /\ TurnNow \in Nat /\ cpuRequests' = cpuRequests
  BY <1>1 DEF TurnNow, queue, gpu
<1>4. ring \in Seq(Batch)
  BY DEF IInv, ListsInv
<1>5. ASSUME NEW t \in Threads, SubmitFlipPreparation(t)
      PROVE SubmittingInv' /\ TurnsInv'
  <2>1. [kind |-> "prepare"] \in Batch
    BY DEF Batch
  <2>2. Prepares(ring') = Prepares(ring) + 1
    BY <1>4, <1>5, <2>1, PreparesAppend DEF SubmitFlipPreparation
  <2>3. SubmittingInv' /\ ToQueue' = ToQueue \ {t} /\ t \in ToQueue
    BY <1>5 DEF SubmitFlipPreparation, OrderInv, SubmittingInv, ToQueue
  <2>4. Cardinality(ToQueue') = Cardinality(ToQueue) - 1
    BY <2>3, Counted, FS_RemoveElement
  <2>5. Prepares(ring)' = Prepares(ring')
    BY DEF Prepares
  <2>6. QED
    BY <1>3, <2>2, <2>3, <2>4, <2>5, Counted DEF OrderInv, TurnsInv
<1>6. ASSUME NEW kind \in {"flip", "wait"}, NEW h \in Handles, NEW b \in Buffers,
             SubmitCommands(kind, h, b)
      PROVE SubmittingInv' /\ TurnsInv'
  <2>1. [kind |-> kind, cfg |-> h, index |-> b] \in Batch
    BY DEF Batch
  <2>2. Prepares(ring') = Prepares(ring)
    BY <1>4, <1>6, <2>1, PreparesAppend DEF SubmitCommands
  <2>3. SubmittingInv' /\ ToQueue' = ToQueue
    BY <1>6 DEF SubmitCommands, OrderInv, SubmittingInv, ToQueue
  <2>4. Prepares(ring)' = Prepares(ring')
    BY DEF Prepares
  <2>5. QED
    BY <1>3, <2>2, <2>3, <2>4 DEF OrderInv, TurnsInv
<1>7. ASSUME WaitVblank
      PROVE SubmittingInv' /\ TurnsInv'
  BY <1>3, <1>7 DEF WaitVblank, guest, OrderInv, SubmittingInv, TurnsInv, ToQueue, Prepares
<1>8. QED
  BY <1>2, <1>5, <1>6, <1>7 DEF OrderInv

(* The ring's thread between two locked sections on the list.              *)
LEMMA OrderFetch ==
  ASSUME IInv, OrderInv, FetchBatch
  PROVE  OrderInv'
<1>1. /\ gpc = "fetch" /\ batch' = Head(ring) /\ ring' = Tail(ring) /\ ring # <<>>
      /\ UNCHANGED <<queue, window, submitting>>
  BY DEF FetchBatch
<1>2. Head(ring) \in Batch /\ ring \in Seq(Batch)
  BY <1>1 DEF IInv, ListsInv
<1>3. batch'.kind \in {"flip", "wait", "prepare"}
  BY <1>1, <1>2 DEF Batch
<1>4. gpc' = IF batch'.kind = "flip" THEN "reserve"
             ELSE IF batch'.kind = "wait" THEN "flipWait" ELSE "pick"
  <2>1. gpc' = CASE batch'.kind = "flip" -> "reserve"
                 [] batch'.kind = "wait" -> "flipWait"
                 [] OTHER -> "pick"
    BY DEF FetchBatch
  <2>2. QED
    BY <1>3, <2>1
<1>5. RingInv'
  BY <1>3, <1>4 DEF RingInv
<1>6. Prepares(ring) = Prepares(ring') + (IF batch'.kind = "prepare" THEN 1 ELSE 0)
      /\ Prepares(ring') \in Nat
  BY <1>1, <1>2, PreparesTail
<1>7. TurnsInv'
  <2>1. TurnNow = 0 /\ TurnNow' = IF batch'.kind = "prepare" THEN 1 ELSE 0
    BY <1>1, <1>3, <1>4 DEF TurnNow
  <2>2. ToQueue' = ToQueue /\ Prepares(ring)' = Prepares(ring') /\ cpuRequests' = cpuRequests
    BY <1>1 DEF ToQueue, Prepares, queue
  <2>3. QED
    BY <1>6, <2>1, <2>2, Counted DEF OrderInv, TurnsInv
<1>8. SubmittingInv' /\ SnapInv' /\ NumberedInv' /\ PresenterOwnsFront'
  BY <1>1 DEF OrderInv, SubmittingInv, SnapInv, NumberedInv, PresenterOwnsFront, queue, window
<1>9. QED
  BY <1>5, <1>7, <1>8 DEF OrderInv

(* A flip of a command buffer takes the next number and the last place.    *)
LEMMA OrderReserveFromGpu ==
  ASSUME IInv, OrderInv, ReserveFromGpu
  PROVE  OrderInv'
<1>1. /\ gpc = "reserve" /\ UNCHANGED <<window, guest, batch>> /\ batch.kind = "flip"
  BY DEF ReserveFromGpu, IInv, ListsInv
<1>2. batch.cfg \in Handles /\ batch.index \in Buffers
  BY <1>1 DEF IInv, ListsInv, Batch
<1> DEFINE r == [id |-> nextId, cfg |-> batch.cfg, index |-> batch.index, source |-> "gpu",
                 state |-> "Reserved"]
<1>3. CASE Reserve(batch.cfg, batch.index, "gpu") /\ gid' = nextId /\ gpc' = "begin"
  <2>1. requests' = Append(requests, r) /\ cpuRequests' = cpuRequests /\ nextId' = nextId + 1
    BY <1>3 DEF Reserve
  <2>2. r \in Request /\ r.id = nextId /\ r.source = "gpu" /\ r.state = "Reserved"
    BY <1>2, Counted DEF Request, Sources, States
  <2> HIDE DEF r
  <2>3. NumberedInv'
    BY <2>1, <2>2, Counted, NumberedAppendGpu DEF NumberedInv, OrderInv
  <2>4. /\ Len(requests) + 1 \in DOMAIN requests' /\ requests'[Len(requests) + 1] = r
        /\ requests # <<>> => requests'[1] = requests[1] /\ requests' # <<>>
    BY <2>1, <2>2, Counted
  <2>5. RingInv'
    BY <1>1, <1>3, <2>2, <2>4 DEF RingInv, InState
  <2>6. TurnsInv' /\ SubmittingInv'
    BY <1>1, <1>3, <2>1 DEF OrderInv, TurnsInv, SubmittingInv, TurnNow, ToQueue, Prepares, guest
  <2>7. SnapInv' /\ PresenterOwnsFront'
    BY <1>1, <2>4, Counted DEF OrderInv, SnapInv, PresenterOwnsFront, window
  <2>8. QED
    BY <2>3, <2>5, <2>6, <2>7 DEF OrderInv
<1>4. CASE gpc' = "slot" /\ UNCHANGED <<queue, gid>>
  BY <1>1, <1>4 DEF OrderInv, SubmittingInv, SnapInv, NumberedInv, RingInv, TurnsInv,
     PresenterOwnsFront, TurnNow, ToQueue, Prepares, queue, window, guest
<1>5. QED
  BY <1>3, <1>4 DEF ReserveFromGpu

(* Steps of the ring's thread that leave the lists as they are.            *)
LEMMA OrderRingGoesOn ==
  ASSUME IInv, OrderInv,
         WaitForSubmitSlot \/ PrepareNextCpu \/ PrepareEnd \/ WaitFlipDone
  PROVE  OrderInv'
<1>1. UNCHANGED <<queue, window, guest>>
  BY DEF WaitForSubmitSlot, PrepareNextCpu, PrepareEnd, WaitFlipDone
<1>2. SubmittingInv' /\ SnapInv' /\ NumberedInv' /\ PresenterOwnsFront'
  BY <1>1 DEF OrderInv, SubmittingInv, SnapInv, NumberedInv, PresenterOwnsFront, queue, window,
     guest
<1>3. TurnNow' = TurnNow => TurnsInv'
  BY <1>1 DEF OrderInv, TurnsInv, ToQueue, Prepares, queue, guest
<1>4. CASE WaitForSubmitSlot \/ PrepareEnd \/ WaitFlipDone
  <2>1. RingInv'
    BY <1>4 DEF WaitForSubmitSlot, PrepareEnd, WaitFlipDone, OrderInv, RingInv, queue
  <2>2. TurnNow' = TurnNow
    BY <1>4 DEF WaitForSubmitSlot, PrepareEnd, WaitFlipDone, TurnNow
  <2>3. QED
    BY <1>2, <1>3, <2>1, <2>2 DEF OrderInv
<1>5. CASE PrepareNextCpu
  <2>1. /\ gpc = "pick" /\ cpuRequests # <<>> /\ batch.kind = "prepare" /\ batch' = batch
        /\ gid' = Head(cpuRequests).id /\ gpc' = "begin" /\ cpuRequests' = cpuRequests
    BY <1>5 DEF PrepareNextCpu, NextCpu, OrderInv, RingInv, queue
  <2>2. Head(cpuRequests) = cpuRequests[1]
    BY <2>1, Counted
  <2>3. RingInv' /\ TurnNow' = TurnNow
    BY <2>1, <2>2 DEF RingInv, TurnNow
  <2>4. QED
    BY <1>2, <1>3, <2>3 DEF OrderInv
<1>6. QED
  BY <1>4, <1>5

(* The front stays what the window thread left when another request is     *)
(* appended or changed.                                                    *)
LEMMA FrontStays ==
  ASSUME IInv, OrderInv, UNCHANGED <<ppc, snap, processing>>, requests' \in Seq(Request),
         requests # <<>> => requests' # <<>> /\ requests'[1] = requests[1]
  PROVE  SnapInv' /\ PresenterOwnsFront'
<1>1. requests # <<>> => Head(requests') = Head(requests)
  BY Counted
<1>2. QED
  BY <1>1 DEF OrderInv, SnapInv, PresenterOwnsFront

(* Prepare finds its request where its batch says, and marks it.           *)
LEMMA OrderPrepareBegin ==
  ASSUME IInv, OrderInv, PrepareBegin
  PROVE  OrderInv'
<1>1. /\ gpc = "begin" /\ gpc' = "record"
      /\ UNCHANGED <<nextId, window, guest, batch, gid>>
  BY DEF PrepareBegin
<1>2. SubmittingInv' /\ ToQueue' = ToQueue /\ Prepares(ring)' = Prepares(ring) /\ TurnNow' = 0
  BY <1>1 DEF OrderInv, SubmittingInv, ToQueue, Prepares, TurnNow, guest
<1>3. Numbered(requests, cpuRequests, nextId)
  BY DEF OrderInv, NumberedInv
<1>4. CASE batch.kind = "prepare"
  <2>1. cpuRequests # <<>> /\ gid = cpuRequests[1].id
    BY <1>1, <1>4 DEF OrderInv, RingInv
  <2>2. 1 \in DOMAIN cpuRequests /\ DOMAIN cpuRequests = 1 .. Len(cpuRequests)
        /\ Len(cpuRequests) \in Nat /\ \A i \in DOMAIN cpuRequests : cpuRequests[i].id \in Nat
    BY <2>1, Counted, RequestElements
  <2>3. ~HasId(requests, gid)
    BY <1>3, <2>1, <2>2 DEF Numbered, HasId
  <2>4. PICK i \in DOMAIN cpuRequests :
          /\ cpuRequests[i].id = gid
          /\ requests' = Moved([cpuRequests[i] EXCEPT !.state = "Recording"])
          /\ cpuRequests' = WithoutAt(cpuRequests, i)
    BY <2>3 DEF PrepareBegin
  <2>5. i = 1
    <3>1. 1 < i => cpuRequests[1].id < cpuRequests[i].id
      BY <1>3, <2>2 DEF Numbered
    <3>2. QED
      BY <2>1, <2>2, <2>4, <3>1
  <2> DEFINE r == [cpuRequests[1] EXCEPT !.state = "Recording"]
  <2>6. /\ r \in Request /\ r.id = cpuRequests[1].id /\ r.source = cpuRequests[1].source
        /\ r.state = "Recording"
    <3>1. cpuRequests[1] \in Request
      BY <2>2, Counted
    <3>2. QED
      BY <3>1 DEF Request, States
  <2>7. requests' = Append(requests, r) /\ cpuRequests' = WithoutAt(cpuRequests, 1)
    BY <2>4, <2>5 DEF Moved
  <2> HIDE DEF r
  <2>8. NumberedInv'
    BY <1>1, <1>3, <2>1, <2>6, <2>7, Counted, NumberedMove DEF NumberedInv
  <2>9. /\ requests' \in Seq(Request) /\ Len(requests) + 1 \in DOMAIN requests'
        /\ requests'[Len(requests) + 1] = r
        /\ requests # <<>> => requests' # <<>> /\ requests'[1] = requests[1]
    BY <2>6, <2>7, Counted
  <2>10. RingInv'
    BY <1>1, <2>1, <2>6, <2>9 DEF RingInv, InState
  <2>11. TurnsInv'
    <3>1. Len(cpuRequests') = Len(cpuRequests) - 1
      BY <2>2, <2>7, Counted, WithoutAtShortens
    <3>2. TurnNow = 1
      BY <1>1, <1>4 DEF TurnNow
    <3>3. QED
      BY <1>2, <2>2, <3>1, <3>2, Counted DEF OrderInv, TurnsInv
  <2>12. SnapInv' /\ PresenterOwnsFront'
    BY <1>1, <2>9, FrontStays DEF window
  <2>13. QED
    BY <1>2, <2>8, <2>10, <2>11, <2>12 DEF OrderInv
<1>5. CASE batch.kind # "prepare"
  <2>1. InState(requests, gid, "Reserved")
    BY <1>1, <1>5 DEF OrderInv, RingInv
  <2>2. HasId(requests, gid)
    BY <2>1 DEF InState, HasId
  <2>3. requests' = SetState(requests, gid, "Recording") /\ cpuRequests' = cpuRequests
    BY <2>2 DEF PrepareBegin
  <2>4. NumberedInv'
    BY <1>1, <1>3, <2>3, Counted, NumberedSetState DEF NumberedInv, States
  <2>5. RingInv'
    <3>1. InState(requests', gid, "Recording")
      BY <2>1, <2>3, Counted, PrepareSetsState DEF States
    <3>2. QED
      BY <1>1, <3>1 DEF RingInv
  <2>6. TurnsInv'
    <3>1. TurnNow = 0
      BY <1>1, <1>5 DEF TurnNow
    <3>2. QED
      BY <1>2, <2>3, <3>1 DEF OrderInv, TurnsInv
  <2>7. SnapInv' /\ PresenterOwnsFront'
    <3>1. requests' \in Seq(Request) /\ Len(requests') = Len(requests)
      BY <2>3, Counted, SetStateKeeps DEF States
    <3>2. CASE ppc \in {"due", "start", "present"}
      <4>1. requests # <<>> /\ requests[1].state # "Reserved"
        BY <3>2, Counted DEF OrderInv, SnapInv, PresenterOwnsFront, Request
      <4>2. requests'[1] = requests[1]
        BY <1>3, <2>1, <2>3, <4>1, Counted, PrepareLeavesFront DEF States
      <4>3. requests' # <<>>
        BY <3>1, <4>1, Counted
      <4>4. QED
        BY <1>1, <3>1, <4>2, <4>3, FrontStays DEF window
    <3>3. CASE ppc \notin {"due", "start", "present"}
      BY <1>1, <3>3 DEF OrderInv, SnapInv, PresenterOwnsFront, window
    <3>4. QED
      BY <3>2, <3>3
  <2>8. QED
    BY <1>2, <2>4, <2>5, <2>6, <2>7 DEF OrderInv
<1>6. QED
  BY <1>4, <1>5

(* The recorded request is found again and becomes Ready.                  *)
LEMMA OrderComplete ==
  ASSUME IInv, OrderInv, Complete
  PROVE  OrderInv'
<1>1. /\ gpc = "complete" /\ gpc' = "fetch"
      /\ requests' = SetState(requests, gid, "Ready")
      /\ UNCHANGED <<cpuRequests, nextId, window, guest>>
  BY DEF Complete
<1>2. InState(requests, gid, "Recording")
  BY <1>1 DEF OrderInv, RingInv
<1>3. NumberedInv'
  BY <1>1, Counted, NumberedSetState DEF OrderInv, NumberedInv, States
<1>4. RingInv'
  BY <1>1 DEF RingInv
<1>5. SubmittingInv' /\ TurnsInv'
  <2>1. TurnNow = 0 /\ TurnNow' = 0
    BY <1>1 DEF TurnNow
  <2>2. QED
    BY <1>1, <2>1 DEF OrderInv, SubmittingInv, TurnsInv, ToQueue, Prepares, guest
<1>6. SnapInv' /\ PresenterOwnsFront'
  <2>1. requests' \in Seq(Request) /\ Len(requests') = Len(requests)
    BY <1>1, Counted, SetStateKeeps DEF States
  <2>2. CASE ppc \in {"due", "start", "present"}
    <3>1. requests # <<>> /\ requests[1].state # "Recording"
      BY <2>2, Counted DEF OrderInv, SnapInv, PresenterOwnsFront, Request
    <3>2. requests'[1] = requests[1]
      BY <1>1, <1>2, <3>1, Counted, PrepareLeavesFront DEF OrderInv, NumberedInv, States
    <3>3. requests' # <<>>
      BY <2>1, <3>1, Counted
    <3>4. QED
      BY <1>1, <2>1, <3>2, <3>3, FrontStays DEF window
  <2>3. CASE ppc \notin {"due", "start", "present"}
    BY <1>1, <2>3 DEF OrderInv, SnapInv, PresenterOwnsFront, window
  <2>4. QED
    BY <2>2, <2>3
<1>7. QED
  BY <1>3, <1>4, <1>5, <1>6 DEF OrderInv

(* The window thread takes its copy of the front, may find it is not due,  *)
(* and ends its vblank.                                                    *)
LEMMA OrderWindow ==
  ASSUME IInv, OrderInv, TakeFront \/ CheckDue \/ EndVblank
  PROVE  OrderInv'
<1>1. UNCHANGED <<queue, gpu, guest>>
  BY DEF TakeFront, CheckDue, EndVblank, window
<1>2. SubmittingInv' /\ NumberedInv' /\ RingInv' /\ TurnsInv'
  BY <1>1 DEF OrderInv, SubmittingInv, NumberedInv, RingInv, TurnsInv, TurnNow, ToQueue,
     Prepares, queue, gpu, guest
<1>3. CASE TakeFront
  <2>1. CASE FrontReady /\ processing' = TRUE /\ snap' = Head(requests) /\ ppc' = "due"
    <3>1. requests # <<>> /\ Head(requests).state = "Ready" /\ Head(requests) \in Request
      BY <2>1, Counted DEF FrontReady
    <3>2. [Head(requests) EXCEPT !.state = "Ready"] = Head(requests)
      BY <3>1 DEF Request
    <3>3. QED
      BY <1>1, <1>2, <2>1, <3>1, <3>2 DEF OrderInv, SnapInv, PresenterOwnsFront, queue
  <2>2. CASE ppc' = "end" /\ UNCHANGED <<processing, snap>>
    BY <1>2, <1>3, <2>2 DEF TakeFront, OrderInv, SnapInv, PresenterOwnsFront
  <2>3. QED
    BY <1>3, <2>1, <2>2 DEF TakeFront
<1>4. CASE CheckDue
  BY <1>1, <1>2, <1>4 DEF CheckDue, OrderInv, SnapInv, PresenterOwnsFront, queue
<1>5. CASE EndVblank
  BY <1>1, <1>2, <1>5 DEF EndVblank, OrderInv, SnapInv, PresenterOwnsFront, queue
<1>6. QED
  BY <1>3, <1>4, <1>5

(* The copy and the front have one number, and the front is no request the *)
(* ring's thread works on.                                                 *)
LEMMA CopyIsFront ==
  ASSUME IInv, OrderInv, ppc \in {"start", "present"}
  PROVE  /\ requests # <<>> /\ snap \in Request
         /\ requests[1].id = snap.id /\ requests[1].source = snap.source
         /\ requests[1].state \in {"Ready", "Presenting"}
         /\ requests[1] = [snap EXCEPT !.state = IF ppc = "present" THEN "Presenting"
                                                 ELSE "Ready"]
<1>1. requests # <<>> /\ snap \in Request
  BY DEF OrderInv, PresenterOwnsFront, SnapInv
<1>2. Head(requests) = requests[1]
  BY <1>1, Counted
<1>3. requests[1] = [snap EXCEPT !.state = IF ppc = "present" THEN "Presenting" ELSE "Ready"]
  BY <1>2 DEF OrderInv, PresenterOwnsFront
<1>4. QED
  BY <1>1, <1>3 DEF Request

(* The ring's thread keeps its request while the front changes or leaves.  *)
LEMMA OthersStay ==
  ASSUME IInv, OrderInv, ppc \in {"start", "present"}, NEW new \in States,
         NEW id, NEW st \in {"Reserved", "Recording"}, InState(requests, id, st)
  PROVE  InState(SetState(requests, snap.id, new), id, st) /\ InState(Tail(requests), id, st)
<1>1. /\ requests # <<>> /\ requests[1].id = snap.id
      /\ requests[1].state # st
  BY CopyIsFront
<1>2. Numbered(requests, cpuRequests, nextId) /\ requests \in Seq(Request)
  BY Counted DEF OrderInv, NumberedInv
<1>3. QED
  BY <1>1, <1>2, PresentingLeavesOthers

(* The front is marked for presentation.                                   *)
LEMMA OrderStartPresenting ==
  ASSUME IInv, OrderInv, StartPresenting
  PROVE  OrderInv'
<1>1. /\ ppc = "start" /\ ppc' = "present"
      /\ requests' = SetState(requests, snap.id, "Presenting")
      /\ UNCHANGED <<cpuRequests, nextId, gpu, guest, snap, processing>>
  BY DEF StartPresenting
<1>2. SubmittingInv' /\ TurnsInv'
  BY <1>1 DEF OrderInv, SubmittingInv, TurnsInv, TurnNow, ToQueue, Prepares, gpu, guest
<1>3. NumberedInv'
  BY <1>1, Counted, NumberedSetState DEF OrderInv, NumberedInv, States
<1>4. RingInv'
  <2>1. \A id : \A st \in {"Reserved", "Recording"} :
          InState(requests, id, st) => InState(requests', id, st)
    BY <1>1, OthersStay DEF States
  <2>2. QED
    BY <1>1, <2>1 DEF OrderInv, RingInv, gpu
<1>5. SnapInv' /\ PresenterOwnsFront'
  <2>1. /\ requests # <<>> /\ snap \in Request /\ requests[1].id = snap.id
        /\ requests[1] = [snap EXCEPT !.state = "Ready"]
    BY <1>1, CopyIsFront
  <2>2. requests' \in Seq(Request) /\ Len(requests') = Len(requests)
    BY <1>1, Counted, SetStateKeeps DEF States
  <2>3. requests' # <<>> /\ Head(requests') = requests'[1] /\ 1 \in DOMAIN requests
    BY <2>1, <2>2, Counted
  <2>4. requests'[1] = [requests[1] EXCEPT !.state = "Presenting"]
    BY <1>1, <2>1, <2>3 DEF SetState
  <2>5. requests'[1] = [snap EXCEPT !.state = "Presenting"]
    BY <2>1, <2>4 DEF Request
  <2>6. QED
    BY <1>1, <2>1, <2>3, <2>5 DEF OrderInv, SnapInv, PresenterOwnsFront
<1>6. QED
  BY <1>2, <1>3, <1>4, <1>5 DEF OrderInv

(* The front leaves, and the sleepers look again.                          *)
LEMMA OrderFinishPresenting ==
  ASSUME IInv, OrderInv, FinishPresenting
  PROVE  OrderInv'
<1>1. /\ ppc = "present" /\ ppc' = "end" /\ requests' = Tail(requests)
      /\ processing' = FALSE /\ gpc' = Woken(gpc)
      /\ UNCHANGED <<cpuRequests, nextId, guest, batch, gid>>
  BY DEF FinishPresenting
<1>2. /\ gpc' \in {"pick", "begin", "record", "complete"} => gpc' = gpc
      /\ gpc \in {"pick", "begin"} => gpc' = gpc
  BY <1>1 DEF Woken
<1>3. requests # <<>>
  BY <1>1, CopyIsFront
<1>4. SubmittingInv' /\ TurnsInv'
  <2>1. TurnNow' = TurnNow
    BY <1>1, <1>2 DEF TurnNow
  <2>2. QED
    BY <1>1, <2>1 DEF OrderInv, SubmittingInv, TurnsInv, ToQueue, Prepares, guest
<1>5. NumberedInv'
  BY <1>1, <1>3, Counted, NumberedTail DEF OrderInv, NumberedInv
<1>6. RingInv'
  <2>1. \A id : \A st \in {"Reserved", "Recording"} :
          InState(requests, id, st) => InState(requests', id, st)
    BY <1>1, OthersStay DEF States
  <2>2. QED
    BY <1>1, <1>2, <2>1 DEF OrderInv, RingInv
<1>7. SnapInv' /\ PresenterOwnsFront'
  BY <1>1 DEF SnapInv, PresenterOwnsFront
<1>8. QED
  BY <1>4, <1>5, <1>6, <1>7 DEF OrderInv

(* The lists keep their order, and each request its place and owner.       *)
LEMMA OrderInvariance == Spec => []OrderInv
<1>1. Init => OrderInv
  <2> SUFFICES ASSUME Init PROVE OrderInv
    OBVIOUS
  <2>1. /\ requests = <<>> /\ cpuRequests = <<>> /\ ring = <<>> /\ ~processing
        /\ submitting = [t \in Threads |-> None] /\ gpc = "fetch" /\ ppc = "take"
    BY DEF Init
  <2>2. Prepares(ring) = 0 /\ Cardinality(ToQueue) = 0 /\ TurnNow = 0 /\ Len(cpuRequests) = 0
    <3>1. {i \in DOMAIN ring : ring[i].kind = "prepare"} = {} /\ ToQueue = {}
      BY <2>1 DEF ToQueue
    <3>2. QED
      BY <2>1, <3>1, FS_EmptySet DEF Prepares, TurnNow
  <2>3. NumberedInv
    BY <2>1 DEF NumberedInv, Numbered
  <2>4. QED
    BY <2>1, <2>2, <2>3 DEF OrderInv, SubmittingInv, SnapInv, RingInv, TurnsInv,
       PresenterOwnsFront
<1>2. ASSUME IInv, OrderInv, [Next]_vars PROVE OrderInv'
  <2> USE <1>2
  <2>1. CASE UNCHANGED vars
    BY <2>1 DEF vars, queue, gpu, window, guest, OrderInv, SubmittingInv, SnapInv, NumberedInv,
       RingInv, TurnsInv, PresenterOwnsFront, TurnNow, ToQueue, Prepares
  <2>2. QED
    BY <2>1, OrderSubmitFlip, OrderGuest, OrderFetch, OrderReserveFromGpu, OrderRingGoesOn,
       OrderPrepareBegin, OrderComplete, OrderWindow, OrderStartPresenting,
       OrderFinishPresenting DEF Next, Ring, Window
<1>3. QED
  BY Invariance, <1>1, <1>2, PTL DEF Spec

-----------------------------------------------------------------------------
(* Between the locked sections of Flip the front request stays the one the *)
(* window thread copied: the EXITs "queue processing is already active",   *)
(* "changed before presentation" and "changed while processing" are out of *)
(* reach.                                                                  *)
THEOREM PresenterOwnsFrontHolds == Spec => []PresenterOwnsFront
BY OrderInvariance, PTL DEF OrderInv

(* Every preparation batch finds an accepted flip and Prepare finds its    *)
(* request as it was left: the EXITs "no accepted request", "cannot        *)
(* prepare" and "changed while recording" are out of reach, whichever      *)
(* thread's batch comes first.                                             *)
THEOREM PrepareFindsRequestHolds == Spec => []PrepareFindsRequest
<1>1. ASSUME IInv, OrderInv PROVE PrepareFindsRequest
  <2> USE <1>1
  <2>1. gpc = "pick" => cpuRequests # <<>>
    <3>1. gpc = "pick" => TurnNow = 1 /\ Len(cpuRequests) >= 1
      BY Counted DEF TurnNow, OrderInv, TurnsInv
    <3>2. QED
      BY <3>1, Counted
  <2>2. gpc \in {"record", "complete"} =>
          \E r \in Elements(requests) : r.id = gid /\ r.state = "Recording"
    BY DEF OrderInv, RingInv, InState, Elements
  <2>3. ASSUME gpc = "begin", batch.kind = "prepare"
        PROVE  /\ ~HasId(requests, gid)
               /\ \E r \in Elements(cpuRequests) : r.id = gid /\ r.state = "Reserved"
    <3>1. cpuRequests # <<>> /\ gid = cpuRequests[1].id
      BY <2>3 DEF OrderInv, RingInv
    <3>2. 1 \in DOMAIN cpuRequests
      BY <3>1, Counted
    <3>3. QED
      BY <3>1, <3>2 DEF OrderInv, NumberedInv, Numbered, HasId, Elements
  <2>4. ASSUME gpc = "begin", batch.kind # "prepare"
        PROVE  /\ HasId(requests, gid)
               /\ \E r \in Elements(requests) : r.id = gid /\ r.state = "Reserved"
    BY <2>4 DEF OrderInv, RingInv, InState, HasId, Elements
  <2>5. QED
    BY <2>1, <2>2, <2>3, <2>4 DEF PrepareFindsRequest
<1>2. QED
  BY Invariance, OrderInvariance, <1>1, PTL

(* The front is the oldest flip of its source on either list.              *)
LEMMA FrontIsOldest ==
  ASSUME IInv, OrderInv, requests # <<>>, NEW r \in Pending, r.source = requests[1].source
  PROVE  requests[1].id <= r.id
<1>1. /\ Numbered(requests, cpuRequests, nextId)
      /\ requests \in Seq(Request) /\ cpuRequests \in Seq(Request)
  BY Counted DEF OrderInv, NumberedInv
<1>2. /\ 1 \in DOMAIN requests /\ DOMAIN requests = 1 .. Len(requests) /\ Len(requests) \in Nat
      /\ requests[1].id \in Nat
  BY <1>1, RequestElements
<1>3. ASSUME NEW i \in DOMAIN requests, r = requests[i] PROVE requests[1].id <= r.id
  <2>1. r.id \in Nat /\ (i = 1 \/ 1 < i)
    BY <1>1, <1>2, <1>3, RequestElements
  <2>2. 1 < i => requests[1].id < requests[i].id
    BY <1>1, <1>2, <1>3 DEF Numbered
  <2>3. QED
    BY <1>2, <1>3, <2>1, <2>2
<1>4. ASSUME NEW j \in DOMAIN cpuRequests, r = cpuRequests[j] PROVE requests[1].id <= r.id
  <2>1. r.id \in Nat
    BY <1>1, <1>4, RequestElements
  <2>2. requests[1].source = "cpu" => requests[1].id < cpuRequests[j].id
    BY <1>1, <1>2 DEF Numbered
  <2>3. requests[1].source = "cpu"
    BY <1>1, <1>4 DEF Numbered
  <2>4. QED
    BY <1>2, <1>4, <2>1, <2>2, <2>3
<1>5. QED
  BY <1>3, <1>4 DEF Pending, Elements

(* The flips of one source are shown in the order they were accepted, also *)
(* when several guest threads are inside SubmitFlip and queue their        *)
(* batches the other way round.                                            *)
THEOREM ShownInOrderHolds == Spec => ShownInOrder
<1> DEFINE InOrder == ppc = "present" /\ ppc' = "end" =>
             \A r \in Pending : r.source = snap.source => snap.id <= r.id
<1>1. ASSUME IInv, OrderInv PROVE InOrder
  <2> SUFFICES ASSUME ppc = "present", NEW r \in Pending, r.source = snap.source
               PROVE  snap.id <= r.id
    OBVIOUS
  <2>1. /\ requests # <<>> /\ snap \in Request /\ requests[1].id = snap.id
        /\ requests[1].source = snap.source
    BY <1>1, CopyIsFront
  <2>2. QED
    BY <1>1, <2>1, FrontIsOldest
<1>2. Spec => [][InOrder]_vars
  <2>1. IInv /\ OrderInv /\ [Next]_vars => [InOrder]_vars
    BY <1>1
  <2> HIDE DEF InOrder
  <2>2. QED
    BY Invariance, OrderInvariance, <2>1, PTL DEF Spec
<1>3. QED
  BY <1>2 DEF ShownInOrder


-----------------------------------------------------------------------------
(* What waits to be shown, whichever list it is on.                        *)
Waiting(rs, cs) == {Accepted(r) : r \in Elements(rs) \cup Elements(cs)}

(* Who waits is at a place of one of the lists.                            *)
LEMMA WaitingMembers ==
  ASSUME NEW rs, NEW cs, NEW f
  PROVE  f \in Waiting(rs, cs) <=>
           \/ \E i \in DOMAIN rs : f = Accepted(rs[i])
           \/ \E j \in DOMAIN cs : f = Accepted(cs[j])
BY DEF Waiting, Elements

(* The flips that wait are the flips pending, before and after a step.     *)
LEMMA WaitingIsPending ==
  /\ {Accepted(r) : r \in Pending} = Waiting(requests, cpuRequests)
  /\ {Accepted(r) : r \in Pending}' = Waiting(requests', cpuRequests')
BY DEF Waiting, Pending

(* A request more in a list.                                               *)
LEMMA AppendCounts ==
  \A s \in Seq(Request), r \in Request : Len(s) \in Nat /\ Len(Append(s, r)) = Len(s) + 1
OBVIOUS

(* A request at the end of either list waits with the others.              *)
LEMMA AppendWaits ==
  ASSUME NEW rs \in Seq(Request), NEW cs \in Seq(Request), NEW r \in Request
  PROVE  /\ Waiting(Append(rs, r), cs) = Waiting(rs, cs) \cup {Accepted(r)}
         /\ Waiting(rs, Append(cs, r)) = Waiting(rs, cs) \cup {Accepted(r)}
<1>1. ASSUME NEW s \in Seq(Request)
      PROVE  /\ DOMAIN s \subseteq DOMAIN Append(s, r)
             /\ \A i \in DOMAIN s : Append(s, r)[i] = s[i]
             /\ \E i \in DOMAIN Append(s, r) : Append(s, r)[i] = r
             /\ \A i \in DOMAIN Append(s, r) : i \in DOMAIN s \/ Append(s, r)[i] = r
  <2> DEFINE q == Append(s, r)
  <2>1. /\ Len(s) \in Nat /\ DOMAIN s = 1 .. Len(s) /\ DOMAIN q = 1 .. Len(s) + 1
        /\ \A i \in 1 .. Len(s) : q[i] = s[i]
        /\ q[Len(s) + 1] = r
    BY AppendElements
  <2> HIDE DEF q
  <2>2. /\ Len(s) + 1 \in DOMAIN q /\ DOMAIN s \subseteq DOMAIN q
        /\ \A i \in DOMAIN q : i \in DOMAIN s \/ i = Len(s) + 1
    BY <2>1
  <2>3. /\ DOMAIN s \subseteq DOMAIN q /\ \A i \in DOMAIN s : q[i] = s[i]
        /\ \E i \in DOMAIN q : q[i] = r
        /\ \A i \in DOMAIN q : i \in DOMAIN s \/ q[i] = r
    BY <2>1, <2>2
  <2> QED  BY <2>3 DEF q
<1>2. ASSUME NEW f
      PROVE  /\ f \in Waiting(Append(rs, r), cs) <=> f \in Waiting(rs, cs) \/ f = Accepted(r)
             /\ f \in Waiting(rs, Append(cs, r)) <=> f \in Waiting(rs, cs) \/ f = Accepted(r)
  <2> DEFINE qs == Append(rs, r)
             ds == Append(cs, r)
  <2>1. /\ DOMAIN rs \subseteq DOMAIN qs /\ \A i \in DOMAIN rs : qs[i] = rs[i]
        /\ \E i \in DOMAIN qs : qs[i] = r
        /\ \A i \in DOMAIN qs : i \in DOMAIN rs \/ qs[i] = r
    BY <1>1
  <2>2. /\ DOMAIN cs \subseteq DOMAIN ds /\ \A i \in DOMAIN cs : ds[i] = cs[i]
        /\ \E i \in DOMAIN ds : ds[i] = r
        /\ \A i \in DOMAIN ds : i \in DOMAIN cs \/ ds[i] = r
    BY <1>1
  <2> HIDE DEF qs, ds
  <2>3. f \in Waiting(qs, cs) <=> f \in Waiting(rs, cs) \/ f = Accepted(r)
    BY <2>1, WaitingMembers
  <2>4. f \in Waiting(rs, ds) <=> f \in Waiting(rs, cs) \/ f = Accepted(r)
    BY <2>2, WaitingMembers
  <2> QED  BY <2>3, <2>4 DEF qs, ds
<1> QED  BY <1>2

(* Reserve accepts a flip, under the next number and with room for it.     *)
LEMMA ReserveAccepts ==
  ASSUME IInv, OrderInv, NEW h \in Handles, NEW b \in Buffers, NEW s \in Sources,
         Reserve(h, b, s)
  PROVE  Fifo!Accept(h, b, s)
<1> DEFINE r == [id |-> nextId, cfg |-> h, index |-> b, source |-> s, state |-> "Reserved"]
           f == [id |-> nextId, cfg |-> h, index |-> b, source |-> s]
<1>1. requests \in Seq(Request) /\ cpuRequests \in Seq(Request) /\ nextId \in Nat
  BY Counted
<1>2. /\ ~Full /\ nextId' = nextId + 1
      /\ \/ requests' = Append(requests, r) /\ cpuRequests' = cpuRequests
         \/ cpuRequests' = Append(cpuRequests, r) /\ requests' = requests
  BY DEF Reserve
<1>3. r \in Request /\ Accepted(r) = f
  BY <1>1 DEF Request, States, Sources, Accepted
<1>4. /\ Capacity - Total > 0
      /\ (Capacity - Total)' = (Capacity - Total) - 1
  <2>1. /\ Len(requests) \in Nat /\ Len(Append(requests, r)) = Len(requests) + 1
        /\ Len(cpuRequests) \in Nat /\ Len(Append(cpuRequests, r)) = Len(cpuRequests) + 1
    BY <1>1, <1>3, AppendCounts
  <2> HIDE DEF r
  <2>2. Len(requests') + Len(cpuRequests') = Len(requests) + Len(cpuRequests) + 1
    BY <1>2, <2>1
  <2> QED  BY <1>2, <2>1, <2>2, Sizes DEF Full, Total
<1>6. Waiting(requests', cpuRequests') = Waiting(requests, cpuRequests) \cup {f}
  <2>1. CASE requests' = Append(requests, r) /\ cpuRequests' = cpuRequests
    BY <1>1, <1>3, <2>1, AppendWaits
  <2>2. CASE cpuRequests' = Append(cpuRequests, r) /\ requests' = requests
    BY <1>1, <1>3, <2>2, AppendWaits
  <2> QED  BY <1>2, <2>1, <2>2
<1>7. (nextId - 1) + 1 = nextId /\ nextId' - 1 = nextId
  BY <1>1, <1>2
<1> QED  BY <1>4, <1>6, <1>7, WaitingIsPending DEF Fifo!Accept


(* Another state of a request changes nothing for those who flip.          *)
LEMMA SetStateWaits ==
  ASSUME NEW rs \in Seq(Request), NEW cs, NEW id, NEW st \in States
  PROVE  /\ Waiting(SetState(rs, id, st), cs) = Waiting(rs, cs)
         /\ Len(SetState(rs, id, st)) = Len(rs)
<1> DEFINE qs == SetState(rs, id, st)
<1>1. \A i \in DOMAIN rs : rs[i] \in Request
  BY RequestElements
<1>2. DOMAIN qs = DOMAIN rs /\ \A i \in DOMAIN rs : Accepted(qs[i]) = Accepted(rs[i])
  BY <1>1 DEF SetState, Accepted, Request
<1>3. Len(qs) = Len(rs)
  BY SetStateKeeps
<1> HIDE DEF qs
<1>4. ASSUME NEW f PROVE f \in Waiting(qs, cs) <=> f \in Waiting(rs, cs)
  BY <1>2, WaitingMembers
<1> QED  BY <1>3, <1>4 DEF qs

(* Nor does the move of a request to the flips in presentation order.      *)
LEMMA MoveWaits ==
  ASSUME NEW rs \in Seq(Request), NEW cs \in Seq(Request), NEW k \in DOMAIN cs,
         NEW st \in States
  PROVE  /\ Waiting(Append(rs, [cs[k] EXCEPT !.state = st]), WithoutAt(cs, k)) = Waiting(rs, cs)
         /\ Len(Append(rs, [cs[k] EXCEPT !.state = st])) + Len(WithoutAt(cs, k)) = Len(rs) + Len(cs)
<1> DEFINE r == [cs[k] EXCEPT !.state = st]
           qs == Append(rs, r)
           ds == WithoutAt(cs, k)
<1>1. cs[k] \in Request
  BY RequestElements
<1>2. r \in Request /\ Accepted(r) = Accepted(cs[k])
  BY <1>1, StateKeepsType DEF Accepted, Request
<1>3. /\ Len(cs) \in Nat /\ DOMAIN cs = 1 .. Len(cs)
      /\ DOMAIN ds = 1 .. Len(cs) - 1 /\ Len(ds) = Len(cs) - 1
      /\ \A j \in 1 .. Len(cs) - 1 : ds[j] = IF j < k THEN cs[j] ELSE cs[j + 1]
  BY WithoutAtShortens DEF WithoutAt
<1>4. Waiting(qs, ds) = Waiting(rs, ds) \cup {Accepted(cs[k])}
  BY <1>2, <1>3, WithoutAtShortens, AppendWaits
<1>5. Len(rs) \in Nat /\ Len(qs) = Len(rs) + 1
  BY <1>2, AppendCounts
<1> HIDE DEF ds, qs
<1>6. \A j \in DOMAIN ds : \E l \in DOMAIN cs : ds[j] = cs[l]
  <2> SUFFICES ASSUME NEW j \in DOMAIN ds PROVE \E l \in DOMAIN cs : ds[j] = cs[l]
    OBVIOUS
  <2>1. j \in DOMAIN cs /\ j + 1 \in DOMAIN cs /\ (ds[j] = cs[j] \/ ds[j] = cs[j + 1])
    BY <1>3
  <2> QED  BY <2>1
<1>7. \A l \in DOMAIN cs : l = k \/ \E j \in DOMAIN ds : ds[j] = cs[l]
  <2> SUFFICES ASSUME NEW l \in DOMAIN cs, l # k PROVE \E j \in DOMAIN ds : ds[j] = cs[l]
    OBVIOUS
  <2>1. CASE l < k
    <3>1. l \in DOMAIN ds /\ ds[l] = cs[l]
      BY <1>3, <2>1
    <3> QED  BY <3>1
  <2>2. CASE k < l
    <3>1. l - 1 \in DOMAIN ds /\ ~ (l - 1 < k) /\ (l - 1) + 1 = l
      BY <1>3, <2>2
    <3>2. ds[l - 1] = cs[l]
      BY <1>3, <3>1
    <3> QED  BY <3>1, <3>2
  <2> QED  BY <1>3, <2>1, <2>2
<1>8. ASSUME NEW f
      PROVE  f \in Waiting(rs, ds) \/ f = Accepted(cs[k]) <=> f \in Waiting(rs, cs)
  BY <1>6, <1>7, WaitingMembers
<1>9. Waiting(qs, ds) = Waiting(rs, cs)
  BY <1>4, <1>8
<1> QED  BY <1>3, <1>5, <1>9 DEF ds, qs

(* What FinishPresenting takes off is the one flip the window thread has   *)
(* shown, the oldest of its source.                                        *)
LEMMA FinishShows ==
  ASSUME IInv, OrderInv, FinishPresenting
  PROVE  /\ Accepted(requests[1]) \in Waiting(requests, cpuRequests)
         /\ Fifo!Show(Accepted(requests[1]))
<1> DEFINE f == Accepted(requests[1])
           qs == Tail(requests)
<1>1. /\ requests' = qs /\ cpuRequests' = cpuRequests /\ nextId' = nextId /\ requests # <<>>
  BY CopyIsFront DEF FinishPresenting
<1>2. /\ requests \in Seq(Request) /\ cpuRequests \in Seq(Request) /\ nextId \in Nat
      /\ Numbered(requests, cpuRequests, nextId)
  BY Counted DEF OrderInv, NumberedInv
<1>3. /\ Len(requests) \in Nat \ {0} /\ DOMAIN requests = 1 .. Len(requests)
      /\ DOMAIN qs = 1 .. Len(requests) - 1 /\ Len(qs) = Len(requests) - 1
      /\ \A i \in 1 .. Len(requests) - 1 : qs[i] = requests[i + 1]
  BY <1>1, <1>2, TailElements
<1>4. 1 \in DOMAIN requests /\ f.id = requests[1].id /\ f.source = requests[1].source
  BY <1>3 DEF Accepted
<1> HIDE DEF qs
<1>5. /\ \A i \in DOMAIN qs : i + 1 \in DOMAIN requests /\ i + 1 # 1 /\ qs[i] = requests[i + 1]
      /\ \A i \in DOMAIN requests : i # 1 => i - 1 \in DOMAIN qs /\ qs[i - 1] = requests[i]
  <2>1. \A i \in DOMAIN requests : i # 1 => i - 1 \in DOMAIN qs /\ (i - 1) + 1 = i
    BY <1>3
  <2> QED  BY <1>3, <2>1
<1>6. /\ \A i \in DOMAIN requests : i # 1 => Accepted(requests[i]) # f
      /\ \A j \in DOMAIN cpuRequests : Accepted(cpuRequests[j]) # f
  <2>1. \A i \in DOMAIN requests : i # 1 => requests[i].id # requests[1].id
    BY <1>2, <1>3 DEF Numbered
  <2>2. \A j \in DOMAIN cpuRequests : cpuRequests[j].id # requests[1].id
    BY <1>2, <1>4 DEF Numbered
  <2> QED  BY <1>4, <2>1, <2>2 DEF Accepted
<1>7. f \in Waiting(requests, cpuRequests)
  BY <1>4, WaitingMembers
<1>8. ASSUME NEW g
      PROVE  g \in Waiting(qs, cpuRequests) <=> g \in Waiting(requests, cpuRequests) /\ g # f
  BY <1>4, <1>5, <1>6, WaitingMembers
<1>9. Waiting(requests', cpuRequests') = Waiting(requests, cpuRequests) \ {f}
  BY <1>1, <1>8
<1>10. \A g \in Waiting(requests, cpuRequests) : g.source = f.source => f.id <= g.id
  <2> SUFFICES ASSUME NEW g \in Waiting(requests, cpuRequests), g.source = f.source
               PROVE  f.id <= g.id
    OBVIOUS
  <2>1. PICK r \in Pending : g = Accepted(r)
    BY DEF Waiting, Pending
  <2>2. g.id = r.id /\ g.source = r.source
    BY <2>1 DEF Accepted
  <2> QED  BY <1>1, <1>4, <2>2, FrontIsOldest
<1>11. (Capacity - Total)' = (Capacity - Total) + 1
  <2>1. Len(cpuRequests) \in Nat
    BY <1>2
  <2> QED  BY <1>1, <1>3, <2>1, Sizes DEF Total
<1> HIDE DEF f
<1>12. Fifo!Show(f)
  BY <1>1, <1>9, <1>10, <1>11, WaitingIsPending DEF Fifo!Show
<1> QED  BY <1>7, <1>12 DEF f

(* Every other step is none of FlipFifo.                                   *)
LEMMA OthersStutter ==
  ASSUME requests' = requests, cpuRequests' = cpuRequests, nextId' = nextId
  PROVE  UNCHANGED <<{Accepted(r) : r \in Pending}, Capacity - Total, nextId - 1>>
BY DEF Pending, Total

(* Preparing and presenting change states and places only.                 *)
LEMMA PreparationStutters ==
  ASSUME IInv, OrderInv, PrepareBegin \/ Complete \/ StartPresenting
  PROVE  UNCHANGED <<{Accepted(r) : r \in Pending}, Capacity - Total, nextId - 1>>
<1>1. requests \in Seq(Request) /\ cpuRequests \in Seq(Request)
  BY Counted
<1>2. /\ nextId' = nextId
      /\ \/ /\ cpuRequests' = cpuRequests
            /\ \E id : \E st \in States : requests' = SetState(requests, id, st)
         \/ \E k \in DOMAIN cpuRequests : \E st \in States :
              /\ requests' = Append(requests, [cpuRequests[k] EXCEPT !.state = st])
              /\ cpuRequests' = WithoutAt(cpuRequests, k)
  BY DEF PrepareBegin, Complete, StartPresenting, Moved, States
<1>3. /\ Waiting(requests', cpuRequests') = Waiting(requests, cpuRequests)
      /\ Len(requests') + Len(cpuRequests') = Len(requests) + Len(cpuRequests)
  <2>1. ASSUME cpuRequests' = cpuRequests, NEW id, NEW st \in States,
               requests' = SetState(requests, id, st)
        PROVE  /\ Waiting(requests', cpuRequests') = Waiting(requests, cpuRequests)
               /\ Len(requests') + Len(cpuRequests') = Len(requests) + Len(cpuRequests)
    BY <1>1, <2>1, SetStateWaits
  <2>2. ASSUME NEW k \in DOMAIN cpuRequests, NEW st \in States,
               requests' = Append(requests, [cpuRequests[k] EXCEPT !.state = st]),
               cpuRequests' = WithoutAt(cpuRequests, k)
        PROVE  /\ Waiting(requests', cpuRequests') = Waiting(requests, cpuRequests)
               /\ Len(requests') + Len(cpuRequests') = Len(requests) + Len(cpuRequests)
    BY <1>1, <2>2, MoveWaits
  <2> QED  BY <1>2, <2>1, <2>2
<1> QED  BY <1>2, <1>3, WaitingIsPending DEF Total

(* The two lists, however the three kinds of threads meet in them, behave  *)
(* like one queue: a step is an Accept, a Show or none of FlipFifo.        *)
THEOREM ImplementsFifoHolds == Spec => ImplementsFifo
<1>1. Init => Fifo!Init
  <2> SUFFICES ASSUME Init PROVE Fifo!Init
    OBVIOUS
  <2>1. requests = <<>> /\ cpuRequests = <<>> /\ nextId = 1
    BY DEF Init
  <2>2. Pending = {} /\ Capacity - Total = Capacity /\ nextId - 1 = 0
    BY <2>1, Sizes DEF Pending, Elements, Total
  <2> QED  BY <2>2 DEF Fifo!Init
<1>2. IInv /\ OrderInv /\ [Next]_vars
        => [Fifo!Next]_<<{Accepted(r) : r \in Pending}, Capacity - Total, nextId - 1>>
  <2> SUFFICES ASSUME IInv, OrderInv, [Next]_vars
               PROVE  \/ Fifo!Next
                      \/ UNCHANGED <<{Accepted(r) : r \in Pending}, Capacity - Total, nextId - 1>>
    OBVIOUS
  <2>1. ASSUME NEW h \in Handles, NEW b \in Buffers, NEW s \in Sources, Reserve(h, b, s)
        PROVE  Fifo!Next
    BY <2>1, ReserveAccepts DEF Fifo!Next, Fifo!Sources, Sources
  <2>2. ASSUME NEW t \in Threads, NEW h \in Handles, NEW b \in Buffers, SubmitFlip(t, h, b)
        PROVE  Fifo!Next
    BY <2>1, <2>2 DEF SubmitFlip, Sources
  <2>3. CASE ReserveFromGpu
    <3>1. CASE Reserve(batch.cfg, batch.index, "gpu")
      <4>1. batch.cfg \in Handles /\ batch.index \in Buffers
        BY <2>3 DEF ReserveFromGpu, IInv, ListsInv, Batch
      <4> QED  BY <2>1, <3>1, <4>1 DEF Sources
    <3>2. CASE UNCHANGED <<queue, gid>>
      BY <3>2, OthersStutter DEF queue
    <3> QED  BY <2>3, <3>1, <3>2 DEF ReserveFromGpu
  <2>4. CASE PrepareBegin \/ Complete \/ StartPresenting
    BY <2>4, PreparationStutters
  <2>5. CASE FinishPresenting
    BY <2>5, FinishShows, WaitingIsPending DEF Fifo!Next
  <2>6. CASE \/ \E t \in Threads : SubmitFlipPreparation(t)
             \/ \E kind \in {"flip", "wait"}, h \in Handles, b \in Buffers :
                  SubmitCommands(kind, h, b)
             \/ WaitVblank \/ FetchBatch \/ WaitForSubmitSlot \/ PrepareNextCpu
             \/ PrepareEnd \/ WaitFlipDone \/ TakeFront \/ CheckDue \/ EndVblank
    BY <2>6, OthersStutter
    DEF SubmitFlipPreparation, SubmitCommands, WaitVblank, FetchBatch, WaitForSubmitSlot,
        PrepareNextCpu, PrepareEnd, WaitFlipDone, TakeFront, CheckDue, EndVblank, queue
  <2>7. CASE UNCHANGED vars
    BY <2>7, OthersStutter DEF vars, queue
  <2> QED  BY <2>2, <2>3, <2>4, <2>5, <2>6, <2>7 DEF Next, Ring, Window
<1> QED
  BY <1>1, <1>2, Invariance, OrderInvariance, PTL DEF Spec, ImplementsFifo, Fifo!Spec

=============================================================================
