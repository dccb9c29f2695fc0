---------------------------- MODULE LabelsProofs -----------------------------
(***************************************************************************)
(* Command buffers, set-ups and labels for any number of processors, slots *)
(* and images: what a buffer being recorded or executed uses, it keeps;    *)
(* what a set-up points to, its buffer keeps or its deferral parks; every  *)
(* processor's current buffer is recording but while its holder of the     *)
(* mutex begins it again; and the label thread finds the labels in order.  *)
(***************************************************************************)
EXTENDS Labels, TLAPS, WellFoundedInduction

Places == {"idle", "batch", "next", "submitted", "all", "resume", "setup", "bound"}
Local == [stale : BOOLEAN, resolved : SUBSET Images, bound : SUBSET Images,
          targets : SUBSET Images, stage : {1, 2}, todo : SUBSET CPs, on : Slots, then : Places]
Count == [batches : Nat, draws : Nat, labels : Nat, flushes : Nat, faults : Nat]

TypeOK ==
  /\ current \in [CPs -> 0 .. NumSlots]
  /\ pc \in [CPs -> Places] /\ local \in [CPs -> Local]
  /\ parked \in [CPs -> SUBSET Things]
  /\ count \in Count
  /\ exited = FALSE

(* What a buffer's commands use, the buffer keeps until its fence.         *)
Sound(b, labels) ==
  /\ ~(b.open /\ b.executed)
  /\ \A c \in Elements(b.cmds) :
       /\ c.fresh /\ c.label <= labels
       /\ b.open \/ b.executed => c.bound \cup ({c.label} \ {0}) \subseteq b.keeps

(* And what the GPU has to execute, waits for its fence.                   *)
BuffersInv(bf, gp, labels) ==
  /\ bf \in [CPs -> [Slots -> Buffer]] /\ gp \in [CPs -> Seq(Slots)]
  /\ \A p \in CPs : \A s \in Slots : Sound(bf[p][s], labels)
  /\ \A p \in CPs : \A i \in DOMAIN gp[p] : bf[p][gp[p][i]].executed

(* Who is between a wait's first step and its last, or in a set-up, has    *)
(* the mutex of all processors.                                            *)
HoldsOK(p) ==
  /\ pc[p] \in {"next", "all", "resume", "setup", "bound"} => mutex = p
  /\ pc[p] = "idle" \/ Active(p)
  /\ pc[p] = "next" => local[p].then \in {"batch", "submitted", "idle"}
  /\ pc[p] = "resume" => local[p].then \in {"batch", "setup", "bound"}
  /\ pc[p] = "resume" => \A q \in local[p].todo : Active(q)

(* A current buffer records, but while it is waited for and begun again.   *)
OpenOK(q) ==
  IF Active(q)
  THEN CanSubmit(q) \/ pc[q] = "next" \/ \E p \in CPs : pc[p] = "resume" /\ q \in local[p].todo
  ELSE \A s \in Slots : ~buf[q][s].executed

(* Where a set-up stands, also while a fault interrupts it.                *)
Stands(p, at) == pc[p] = at \/ (pc[p] = "resume" /\ local[p].then = at)
Waits(p) == pc[p] = "resume" /\ p \in local[p].todo

LocalOK(p) ==
  /\ Stands(p, "setup") \/ local[p].resolved = {}
  /\ Stands(p, "setup") => local[p].resolved \subseteq parked[p] \cup Cur(p).keeps
  /\ Stands(p, "setup") \/ Stands(p, "bound") =>
       local[p].stale \/ Waits(p) \/ local[p].bound \subseteq Cur(p).keeps

CbInv ==
  /\ TypeOK /\ BuffersInv(buf, gpu, count.labels)
  /\ \A p \in CPs : HoldsOK(p) /\ OpenOK(p) /\ LocalOK(p)

(* The labels are in the thread's list in the order they were set, and the *)
(* ones it fired in the order it found them.                               *)
Rising(s) == \A i, j \in DOMAIN s : i < j => s[i] < s[j]

ThreadRecord == [at : {"idle", "scan", "call"}, pos : Nat \ {0}, fired : Seq(Nat), done : Nat]

ThreadOK == thread \in ThreadRecord

ListInv ==
  /\ subs \in Seq(Nat) /\ Rising(subs) /\ Rising(thread.fired)
  /\ \A i \in DOMAIN subs : subs[i] \in 1 .. count.labels
  /\ thread.done <= Len(thread.fired)
  /\ thread.at = "scan" =>
       /\ thread.done = 0
       /\ \A i \in DOMAIN subs, j \in DOMAIN thread.fired :
            thread.pos <= i => thread.fired[j] < subs[i]
  /\ thread.at = "idle" => thread.fired = <<>>

(* No label is lost, and one that was set when a scan began is not passed. *)
SeenInv ==
  /\ events \subseteq 1 .. count.labels /\ seen \subseteq events
  /\ \A k \in 1 .. count.labels :
       \/ k \in called \/ \E i \in DOMAIN subs : subs[i] = k
       \/ \E j \in DOMAIN thread.fired : thread.done < j /\ thread.fired[j] = k
  /\ thread.at = "scan" => \A i \in DOMAIN subs : i < thread.pos => subs[i] \notin seen
  /\ thread.at = "call" => \A i \in DOMAIN subs : subs[i] \notin seen

LabelInv == ThreadOK /\ ListInv /\ SeenInv

IInv == CbInv /\ LabelInv

-----------------------------------------------------------------------------
(* The commands of a buffer.                                               *)
LEMMA ElementsHold ==
  ASSUME NEW S, NEW s \in Seq(S)
  PROVE  /\ Elements(s) \subseteq S /\ Elements(<<>>) = {}
         /\ \A i \in DOMAIN s : s[i] \in Elements(s)
         /\ \A c \in Elements(s) : \E i \in DOMAIN s : s[i] = c
         /\ \A e \in S : Elements(Append(s, e)) = Elements(s) \cup {e}
<1>1. /\ Elements(s) \subseteq S /\ Elements(<<>>) = {}
      /\ \A i \in DOMAIN s : s[i] \in Elements(s)
      /\ \A c \in Elements(s) : \E i \in DOMAIN s : s[i] = c
  BY DEF Elements
<1>2. ASSUME NEW e \in S PROVE Elements(Append(s, e)) = Elements(s) \cup {e}
  <2>1. /\ Append(s, e) \in Seq(S) /\ Len(s) \in Nat /\ DOMAIN s = 1 .. Len(s)
        /\ DOMAIN Append(s, e) = 1 .. Len(s) + 1
        /\ \A i \in 1 .. Len(s) : Append(s, e)[i] = s[i]
        /\ Append(s, e)[Len(s) + 1] = e
    OBVIOUS
  <2>2. PICK w, n : w = Append(s, e) /\ n = Len(s)
    OBVIOUS
  <2>3. \A i \in 1 .. n + 1 : i \in 1 .. n \/ i = n + 1
    BY <2>1, <2>2
  <2>4. 1 .. n \subseteq 1 .. n + 1 /\ n + 1 \in 1 .. n + 1
    BY <2>1, <2>2
  <2>5. Elements(w) \subseteq Elements(s) \cup {e}
    BY <2>1, <2>2, <2>3 DEF Elements
  <2>6. Elements(s) \cup {e} \subseteq Elements(w)
    BY <2>1, <2>2, <2>4 DEF Elements
  <2>7. QED
    BY <2>2, <2>5, <2>6
<1>3. QED
  BY <1>1, <1>2

(* What a buffer is made of.                                               *)
LEMMA BufferFacts ==
  ASSUME NEW b \in Buffer
  PROVE  /\ b.open \in BOOLEAN /\ b.executed \in BOOLEAN /\ b.keeps \subseteq Things
         /\ b.cmds \in Seq(Command) /\ <<>> \in Seq(Command) /\ Elements(<<>>) = {}
         /\ \A c \in Elements(b.cmds) : c \in Command /\ c.label \in Nat
<1>1. /\ b.open \in BOOLEAN /\ b.executed \in BOOLEAN /\ b.keeps \subseteq Things
      /\ b.cmds \in Seq(Command)
  BY DEF Buffer
<1>2. Elements(b.cmds) \subseteq Command /\ Elements(<<>>) = {}
  BY <1>1, ElementsHold
<1>3. \A c \in Command : c.label \in Nat
  BY DEF Command, LabelIds
<1>4. QED
  BY <1>1, <1>2, <1>3

(* Beginning a buffer that is not executing.                               *)
LEMMA BegunIsSound ==
  ASSUME NEW b \in Buffer, NEW n \in Nat, Sound(b, n), ~b.executed
  PROVE  LET d == Begun(b) IN
         d \in Buffer /\ Sound(d, n) /\ d.open /\ ~d.executed /\ d.keeps = b.keeps
<1> DEFINE d == Begun(b)
<1>1. d \in Buffer /\ d.open /\ ~d.executed /\ d.keeps = b.keeps /\ d.cmds = <<>>
  BY BufferFacts DEF Begun, Buffer
<1> HIDE DEF d
<1>2. Sound(d, n)
  BY <1>1, BufferFacts DEF Sound
<1>3. QED
  BY <1>1, <1>2 DEF d

(* Submitting one that records.                                            *)
LEMMA SubmittedIsSound ==
  ASSUME NEW b \in Buffer, NEW n \in Nat, Sound(b, n), b.open
  PROVE  LET d == Submitted(b) IN
         d \in Buffer /\ Sound(d, n) /\ d.executed /\ d.keeps = b.keeps
<1> DEFINE d == Submitted(b)
<1>1. d \in Buffer /\ ~d.open /\ d.executed /\ d.keeps = b.keeps /\ d.cmds = b.cmds
  BY BufferFacts DEF Submitted, Buffer
<1> HIDE DEF d
<1>2. Sound(d, n)
  BY <1>1 DEF Sound
<1>3. QED
  BY <1>1, <1>2 DEF d

(* Retaining more.                                                         *)
LEMMA KeptIsSound ==
  ASSUME NEW b \in Buffer, NEW n \in Nat, Sound(b, n), NEW things \in SUBSET Things
  PROVE  LET d == Kept(b, things) IN
         /\ d \in Buffer /\ Sound(d, n) /\ d.open = b.open /\ d.executed = b.executed
         /\ d.keeps = b.keeps \cup things
BY DEF Kept, Buffer, Sound, Elements

(* Recording a command that uses only what the buffer keeps.               *)
LEMMA RecordedIsSound ==
  ASSUME NEW b \in Buffer, NEW n \in Nat, Sound(b, n), NEW m \in Nat, n <= m,
         NEW c \in Command, c.fresh, c.label <= m,
         c.bound \cup ({c.label} \ {0}) \subseteq b.keeps
  PROVE  LET d == Recorded(b, c) IN
         /\ d \in Buffer /\ Sound(d, m) /\ d.open = b.open /\ d.executed = b.executed
         /\ d.keeps = b.keeps
<1> DEFINE d == Recorded(b, c)
<1>1. /\ d \in Buffer /\ d.open = b.open /\ d.executed = b.executed /\ d.keeps = b.keeps
      /\ d.cmds = Append(b.cmds, c) /\ b.cmds \in Seq(Command)
  <2> DEFINE w == Append(b.cmds, c)
  <2>1. w \in Seq(Command)
    <3>1. b.cmds \in Seq(Command)
      BY BufferFacts
    <3> HIDE DEF d
    <3>2. QED
      BY <3>1
  <2>2. d = [b EXCEPT !.cmds = w] /\ b.cmds \in Seq(Command)
    BY <2>1, BufferFacts DEF Recorded
  <2>3. w = Append(b.cmds, c)
    OBVIOUS
  <2> HIDE DEF d, w
  <2>4. QED
    BY <2>1, <2>2, <2>3 DEF Buffer
<1>2. \A e \in Elements(d.cmds) : e = c \/ e \in Elements(b.cmds)
  BY <1>1, ElementsHold
<1>3. \A e \in Elements(b.cmds) : e.label \in Nat /\ e.label <= m
  BY BufferFacts DEF Sound
<1> HIDE DEF d
<1>4. Sound(d, m)
  BY <1>1, <1>2, <1>3 DEF Sound
<1>5. QED
  BY <1>1, <1>4 DEF d

(* A fence that was waited for, or is nobody's.                            *)
LEMMA FinalizedIsSound ==
  ASSUME NEW b \in Buffer, NEW n \in Nat, Sound(b, n), NEW reset \in BOOLEAN
  PROVE  LET d == Finalized(b, reset) IN
         d \in Buffer /\ Sound(d, n) /\ ~d.executed /\ (~b.executed => d = b)
<1>1. CASE b.executed
  <2> DEFINE d == Finalized(b, reset)
  <2>1. /\ d \in Buffer /\ ~d.executed /\ ~d.open
        /\ d.cmds = <<>> \/ d.cmds = b.cmds
    BY <1>1, BufferFacts DEF Finalized, Buffer, Sound
  <2> HIDE DEF d
  <2>2. Sound(d, n)
    BY <2>1, BufferFacts DEF Sound
  <2>3. QED
    BY <1>1, <2>1, <2>2 DEF d
<1>2. CASE ~b.executed
  BY <1>2 DEF Finalized
<1>3. QED
  BY <1>1, <1>2 DEF Buffer

(* A buffer that was waited for and begins again.                          *)
LEMMA BegunAgainIsSound ==
  ASSUME NEW b \in Buffer, NEW n \in Nat, Sound(b, n)
  PROVE  LET d == BegunAgain(b) IN
         /\ d \in Buffer /\ Sound(d, n) /\ d.open /\ ~d.executed
         /\ ~b.executed => d.keeps = b.keeps
BY FinalizedIsSound, BegunIsSound DEF BegunAgain

-----------------------------------------------------------------------------
(* One buffer is changed.                                                  *)
Changed(bf, bf2, p, s, b) ==
  /\ bf2 \in [CPs -> [Slots -> Buffer]] /\ bf2[p][s] = b
  /\ \A q \in CPs, r \in Slots : q # p \/ r # s => bf2[q][r] = bf[q][r]

(* Writing one buffer changes that one.                                    *)
LEMMA OneIsChanged ==
  ASSUME NEW bf \in [CPs -> [Slots -> Buffer]], NEW p \in CPs, NEW s \in Slots, NEW b \in Buffer
  PROVE  Changed(bf, [bf EXCEPT ![p][s] = b], p, s, b)
BY DEF Changed

(* A sound buffer in place of another, which waits for its fence if the    *)
(* GPU has it, keeps all of them sound.                                    *)
LEMMA ChangedIsSound ==
  ASSUME NEW bf, NEW gp, NEW n \in Nat, BuffersInv(bf, gp, n), NEW p \in CPs, NEW s \in Slots,
         NEW bf2, NEW b, Changed(bf, bf2, p, s, b), NEW m \in Nat, n <= m, Sound(b, m),
         \A i \in DOMAIN gp[p] : gp[p][i] = s => b.executed
  PROVE  BuffersInv(bf2, gp, m)
<1>1. ASSUME NEW q \in CPs, NEW i \in DOMAIN gp[q] PROVE gp[q][i] \in Slots
  <2>1. gp[q] \in Seq(Slots)
    BY DEF BuffersInv
  <2>2. QED
    BY <2>1
<1>2. ASSUME NEW q \in CPs, NEW r \in Slots PROVE Sound(bf2[q][r], m)
  <2>1. CASE q = p /\ r = s
    BY <2>1 DEF Changed
  <2>2. CASE ~(q = p /\ r = s)
    <3>1. bf2[q][r] = bf[q][r] /\ bf[q][r] \in Buffer /\ Sound(bf[q][r], n)
      BY <2>2 DEF Changed, BuffersInv
    <3>2. \A c \in Elements(bf[q][r].cmds) : c.label \in Nat
      BY <3>1, BufferFacts
    <3>3. QED
      BY <3>1, <3>2 DEF Sound
  <2>3. QED
    BY <2>1, <2>2
<1>3. ASSUME NEW q \in CPs, NEW i \in DOMAIN gp[q] PROVE bf2[q][gp[q][i]].executed
  <2>1. gp[q][i] \in Slots /\ bf[q][gp[q][i]].executed
    BY <1>1 DEF BuffersInv
  <2>2. CASE q = p /\ gp[q][i] = s
    BY <2>2 DEF Changed
  <2>3. CASE ~(q = p /\ gp[q][i] = s)
    BY <2>1, <2>3 DEF Changed
  <2>4. QED
    BY <2>2, <2>3
<1>4. QED
  BY <1>2, <1>3 DEF Changed, BuffersInv

-----------------------------------------------------------------------------
(* The current buffer of a processor that has one.                         *)
LEMMA CurrentFacts ==
  ASSUME CbInv, NEW p \in CPs, Active(p)
  PROVE  /\ current[p] \in Slots /\ Cur(p) = buf[p][current[p]]
         /\ Cur(p) \in Buffer /\ Sound(Cur(p), count.labels)
         /\ \A i \in DOMAIN gpu[p] : gpu[p][i] = current[p] => Cur(p).executed
         /\ buf \in [CPs -> [Slots -> Buffer]] /\ count.labels \in Nat
<1>1. current[p] \in 0 .. NumSlots /\ current[p] # NumSlots /\ NumSlots \in Nat
  BY CommandAssumption DEF CbInv, TypeOK, Active
<1>2. current[p] \in Slots
  BY <1>1 DEF Slots
<1>3. QED
  BY <1>2 DEF CbInv, TypeOK, BuffersInv, Count, Cur

(* While nobody waits for a buffer, every current one records.             *)
LEMMA AllRecord ==
  ASSUME CbInv, \A q \in CPs : pc[q] \notin {"next", "resume"}
  PROVE  \A q \in CPs : Active(q) => CanSubmit(q)
BY DEF CbInv, OpenOK

(* Nobody is in the middle of anything while the mutex is free, and nobody *)
(* else while one has it.                                                  *)
LEMMA Alone ==
  ASSUME CbInv, NEW q \in CPs
  PROVE  /\ mutex = None => pc[q] \in {"idle", "batch", "submitted"}
         /\ \A p \in CPs : mutex = p /\ q # p => pc[q] \in {"idle", "batch", "submitted"}
<1>1. pc[q] \in Places /\ None \notin CPs
  BY CommandAssumption DEF CbInv, TypeOK
<1>2. pc[q] \in {"next", "all", "resume", "setup", "bound"} => mutex = q
  BY DEF CbInv, HoldsOK
<1>3. QED
  BY <1>1, <1>2 DEF Places

(* Two who wait for the same fence: not while it is in the queue.          *)
LEMMA DoneIsNotPending ==
  ASSUME NEW p \in CPs, NEW s, FenceDone(p, s), buf[p][s].executed
  PROVE  \A i \in DOMAIN gpu[p] : gpu[p][i] # s
BY DEF FenceDone, Pending

(* A step of one who has the mutex, or nobody has it, leaves the others    *)
(* where they are.                                                         *)
LEMMA OthersKeep ==
  ASSUME CbInv, NEW p \in CPs, mutex \in {p, None}, pc[p] # "resume",
         NEW q \in CPs \ {p}, UNCHANGED <<current[q], buf[q], pc[q], local[q], parked[q]>>
  PROVE  HoldsOK(q)' /\ OpenOK(q)' /\ LocalOK(q)'
<1>1. pc[q] \in {"idle", "batch", "submitted"}
  BY Alone
<1>2. \A r \in CPs : pc[r] # "resume"
  BY <1>1, Alone, CommandAssumption
<1>3. HoldsOK(q)'
  BY <1>1 DEF CbInv, HoldsOK, Active
<1>4. OpenOK(q)'
  BY <1>1, <1>2 DEF CbInv, OpenOK, Active, CanSubmit, Cur
<1>5. LocalOK(q)'
  BY <1>1 DEF CbInv, LocalOK, Stands
<1>6. QED
  BY <1>3, <1>4, <1>5

(* Beginning a batch, and with the first one the first buffer.             *)
LEMMA BatchBeginKeeps ==
  ASSUME CbInv, NEW p \in CPs, BatchBegin(p)
  PROVE  CbInv'
<1>1. /\ pc[p] = "idle" /\ mutex = None /\ count' = [count EXCEPT !.batches = @ + 1]
      /\ pc' = [pc EXCEPT ![p] = "batch"] /\ BufferInit(p)
      /\ UNCHANGED <<gpu, mutex, local, images, events, exited>>
  BY DEF BatchBegin
<1>2. /\ count' \in Count /\ count'.labels = count.labels /\ count.labels \in Nat
      /\ pc' \in [CPs -> Places] /\ pc'[p] = "batch" /\ \A q \in CPs \ {p} : pc'[q] = pc[q]
  BY <1>1 DEF CbInv, TypeOK, Count, Places
<1>3. 0 \in Slots /\ 0 # NumSlots /\ 0 \in 0 .. NumSlots
  BY CommandAssumption DEF Slots
<1>4. /\ current' \in [CPs -> 0 .. NumSlots] /\ \A q \in CPs \ {p} : current'[q] = current[q]
      /\ BuffersInv(buf', gpu', count'.labels)
      /\ \A q \in CPs \ {p} : buf'[q] = buf[q]
      /\ Active(p)' /\ CanSubmit(p)'
  <2>1. CASE Active(p)
    <3>1. UNCHANGED <<buf, current>>
      BY <1>1, <2>1 DEF BufferInit
    <3>2. CanSubmit(p)
      BY <1>1, <2>1, Alone, AllRecord
    <3>3. QED
      BY <1>1, <1>2, <2>1, <3>1, <3>2 DEF CbInv, TypeOK, Active, CanSubmit, Cur
  <2>2. CASE ~Active(p)
    <3> DEFINE b == Begun(buf[p][0])
    <3>1. current' = [current EXCEPT ![p] = 0] /\ buf' = [buf EXCEPT ![p][0] = b]
      BY <1>1, <2>2 DEF BufferInit
    <3>2. /\ buf[p][0] \in Buffer /\ Sound(buf[p][0], count.labels) /\ ~buf[p][0].executed
          /\ buf \in [CPs -> [Slots -> Buffer]]
      BY <1>3, <2>2 DEF CbInv, BuffersInv, OpenOK
    <3>3. b \in Buffer /\ Sound(b, count.labels) /\ b.open /\ ~b.executed
      BY <1>2, <3>2, BegunIsSound
    <3> HIDE DEF b
    <3>4. Changed(buf, buf', p, 0, b)
      BY <1>3, <3>1, <3>2, <3>3, OneIsChanged
    <3>5. \A i \in DOMAIN gpu[p] : gpu[p][i] # 0
      BY <3>2 DEF CbInv, BuffersInv
    <3>6. BuffersInv(buf', gpu, count.labels)
      BY <1>2, <1>3, <3>3, <3>4, <3>5, ChangedIsSound DEF CbInv
    <3>7. current' \in [CPs -> 0 .. NumSlots] /\ current'[p] = 0
          /\ \A q \in CPs \ {p} : current'[q] = current[q]
      BY <1>3, <3>1 DEF CbInv, TypeOK
    <3>8. \A q \in CPs \ {p} : buf'[q] = buf[q]
      BY <3>1, <3>2
    <3>9. buf'[p][0] = b
      BY <3>4 DEF Changed
    <3>10. QED
      BY <1>1, <1>2, <1>3, <3>3, <3>6, <3>7, <3>8, <3>9 DEF Active, CanSubmit, Cur
  <2>3. QED
    BY <2>1, <2>2
<1>5. TypeOK'
  BY <1>1, <1>2, <1>4 DEF CbInv, TypeOK, images
<1>6. ASSUME NEW q \in CPs \ {p} PROVE HoldsOK(q)' /\ OpenOK(q)' /\ LocalOK(q)'
  BY <1>1, <1>2, <1>4, OthersKeep DEF images
<1>7. HoldsOK(p)' /\ OpenOK(p)' /\ LocalOK(p)'
  <2>1. local[p].resolved = {}
    BY <1>1 DEF CbInv, LocalOK, Stands
  <2>2. QED
    BY <1>1, <1>2, <1>4, <2>1 DEF HoldsOK, OpenOK, LocalOK, Stands
<1>8. QED
  BY <1>4, <1>5, <1>6, <1>7 DEF CbInv

-----------------------------------------------------------------------------
(* Submitting the current buffers of some processors, which record.        *)
LEMMA SubmitAllKeeps ==
  ASSUME CbInv, NEW ps \in SUBSET CPs, \A p \in ps : Active(p) /\ CanSubmit(p), SubmitAll(ps)
  PROVE  /\ BuffersInv(buf', gpu', count.labels)
         /\ \A p \in ps : buf'[p][current[p]].keeps = Cur(p).keeps
         /\ \A q \in CPs \ ps : buf'[q] = buf[q]
<1>1. /\ buf \in [CPs -> [Slots -> Buffer]] /\ gpu \in [CPs -> Seq(Slots)]
      /\ count.labels \in Nat
      /\ \A p \in CPs : \A s \in Slots : Sound(buf[p][s], count.labels)
      /\ \A p \in CPs : \A i \in DOMAIN gpu[p] : buf[p][gpu[p][i]].executed
  BY DEF CbInv, BuffersInv, TypeOK, Count
<1>2. /\ buf' = [p \in CPs |-> IF p \in ps THEN [buf[p] EXCEPT ![current[p]] = Submitted(@)]
                               ELSE buf[p]]
      /\ gpu' = [p \in CPs |-> IF p \in ps THEN Append(gpu[p], current[p]) ELSE gpu[p]]
  BY DEF SubmitAll
<1>3. \A q \in CPs \ ps : buf'[q] = buf[q] /\ gpu'[q] = gpu[q]
  BY <1>2
<1>4. ASSUME NEW p \in ps
      PROVE  /\ buf'[p] \in [Slots -> Buffer] /\ gpu'[p] \in Seq(Slots)
             /\ \A s \in Slots : Sound(buf'[p][s], count.labels)
             /\ \A i \in DOMAIN gpu'[p] : buf'[p][gpu'[p][i]].executed
             /\ buf'[p][current[p]].keeps = Cur(p).keeps
  <2> DEFINE s == current[p]
             b == Submitted(buf[p][s])
  <2>1. s \in Slots /\ Cur(p) = buf[p][s] /\ buf[p][s].open
    BY <1>4, CurrentFacts DEF CanSubmit
  <2>2. buf[p][s] \in Buffer /\ Sound(buf[p][s], count.labels)
    BY <1>1, <2>1
  <2>3. b \in Buffer /\ Sound(b, count.labels) /\ b.executed /\ b.keeps = buf[p][s].keeps
    BY <1>1, <2>1, <2>2, SubmittedIsSound
  <2>4. buf'[p] = [buf[p] EXCEPT ![s] = b] /\ gpu'[p] = Append(gpu[p], s)
    BY <1>2
  <2> HIDE DEF b, s
  <2>5. buf[p] \in [Slots -> Buffer] /\ gpu[p] \in Seq(Slots)
    BY <1>1
  <2>6. /\ buf'[p] \in [Slots -> Buffer] /\ buf'[p][s] = b
        /\ \A r \in Slots \ {s} : buf'[p][r] = buf[p][r]
    BY <2>1, <2>3, <2>4, <2>5
  <2>7. /\ gpu'[p] \in Seq(Slots) /\ Len(gpu[p]) \in Nat /\ DOMAIN gpu[p] = 1 .. Len(gpu[p])
        /\ DOMAIN gpu'[p] = 1 .. Len(gpu[p]) + 1
        /\ \A i \in 1 .. Len(gpu[p]) : gpu'[p][i] = gpu[p][i]
        /\ gpu'[p][Len(gpu[p]) + 1] = s
    <3>1. PICK w : w = gpu[p]
      OBVIOUS
    <3>2. w \in Seq(Slots) /\ gpu'[p] = Append(w, s)
      BY <2>4, <2>5, <3>1
    <3>3. /\ Append(w, s) \in Seq(Slots) /\ Len(w) \in Nat /\ DOMAIN w = 1 .. Len(w)
          /\ DOMAIN Append(w, s) = 1 .. Len(w) + 1
          /\ \A i \in 1 .. Len(w) : Append(w, s)[i] = w[i]
          /\ Append(w, s)[Len(w) + 1] = s
      BY ONLY <2>1, <3>2
    <3>4. QED
      BY <3>1, <3>2, <3>3
  <2>8. ASSUME NEW i \in DOMAIN gpu'[p] PROVE buf'[p][gpu'[p][i]].executed
    <3>1. i \in 1 .. Len(gpu[p]) \/ i = Len(gpu[p]) + 1
      BY <2>7
    <3>2. CASE i = Len(gpu[p]) + 1
      BY <2>3, <2>6, <2>7, <3>2
    <3>3. CASE i \in 1 .. Len(gpu[p])
      <4>1. gpu'[p][i] = gpu[p][i] /\ gpu[p][i] \in Slots /\ buf[p][gpu[p][i]].executed
        BY <1>1, <2>5, <2>7, <3>3
      <4>2. QED
        BY <2>3, <2>6, <4>1
    <3>4. QED
      BY <3>1, <3>2, <3>3
  <2>9. \A r \in Slots : Sound(buf'[p][r], count.labels)
    BY <1>1, <2>3, <2>6
  <2>10. buf'[p][current[p]].keeps = Cur(p).keeps
    BY <2>1, <2>3, <2>6 DEF s
  <2>11. QED
    BY <2>6, <2>7, <2>8, <2>9, <2>10
<1>5. buf' \in [CPs -> [Slots -> Buffer]] /\ gpu' \in [CPs -> Seq(Slots)]
  <2>1. DOMAIN buf' = CPs /\ DOMAIN gpu' = CPs
    BY <1>2
  <2>2. \A q \in CPs : buf'[q] \in [Slots -> Buffer] /\ gpu'[q] \in Seq(Slots)
    BY <1>1, <1>3, <1>4
  <2>3. QED
    BY <1>2, <2>2
<1>6. BuffersInv(buf', gpu', count.labels)
  BY <1>1, <1>3, <1>4, <1>5 DEF BuffersInv
<1>7. QED
  BY <1>3, <1>4, <1>6

(* A flush: the current buffer is submitted, never a reason to exit.       *)
LEMMA FlushKeeps ==
  ASSUME CbInv, NEW p \in CPs, NEW then \in {"batch", "submitted", "idle"}, Flush(p, then)
  PROVE  CbInv'
<1>1. pc[p] = "batch" /\ mutex = None
  BY DEF Flush
<1>2. Active(p) /\ CanSubmit(p) /\ current[p] \in Slots
  <2>1. Active(p)
    BY <1>1 DEF CbInv, HoldsOK
  <2>2. QED
    BY <1>1, <2>1, Alone, AllRecord, CurrentFacts
<1>3. /\ SubmitAll({p}) /\ mutex' = p
      /\ current' = [current EXCEPT ![p] = (@ + 1) % NumSlots]
      /\ local' = [local EXCEPT ![p].then = then, ![p].on = current[p]]
      /\ pc' = [pc EXCEPT ![p] = "next"]
      /\ count' = IF then = "idle" THEN count ELSE [count EXCEPT !.flushes = @ + 1]
      /\ UNCHANGED <<images, events, exited>>
  BY <1>2 DEF Flush
<1>4. /\ count' \in Count /\ count'.labels = count.labels
  BY <1>3 DEF CbInv, TypeOK, Count
<1>5. /\ pc' \in [CPs -> Places] /\ pc'[p] = "next" /\ \A q \in CPs \ {p} : pc'[q] = pc[q]
  BY <1>3 DEF CbInv, TypeOK, Places
<1>6. /\ local' \in [CPs -> Local] /\ local'[p].then = then
      /\ local'[p].resolved = local[p].resolved
      /\ \A q \in CPs \ {p} : local'[q] = local[q]
  <2>1. local[p] \in Local /\ local \in [CPs -> Local] /\ then \in Places
    BY DEF CbInv, TypeOK, Places
  <2>2. [local[p] EXCEPT !.then = then, !.on = current[p]] \in Local
    BY <1>2, <2>1 DEF Local
  <2>3. local' = [local EXCEPT ![p] = [local[p] EXCEPT !.then = then, !.on = current[p]]]
    BY <1>3, <2>1
  <2>4. QED
    BY <2>1, <2>2, <2>3 DEF Local
<1>7. /\ current' \in [CPs -> 0 .. NumSlots] /\ current'[p] # NumSlots
      /\ \A q \in CPs \ {p} : current'[q] = current[q]
  <2>1. current[p] \in Nat /\ NumSlots \in Nat \ {0} /\ current \in [CPs -> 0 .. NumSlots]
    BY <1>2, CommandAssumption DEF Slots, CbInv, TypeOK
  <2>2. PICK n : n = (current[p] + 1) % NumSlots
    OBVIOUS
  <2>3. n \in 0 .. NumSlots /\ n # NumSlots
    BY <2>1, <2>2
  <2>4. current' = [current EXCEPT ![p] = n]
    BY <1>3, <2>2
  <2>5. QED
    BY <2>1, <2>3, <2>4
<1>8. /\ BuffersInv(buf', gpu', count'.labels)
      /\ \A q \in CPs \ {p} : buf'[q] = buf[q]
  BY <1>2, <1>3, <1>4, SubmitAllKeeps
<1>9. TypeOK'
  BY <1>3, <1>4, <1>5, <1>6, <1>7 DEF CbInv, TypeOK, images
<1>10. ASSUME NEW q \in CPs \ {p} PROVE HoldsOK(q)' /\ OpenOK(q)' /\ LocalOK(q)'
  BY <1>1, <1>3, <1>5, <1>6, <1>7, <1>8, OthersKeep DEF images
<1>11. HoldsOK(p)' /\ OpenOK(p)' /\ LocalOK(p)'
  <2>1. local[p].resolved = {}
    BY <1>1 DEF CbInv, LocalOK, Stands
  <2>2. QED
    BY <1>3, <1>5, <1>6, <1>7, <2>1 DEF HoldsOK, OpenOK, LocalOK, Stands, Active
<1>12. QED
  BY <1>8, <1>9, <1>10, <1>11 DEF CbInv

(* No set-up in progress.                                                  *)
LEMMA NoLocalFacts ==
  NoLocal \in Local /\ NoLocal.resolved = {} /\ NoLocal.bound = {} /\ NoLocal.stale = FALSE
BY CommandAssumption DEF NoLocal, Local, Places, Slots

(* The buffer after the flushed one is waited for and begun again.         *)
LEMMA BeginNextKeeps ==
  ASSUME CbInv, NEW p \in CPs, BeginNext(p)
  PROVE  CbInv'
<1> DEFINE s == current[p]
           b == BegunAgain(buf[p][s])
<1>1. /\ pc[p] = "next" /\ FenceDone(p, s) /\ mutex = p /\ Active(p)
      /\ buf' = [buf EXCEPT ![p][s] = b]
      /\ mutex' = None /\ pc' = [pc EXCEPT ![p] = local[p].then]
      /\ local' = IF local[p].then = "submitted" THEN local ELSE [local EXCEPT ![p] = NoLocal]
      /\ UNCHANGED <<current, gpu, images, events, count, exited>>
  BY DEF BeginNext, CbInv, HoldsOK
<1>2. local[p].then \in {"batch", "submitted", "idle"} /\ local[p].resolved = {}
  BY <1>1 DEF CbInv, HoldsOK, LocalOK, Stands
<1>3. /\ s \in Slots /\ buf[p][s] \in Buffer /\ Sound(buf[p][s], count.labels)
      /\ count.labels \in Nat /\ buf \in [CPs -> [Slots -> Buffer]]
  BY <1>1, CurrentFacts DEF Cur
<1>4. b \in Buffer /\ Sound(b, count.labels) /\ b.open /\ ~b.executed
  BY <1>3, BegunAgainIsSound
<1>5. \A i \in DOMAIN gpu[p] : gpu[p][i] # s
  <2>1. \A i \in DOMAIN gpu[p] : gpu[p][i] = s => buf[p][s].executed
    BY DEF CbInv, BuffersInv
  <2>2. QED
    BY <1>1, <2>1, DoneIsNotPending
<1>6. s = current[p]
  OBVIOUS
<1> HIDE DEF b, s
<1>7. Changed(buf, buf', p, s, b)
  BY <1>1, <1>3, <1>4, OneIsChanged
<1>8. BuffersInv(buf', gpu, count.labels)
  BY <1>3, <1>4, <1>5, <1>7, ChangedIsSound DEF CbInv
<1>9. CanSubmit(p)'
  BY <1>1, <1>4, <1>6, <1>7 DEF Changed, CanSubmit, Cur
<1>10. \A q \in CPs \ {p} : buf'[q] = buf[q]
  BY <1>1, <1>3
<1>11. /\ pc' \in [CPs -> Places] /\ pc'[p] = local[p].then
       /\ \A q \in CPs \ {p} : pc'[q] = pc[q]
  BY <1>1, <1>2 DEF CbInv, TypeOK, Places
<1>12. /\ local' \in [CPs -> Local] /\ local'[p].resolved = {}
       /\ \A q \in CPs \ {p} : local'[q] = local[q]
  BY <1>1, <1>2, NoLocalFacts DEF CbInv, TypeOK
<1>13. TypeOK'
  BY <1>1, <1>11, <1>12 DEF CbInv, TypeOK, images
<1>14. ASSUME NEW q \in CPs \ {p} PROVE HoldsOK(q)' /\ OpenOK(q)' /\ LocalOK(q)'
  BY <1>1, <1>10, <1>11, <1>12, OthersKeep DEF images
<1>15. HoldsOK(p)' /\ OpenOK(p)' /\ LocalOK(p)'
  BY <1>1, <1>2, <1>9, <1>11, <1>12 DEF HoldsOK, OpenOK, LocalOK, Stands, Active
<1>16. QED
  BY <1>1, <1>8, <1>13, <1>14, <1>15 DEF CbInv

(* What was submitted is waited for without the mutex: a readback may go   *)
(* on meanwhile, of this processor's current buffer too.                   *)
LEMMA WaitForSubmittedKeeps ==
  ASSUME CbInv, NEW p \in CPs, WaitForSubmitted(p)
  PROVE  CbInv'
<1> DEFINE s == local[p].on
           b == Finalized(buf[p][s], FALSE)
<1>1. /\ pc[p] = "submitted" /\ FenceDone(p, s) /\ Active(p)
      /\ buf' = [buf EXCEPT ![p][s] = b]
      /\ pc' = [pc EXCEPT ![p] = "batch"] /\ local' = [local EXCEPT ![p] = NoLocal]
      /\ UNCHANGED <<current, gpu, mutex, images, events, count, exited>>
  BY DEF WaitForSubmitted, CbInv, HoldsOK
<1>2. /\ s \in Slots /\ buf[p][s] \in Buffer /\ Sound(buf[p][s], count.labels)
      /\ count.labels \in Nat /\ buf \in [CPs -> [Slots -> Buffer]]
  BY DEF CbInv, BuffersInv, TypeOK, Local, Count
<1>3. /\ b \in Buffer /\ Sound(b, count.labels) /\ ~b.executed
      /\ ~buf[p][s].executed => b = buf[p][s]
  BY <1>2, FinalizedIsSound
<1>4. \A i \in DOMAIN gpu[p] : gpu[p][i] # s
  <2>1. \A i \in DOMAIN gpu[p] : gpu[p][i] = s => buf[p][s].executed
    BY DEF CbInv, BuffersInv
  <2>2. QED
    BY <1>1, <2>1, DoneIsNotPending
<1> HIDE DEF b, s
<1>5. Changed(buf, buf', p, s, b)
  BY <1>1, <1>2, <1>3, OneIsChanged
<1>6. BuffersInv(buf', gpu, count.labels)
  BY <1>2, <1>3, <1>4, <1>5, ChangedIsSound DEF CbInv
<1>7. \A q \in CPs \ {p} : buf'[q] = buf[q]
  BY <1>1, <1>2
<1>8. /\ pc' \in [CPs -> Places] /\ pc'[p] = "batch" /\ \A q \in CPs \ {p} : pc'[q] = pc[q]
  BY <1>1 DEF CbInv, TypeOK, Places
<1>9. /\ local' \in [CPs -> Local] /\ local'[p].resolved = {}
      /\ \A q \in CPs \ {p} : local'[q] = local[q]
  BY <1>1, NoLocalFacts DEF CbInv, TypeOK
<1>10. TypeOK'
  BY <1>1, <1>8, <1>9 DEF CbInv, TypeOK, images
<1>11. \A q \in CPs : (\E r \in CPs : pc[r] = "resume" /\ q \in local[r].todo) =>
                      \E r \in CPs : pc'[r] = "resume" /\ q \in local'[r].todo
  BY <1>1, <1>8, <1>9
<1>12. ASSUME NEW q \in CPs \ {p} PROVE HoldsOK(q)' /\ OpenOK(q)' /\ LocalOK(q)'
  <2>1. UNCHANGED <<current[q], buf[q], pc[q], local[q], parked[q]>>
    BY <1>1, <1>7, <1>8, <1>9 DEF images
  <2>2. HoldsOK(q)'
    BY <1>1, <2>1 DEF CbInv, HoldsOK, Active
  <2>3. OpenOK(q)'
    BY <1>11, <2>1 DEF CbInv, OpenOK, Active, CanSubmit, Cur
  <2>4. LocalOK(q)'
    BY <2>1 DEF CbInv, LocalOK, Stands, Waits, Cur
  <2>5. QED
    BY <2>2, <2>3, <2>4
<1>13. HoldsOK(p)' /\ LocalOK(p)'
  BY <1>1, <1>8, <1>9 DEF HoldsOK, LocalOK, Stands, Active
<1>14. OpenOK(p)'
  <2>1. CASE CanSubmit(p)
    <3>1. buf'[p][current[p]] = buf[p][current[p]]
      <4>1. CASE s = current[p]
        BY <1>3, <1>5, <2>1, <4>1 DEF CanSubmit, Cur, Changed
      <4>2. CASE s # current[p]
        BY <1>1, <1>2, <1>5, <4>2, CurrentFacts DEF Changed
      <4>3. QED
        BY <4>1, <4>2
    <3>2. QED
      BY <1>1, <2>1, <3>1 DEF OpenOK, Active, CanSubmit, Cur
  <2>2. CASE ~CanSubmit(p)
    <3>1. \E r \in CPs : pc[r] = "resume" /\ p \in local[r].todo
      BY <1>1, <2>2 DEF CbInv, OpenOK
    <3>2. QED
      BY <1>1, <1>11, <3>1 DEF OpenOK, Active
  <2>3. QED
    BY <2>1, <2>2
<1>15. QED
  BY <1>1, <1>6, <1>10, <1>12, <1>13, <1>14 DEF CbInv

(* Waiting for all of a processor's buffers.                               *)
LEMMA WaitAllBeginKeeps ==
  ASSUME CbInv, NEW p \in CPs, WaitAllBegin(p)
  PROVE  CbInv'
<1>1. /\ pc[p] = "batch" /\ mutex = None /\ mutex' = p /\ pc' = [pc EXCEPT ![p] = "all"]
      /\ count' = [count EXCEPT !.flushes = @ + 1]
      /\ UNCHANGED <<buf, current, gpu, local, images, events, exited>>
  BY DEF WaitAllBegin
<1>2. /\ pc' \in [CPs -> Places] /\ pc'[p] = "all" /\ \A q \in CPs \ {p} : pc'[q] = pc[q]
  BY <1>1 DEF CbInv, TypeOK, Places
<1>3. count' \in Count /\ count'.labels = count.labels
  BY <1>1 DEF CbInv, TypeOK, Count
<1>4. Active(p) /\ CanSubmit(p) /\ local[p].resolved = {}
  <2>1. Active(p) /\ local[p].resolved = {}
    BY <1>1 DEF CbInv, HoldsOK, LocalOK, Stands
  <2>2. QED
    BY <1>1, <2>1, Alone, AllRecord
<1>5. TypeOK' /\ BuffersInv(buf', gpu', count'.labels)
  BY <1>1, <1>2, <1>3 DEF CbInv, TypeOK, images
<1>6. ASSUME NEW q \in CPs \ {p} PROVE HoldsOK(q)' /\ OpenOK(q)' /\ LocalOK(q)'
  BY <1>1, <1>2, OthersKeep DEF images
<1>7. HoldsOK(p)' /\ OpenOK(p)' /\ LocalOK(p)'
  BY <1>1, <1>2, <1>4 DEF HoldsOK, OpenOK, LocalOK, Stands, Active, CanSubmit, Cur
<1>8. QED
  BY <1>5, <1>6, <1>7 DEF CbInv

(* All of them are waited for and reset.                                   *)
LEMMA WaitAllKeeps ==
  ASSUME CbInv, NEW p \in CPs, WaitAll(p)
  PROVE  CbInv'
<1> DEFINE row == [s \in Slots |-> Finalized(buf[p][s], TRUE)]
<1>1. /\ pc[p] = "all" /\ mutex = p /\ Active(p) /\ \A s \in Slots : FenceDone(p, s)
      /\ buf' = [buf EXCEPT ![p] = row]
      /\ mutex' = None /\ pc' = [pc EXCEPT ![p] = "batch"]
      /\ UNCHANGED <<current, gpu, local, images, events, count, exited>>
  BY DEF WaitAll, CbInv, HoldsOK
<1>2. /\ buf \in [CPs -> [Slots -> Buffer]] /\ count.labels \in Nat
      /\ \A s \in Slots : Sound(buf[p][s], count.labels)
      /\ gpu \in [CPs -> Seq(Slots)]
  BY DEF CbInv, BuffersInv, TypeOK, Count
<1>3. /\ row \in [Slots -> Buffer]
      /\ \A s \in Slots : /\ Sound(row[s], count.labels) /\ ~row[s].executed
                          /\ ~buf[p][s].executed => row[s] = buf[p][s]
  <2>1. ASSUME NEW s \in Slots
        PROVE  LET d == Finalized(buf[p][s], TRUE) IN
               /\ d \in Buffer /\ Sound(d, count.labels) /\ ~d.executed
               /\ ~buf[p][s].executed => d = buf[p][s]
    <3>1. buf[p][s] \in Buffer /\ Sound(buf[p][s], count.labels) /\ TRUE \in BOOLEAN
      BY <1>2
    <3>2. QED
      BY <1>2, <3>1, FinalizedIsSound
  <2>2. QED
    BY <2>1
<1>4. DOMAIN gpu[p] = {}
  <2>1. ASSUME NEW i \in DOMAIN gpu[p] PROVE FALSE
    <3>1. gpu[p][i] \in Slots /\ buf[p][gpu[p][i]].executed
      BY <1>2 DEF CbInv, BuffersInv
    <3>2. QED
      BY <1>1, <3>1, DoneIsNotPending
  <2>2. QED
    BY <2>1
<1> HIDE DEF row
<1>5. /\ buf' \in [CPs -> [Slots -> Buffer]] /\ buf'[p] = row
      /\ \A q \in CPs \ {p} : buf'[q] = buf[q]
  BY <1>1, <1>2, <1>3
<1>6. BuffersInv(buf', gpu, count.labels)
  <2>1. \A q \in CPs : \A s \in Slots : Sound(buf'[q][s], count.labels)
    BY <1>3, <1>5 DEF CbInv, BuffersInv
  <2>2. \A q \in CPs : \A i \in DOMAIN gpu[q] : buf'[q][gpu[q][i]].executed
    BY <1>4, <1>5 DEF CbInv, BuffersInv
  <2>3. QED
    BY <1>2, <1>5, <2>1, <2>2 DEF BuffersInv
<1>7. current[p] \in Slots /\ CanSubmit(p) /\ local[p].resolved = {}
  <2>1. \A q \in CPs : pc[q] \notin {"next", "resume"}
    BY <1>1, Alone
  <2>2. QED
    BY <1>1, <2>1, AllRecord, CurrentFacts DEF CbInv, LocalOK, Stands
<1>8. CanSubmit(p)'
  BY <1>1, <1>3, <1>5, <1>7 DEF CanSubmit, Cur
<1>9. /\ pc' \in [CPs -> Places] /\ pc'[p] = "batch" /\ \A q \in CPs \ {p} : pc'[q] = pc[q]
  BY <1>1 DEF CbInv, TypeOK, Places
<1>10. TypeOK'
  BY <1>1, <1>9 DEF CbInv, TypeOK, images
<1>11. ASSUME NEW q \in CPs \ {p} PROVE HoldsOK(q)' /\ OpenOK(q)' /\ LocalOK(q)'
  BY <1>1, <1>5, <1>9, OthersKeep DEF images
<1>12. HoldsOK(p)' /\ OpenOK(p)' /\ LocalOK(p)'
  BY <1>1, <1>7, <1>8, <1>9 DEF HoldsOK, OpenOK, LocalOK, Stands, Active
<1>13. QED
  BY <1>1, <1>6, <1>10, <1>11, <1>12 DEF CbInv

-----------------------------------------------------------------------------
(* A readback submits what every processor has recorded.                   *)
LEMMA FinishBeginKeeps ==
  ASSUME CbInv, NEW p \in CPs, NEW then \in {"batch", "setup", "bound"}, FinishBegin(p, then),
         pc[p] = then, mutex \in {p, None}, UNCHANGED <<current, parked>>,
         count' \in Count, count'.labels = count.labels
  PROVE  CbInv'
<1> DEFINE ps == {q \in CPs : Active(q)}
<1>1. \A q \in CPs : pc[q] \notin {"next", "resume", "all"}
      /\ (q # p => pc[q] \in {"idle", "batch", "submitted"})
  BY Alone
<1>2. Active(p) /\ \A q \in ps : Active(q) /\ CanSubmit(q)
  BY <1>1, AllRecord DEF CbInv, HoldsOK
<1>3. /\ SubmitAll(ps) /\ mutex' = p
      /\ local' = [local EXCEPT ![p].then = then, ![p].todo = ps]
      /\ pc' = [pc EXCEPT ![p] = "resume"]
      /\ exited' = exited
  BY <1>2 DEF FinishBegin
<1>4. ps \in SUBSET CPs /\ p \in ps /\ \A q \in CPs : q \in ps <=> Active(q)
  BY <1>2
<1> HIDE DEF ps
<1>5. /\ pc' \in [CPs -> Places] /\ pc'[p] = "resume" /\ \A q \in CPs \ {p} : pc'[q] = pc[q]
  BY <1>3 DEF CbInv, TypeOK, Places
<1>6. /\ local' \in [CPs -> Local] /\ local'[p].then = then /\ local'[p].todo = ps
      /\ local'[p].resolved = local[p].resolved
      /\ \A q \in CPs \ {p} : local'[q] = local[q]
  <2>1. local[p] \in Local /\ local \in [CPs -> Local] /\ then \in Places
    BY DEF CbInv, TypeOK, Places
  <2>2. [local[p] EXCEPT !.then = then, !.todo = ps] \in Local
    BY <1>4, <2>1 DEF Local
  <2>3. local' = [local EXCEPT ![p] = [local[p] EXCEPT !.then = then, !.todo = ps]]
    BY <1>3, <2>1
  <2>4. QED
    BY <2>1, <2>2, <2>3 DEF Local
<1>7. /\ BuffersInv(buf', gpu', count'.labels)
      /\ buf'[p][current[p]].keeps = Cur(p).keeps
      /\ \A q \in CPs \ ps : buf'[q] = buf[q]
  BY <1>2, <1>3, <1>4, SubmitAllKeeps
<1>8. TypeOK'
  BY <1>3, <1>5, <1>6 DEF CbInv, TypeOK
<1>9. \A q \in CPs : Active(q)' <=> q \in ps
  BY <1>4 DEF Active
<1>10. ASSUME NEW q \in CPs PROVE HoldsOK(q)'
  <2>1. CASE q = p
    BY <1>3, <1>4, <1>5, <1>6, <1>9, <2>1 DEF HoldsOK
  <2>2. CASE q # p
    BY <1>1, <1>4, <1>5, <1>6, <1>9, <2>2 DEF CbInv, HoldsOK
  <2>3. QED
    BY <2>1, <2>2
<1>11. ASSUME NEW q \in CPs PROVE OpenOK(q)'
  <2>1. CASE q \in ps
    BY <1>5, <1>6, <1>9, <2>1 DEF OpenOK
  <2>2. CASE q \notin ps
    BY <1>4, <1>7, <1>9, <2>2 DEF CbInv, OpenOK
  <2>3. QED
    BY <2>1, <2>2
<1>12. ASSUME NEW q \in CPs PROVE LocalOK(q)'
  <2>1. CASE q = p
    <3>1. /\ Stands(p, "setup")' <=> Stands(p, "setup")
          /\ Cur(p)'.keeps = Cur(p).keeps /\ Waits(p)'
      BY <1>4, <1>5, <1>6, <1>7 DEF Stands, Cur, Waits
    <3>2. QED
      BY <1>6, <2>1, <3>1 DEF CbInv, LocalOK
  <2>2. CASE q # p
    <3>1. pc'[q] = pc[q] /\ local'[q] = local[q] /\ pc[q] \in {"idle", "batch", "submitted"}
      BY <1>1, <1>5, <1>6, <2>2
    <3>2. QED
      BY <3>1 DEF CbInv, LocalOK, Stands
  <2>3. QED
    BY <2>1, <2>2
<1>13. QED
  BY <1>7, <1>8, <1>10, <1>11, <1>12 DEF CbInv

(* SynchronizeGpu is a readback without a set-up.                          *)
LEMMA SynchronizeGpuKeeps ==
  ASSUME CbInv, NEW p \in CPs, SynchronizeGpu(p)
  PROVE  CbInv'
<1>1. /\ pc[p] = "batch" /\ mutex = None /\ FinishBegin(p, "batch")
      /\ count' = [count EXCEPT !.flushes = @ + 1] /\ UNCHANGED <<current, parked>>
  BY DEF SynchronizeGpu, images
<1>2. count' \in Count /\ count'.labels = count.labels
  BY <1>1 DEF CbInv, TypeOK, Count
<1>3. QED
  BY <1>1, <1>2, FinishBeginKeeps

(* A fault in the middle of a set-up.                                      *)
LEMMA FaultKeeps ==
  ASSUME CbInv, NEW p \in CPs, NEW downloaded, Fault(p, downloaded)
  PROVE  CbInv'
<1>1. /\ pc[p] \in {"setup", "bound"} /\ FinishBegin(p, pc[p])
      /\ count' = [count EXCEPT !.faults = @ + 1] /\ UNCHANGED <<current, parked>>
  BY DEF Fault
<1>2. count' \in Count /\ count'.labels = count.labels
  BY <1>1 DEF CbInv, TypeOK, Count
<1>3. mutex = p
  BY <1>1 DEF CbInv, HoldsOK
<1>4. QED
  BY <1>1, <1>2, <1>3, FinishBeginKeeps

(* One processor's buffer is waited for and begun again: what a set-up     *)
(* points to is parked before the buffer lets it go.                       *)
LEMMA ResumeKeeps ==
  ASSUME CbInv, NEW p \in CPs, NEW q \in CPs, Resume(p, q)
  PROVE  CbInv'
<1> DEFINE s == current[q]
           b == BegunAgain(buf[q][s])
           left == local[p].todo \ {q}
           then == local[p].then
           kept == IF Cur(q).executed THEN Cur(q).keeps ELSE {}
<1>1. /\ pc[p] = "resume" /\ q \in local[p].todo /\ FenceDone(q, s)
      /\ buf' = [buf EXCEPT ![q][s] = b]
      /\ parked' = Parked(p, then, kept)
      /\ local' = [local EXCEPT ![p].todo = left, ![p].stale = @ \/ q = p]
      /\ pc' = [pc EXCEPT ![p] = IF left = {} THEN then ELSE "resume"]
      /\ mutex' = IF left = {} /\ then = "batch" THEN None ELSE mutex
      /\ UNCHANGED <<current, gpu, cached, dirty, events, count, exited>>
  BY DEF Resume
<1>2. /\ mutex = p /\ then \in {"batch", "setup", "bound"} /\ Active(p) /\ Active(q)
      /\ \A r \in local[p].todo : Active(r)
  BY <1>1 DEF CbInv, HoldsOK
<1>3. \A r \in CPs : r # p => pc[r] \in {"idle", "batch", "submitted"}
  BY <1>2, Alone
<1>4. /\ s \in Slots /\ buf[q][s] \in Buffer /\ Sound(buf[q][s], count.labels)
      /\ Cur(q) = buf[q][s] /\ current[p] \in Slots
      /\ count.labels \in Nat /\ buf \in [CPs -> [Slots -> Buffer]]
  BY <1>2, CurrentFacts DEF Cur
<1>5. /\ b \in Buffer /\ Sound(b, count.labels) /\ b.open /\ ~b.executed
      /\ ~buf[q][s].executed => b.keeps = buf[q][s].keeps
  BY <1>4, BegunAgainIsSound
<1>6. \A i \in DOMAIN gpu[q] : gpu[q][i] # s
  <2>1. \A i \in DOMAIN gpu[q] : gpu[q][i] = s => buf[q][s].executed
    BY DEF CbInv, BuffersInv
  <2>2. QED
    BY <1>1, <2>1, DoneIsNotPending
<1>7. kept \in SUBSET Things /\ (Cur(q).executed => kept = Cur(q).keeps)
  BY <1>4, BufferFacts
<1>8. s = current[q] /\ left = local[p].todo \ {q}
  OBVIOUS
<1> HIDE DEF b, s, kept, left
<1>9. Changed(buf, buf', q, s, b)
  BY <1>1, <1>4, <1>5, OneIsChanged
<1>10. BuffersInv(buf', gpu, count.labels)
  BY <1>4, <1>5, <1>6, <1>9, ChangedIsSound DEF CbInv
<1>11. /\ pc' \in [CPs -> Places] /\ pc'[p] = IF left = {} THEN then ELSE "resume"
       /\ \A r \in CPs \ {p} : pc'[r] = pc[r]
  BY <1>1, <1>2 DEF CbInv, TypeOK, Places
<1>12. /\ local' \in [CPs -> Local] /\ local'[p].todo = left /\ local'[p].then = then
       /\ local'[p].stale = (local[p].stale \/ q = p)
       /\ local'[p].resolved = local[p].resolved /\ local'[p].bound = local[p].bound
       /\ \A r \in CPs \ {p} : local'[r] = local[r]
  <2>1. local[p] \in Local /\ local \in [CPs -> Local]
    BY DEF CbInv, TypeOK
  <2>2. PICK stale \in BOOLEAN : stale = (local[p].stale \/ q = p)
    BY <2>1 DEF Local
  <2>3. left \in SUBSET CPs
    BY <1>8, <2>1 DEF Local
  <2>4. [local[p] EXCEPT !.todo = left, !.stale = stale] \in Local
    BY <2>1, <2>2, <2>3 DEF Local
  <2>5. local' = [local EXCEPT ![p] = [local[p] EXCEPT !.todo = left, !.stale = stale]]
    BY <1>1, <2>1, <2>2
  <2>6. QED
    BY <2>1, <2>2, <2>4, <2>5 DEF Local
<1>13. /\ parked' \in [CPs -> SUBSET Things]
       /\ parked'[p] = IF then = "setup" THEN parked[p] \cup kept ELSE parked[p]
       /\ \A r \in CPs \ {p} : parked'[r] = parked[r]
  <2>1. parked \in [CPs -> SUBSET Things] /\ parked[p] \cup kept \in SUBSET Things
    BY <1>7 DEF CbInv, TypeOK
  <2>2. QED
    BY <1>1, <2>1 DEF Parked
<1>14. \A r \in CPs \ {q} : buf'[r] = buf[r]
  BY <1>1, <1>4
<1> HIDE DEF then
<1>15. TypeOK'
  BY <1>1, <1>11, <1>12, <1>13 DEF CbInv, TypeOK
<1>16. ASSUME NEW r \in CPs PROVE HoldsOK(r)'
  <2>1. CASE r = p
    BY <1>1, <1>2, <1>8, <1>11, <1>12, <2>1 DEF HoldsOK, Active
  <2>2. CASE r # p
    BY <1>1, <1>3, <1>11, <1>12, <2>2 DEF CbInv, HoldsOK, Active
  <2>3. QED
    BY <2>1, <2>2
<1>17. ASSUME NEW r \in CPs PROVE OpenOK(r)'
  <2>1. CASE r = q
    BY <1>1, <1>2, <1>5, <1>8, <1>9, <2>1 DEF Changed, OpenOK, CanSubmit, Cur, Active
  <2>2. CASE r # q
    <3>1. buf'[r] = buf[r] /\ current' = current
      BY <1>1, <1>14, <2>2
    <3>2. ASSUME NEW x \in CPs, pc[x] = "resume", r \in local[x].todo
          PROVE  pc'[p] = "resume" /\ r \in local'[p].todo
      <4>1. x = p
        BY <1>3, <3>2
      <4>2. QED
        BY <1>8, <1>11, <1>12, <2>2, <3>2, <4>1
    <3>3. pc[r] # "next"
      BY <1>1, <1>3
    <3>4. QED
      BY <3>1, <3>2, <3>3 DEF CbInv, OpenOK, CanSubmit, Cur, Active
  <2>3. QED
    BY <2>1, <2>2
<1>18. ASSUME NEW r \in CPs PROVE LocalOK(r)'
  <2>1. CASE r = p
    <3>1. /\ Stands(p, "setup")' <=> then = "setup"
          /\ Stands(p, "bound")' <=> then = "bound"
          /\ Stands(p, "setup") <=> then = "setup"
          /\ Stands(p, "bound") <=> then = "bound"
      BY <1>1, <1>2, <1>11, <1>12 DEF Stands, then
    <3>2. /\ q # p => Cur(p)' = Cur(p)
          /\ Cur(p)'.keeps = Cur(p).keeps \/ (q = p /\ Cur(p).executed)
      BY <1>1, <1>4, <1>5, <1>8, <1>9, <1>14 DEF Cur, Changed
    <3>3. then = "setup" => local'[p].resolved \subseteq parked'[p] \cup Cur(p)'.keeps
      BY <1>7, <1>12, <1>13, <3>1, <3>2 DEF CbInv, LocalOK
    <3>4. q # p /\ Waits(p) => Waits(p)'
      BY <1>8, <1>11, <1>12 DEF Waits
    <3>5. then = "setup" \/ then = "bound" =>
            local'[p].stale \/ Waits(p)' \/ local'[p].bound \subseteq Cur(p)'.keeps
      BY <1>12, <3>1, <3>2, <3>4 DEF CbInv, LocalOK
    <3>6. then = "setup" \/ local'[p].resolved = {}
      BY <1>12, <3>1 DEF CbInv, LocalOK
    <3>7. LocalOK(p)'
      BY <3>1, <3>3, <3>5, <3>6 DEF LocalOK
    <3>8. QED
      BY <2>1, <3>7
  <2>2. CASE r # p
    <3>1. pc'[r] = pc[r] /\ local'[r] = local[r] /\ pc[r] \in {"idle", "batch", "submitted"}
      BY <1>3, <1>11, <1>12, <2>2
    <3>2. QED
      BY <3>1 DEF CbInv, LocalOK, Stands
  <2>3. QED
    BY <2>1, <2>2
<1>19. QED
  BY <1>1, <1>10, <1>15, <1>16, <1>17, <1>18 DEF CbInv

-----------------------------------------------------------------------------
(* A step of a set-up, or of recording: the processor's thread has the     *)
(* mutex or takes it, and its current buffer, b now, goes on recording.    *)
SetUpStep(p, b, at) ==
  /\ pc[p] \in {"batch", "setup", "bound"} /\ mutex \in {p, None}
  /\ b \in Buffer /\ Sound(b, count'.labels) /\ Changed(buf, buf', p, current[p], b)
  /\ b.open = Cur(p).open /\ b.executed = Cur(p).executed
  /\ at \in {"batch", "setup", "bound"} /\ pc' = [pc EXCEPT ![p] = at]
  /\ at # "batch" => mutex' = p
  /\ local' \in [CPs -> Local] /\ \A q \in CPs \ {p} : local'[q] = local[q]
  /\ parked' \in [CPs -> SUBSET Things] /\ \A q \in CPs \ {p} : parked'[q] = parked[q]
  /\ count' \in Count /\ count.labels <= count'.labels
  /\ UNCHANGED <<current, gpu, exited>>
  /\ at = "setup" \/ local'[p].resolved = {}
  /\ local'[p].resolved \subseteq parked'[p] \cup b.keeps
  /\ at # "batch" => local'[p].stale \/ local'[p].bound \subseteq b.keeps

(* The processor of such a step, before it.                                *)
LEMMA SetUpFacts ==
  ASSUME CbInv, NEW p \in CPs, pc[p] \in {"batch", "setup", "bound"}, mutex \in {p, None}
  PROVE  /\ Active(p) /\ CanSubmit(p) /\ current[p] \in Slots
         /\ Cur(p) = buf[p][current[p]] /\ Cur(p) \in Buffer /\ Sound(Cur(p), count.labels)
         /\ \A i \in DOMAIN gpu[p] : gpu[p][i] = current[p] => Cur(p).executed
         /\ buf \in [CPs -> [Slots -> Buffer]] /\ count \in Count /\ count.labels \in Nat
         /\ local \in [CPs -> Local] /\ local[p] \in Local
         /\ parked \in [CPs -> SUBSET Things] /\ parked[p] \subseteq Things
<1>1. Active(p)
  BY DEF CbInv, HoldsOK
<1>2. \A q \in CPs : pc[q] \notin {"next", "resume"}
  BY Alone
<1>3. CanSubmit(p)
  BY <1>1, <1>2, AllRecord
<1>4. /\ count \in Count /\ local \in [CPs -> Local] /\ parked \in [CPs -> SUBSET Things]
  BY DEF CbInv, TypeOK
<1>5. QED
  BY <1>1, <1>3, <1>4, CurrentFacts

(* Such a step keeps the invariant of the processors.                      *)
LEMMA SetUpStepKeeps ==
  ASSUME CbInv, NEW p \in CPs, NEW b, NEW at, SetUpStep(p, b, at)
  PROVE  CbInv'
<1>1. /\ pc[p] \in {"batch", "setup", "bound"} /\ mutex \in {p, None}
      /\ at \in {"batch", "setup", "bound"} /\ pc' = [pc EXCEPT ![p] = at]
      /\ local' \in [CPs -> Local] /\ \A q \in CPs \ {p} : local'[q] = local[q]
      /\ parked' \in [CPs -> SUBSET Things] /\ \A q \in CPs \ {p} : parked'[q] = parked[q]
      /\ UNCHANGED <<current, gpu, exited>>
  BY DEF SetUpStep
<1>2. /\ b \in Buffer /\ Sound(b, count'.labels) /\ Changed(buf, buf', p, current[p], b)
      /\ b.open = Cur(p).open /\ b.executed = Cur(p).executed
      /\ count' \in Count /\ count.labels <= count'.labels /\ count'.labels \in Nat
  BY DEF SetUpStep, Count
<1>3. /\ Active(p) /\ CanSubmit(p) /\ current[p] \in Slots
      /\ \A i \in DOMAIN gpu[p] : gpu[p][i] = current[p] => Cur(p).executed
      /\ count.labels \in Nat /\ buf \in [CPs -> [Slots -> Buffer]]
  BY <1>1, SetUpFacts
<1>4. BuffersInv(buf', gpu, count'.labels)
  BY <1>2, <1>3, ChangedIsSound DEF CbInv
<1>5. Cur(p)' = b
  BY <1>1, <1>2 DEF Changed, Cur
<1>6. ASSUME NEW q \in CPs \ {p} PROVE buf'[q] = buf[q]
  <2>1. buf'[q] \in [Slots -> Buffer] /\ \A r \in Slots : buf'[q][r] = buf[q][r]
    BY <1>2 DEF Changed
  <2>2. QED
    BY <1>3, <2>1
<1>7. /\ pc' \in [CPs -> Places] /\ pc'[p] = at /\ \A q \in CPs \ {p} : pc'[q] = pc[q]
  BY <1>1 DEF CbInv, TypeOK, Places
<1>8. TypeOK'
  BY <1>1, <1>2, <1>7 DEF CbInv, TypeOK
<1>9. ASSUME NEW q \in CPs \ {p} PROVE HoldsOK(q)' /\ OpenOK(q)' /\ LocalOK(q)'
  BY <1>1, <1>6, <1>7, OthersKeep
<1>10. HoldsOK(p)' /\ OpenOK(p)'
  BY <1>1, <1>2, <1>3, <1>5, <1>7 DEF HoldsOK, OpenOK, Active, CanSubmit, SetUpStep
<1>11. LocalOK(p)'
  BY <1>1, <1>5, <1>7 DEF LocalOK, Stands, SetUpStep
<1>12. QED
  BY <1>1, <1>4, <1>8, <1>9, <1>10, <1>11 DEF CbInv

(* A buffer left alone is one that is changed to itself.                   *)
LEMMA NoneIsChanged ==
  ASSUME NEW bf \in [CPs -> [Slots -> Buffer]], NEW p \in CPs, NEW s \in Slots
  PROVE  Changed(bf, bf, p, s, bf[p][s])
BY DEF Changed

(* A draw looks up its targets and begins its set-up.                      *)
LEMMA PrepareKeeps ==
  ASSUME CbInv, NEW p \in CPs, NEW targets \in SUBSET Images, Prepare(p, targets)
  PROVE  CbInv'
<1> DEFINE b == Kept(Cur(p), targets)
           loc == [NoLocal EXCEPT !.targets = targets]
<1>1. /\ pc[p] = "batch" /\ mutex = None /\ mutex' = p /\ pc' = [pc EXCEPT ![p] = "setup"]
      /\ buf' = [buf EXCEPT ![p][current[p]] = b] /\ local' = [local EXCEPT ![p] = loc]
      /\ count' = [count EXCEPT !.draws = @ + 1]
      /\ UNCHANGED <<current, gpu, parked, exited>>
  BY DEF Prepare, Cur
<1>2. /\ current[p] \in Slots /\ Cur(p) \in Buffer /\ Sound(Cur(p), count.labels)
      /\ buf \in [CPs -> [Slots -> Buffer]] /\ count \in Count /\ count.labels \in Nat
      /\ local \in [CPs -> Local] /\ parked \in [CPs -> SUBSET Things]
  BY <1>1, SetUpFacts
<1>3. targets \in SUBSET Things
  BY DEF Things
<1>4. b \in Buffer /\ Sound(b, count.labels) /\ b.open = Cur(p).open /\ b.executed = Cur(p).executed
  BY <1>2, <1>3, KeptIsSound
<1>5. count' \in Count /\ count'.labels = count.labels /\ count.labels <= count'.labels
  BY <1>1, <1>2 DEF Count
<1>6. loc \in Local /\ loc.resolved = {} /\ loc.bound = {}
  BY NoLocalFacts DEF Local, NoLocal
<1> HIDE DEF b, loc
<1>7. Changed(buf, buf', p, current[p], b)
  BY <1>1, <1>2, <1>4, OneIsChanged
<1>8. local' \in [CPs -> Local] /\ local'[p] = loc /\ \A q \in CPs \ {p} : local'[q] = local[q]
  BY <1>1, <1>2, <1>6
<1>9. SetUpStep(p, b, "setup")
  BY <1>1, <1>2, <1>4, <1>5, <1>6, <1>7, <1>8 DEF SetUpStep
<1>10. QED
  BY <1>9, SetUpStepKeeps

(* A lookup of an image to bind.                                           *)
LEMMA ResolveKeeps ==
  ASSUME CbInv, NEW p \in CPs, NEW i \in Images, Resolve(p, i)
  PROVE  CbInv'
<1> DEFINE b == Kept(Cur(p), {i})
           loc == [local[p] EXCEPT !.resolved = @ \cup {i}, !.bound = @ \cup {i}]
<1>1. /\ pc[p] = "setup" /\ mutex = p
      /\ buf' = [buf EXCEPT ![p][current[p]] = b]
      /\ UNCHANGED <<current, gpu, mutex, pc, parked, count, exited>>
  BY DEF Resolve, Cur, CbInv, HoldsOK
<1>2. /\ current[p] \in Slots /\ Cur(p) \in Buffer /\ Sound(Cur(p), count.labels)
      /\ buf \in [CPs -> [Slots -> Buffer]] /\ count \in Count /\ count.labels \in Nat
      /\ local \in [CPs -> Local] /\ local[p] \in Local /\ parked \in [CPs -> SUBSET Things]
  BY <1>1, SetUpFacts
<1>3. {i} \in SUBSET Things
  BY DEF Things
<1>4. /\ b \in Buffer /\ Sound(b, count.labels) /\ b.open = Cur(p).open
      /\ b.executed = Cur(p).executed /\ b.keeps = Cur(p).keeps \cup {i}
  BY <1>2, <1>3, KeptIsSound
<1>5. /\ loc \in Local /\ loc.resolved = local[p].resolved \cup {i}
      /\ loc.bound = local[p].bound \cup {i} /\ loc.stale = local[p].stale
  BY <1>2 DEF Local
<1>6. local' = [local EXCEPT ![p] = loc]
  BY <1>2 DEF Resolve
<1> HIDE DEF b, loc
<1>7. Changed(buf, buf', p, current[p], b)
  BY <1>1, <1>2, <1>4, OneIsChanged
<1>8. local' \in [CPs -> Local] /\ local'[p] = loc /\ \A q \in CPs \ {p} : local'[q] = local[q]
  BY <1>2, <1>5, <1>6
<1>9. pc' = [pc EXCEPT ![p] = "setup"]
  BY <1>1 DEF CbInv, TypeOK
<1>10. /\ local[p].resolved \subseteq parked[p] \cup Cur(p).keeps
       /\ local[p].stale \/ local[p].bound \subseteq Cur(p).keeps
  BY <1>1 DEF CbInv, LocalOK, Stands, Waits
<1>11. SetUpStep(p, b, "setup")
  <2>1. count.labels <= count'.labels
    BY <1>1, <1>2
  <2>2. local'[p].resolved \subseteq parked'[p] \cup b.keeps
    BY <1>1, <1>4, <1>5, <1>8, <1>10
  <2>3. local'[p].stale \/ local'[p].bound \subseteq b.keeps
    BY <1>4, <1>5, <1>8, <1>10
  <2>4. QED
    BY <1>1, <1>2, <1>4, <1>7, <1>8, <1>9, <2>1, <2>2, <2>3 DEF SetUpStep
<1>12. QED
  BY <1>11, SetUpStepKeeps

(* A lookup that retires another image.                                    *)
LEMMA RetireKeeps ==
  ASSUME CbInv, NEW p \in CPs, NEW i \in Images, Retire(p, i)
  PROVE  CbInv'
<1>1. /\ pc[p] = "setup" /\ mutex = p
      /\ buf' = [buf EXCEPT ![p][current[p]] = Kept(Cur(p), {i})] \/ UNCHANGED buf
      /\ UNCHANGED <<current, gpu, mutex, pc, local, parked, count, exited>>
  BY DEF Retire, Cur, CbInv, HoldsOK
<1>2. /\ current[p] \in Slots /\ Cur(p) \in Buffer /\ Sound(Cur(p), count.labels)
      /\ Cur(p) = buf[p][current[p]]
      /\ buf \in [CPs -> [Slots -> Buffer]] /\ count \in Count /\ count.labels \in Nat
      /\ local \in [CPs -> Local] /\ parked \in [CPs -> SUBSET Things]
  BY <1>1, SetUpFacts
<1>3. {i} \in SUBSET Things
  BY DEF Things
<1>4. PICK b \in Buffer :
        /\ Changed(buf, buf', p, current[p], b) /\ Sound(b, count.labels) /\ b.open = Cur(p).open
        /\ b.executed = Cur(p).executed /\ Cur(p).keeps \subseteq b.keeps
  <2>1. CASE buf' = [buf EXCEPT ![p][current[p]] = Kept(Cur(p), {i})]
    <3> DEFINE b == Kept(Cur(p), {i})
    <3>1. /\ b \in Buffer /\ Sound(b, count.labels) /\ b.open = Cur(p).open
          /\ b.executed = Cur(p).executed /\ b.keeps = Cur(p).keeps \cup {i}
      BY <1>2, <1>3, KeptIsSound
    <3>2. buf' = [buf EXCEPT ![p][current[p]] = b]
      BY <2>1
    <3> HIDE DEF b
    <3>3. Changed(buf, buf', p, current[p], b)
      BY <1>2, <3>1, <3>2, OneIsChanged
    <3>4. QED
      BY <3>1, <3>3
  <2>2. CASE UNCHANGED buf
    <3>1. Changed(buf, buf', p, current[p], Cur(p))
      BY <1>1, <1>2, <2>2, NoneIsChanged
    <3>2. QED
      BY <1>2, <3>1
  <2>3. QED
    BY <1>1, <2>1, <2>2
<1>5. pc' = [pc EXCEPT ![p] = "setup"]
  BY <1>1 DEF CbInv, TypeOK
<1>6. /\ local[p].resolved \subseteq parked[p] \cup Cur(p).keeps
      /\ local[p].stale \/ local[p].bound \subseteq Cur(p).keeps
  BY <1>1 DEF CbInv, LocalOK, Stands, Waits
<1>7. SetUpStep(p, b, "setup")
  <2>1. count.labels <= count'.labels
    BY <1>1, <1>2
  <2>2. QED
    BY <1>1, <1>2, <1>4, <1>5, <1>6, <2>1 DEF SetUpStep
<1>8. QED
  BY <1>7, SetUpStepKeeps

(* The end of a stage's deferral, the next stage, a retry: no buffer       *)
(* changes.                                                                *)
LEMMA ScopeEndKeeps ==
  ASSUME CbInv, NEW p \in CPs, ScopeEnd(p)
  PROVE  CbInv'
<1> DEFINE loc == [local[p] EXCEPT !.resolved = {}]
<1>1. /\ pc[p] = "setup" /\ mutex = p
      /\ parked' = [parked EXCEPT ![p] = {}] /\ pc' = [pc EXCEPT ![p] = "bound"]
      /\ UNCHANGED <<buf, current, gpu, mutex, count, exited>>
  BY DEF ScopeEnd, CbInv, HoldsOK, processors
<1>2. /\ current[p] \in Slots /\ Cur(p) \in Buffer /\ Sound(Cur(p), count.labels)
      /\ Cur(p) = buf[p][current[p]]
      /\ buf \in [CPs -> [Slots -> Buffer]] /\ count \in Count /\ count.labels \in Nat
      /\ local \in [CPs -> Local] /\ local[p] \in Local /\ parked \in [CPs -> SUBSET Things]
  BY <1>1, SetUpFacts
<1>3. /\ loc \in Local /\ loc.resolved = {} /\ loc.bound = local[p].bound
      /\ loc.stale = local[p].stale
  BY <1>2 DEF Local
<1>4. local' = [local EXCEPT ![p] = loc]
  BY <1>2 DEF ScopeEnd
<1> HIDE DEF loc
<1>5. local' \in [CPs -> Local] /\ local'[p] = loc /\ \A q \in CPs \ {p} : local'[q] = local[q]
  BY <1>2, <1>3, <1>4
<1>6. /\ parked' \in [CPs -> SUBSET Things] /\ \A q \in CPs \ {p} : parked'[q] = parked[q]
  BY <1>1, <1>2
<1>7. local[p].stale \/ local[p].bound \subseteq Cur(p).keeps
  BY <1>1 DEF CbInv, LocalOK, Stands, Waits
<1>8. Changed(buf, buf', p, current[p], Cur(p)) /\ count.labels <= count'.labels
  BY <1>1, <1>2, NoneIsChanged
<1>9. SetUpStep(p, Cur(p), "bound")
  BY <1>1, <1>2, <1>3, <1>5, <1>6, <1>7, <1>8 DEF SetUpStep
<1>10. QED
  BY <1>9, SetUpStepKeeps

(* A set-up goes on to its next stage, or begins again.                    *)
LEMMA SameBufferKeeps ==
  ASSUME CbInv, NEW p \in CPs, pc[p] = "bound", pc' = [pc EXCEPT ![p] = "setup"],
         NEW loc \in Local, local' = [local EXCEPT ![p] = loc],
         loc.resolved = {},
         loc.bound = {} \/ (loc.stale = local[p].stale /\ loc.bound = local[p].bound),
         UNCHANGED <<buf, current, gpu, mutex, parked, count, exited>>
  PROVE  CbInv'
<1>1. mutex = p
  BY DEF CbInv, HoldsOK
<1>2. /\ current[p] \in Slots /\ Cur(p) \in Buffer /\ Sound(Cur(p), count.labels)
      /\ Cur(p) = buf[p][current[p]]
      /\ buf \in [CPs -> [Slots -> Buffer]] /\ count \in Count /\ count.labels \in Nat
      /\ local \in [CPs -> Local] /\ local[p] \in Local /\ parked \in [CPs -> SUBSET Things]
  BY <1>1, SetUpFacts
<1>3. local' \in [CPs -> Local] /\ local'[p] = loc /\ \A q \in CPs \ {p} : local'[q] = local[q]
  BY <1>2
<1>4. loc.stale \/ loc.bound \subseteq Cur(p).keeps
  BY DEF CbInv, LocalOK, Stands, Waits
<1>5. Changed(buf, buf', p, current[p], Cur(p)) /\ count.labels <= count'.labels
  BY <1>2, NoneIsChanged
<1>6. SetUpStep(p, Cur(p), "setup")
  BY <1>1, <1>2, <1>3, <1>4, <1>5 DEF SetUpStep
<1>7. QED
  BY <1>6, SetUpStepKeeps

(* The second stage of a draw.                                             *)
LEMMA NextStageKeeps ==
  ASSUME CbInv, NEW p \in CPs, NextStage(p)
  PROVE  CbInv'
<1> DEFINE loc == [local[p] EXCEPT !.stage = 2]
<1>1. /\ pc[p] = "bound" /\ pc' = [pc EXCEPT ![p] = "setup"]
      /\ UNCHANGED <<buf, current, gpu, mutex, parked, count, exited>>
  BY DEF NextStage, processors, images
<1>2. local \in [CPs -> Local] /\ local[p] \in Local /\ local[p].resolved = {}
  BY <1>1 DEF CbInv, TypeOK, LocalOK, Stands
<1>3. /\ loc \in Local /\ loc.resolved = {} /\ loc.stale = local[p].stale
      /\ loc.bound = local[p].bound
  BY <1>2 DEF Local
<1>4. local' = [local EXCEPT ![p] = loc]
  BY <1>2 DEF NextStage
<1> HIDE DEF loc
<1>5. QED
  BY <1>1, <1>3, <1>4, SameBufferKeeps

(* The loop of a draw or dispatch whose recording was reset meanwhile.     *)
LEMMA RetryKeeps ==
  ASSUME CbInv, NEW p \in CPs, Retry(p)
  PROVE  CbInv'
<1> DEFINE loc == [local[p] EXCEPT !.stale = FALSE, !.bound = {}, !.stage = 1]
<1>1. /\ pc[p] = "bound" /\ pc' = [pc EXCEPT ![p] = "setup"]
      /\ UNCHANGED <<buf, current, gpu, mutex, parked, count, exited>>
  BY DEF Retry, processors, images
<1>2. local \in [CPs -> Local] /\ local[p] \in Local /\ local[p].resolved = {}
  BY <1>1 DEF CbInv, TypeOK, LocalOK, Stands
<1>3. loc \in Local /\ loc.resolved = {} /\ loc.bound = {}
  BY <1>2 DEF Local
<1>4. local' = [local EXCEPT ![p] = loc]
  BY <1>2 DEF Retry
<1> HIDE DEF loc
<1>5. QED
  BY <1>1, <1>3, <1>4, SameBufferKeeps

(* The command is recorded when the generation is still the one its set-up *)
(* read: what it binds is then what the buffer keeps.                      *)
LEMMA RecordKeeps ==
  ASSUME CbInv, NEW p \in CPs, Record(p)
  PROVE  CbInv'
<1> DEFINE cmd == [bound |-> local[p].bound, targets |-> local[p].targets,
                   label |-> 0, fresh |-> ~local[p].stale]
           b == Recorded(Cur(p), cmd)
<1>1. /\ pc[p] = "bound" /\ mutex = p /\ ~local[p].stale
      /\ buf' = [buf EXCEPT ![p][current[p]] = b]
      /\ pc' = [pc EXCEPT ![p] = "batch"] /\ local' = [local EXCEPT ![p] = NoLocal]
      /\ UNCHANGED <<current, gpu, parked, count, exited>>
  BY DEF Record, MayRecord, CbInv, HoldsOK, images, Cur
<1>2. /\ current[p] \in Slots /\ Cur(p) \in Buffer /\ Sound(Cur(p), count.labels)
      /\ buf \in [CPs -> [Slots -> Buffer]] /\ count \in Count /\ count.labels \in Nat
      /\ local \in [CPs -> Local] /\ local[p] \in Local /\ parked \in [CPs -> SUBSET Things]
  BY <1>1, SetUpFacts
<1>3. local[p].bound \subseteq Cur(p).keeps
  BY <1>1 DEF CbInv, LocalOK, Stands, Waits
<1>4. /\ cmd \in Command /\ cmd.fresh /\ cmd.label = 0
      /\ cmd.bound = local[p].bound
  BY <1>1, <1>2 DEF Command, Local
<1> HIDE DEF cmd
<1>5. cmd.bound \cup ({cmd.label} \ {0}) \subseteq Cur(p).keeps
  BY <1>3, <1>4
<1>6. /\ b \in Buffer /\ Sound(b, count.labels) /\ b.open = Cur(p).open
      /\ b.executed = Cur(p).executed
  <2>1. cmd.label <= count.labels /\ count.labels <= count.labels
    BY <1>2, <1>4
  <2>2. QED
    BY <1>2, <1>4, <1>5, <2>1, RecordedIsSound
<1> HIDE DEF b
<1>7. Changed(buf, buf', p, current[p], b)
  BY <1>1, <1>2, <1>6, OneIsChanged
<1>8. /\ local' \in [CPs -> Local] /\ local'[p] = NoLocal
      /\ \A q \in CPs \ {p} : local'[q] = local[q]
  BY <1>1, <1>2, NoLocalFacts
<1>9. SetUpStep(p, b, "batch")
  <2>1. count.labels <= count'.labels
    BY <1>1, <1>2
  <2>2. QED
    BY <1>1, <1>2, <1>6, <1>7, <1>8, <2>1, NoLocalFacts DEF SetUpStep
<1>10. QED
  BY <1>9, SetUpStepKeeps

(* A label is recorded, its event kept by the buffer.                      *)
LEMMA SubmitLabelKeeps ==
  ASSUME CbInv, NEW p \in CPs, SubmitLabel(p)
  PROVE  CbInv' /\ count.labels \in Nat /\ count'.labels = count.labels + 1
<1> DEFINE l == count.labels + 1
           cmd == [bound |-> {}, targets |-> {}, label |-> l, fresh |-> TRUE]
           k == Kept(Cur(p), {l})
           b == Recorded(k, cmd)
<1>1. /\ pc[p] = "batch" /\ mutex = None /\ MayCommand
      /\ buf' = [buf EXCEPT ![p][current[p]] = b]
      /\ count' = [count EXCEPT !.labels = l]
      /\ UNCHANGED <<current, gpu, pc, local, parked, exited>>
  BY DEF SubmitLabel, images, Cur
<1>2. /\ current[p] \in Slots /\ Cur(p) \in Buffer /\ Sound(Cur(p), count.labels)
      /\ buf \in [CPs -> [Slots -> Buffer]] /\ count \in Count /\ count.labels \in Nat
      /\ local \in [CPs -> Local] /\ local[p] \in Local /\ parked \in [CPs -> SUBSET Things]
  BY <1>1, SetUpFacts
<1>3. l \in LabelIds
  <2>1. MaxCommands \in Nat
    BY CommandAssumption
  <2>2. count.draws \in Nat /\ count.draws + count.labels < MaxCommands
    BY <1>1, <1>2 DEF MayCommand, Count
  <2>3. QED
    BY <1>2, <2>1, <2>2 DEF LabelIds
<1>4. count' \in Count /\ count'.labels = l /\ count.labels <= l /\ l \in Nat /\ l # 0
  BY <1>1, <1>2 DEF Count
<1>5. cmd \in Command /\ cmd.fresh /\ cmd.label = l /\ cmd.bound = {}
  BY <1>3 DEF Command
<1>6. {l} \in SUBSET Things
  BY <1>3 DEF Things
<1>7. l = count.labels + 1
  OBVIOUS
<1> HIDE DEF l, cmd
<1>8. /\ k \in Buffer /\ Sound(k, count.labels) /\ k.open = Cur(p).open
      /\ k.executed = Cur(p).executed /\ k.keeps = Cur(p).keeps \cup {l}
  BY <1>2, <1>6, KeptIsSound
<1> HIDE DEF k
<1>9. cmd.bound \cup ({cmd.label} \ {0}) \subseteq k.keeps /\ cmd.label <= l
  BY <1>4, <1>5, <1>8
<1>10. b \in Buffer /\ Sound(b, l) /\ b.open = Cur(p).open /\ b.executed = Cur(p).executed
  BY <1>2, <1>4, <1>5, <1>8, <1>9, RecordedIsSound
<1> HIDE DEF b
<1>11. Changed(buf, buf', p, current[p], b)
  BY <1>1, <1>2, <1>10, OneIsChanged
<1>12. local[p].resolved = {}
  BY <1>1 DEF CbInv, LocalOK, Stands
<1>13. pc' = [pc EXCEPT ![p] = "batch"]
  BY <1>1 DEF CbInv, TypeOK
<1>14. SetUpStep(p, b, "batch")
  BY <1>1, <1>2, <1>4, <1>10, <1>11, <1>12, <1>13 DEF SetUpStep
<1>15. QED
  BY <1>2, <1>4, <1>7, <1>14, SetUpStepKeeps

-----------------------------------------------------------------------------
(* Nothing of the processors' state changes.                               *)
LEMMA NothingChanges ==
  ASSUME CbInv, UNCHANGED <<buf, current, mutex, pc, local, parked, count, exited>>,
         BuffersInv(buf, gpu', count.labels)
  PROVE  CbInv'
<1>1. TypeOK' /\ BuffersInv(buf', gpu', count'.labels)
  BY DEF CbInv, TypeOK
<1>2. ASSUME NEW p \in CPs PROVE HoldsOK(p)' /\ OpenOK(p)' /\ LocalOK(p)'
  BY DEF CbInv, HoldsOK, OpenOK, LocalOK, Active, CanSubmit, Cur, Stands, Waits
<1>3. QED
  BY <1>1, <1>2 DEF CbInv

(* The GPU executes: a fence is signalled, or an event set.                *)
LEMMA GpuExecuteKeeps ==
  ASSUME CbInv, NEW p \in CPs, GpuExecute(p)
  PROVE  CbInv'
<1>1. UNCHANGED <<buf, current, mutex, pc, local, parked, count, exited>>
  BY DEF GpuExecute, images
<1>2. gpu \in [CPs -> Seq(Slots)] /\ gpu[p] \in Seq(Slots) /\ gpu[p] # <<>>
  BY DEF GpuExecute, CbInv, BuffersInv
<1>3. CASE gpu' = gpu
  BY <1>1, <1>3, NothingChanges DEF CbInv
<1>4. CASE gpu' = [gpu EXCEPT ![p] = Tail(@)]
  <2>1. PICK w : w = gpu[p]
    OBVIOUS
  <2>2. w \in Seq(Slots) /\ w # <<>> /\ gpu' = [gpu EXCEPT ![p] = Tail(w)]
    BY <1>2, <1>4, <2>1
  <2>3. /\ Tail(w) \in Seq(Slots)
        /\ \A i \in DOMAIN Tail(w) : i + 1 \in DOMAIN w /\ Tail(w)[i] = w[i + 1]
    BY ONLY <2>2
  <2>4. gpu' \in [CPs -> Seq(Slots)] /\ gpu'[p] = Tail(w) /\ \A q \in CPs \ {p} : gpu'[q] = gpu[q]
    BY <1>2, <2>2, <2>3
  <2>5. \A q \in CPs : \A i \in DOMAIN gpu'[q] : \E j \in DOMAIN gpu[q] : gpu'[q][i] = gpu[q][j]
    <3>1. ASSUME NEW i \in DOMAIN gpu'[p]
          PROVE  \E j \in DOMAIN gpu[p] : gpu'[p][i] = gpu[p][j]
      <4>1. i \in DOMAIN Tail(w)
        BY <2>4
      <4>2. i + 1 \in DOMAIN gpu[p] /\ gpu'[p][i] = gpu[p][i + 1]
        BY <2>1, <2>3, <2>4, <4>1
      <4>3. QED
        BY <4>2
    <3>2. QED
      BY <2>4, <3>1
  <2>6. BuffersInv(buf, gpu', count.labels)
    BY <2>4, <2>5 DEF CbInv, BuffersInv
  <2>7. QED
    BY <1>1, <2>6, NothingChanges
<1>5. QED
  BY <1>3, <1>4 DEF GpuExecute

(* One step of a processor's thread.                                       *)
LEMMA CpStepKeeps ==
  ASSUME CbInv, NEW p \in CPs, CpStep(p)
  PROVE  CbInv'
<1>1. CASE BatchBegin(p)
  BY <1>1, BatchBeginKeeps
<1>2. CASE \E then \in {"batch", "submitted", "idle"} : Flush(p, then)
  BY <1>2, FlushKeeps
<1>3. CASE BeginNext(p)
  BY <1>3, BeginNextKeeps
<1>4. CASE WaitForSubmitted(p)
  BY <1>4, WaitForSubmittedKeeps
<1>5. CASE WaitAllBegin(p) \/ WaitAll(p)
  BY <1>5, WaitAllBeginKeeps, WaitAllKeeps
<1>6. CASE SynchronizeGpu(p)
  BY <1>6, SynchronizeGpuKeeps
<1>7. CASE \E q \in CPs : Resume(p, q)
  BY <1>7, ResumeKeeps
<1>8. CASE \E targets \in {{}} \cup {{i} : i \in Images} : Prepare(p, targets)
  <2>1. PICK targets \in {{}} \cup {{i} : i \in Images} : Prepare(p, targets)
    BY <1>8
  <2>2. targets \in SUBSET Images
    OBVIOUS
  <2>3. QED
    BY <2>1, <2>2, PrepareKeeps
<1>9. CASE \E i \in Images : Resolve(p, i) \/ Retire(p, i)
  BY <1>9, ResolveKeeps, RetireKeeps
<1>10. CASE \E downloaded \in SUBSET dirty : Fault(p, downloaded)
  BY <1>10, FaultKeeps
<1>11. CASE ScopeEnd(p)
  BY <1>11, ScopeEndKeeps
<1>12. CASE NextStage(p) \/ Retry(p)
  BY <1>12, NextStageKeeps, RetryKeeps
<1>13. CASE Record(p)
  BY <1>13, RecordKeeps
<1>14. QED
  BY <1>1, <1>2, <1>3, <1>4, <1>5, <1>6, <1>7, <1>8, <1>9, <1>10, <1>11, <1>12, <1>13 DEF CpStep

-----------------------------------------------------------------------------
USE DEF ThreadRecord

(* A list of labels with one more at its end.                              *)
LEMMA AppendRises ==
  ASSUME NEW s \in Seq(Nat), Rising(s), NEW l \in Nat, \A i \in DOMAIN s : s[i] < l
  PROVE  LET w == Append(s, l) IN
         /\ w \in Seq(Nat) /\ Rising(w) /\ DOMAIN s = 1 .. Len(s) /\ Len(s) \in Nat
         /\ Len(w) = Len(s) + 1 /\ DOMAIN w = 1 .. Len(s) + 1
         /\ w[Len(s) + 1] = l /\ \A i \in DOMAIN s : i \in DOMAIN w /\ w[i] = s[i]
<1> DEFINE w == Append(s, l)
<1>1. PICK n : n = Len(s)
  OBVIOUS
<1>2. /\ w \in Seq(Nat) /\ n \in Nat /\ DOMAIN s = 1 .. n /\ DOMAIN w = 1 .. n + 1
      /\ Len(w) = n + 1 /\ w[n + 1] = l /\ \A i \in 1 .. n : w[i] = s[i]
      /\ \A i \in 1 .. n : s[i] \in Nat
  BY <1>1
<1> HIDE DEF w
<1>3. \A i \in 1 .. n + 1 : i \in 1 .. n \/ i = n + 1
  BY <1>2
<1>4. ASSUME NEW i \in DOMAIN w, NEW j \in DOMAIN w, i < j PROVE w[i] < w[j]
  <2>1. i \in 1 .. n /\ (j \in 1 .. n \/ j = n + 1)
    BY <1>2, <1>4
  <2>2. QED
    BY <1>2, <1>4, <2>1 DEF Rising
<1>5. Rising(w)
  BY <1>4 DEF Rising
<1>6. 1 .. n \subseteq 1 .. n + 1
  BY <1>2
<1>7. /\ w \in Seq(Nat) /\ Rising(w) /\ DOMAIN s = 1 .. Len(s) /\ Len(s) \in Nat
      /\ Len(w) = Len(s) + 1 /\ DOMAIN w = 1 .. Len(s) + 1
      /\ w[Len(s) + 1] = l /\ \A i \in DOMAIN s : i \in DOMAIN w /\ w[i] = s[i]
  BY <1>1, <1>2, <1>5, <1>6
<1>8. QED
  BY <1>7 DEF w

(* A list of labels without the one at i.                                  *)
LEMMA ErasedFacts ==
  ASSUME NEW s \in Seq(Nat), Rising(s), NEW i \in 1 .. Len(s)
  PROVE  LET e == Erased(s, i) IN
         /\ e \in Seq(Nat) /\ Rising(e)
         /\ \A j \in DOMAIN e : j < i => j \in DOMAIN s /\ e[j] = s[j]
         /\ \A j \in DOMAIN e : i <= j => j + 1 \in DOMAIN s /\ e[j] = s[j + 1]
         /\ \A k \in DOMAIN s : k # i => \E j \in DOMAIN e : e[j] = s[k]
<1> DEFINE e == Erased(s, i)
<1>1. PICK n : n = Len(s)
  OBVIOUS
<1>2. /\ n \in Nat /\ n - 1 \in Nat /\ DOMAIN s = 1 .. n /\ i \in 1 .. n
      /\ \A j \in 1 .. n : s[j] \in Nat
  BY <1>1
<1>3. e = [j \in 1 .. n - 1 |-> IF j < i THEN s[j] ELSE s[j + 1]]
  BY <1>1 DEF Erased
<1> HIDE DEF e
<1>4. /\ DOMAIN e = 1 .. n - 1
      /\ \A j \in 1 .. n - 1 : j \in 1 .. n /\ j + 1 \in 1 .. n
      /\ \A j \in 1 .. n - 1 : e[j] = IF j < i THEN s[j] ELSE s[j + 1]
  BY <1>2, <1>3
<1>5. e \in Seq(Nat)
  BY <1>2, <1>3, <1>4
<1>6. ASSUME NEW j \in DOMAIN e, NEW k \in DOMAIN e, j < k PROVE e[j] < e[k]
  <2>1. \A x, y \in 1 .. n : x < y => s[x] < s[y]
    BY <1>2 DEF Rising
  <2>2. j \in 1 .. n - 1 /\ k \in 1 .. n - 1
    BY <1>4
  <2>3. /\ j \in Nat /\ k \in Nat /\ j \in 1 .. n /\ j + 1 \in 1 .. n
        /\ k \in 1 .. n /\ k + 1 \in 1 .. n
    BY <1>2, <1>4, <2>2
  <2>4. /\ e[j] = IF j < i THEN s[j] ELSE s[j + 1]
        /\ e[k] = IF k < i THEN s[k] ELSE s[k + 1]
    BY <1>4
  <2>5. j < k + 1 /\ j + 1 < k + 1 /\ (k < i => j < i)
    BY <1>2, <1>6, <2>3
  <2>6. QED
    BY <1>6, <2>1, <2>3, <2>4, <2>5
<1>7. Rising(e)
  BY <1>6 DEF Rising
<1>8. ASSUME NEW k \in DOMAIN s, k # i PROVE \E j \in DOMAIN e : e[j] = s[k]
  <2>1. CASE k < i
    <3>1. k \in 1 .. n - 1
      BY <1>2, <2>1
    <3>2. QED
      BY <1>4, <2>1, <3>1
  <2>2. CASE i < k
    <3>1. k - 1 \in 1 .. n - 1 /\ ~(k - 1 < i) /\ (k - 1) + 1 = k
      BY <1>2, <2>2
    <3>2. e[k - 1] = s[k]
      BY <1>4, <3>1
    <3>3. QED
      BY <1>4, <3>1, <3>2
  <2>3. QED
    BY <1>2, <1>8, <2>1, <2>2
<1>9. /\ \A j \in DOMAIN e : j < i => j \in DOMAIN s /\ e[j] = s[j]
      /\ \A j \in DOMAIN e : i <= j => j + 1 \in DOMAIN s /\ e[j] = s[j + 1]
  <2>1. ASSUME NEW j \in DOMAIN e, i <= j PROVE ~(j < i)
    BY <1>2, <1>4, <2>1
  <2>2. QED
    BY <1>2, <1>4, <2>1
<1>10. /\ e \in Seq(Nat) /\ Rising(e)
       /\ \A j \in DOMAIN e : j < i => j \in DOMAIN s /\ e[j] = s[j]
       /\ \A j \in DOMAIN e : i <= j => j + 1 \in DOMAIN s /\ e[j] = s[j + 1]
       /\ \A k \in DOMAIN s : k # i => \E j \in DOMAIN e : e[j] = s[k]
  BY <1>5, <1>7, <1>8, <1>9
<1>11. QED
  BY <1>10 DEF e

-----------------------------------------------------------------------------
(* The label thread's part of the state does not change, and the GPU sets  *)
(* at most the event of a label that was recorded.                         *)
LEMMA EventsGrow ==
  ASSUME LabelInv, UNCHANGED manager, count'.labels = count.labels,
         events \subseteq events', events' \subseteq 1 .. count.labels
  PROVE  LabelInv'
<1>1. ThreadOK' /\ ListInv'
  BY DEF LabelInv, ThreadOK, ListInv, manager
<1>2. SeenInv'
  BY DEF LabelInv, SeenInv, manager
<1>3. QED
  BY <1>1, <1>2 DEF LabelInv

(* A processor's other steps set no event and record no label.             *)
LEMMA CpStepLeavesLabels ==
  ASSUME CbInv, NEW p \in CPs, CpStep(p)
  PROVE  events' = events /\ count'.labels = count.labels
<1>1. count \in Count
  BY DEF CbInv, TypeOK
<1>2. CASE BatchBegin(p)
  BY <1>1, <1>2 DEF BatchBegin, Count
<1>3. CASE \E then \in {"batch", "submitted", "idle"} : Flush(p, then)
  BY <1>1, <1>3 DEF Flush, Exit, Count
<1>4. CASE \/ BeginNext(p) \/ WaitForSubmitted(p) \/ WaitAll(p) \/ \E q \in CPs : Resume(p, q)
           \/ \E i \in Images : Resolve(p, i) \/ Retire(p, i)
           \/ ScopeEnd(p) \/ NextStage(p) \/ Retry(p) \/ Record(p)
  BY <1>4 DEF BeginNext, WaitForSubmitted, WaitAll, Resume, Resolve, Retire, ScopeEnd, NextStage,
              Retry, Record
<1>5. CASE WaitAllBegin(p)
  BY <1>1, <1>5 DEF WaitAllBegin, Count
<1>6. CASE SynchronizeGpu(p)
  BY <1>1, <1>6 DEF SynchronizeGpu, Count
<1>7. CASE \E targets \in {{}} \cup {{i} : i \in Images} : Prepare(p, targets)
  BY <1>1, <1>7 DEF Prepare, Count
<1>8. CASE \E downloaded \in SUBSET dirty : Fault(p, downloaded)
  BY <1>1, <1>8 DEF Fault, Count
<1>9. QED
  BY <1>2, <1>3, <1>4, <1>5, <1>6, <1>7, <1>8 DEF CpStep

(* A set of naturals has a least element.                                  *)
LEMMA Least ==
  ASSUME NEW S \in SUBSET Nat, S # {}
  PROVE  \E i \in S : \A j \in S : i <= j
<1>1. IsWellFoundedOn(OpToRel(<, Nat), Nat)
  BY NatLessThanWellFounded
<1>2. PICK i \in S : \A j \in S : <<j, i>> \notin OpToRel(<, Nat)
  BY <1>1, WFMin
<1>3. \A j \in S : ~(j < i)
  BY <1>2 DEF OpToRel
<1>4. QED
  BY <1>3

(* The GPU sets the event of a label that was recorded.                    *)
LEMMA GpuSetsRecorded ==
  ASSUME CbInv, LabelInv, NEW p \in CPs, GpuExecute(p)
  PROVE  events \subseteq events' /\ events' \subseteq 1 .. count.labels
<1> DEFINE s == Head(gpu[p])
           b == buf[p][s]
           i == CHOOSE i \in Unset(b) : \A j \in Unset(b) : i <= j
<1>1. events \subseteq 1 .. count.labels /\ count.labels \in Nat
  BY DEF LabelInv, SeenInv, CbInv, TypeOK, Count
<1>2. CASE Unset(b) # {}
  <2>1. events' = events \cup {b.cmds[i].label}
    BY <1>2 DEF GpuExecute
  <2>2. s \in Slots
    <3>1. gpu[p] \in Seq(Slots) /\ gpu[p] # <<>>
      BY DEF GpuExecute, CbInv, BuffersInv
    <3>2. QED
      BY <3>1
  <2>3. b \in Buffer /\ Sound(b, count.labels)
    BY <2>2 DEF CbInv, BuffersInv
  <2> HIDE DEF b, s
  <2>4. b.cmds \in Seq(Command) /\ DOMAIN b.cmds \subseteq Nat
    <3>1. b.cmds \in Seq(Command)
      BY <2>3, BufferFacts
    <3>2. QED
      BY <3>1
  <2>5. Unset(b) \in SUBSET Nat /\ Unset(b) \subseteq DOMAIN b.cmds
    BY <2>4 DEF Unset
  <2>6. \E x \in Unset(b) : \A j \in Unset(b) : x <= j
    BY <1>2, <2>5, Least
  <2>7. i \in Unset(b)
    BY <2>6
  <2> HIDE DEF i
  <2>8. i \in DOMAIN b.cmds /\ b.cmds[i].label # 0
    BY <2>7 DEF Unset
  <2>9. b.cmds[i] \in Elements(b.cmds)
    BY <2>4, <2>8, ElementsHold
  <2>10. b.cmds[i].label \in Nat /\ b.cmds[i].label <= count.labels
    BY <2>3, <2>9, BufferFacts DEF Sound
  <2>11. b.cmds[i].label \in 1 .. count.labels
    BY <1>1, <2>8, <2>10
  <2>12. QED
    BY <1>1, <2>1, <2>11
<1>3. CASE Unset(b) = {}
  BY <1>1, <1>3 DEF GpuExecute
<1>4. QED
  BY <1>2, <1>3

(* LabelManager::Set appends the label, which is the latest.               *)
LEMMA SubmissionIsListed ==
  ASSUME LabelInv, NEW p \in CPs, SubmitLabel(p), count.labels \in Nat,
         count'.labels = count.labels + 1
  PROVE  LabelInv'
<1> DEFINE n == count.labels
           l == n + 1
<1>1. /\ thread.at # "scan" /\ subs' = Append(subs, l)
      /\ UNCHANGED <<events, thread, called, seen>>
  BY DEF SubmitLabel
<1>2. /\ subs \in Seq(Nat) /\ Rising(subs) /\ l \in Nat
      /\ \A i \in DOMAIN subs : subs[i] \in 1 .. n /\ subs[i] < l
  BY DEF LabelInv, ListInv
<1>3. /\ n \in Nat /\ n' = l /\ 1 .. n \subseteq 1 .. l /\ l \in 1 .. l
      /\ \A k \in 1 .. l : k \in 1 .. n \/ k = l
      /\ l \notin 1 .. n
  OBVIOUS
<1> HIDE DEF l, n
<1>4. /\ subs' \in Seq(Nat) /\ Rising(subs') /\ DOMAIN subs' = 1 .. Len(subs) + 1
      /\ DOMAIN subs = 1 .. Len(subs) /\ Len(subs) \in Nat
      /\ subs'[Len(subs) + 1] = l /\ \A i \in DOMAIN subs : i \in DOMAIN subs' /\ subs'[i] = subs[i]
  BY <1>1, <1>2, AppendRises
<1>5. /\ \A i \in DOMAIN subs' : i \in DOMAIN subs \/ i = Len(subs) + 1
      /\ Len(subs) + 1 \in DOMAIN subs'
  BY <1>4
<1>6. ThreadOK'
  BY <1>1 DEF LabelInv, ThreadOK
<1>7. \A i \in DOMAIN subs' : subs'[i] \in 1 .. l
  BY <1>2, <1>3, <1>4, <1>5
<1>8. ListInv'
  BY <1>1, <1>3, <1>4, <1>7 DEF LabelInv, ListInv, n
<1>9. events \subseteq 1 .. l /\ seen \subseteq events /\ l \notin seen
  BY <1>3 DEF LabelInv, SeenInv, n
<1>10. ASSUME NEW k \in 1 .. l
       PROVE  \/ k \in called \/ \E i \in DOMAIN subs' : subs'[i] = k
              \/ \E j \in DOMAIN thread.fired : thread.done < j /\ thread.fired[j] = k
  <2>1. CASE k = l
    BY <1>4, <1>5, <2>1
  <2>2. CASE k \in 1 .. n
    BY <1>4, <2>2 DEF LabelInv, SeenInv, n
  <2>3. QED
    BY <1>3, <2>1, <2>2
<1>11. thread.at = "call" => \A i \in DOMAIN subs' : subs'[i] \notin seen
  BY <1>4, <1>5, <1>9 DEF LabelInv, SeenInv
<1>12. SeenInv'
  BY <1>1, <1>3, <1>9, <1>10, <1>11 DEF SeenInv, n
<1>13. QED
  BY <1>6, <1>8, <1>12 DEF LabelInv

(* The scan begins, with nothing fired yet.                                *)
LEMMA ScanBeginKeeps ==
  ASSUME LabelInv, ScanBegin
  PROVE  LabelInv'
<1>1. /\ thread.at = "idle" /\ thread' = [Idle EXCEPT !.at = "scan"] /\ seen' = events
      /\ UNCHANGED <<count, events, subs, called>>
  BY DEF ScanBegin, cbVars
<1>2. /\ thread'.at = "scan" /\ thread'.pos = 1 /\ thread'.fired = <<>> /\ thread'.done = 0
      /\ thread' \in ThreadRecord
  <2>1. thread' = [at |-> "scan", pos |-> 1, fired |-> <<>>, done |-> 0]
    BY <1>1 DEF Idle
  <2>2. <<>> \in Seq(Nat) /\ 1 \in Nat \ {0} /\ 0 \in Nat
    OBVIOUS
  <2>3. QED
    BY <2>1, <2>2
<1>3. thread.fired = <<>> /\ DOMAIN <<>> = {} /\ Len(<<>>) = 0
  BY <1>1 DEF LabelInv, ListInv
<1>4. ThreadOK' /\ ListInv'
  BY <1>1, <1>2, <1>3 DEF LabelInv, ThreadOK, ListInv, Rising
<1>5. \A i \in DOMAIN subs : ~(i < 1)
  <2>1. subs \in Seq(Nat)
    BY DEF LabelInv, ListInv
  <2>2. QED
    BY <2>1
<1>6. SeenInv'
  BY <1>1, <1>2, <1>3, <1>5 DEF LabelInv, SeenInv
<1>7. QED
  BY <1>4, <1>6 DEF LabelInv

(* One submission is polled.                                               *)
LEMMA PollKeeps ==
  ASSUME LabelInv, Poll
  PROVE  LabelInv'
<1> DEFINE pos == thread.pos
           l == subs[pos]
<1>1. /\ thread.at = "scan" /\ pos <= Len(subs)
      /\ UNCHANGED <<count, events, called, seen>>
  BY DEF Poll, cbVars
<1>2. /\ thread \in ThreadRecord
      /\ subs \in Seq(Nat) /\ Rising(subs) /\ Rising(thread.fired)
      /\ \A i \in DOMAIN subs : subs[i] \in 1 .. count.labels
      /\ thread.done = 0
      /\ \A i \in DOMAIN subs, j \in DOMAIN thread.fired : pos <= i => thread.fired[j] < subs[i]
  BY <1>1 DEF LabelInv, ThreadOK, ListInv
<1>3. /\ events \subseteq 1 .. count.labels /\ seen \subseteq events
      /\ \A k \in 1 .. count.labels :
           \/ k \in called \/ \E i \in DOMAIN subs : subs[i] = k
           \/ \E j \in DOMAIN thread.fired : thread.done < j /\ thread.fired[j] = k
      /\ \A i \in DOMAIN subs : i < pos => subs[i] \notin seen
  BY <1>1 DEF LabelInv, SeenInv
<1>4. /\ pos \in 1 .. Len(subs) /\ pos \in DOMAIN subs /\ pos \in Nat /\ l \in Nat
      /\ DOMAIN subs \subseteq Nat
  BY <1>1, <1>2
<1>5. CASE l \in events
  <2> DEFINE fired == Append(thread.fired, l)
             rest == Erased(subs, pos)
  <2>1. thread' = [thread EXCEPT !.fired = fired] /\ subs' = rest
    BY <1>5 DEF Poll, Noticed
  <2>2. \A j \in DOMAIN thread.fired : thread.fired[j] < l
    BY <1>2, <1>4
  <2>3. /\ fired \in Seq(Nat) /\ Rising(fired) /\ DOMAIN thread.fired = 1 .. Len(thread.fired)
        /\ Len(thread.fired) \in Nat /\ DOMAIN fired = 1 .. Len(thread.fired) + 1
        /\ Len(fired) = Len(thread.fired) + 1
        /\ fired[Len(thread.fired) + 1] = l
        /\ \A j \in DOMAIN thread.fired : j \in DOMAIN fired /\ fired[j] = thread.fired[j]
    BY <1>2, <1>4, <2>2, AppendRises
  <2>4. /\ rest \in Seq(Nat) /\ Rising(rest)
        /\ \A j \in DOMAIN rest : j < pos => j \in DOMAIN subs /\ rest[j] = subs[j]
        /\ \A j \in DOMAIN rest : pos <= j => j + 1 \in DOMAIN subs /\ rest[j] = subs[j + 1]
        /\ \A k \in DOMAIN subs : k # pos => \E j \in DOMAIN rest : rest[j] = subs[k]
    BY <1>2, <1>4, ErasedFacts
  <2> HIDE DEF fired, rest
  <2>5. /\ thread'.at = "scan" /\ thread'.pos = pos /\ thread'.fired = fired /\ thread'.done = 0
        /\ thread' \in ThreadRecord
    BY <1>1, <1>2, <2>1, <2>3
  <2> HIDE DEF pos, l
  <2>6. DOMAIN rest \subseteq Nat
    BY <2>4
  <2>7. \A j \in DOMAIN rest : j < pos \/ pos <= j
    BY <1>4, <2>6
  <2>8. \A j \in DOMAIN rest : rest[j] \in 1 .. count.labels
    BY <1>2, <2>4, <2>7
  <2>9. ASSUME NEW i \in DOMAIN rest, NEW j \in DOMAIN fired, pos <= i
        PROVE  fired[j] < rest[i]
    <3>1. i + 1 \in DOMAIN subs /\ rest[i] = subs[i + 1] /\ pos < i + 1 /\ pos <= i + 1
      BY <1>4, <2>4, <2>6, <2>9
    <3>2. l < subs[i + 1]
      BY <1>2, <1>4, <3>1 DEF Rising, l
    <3>3. j \in DOMAIN thread.fired \/ j = Len(thread.fired) + 1
      BY <2>3
    <3>4. QED
      BY <1>2, <2>3, <3>1, <3>2, <3>3
  <2>10. ListInv'
    <3>1. 0 <= Len(fired)
      BY <2>3
    <3>2. QED
      BY <1>1, <2>1, <2>3, <2>4, <2>5, <2>8, <2>9, <3>1 DEF ListInv
  <2>11. ASSUME NEW k \in 1 .. count.labels
         PROVE  \/ k \in called \/ \E i \in DOMAIN rest : rest[i] = k
                \/ \E j \in DOMAIN fired : 0 < j /\ fired[j] = k
    <3>1. CASE k \in called
      BY <3>1
    <3>2. CASE \E i \in DOMAIN subs : subs[i] = k
      <4>1. PICK i \in DOMAIN subs : subs[i] = k
        BY <3>2
      <4>2. CASE i # pos
        BY <2>4, <4>1, <4>2
      <4>3. CASE i = pos
        <5>1. fired[Len(thread.fired) + 1] = k
          BY <2>3, <4>1, <4>3 DEF l
        <5>2. Len(thread.fired) + 1 \in DOMAIN fired /\ 0 < Len(thread.fired) + 1
          BY <2>3
        <5>3. QED
          BY <5>1, <5>2
      <4>4. QED
        BY <4>2, <4>3
    <3>3. CASE \E j \in DOMAIN thread.fired : thread.done < j /\ thread.fired[j] = k
      BY <1>2, <2>3, <3>3
    <3>4. QED
      BY <1>3, <3>1, <3>2, <3>3
  <2>12. \A j \in DOMAIN rest : j < pos => rest[j] \notin seen
    BY <1>3, <2>4
  <2>13. SeenInv'
    BY <1>1, <1>3, <2>1, <2>5, <2>11, <2>12 DEF SeenInv
  <2>14. QED
    BY <2>5, <2>10, <2>13 DEF LabelInv, ThreadOK
<1>6. CASE l \notin events
  <2>1. thread' = [thread EXCEPT !.pos = @ + 1] /\ subs' = subs
    BY <1>6 DEF Poll
  <2>2. /\ thread'.at = "scan" /\ thread'.pos = pos + 1 /\ thread'.fired = thread.fired
        /\ thread'.done = 0
        /\ thread' \in ThreadRecord
    <3>1. PICK next \in Nat \ {0} : next = pos + 1
      BY <1>4
    <3>2. thread' = [thread EXCEPT !.pos = next]
      BY <2>1, <3>1
    <3>3. QED
      BY <1>1, <1>2, <3>1, <3>2
  <2>3. l \notin seen
    BY <1>3, <1>6
  <2>4. l = subs[pos]
    OBVIOUS
  <2> HIDE DEF pos, l
  <2>5. \A i \in DOMAIN subs : /\ pos + 1 <= i => pos <= i
                               /\ i < pos + 1 => i < pos \/ i = pos
    BY <1>4
  <2>6. ListInv'
    BY <1>1, <1>2, <2>1, <2>2, <2>5 DEF LabelInv, ListInv
  <2>7. SeenInv'
    BY <1>1, <1>2, <1>3, <2>1, <2>2, <2>3, <2>4, <2>5 DEF SeenInv
  <2>8. QED
    BY <2>2, <2>6, <2>7 DEF LabelInv, ThreadOK
<1>7. QED
  BY <1>5, <1>6

(* The scan ends, and with it what was set when it began is all fired.     *)
LEMMA ScanEndKeeps ==
  ASSUME LabelInv, ScanEnd
  PROVE  LabelInv'
<1>1. /\ thread.at = "scan" /\ thread.pos > Len(subs) /\ thread' = [thread EXCEPT !.at = "call"]
      /\ UNCHANGED <<count, events, subs, called, seen>>
  BY DEF ScanEnd, cbVars
<1>2. /\ thread \in ThreadRecord
      /\ subs \in Seq(Nat)
  BY DEF LabelInv, ThreadOK, ListInv
<1>3. /\ thread'.at = "call" /\ thread'.fired = thread.fired /\ thread'.done = thread.done
      /\ thread' \in ThreadRecord
  BY <1>1, <1>2
<1>4. \A i \in DOMAIN subs : i < thread.pos
  BY <1>1, <1>2
<1>5. ListInv'
  BY <1>1, <1>3 DEF LabelInv, ListInv
<1>6. SeenInv'
  BY <1>1, <1>3, <1>4 DEF LabelInv, SeenInv
<1>7. QED
  BY <1>3, <1>5, <1>6 DEF LabelInv, ThreadOK

(* The next callback.                                                      *)
LEMMA CallbackKeeps ==
  ASSUME LabelInv, Callback
  PROVE  LabelInv'
<1> DEFINE d == thread.done + 1
<1>1. /\ thread.at = "call" /\ thread.done < Len(thread.fired)
      /\ called' = called \cup {thread.fired[d]} /\ thread' = [thread EXCEPT !.done = d]
      /\ UNCHANGED <<count, events, subs, seen>>
  BY DEF Callback, cbVars
<1>2. /\ thread \in ThreadRecord
  BY DEF LabelInv, ThreadOK
<1>3. /\ d \in Nat /\ d <= Len(thread.fired) /\ DOMAIN thread.fired \subseteq Nat
      /\ \A j \in DOMAIN thread.fired : thread.done < j => j = d \/ d < j
  BY <1>1, <1>2
<1> HIDE DEF d
<1>4. /\ thread'.at = "call" /\ thread'.fired = thread.fired /\ thread'.done = d
      /\ thread' \in ThreadRecord
  BY <1>1, <1>2, <1>3
<1>5. ListInv'
  BY <1>1, <1>3, <1>4 DEF LabelInv, ListInv
<1>6. SeenInv'
  BY <1>1, <1>3, <1>4 DEF LabelInv, SeenInv
<1>7. QED
  BY <1>4, <1>5, <1>6 DEF LabelInv, ThreadOK

(* The iteration ends.                                                     *)
LEMMA IterationEndKeeps ==
  ASSUME LabelInv, IterationEnd
  PROVE  LabelInv'
<1>1. /\ thread.at = "call" /\ thread.done = Len(thread.fired) /\ thread' = Idle /\ seen' = {}
      /\ UNCHANGED <<count, events, subs, called>>
  BY DEF IterationEnd, cbVars
<1>2. /\ thread \in ThreadRecord
  BY DEF LabelInv, ThreadOK
<1>3. /\ Idle.at = "idle" /\ Idle.fired = <<>> /\ Idle.done = 0 /\ DOMAIN <<>> = {} /\ Len(<<>>) = 0
      /\ Idle \in ThreadRecord
  <2>1. <<>> \in Seq(Nat) /\ 1 \in Nat \ {0} /\ 0 \in Nat /\ DOMAIN <<>> = {} /\ Len(<<>>) = 0
    OBVIOUS
  <2>2. QED
    BY <2>1 DEF Idle
<1>4. \A j \in DOMAIN thread.fired : ~(thread.done < j)
  BY <1>1, <1>2
<1>5. ListInv'
  BY <1>1, <1>3 DEF LabelInv, ListInv, Rising
<1>6. SeenInv'
  BY <1>1, <1>3, <1>4 DEF LabelInv, SeenInv
<1>7. QED
  BY <1>1, <1>3, <1>5, <1>6 DEF LabelInv, ThreadOK

-----------------------------------------------------------------------------
(* Nothing is recorded, executing or listed.                               *)
LEMMA Initially == Init => IInv
<1> SUFFICES ASSUME Init PROVE IInv
  OBVIOUS
<1>1. TypeOK
  BY NoLocalFacts, CommandAssumption DEF Init, CbInit, TypeOK, Places, Count
<1>2. NewBuffer \in Buffer /\ ~NewBuffer.executed /\ NewBuffer.cmds = <<>> /\ ~NewBuffer.open
  <2>1. <<>> \in Seq(Command)
    OBVIOUS
  <2>2. QED
    BY <2>1 DEF NewBuffer, Buffer
<1>3. Sound(NewBuffer, 0)
  BY <1>2 DEF Sound, Elements
<1>4. BuffersInv(buf, gpu, count.labels)
  <2>1. /\ buf = [p \in CPs |-> [s \in Slots |-> NewBuffer]] /\ gpu = [p \in CPs |-> <<>>]
        /\ count.labels = 0
    BY DEF Init, CbInit
  <2>2. <<>> \in Seq(Slots) /\ DOMAIN <<>> = {}
    OBVIOUS
  <2>3. QED
    BY <1>2, <1>3, <2>1, <2>2 DEF BuffersInv
<1>5. \A p \in CPs : HoldsOK(p) /\ OpenOK(p) /\ LocalOK(p)
  BY <1>2, NoLocalFacts DEF Init, CbInit, HoldsOK, OpenOK, LocalOK, Active, Stands
<1>6. LabelInv
  <2>1. /\ Idle.at = "idle" /\ Idle.fired = <<>> /\ Idle.done = 0 /\ DOMAIN <<>> = {}
        /\ Len(<<>>) = 0 /\ <<>> \in Seq(Nat) /\ 0 \in Nat /\ 1 \in Nat \ {0}
    BY DEF Idle
  <2>2. Idle \in ThreadRecord
    BY <2>1 DEF Idle
  <2>3. subs = <<>> /\ thread = Idle /\ called = {} /\ seen = {} /\ events = {} /\ count.labels = 0
    BY DEF Init, CbInit
  <2>4. ListInv
    BY <2>1, <2>3 DEF ListInv, Rising
  <2>5. SeenInv
    BY <2>1, <2>3 DEF SeenInv
  <2>6. QED
    BY <2>2, <2>3, <2>4, <2>5 DEF LabelInv, ThreadOK
<1>7. QED
  BY <1>1, <1>4, <1>5, <1>6 DEF IInv, CbInv

(* Every step of a processor's thread, of the GPU and of the label thread. *)
LEMMA Stepwise == IInv /\ [Next]_vars => IInv'
<1> SUFFICES ASSUME IInv, [Next]_vars PROVE IInv'
  OBVIOUS
<1>1. CbInv /\ LabelInv /\ count.labels \in Nat /\ BuffersInv(buf, gpu, count.labels)
  BY DEF IInv, CbInv, TypeOK, Count
<1>2. ASSUME NEW p \in CPs, CpStep(p), UNCHANGED manager PROVE IInv'
  <2>1. events' = events /\ count'.labels = count.labels /\ events \subseteq 1 .. count.labels
    BY <1>1, <1>2, CpStepLeavesLabels DEF LabelInv, SeenInv
  <2>2. QED
    BY <1>1, <1>2, <2>1, CpStepKeeps, EventsGrow DEF IInv
<1>3. ASSUME NEW p \in CPs, SubmitLabel(p) PROVE IInv'
  BY <1>1, <1>3, SubmitLabelKeeps, SubmissionIsListed DEF IInv
<1>4. ASSUME NEW p \in CPs, GpuStep(p) PROVE IInv'
  <2>1. GpuExecute(p) /\ UNCHANGED manager /\ UNCHANGED count
    BY <1>4 DEF GpuStep, GpuExecute
  <2>2. events \subseteq events' /\ events' \subseteq 1 .. count.labels
    BY <1>1, <2>1, GpuSetsRecorded
  <2>3. QED
    BY <1>1, <2>1, <2>2, GpuExecuteKeeps, EventsGrow DEF IInv
<1>5. CASE LabelStep
  <2>1. UNCHANGED cbVars
    BY <1>5 DEF LabelStep, ScanBegin, Poll, ScanEnd, Callback, IterationEnd
  <2>2. CbInv'
    BY <1>1, <2>1, NothingChanges DEF cbVars, processors, images
  <2>3. LabelInv'
    BY <1>1, <1>5, ScanBeginKeeps, PollKeeps, ScanEndKeeps, CallbackKeeps, IterationEndKeeps
    DEF LabelStep
  <2>4. QED
    BY <2>2, <2>3 DEF IInv
<1>6. CASE UNCHANGED vars
  <2>1. UNCHANGED cbVars /\ UNCHANGED manager
    BY <1>6 DEF vars
  <2>2. CbInv'
    BY <1>1, <2>1, NothingChanges DEF cbVars, processors, images
  <2>3. LabelInv'
    BY <1>1, <2>1, EventsGrow DEF LabelInv, SeenInv, cbVars
  <2>4. QED
    BY <2>2, <2>3 DEF IInv
<1>7. QED
  BY <1>2, <1>3, <1>4, <1>5, <1>6 DEF Next, RingStep

(* The strengthened invariant holds of every reachable state.              *)
LEMMA Invariance == Spec => []IInv
BY Initially, Stepwise, PTL DEF Spec

-----------------------------------------------------------------------------
(* Nothing is destroyed that a pending buffer uses through its descriptors *)
(* or its labels, or that a set-up in progress points to: a buffer that is *)
(* pending waits for its fence, and keeps what its commands use until it   *)
(* was waited for; what a readback releases in the middle of a set-up is   *)
(* parked (ResourceReleaseDeferral, RetainResourceUntilFence, context.cpp).*)
THEOREM UsedIsAliveHolds == Spec => []UsedIsAlive
<1>1. ASSUME CbInv PROVE UsedIsAlive
  <2>1. ASSUME NEW p \in CPs, NEW s \in Slots PROVE buf[p][s].keeps \subseteq Alive
    BY DEF Alive
  <2>2. ASSUME NEW p \in CPs PROVE parked[p] \subseteq Alive
    BY DEF Alive
  <2>3. ASSUME NEW c \in InUse PROVE c.bound \cup ({c.label} \ {0}) \subseteq Alive
    <3>1. PICK p \in CPs : c \in UNION {Elements(buf[p][s].cmds) : s \in Pending(p)}
      BY DEF InUse
    <3>2. PICK s \in Pending(p) : c \in Elements(buf[p][s].cmds)
      BY <3>1
    <3>3. s \in Slots /\ buf[p][s].executed
      <4>1. PICK i \in DOMAIN gpu[p] : s = gpu[p][i]
        BY DEF Pending
      <4>2. gpu[p] \in Seq(Slots) /\ buf[p][gpu[p][i]].executed
        BY <1>1 DEF CbInv, BuffersInv
      <4>3. QED
        BY <4>1, <4>2
    <3>4. Sound(buf[p][s], count.labels)
      BY <1>1, <3>3 DEF CbInv, BuffersInv
    <3>5. c.bound \cup ({c.label} \ {0}) \subseteq buf[p][s].keeps
      BY <3>2, <3>3, <3>4 DEF Sound
    <3>6. QED
      BY <2>1, <3>3, <3>5
  <2>4. ASSUME NEW p \in CPs PROVE local[p].resolved \subseteq Alive
    <3>1. CASE Stands(p, "setup")
      <4>1. Active(p)
        BY <1>1, <3>1 DEF Stands, CbInv, HoldsOK
      <4>2. Cur(p).keeps \subseteq Alive
        BY <1>1, <2>1, <4>1, CurrentFacts
      <4>3. QED
        BY <1>1, <2>2, <3>1, <4>2 DEF CbInv, LocalOK
    <3>2. CASE ~Stands(p, "setup")
      BY <1>1, <3>2 DEF CbInv, LocalOK
    <3>3. QED
      BY <3>1, <3>2
  <2>5. QED
    BY <2>3, <2>4 DEF UsedIsAlive
<1>2. IInv => UsedIsAlive
  BY <1>1 DEF IInv
<1>3. QED
  BY Invariance, <1>2, PTL

(* A command is part of the recording its set-up began in: the generation  *)
(* is checked again before the draw or dispatch is recorded                *)
(* (renderDraw.cpp, renderCompute.cpp).                                    *)
THEOREM SetUpInThisRecordingHolds == Spec => []SetUpInThisRecording
<1>1. IInv => SetUpInThisRecording
  BY DEF IInv, CbInv, BuffersInv, Sound, SetUpInThisRecording
<1>2. QED
  BY Invariance, <1>1, PTL

(* Neither End's nor Submit's check ever stops the process: whoever        *)
(* submits finds its buffer, and a readback every buffer, recording and    *)
(* not executing (context.cpp).                                            *)
THEOREM SubmitsWhatRecordsHolds == Spec => []SubmitsWhatRecords
<1>1. IInv => SubmitsWhatRecords
  BY DEF IInv, CbInv, TypeOK, SubmitsWhatRecords
<1>2. QED
  BY Invariance, <1>1, PTL

(* A label's callbacks overtake those of an earlier one only if the GPU    *)
(* set the earlier one's event during the scan (LabelManager::ThreadRun).  *)
THEOREM OvertakenInScanHolds == Spec => OvertakenInScan
<1>1. ASSUME IInv, [Next]_vars
      PROVE  [\A l \in called' \ called : \A k \in 1 .. l - 1 : k \in seen => k \in called]_vars
  <2>1. ASSUME NEW l \in called', l \notin called, NEW k \in 1 .. l - 1, k \in seen
        PROVE  k \in called
    <3>1. Callback
      BY <1>1, <2>1
      DEF Next, RingStep, GpuStep, LabelStep, SubmitLabel, ScanBegin, Poll, ScanEnd, IterationEnd,
          manager, vars
    <3>2. /\ thread.at = "call" /\ thread.done < Len(thread.fired)
          /\ l = thread.fired[thread.done + 1]
      BY <2>1, <3>1 DEF Callback
    <3>3. /\ thread \in ThreadRecord
          /\ Rising(thread.fired)
      BY <1>1 DEF IInv, LabelInv, ThreadOK, ListInv
    <3>4. /\ thread.done + 1 \in DOMAIN thread.fired /\ DOMAIN thread.fired \subseteq Nat
          /\ thread.done \in Nat /\ l \in Nat
          /\ \A j \in DOMAIN thread.fired : thread.fired[j] \in Nat
      BY <3>2, <3>3
    <3>5. k \in Nat /\ k < l
      BY <3>4
    <3>6. k \in 1 .. count.labels /\ \A i \in DOMAIN subs : subs[i] # k
      BY <1>1, <2>1, <3>2 DEF IInv, LabelInv, SeenInv
    <3>7. ASSUME NEW j \in DOMAIN thread.fired, thread.done < j, thread.fired[j] = k PROVE FALSE
      <4>1. j = thread.done + 1 \/ thread.done + 1 < j
        BY <3>4, <3>7
      <4>2. CASE j = thread.done + 1
        BY <3>2, <3>5, <3>7, <4>2
      <4>3. CASE thread.done + 1 < j
        <5>1. l < k
          BY <3>2, <3>3, <3>4, <3>7, <4>3 DEF Rising
        <5>2. QED
          BY <3>4, <3>5, <5>1
      <4>4. QED
        BY <4>1, <4>2, <4>3
    <3>8. QED
      BY <1>1, <3>6, <3>7 DEF IInv, LabelInv, SeenInv
  <2>2. QED
    BY <2>1
<1>2. QED
  BY Invariance, <1>1, PTL DEF Spec, OvertakenInScan

=============================================================================
