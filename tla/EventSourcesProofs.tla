-------------------------- MODULE EventSourcesProofs --------------------------
(***************************************************************************)
(* No trigger of an AMPR event or of a source's event is lost or           *)
(* reordered, and what the sources remember of the queue is true, for any  *)
(* number of guest threads, calls and triggers.                            *)
(***************************************************************************)
EXTENDS EventSources, TLAPS, SequenceTheorems, WellFoundedInduction

(***************************************************************************)
(* An event of the list: its kind fits its key, only timers have           *)
(* deadlines, and what queues has nothing pending unless it is triggered.  *)
(***************************************************************************)
GoodEvent(e) ==
  /\ e.kind \in KindsOf(e.key)
  /\ e.deadline # "none" => e.kind = "timer"
  /\ e.kind \in Queueing /\ ~e.triggered => e.pending = <<>>

GoodList(list) ==
  /\ list \in Seq(Event)
  /\ \A i, j \in DOMAIN list : list[i].key = list[j].key => i = j
  /\ \A i \in DOMAIN list : GoodEvent(list[i])

Matches(list, owed) ==
  \A i \in DOMAIN list : list[i].kind \in Queueing => Contents(list[i]) = owed[list[i].key]

(* The queue: what it holds for an event is what is due.                   *)
QueueInv ==
  /\ GoodList(events) /\ Matches(events, due)
  /\ due \in [Keys -> Seq(Nat)] /\ inOrder = TRUE /\ sent \in Nat

(* The calls under way: who holds the mutex deletes, who deletes an event  *)
(* still has it, one thread at most registers an end-of-pipe event, and    *)
(* whoever destroys the queue is alone.                                    *)
CallInv ==
  /\ \A t \in Guests : pc[t] \in {"unlink", "dtor"} => eqMutex = t
  /\ \A t \in Guests : pc[t] = "unlink" =>
       /\ arg[t].key \in Sources /\ HasEvent(arg[t].key)
       /\ arg[t].key = "eop" => \A u \in Guests : pc[u] # "addEop"
  /\ \A t \in Guests : pc[t] = "addEop" =>
       /\ exists /\ HasEvent("eop") /\ eopCount = 0
       /\ \A u \in Guests : pc[u] = "addEop" => u = t
  /\ \A t \in Guests : pc[t] \in {"destroy", "dtor"} =>
       ~listed /\ \A u \in Guests \ {t} : pc[u] = "idle"
  /\ eopCount <= 1

IInv == TypeOK /\ QueueInv /\ CallInv /\ RegistrationsAreLive

-----------------------------------------------------------------------------
(* Induction over the steps of a loop, from the least counterexample: a    *)
(* non-empty set of numbers has a least element.                           *)
Less == {p \in Nat \X Nat : p[1] < p[2]}

(* The library states well-foundedness for a relation: less-than on Nat. *)
LEMMA LessIsWellFounded == IsWellFoundedOn(Less, Nat)
<1>1. OpToRel(<, Nat) = Less
  BY Zenon DEF OpToRel, Less
<1> QED  BY <1>1, NatLessThanWellFounded, Zenon

(* A non-empty set of numbers has a least element. *)
LEMMA LeastElement ==
  ASSUME NEW S \in SUBSET Nat, S # {}
  PROVE  \E m \in S : \A k \in S : m <= k
<1>1. PICK m \in S : \A k \in S : ~ (<<k, m>> \in Less)
  BY LessIsWellFounded, WFMin
<1>2. \A a, b \in Nat : a < b => <<a, b>> \in Less
  BY DEF Less
<1>3. \A k \in S : k \in Nat /\ m \in Nat /\ ~ (k < m)
  BY <1>1, <1>2
<1>4. \A k \in S : m <= k
  BY <1>3
<1> QED  BY <1>4

(* What is so before a loop and after each of its steps is so at its end.  *)
LEMMA UpTo ==
  ASSUME NEW n \in Nat, NEW S, 0 \in S, \A i \in 0 .. n - 1 : i \in S => i + 1 \in S
  PROVE  0 .. n \subseteq S
<1> DEFINE missing == {k \in 0 .. n : k \notin S}
<1> SUFFICES ASSUME missing # {} PROVE FALSE
  OBVIOUS
<1>1. PICK m \in missing : \A k \in missing : m <= k
  <2>1. missing \in SUBSET Nat  OBVIOUS
  <2> HIDE DEF missing
  <2> QED  BY <2>1, LeastElement
<1>2. m - 1 \in 0 .. n - 1 /\ m - 1 \in S
  BY <1>1
<1> QED  BY <1>1, <1>2

(* A loop has its states: f[i] is the one after i steps.                   *)
Iterates(f, n, S, base, step) ==
  f \in [0 .. n -> S] /\ f[0] = base /\ \A i \in 1 .. n : f[i] = step[i][f[i - 1]]

(* A loop of any number of steps runs: by the least step it would not       *)
(* reach.                                                                   *)
LEMMA LoopRuns ==
  ASSUME NEW n \in Nat, NEW S, NEW base \in S, NEW step \in [1 .. n -> [S -> S]]
  PROVE  \E f : Iterates(f, n, S, base, step)
<1> DEFINE reached == {k \in 0 .. n : \E f : Iterates(f, k, S, base, step)}
<1>1. 0 \in reached
  <2> DEFINE f == [i \in 0 .. 0 |-> base]
  <2>1. Iterates(f, 0, S, base, step)  BY DEF Iterates
  <2> HIDE DEF f
  <2>2. 0 \in 0 .. n  OBVIOUS
  <2> QED  BY <2>1, <2>2
<1>2. ASSUME NEW k \in 0 .. n - 1, k \in reached PROVE k + 1 \in reached
  <2>1. PICK f : Iterates(f, k, S, base, step)
    BY <1>2
  <2>2. f \in [0 .. k -> S] /\ f[0] = base /\ \A i \in 1 .. k : f[i] = step[i][f[i - 1]]
    BY <2>1 DEF Iterates
  <2> DEFINE g == [i \in 0 .. k + 1 |-> IF i <= k THEN f[i] ELSE step[k + 1][f[k]]]
  <2>3. f[k] \in S /\ k + 1 \in 1 .. n /\ k + 1 \in 0 .. n
    BY <2>2
  <2>4. step[k + 1][f[k]] \in S
    BY <2>3
  <2>5. g \in [0 .. k + 1 -> S]
    BY <2>2, <2>4
  <2>6. g[0] = base
    BY <2>2
  <2>7. ASSUME NEW i \in 1 .. k + 1 PROVE g[i] = step[i][g[i - 1]]
    BY <2>2, <2>7
  <2>8. Iterates(g, k + 1, S, base, step)
    BY <2>5, <2>6, <2>7 DEF Iterates
  <2> HIDE DEF g
  <2> QED  BY <2>3, <2>8
<1> HIDE DEF reached
<1>3. 0 .. n \subseteq reached
  BY <1>1, <1>2, UpTo
<1>4. n \in reached
  BY <1>3
<1> QED  BY <1>4 DEF reached

-----------------------------------------------------------------------------
(* What an event is made of.                                               *)
LEMMA EventFields ==
  ASSUME NEW e \in Event
  PROVE  /\ e.key \in Keys /\ e.kind \in Kinds /\ e.triggered \in BOOLEAN
         /\ e.data \in Nat /\ e.pending \in Seq(Nat)
         /\ e.deadline \in {"none", "ahead", "passed"}
  BY DEF Event

(* What is queued for an event, one by one.                                *)
LEMMA ContentsAre ==
  ASSUME NEW e \in Event
  PROVE  /\ Contents(e) \in Seq(Nat)
         /\ e.triggered => /\ Len(Contents(e)) = Len(e.pending) + 1
                           /\ Contents(e)[1] = e.data
                           /\ \A i \in 1 .. Len(e.pending) : Contents(e)[i + 1] = e.pending[i]
         /\ ~e.triggered => Contents(e) = e.pending
<1>1. e.data \in Nat /\ e.pending \in Seq(Nat)
  BY EventFields
<1> DEFINE d == <<e.data>>
           p == e.pending
<1>2. d \in Seq(Nat) /\ Len(d) = 1 /\ d[1] = e.data
  BY <1>1
<1>3. CASE e.triggered
  <2>1. Contents(e) = d \o p
    BY <1>3 DEF Contents
  <2> HIDE DEF d, p
  <2>2. /\ d \o p \in Seq(Nat) /\ Len(d \o p) = 1 + Len(p)
        /\ \A i \in 1 .. 1 + Len(p) : (d \o p)[i] = IF i <= 1 THEN d[i] ELSE p[i - 1]
    <3>1. p \in Seq(Nat)
      BY <1>1 DEF p
    <3>2. /\ d \o p \in Seq(Nat) /\ Len(d \o p) = Len(d) + Len(p)
          /\ \A i \in 1 .. Len(d) + Len(p) : (d \o p)[i] = IF i <= Len(d) THEN d[i] ELSE p[i - Len(d)]
      BY <1>2, <3>1, ConcatProperties
    <3> QED  BY <1>2, <3>2
  <2>3. Len(p) \in Nat
    BY <1>1 DEF p
  <2>4. /\ Contents(e)[1] = d[1]
        /\ \A i \in 1 .. Len(p) : Contents(e)[i + 1] = p[i]
    BY <2>1, <2>2, <2>3
  <2> QED  BY <1>2, <1>3, <2>1, <2>2, <2>3, <2>4 DEF p
<1>4. CASE ~e.triggered
  BY <1>1, <1>4 DEF Contents
<1> QED  BY <1>3, <1>4

(* One delivery keeps what the event is, and its good form.                *)
LEMMA DeliveryKeeps ==
  ASSUME NEW e \in Event
  PROVE  /\ NextPending(Reset(e)) \in Event
         /\ NextPending(Reset(e)).key = e.key /\ NextPending(Reset(e)).kind = e.kind
         /\ NextPending(Reset(e)).deadline = e.deadline
         /\ GoodEvent(e) => GoodEvent(NextPending(Reset(e)))
<1> DEFINE f == Reset(e)
           g == NextPending(f)
<1>1. /\ f \in Event /\ f.key = e.key /\ f.kind = e.kind /\ f.deadline = e.deadline
      /\ f.pending = e.pending
  BY DEF Reset, Event
<1> HIDE DEF f
<1>2. f.pending \in Seq(Nat)
  BY <1>1, EventFields
<1>3. CASE f.pending = <<>>
  <2>1. g = f
    BY <1>3 DEF NextPending
  <2> QED  BY <1>1, <1>3, <2>1 DEF f, GoodEvent
<1>4. CASE f.pending # <<>>
  <2>1. Head(f.pending) \in Nat /\ Tail(f.pending) \in Seq(Nat)
    BY <1>2, <1>4, HeadTailProperties
  <2>2. g = [f EXCEPT !.triggered = TRUE, !.data = Head(f.pending), !.pending = Tail(f.pending)]
    BY <1>4 DEF NextPending
  <2>3. /\ g \in Event /\ g.key = f.key /\ g.kind = f.kind /\ g.deadline = f.deadline
        /\ g.triggered = TRUE
    BY <1>1, <2>1, <2>2 DEF Event
  <2> HIDE DEF g
  <2> QED  BY <1>1, <2>3 DEF f, g, GoodEvent
<1> QED  BY <1>3, <1>4

(* One delivery of an event that queues hands out the first of what is     *)
(* queued and leaves the rest.                                             *)
LEMMA DeliveryTakesFirst ==
  ASSUME NEW e \in Event, GoodEvent(e), e.kind \in Queueing, Contents(e) # <<>>
  PROVE  /\ e.triggered /\ e.data = Contents(e)[1]
         /\ Contents(NextPending(Reset(e))) = Tail(Contents(e))
<1> DEFINE f == Reset(e)
           g == NextPending(f)
           c == Contents(e)
<1>1. e.triggered = TRUE
  BY EventFields DEF Contents, GoodEvent
<1>2. /\ e.pending \in Seq(Nat) /\ c \in Seq(Nat) /\ Len(c) = Len(e.pending) + 1 /\ c[1] = e.data
      /\ \A i \in 1 .. Len(e.pending) : c[i + 1] = e.pending[i]
  BY <1>1, ContentsAre, EventFields
<1> HIDE DEF c
<1>3. Tail(c) = e.pending
  <2>1. Len(e.pending) \in Nat
    BY <1>2
  <2>2. c # <<>>
    BY <2>1, <1>2
  <2>3. /\ Tail(c) \in Seq(Nat) /\ Len(Tail(c)) = Len(e.pending)
        /\ \A i \in 1 .. Len(e.pending) : Tail(c)[i] = c[i + 1]
    BY <1>2, <2>1, <2>2, HeadTailProperties
  <2>4. \A i \in 1 .. Len(e.pending) : Tail(c)[i] = e.pending[i]
    BY <1>2, <2>3
  <2> QED  BY <1>2, <2>3, <2>4, SeqEqual
<1>4. /\ f \in Event /\ f.pending = e.pending /\ f.triggered = FALSE
  BY DEF Reset, Event, Queueing
<1> HIDE DEF f
<1>5. CASE f.pending = <<>>
  <2>1. g = f
    BY <1>5 DEF NextPending
  <2>2. Contents(g) = e.pending
    BY <1>4, <2>1 DEF Contents
  <2> QED  BY <1>1, <1>2, <1>3, <2>2 DEF f, c
<1>6. CASE f.pending # <<>>
  <2>1. /\ Head(f.pending) \in Nat /\ Tail(f.pending) \in Seq(Nat)
        /\ Head(f.pending) = f.pending[1]
        /\ Len(Tail(f.pending)) = Len(f.pending) - 1
        /\ \A i \in 1 .. Len(f.pending) - 1 : Tail(f.pending)[i] = f.pending[i + 1]
    <3>1. f.pending \in Seq(Nat)
      BY <1>2, <1>4
    <3> QED  BY <1>6, <3>1, HeadTailProperties
  <2>2. g = [f EXCEPT !.triggered = TRUE, !.data = Head(f.pending), !.pending = Tail(f.pending)]
    BY <1>6 DEF NextPending
  <2>3. /\ g \in Event /\ g.triggered = TRUE /\ g.data = Head(f.pending)
        /\ g.pending = Tail(f.pending)
    BY <1>4, <2>1, <2>2 DEF Event
  <2> HIDE DEF g
  <2>4. Len(f.pending) \in Nat /\ Len(f.pending) # 0
    BY <1>2, <1>4, <1>6
  <2>5. /\ Contents(g) \in Seq(Nat) /\ Len(Contents(g)) = Len(g.pending) + 1
        /\ Contents(g)[1] = g.data
        /\ \A i \in 1 .. Len(g.pending) : Contents(g)[i + 1] = g.pending[i]
    BY <2>3, ContentsAre
  <2>6. Len(Contents(g)) = Len(f.pending)
    BY <2>1, <2>3, <2>4, <2>5
  <2>7. ASSUME NEW i \in 1 .. Len(f.pending) PROVE Contents(g)[i] = f.pending[i]
    <3>1. CASE i = 1
      BY <2>1, <2>3, <2>5, <3>1
    <3>2. CASE i # 1
      <4>1. i - 1 \in 1 .. Len(f.pending) - 1 /\ i = (i - 1) + 1
        BY <2>4, <3>2
      <4>2. Contents(g)[(i - 1) + 1] = g.pending[i - 1]
        BY <2>1, <2>3, <2>5, <4>1
      <4>3. Tail(f.pending)[i - 1] = f.pending[(i - 1) + 1]
        BY <2>1, <4>1
      <4> QED  BY <2>3, <4>1, <4>2, <4>3
    <3> QED  BY <3>1, <3>2
  <2>8. Contents(g) = f.pending
    BY <1>2, <1>4, <2>5, <2>6, <2>7, SeqEqual
  <2> QED  BY <1>1, <1>2, <1>3, <1>4, <2>8 DEF f, g, c
<1> QED  BY <1>5, <1>6

-----------------------------------------------------------------------------
(* After is NextPending after Reset, so many times.                        *)
Deliveries(h, e, k) ==
  /\ h \in [0 .. k -> Event] /\ h[0] = e
  /\ \A j \in 0 .. k - 1 : h[j + 1] = NextPending(Reset(h[j]))

(* What an event is after k deliveries is the last of k + 1 events, each    *)
(* the one before it reset and delivered once more.                         *)
LEMMA AfterRuns ==
  ASSUME NEW e \in Event, NEW k \in Nat
  PROVE  \E h : Deliveries(h, e, k) /\ After(e, k) = h[k]
<1> DEFINE step == [i \in 1 .. k |-> [x \in Event |-> NextPending(Reset(x))]]
           P(g) == g = [j \in 0 .. k |-> IF j = 0 THEN e ELSE NextPending(Reset(g[j - 1]))]
           h == CHOOSE g : P(g)
<1>1. PICK f : Iterates(f, k, Event, e, step)
  <2>1. step \in [1 .. k -> [Event -> Event]]
    BY DeliveryKeeps
  <2> HIDE DEF step
  <2> QED  BY <2>1, LoopRuns
<1>2. P(f)
  <2>1. /\ f \in [0 .. k -> Event] /\ f[0] = e
        /\ \A i \in 1 .. k : f[i - 1] \in Event /\ f[i] = step[i][f[i - 1]]
    <3> HIDE DEF step
    <3> QED  BY <1>1 DEF Iterates
  <2>2. \A i \in 1 .. k : \A x \in Event : step[i][x] = NextPending(Reset(x))
    OBVIOUS
  <2> HIDE DEF step
  <2> QED  BY <2>1, <2>2
<1>3. P(h)
  BY <1>2, Zenon
<1>4. After(e, k) = h[k]
  BY DEF After
<1> HIDE DEF h
<1>5. DOMAIN h = 0 .. k /\ h[0] = e /\ \A j \in 0 .. k - 1 : h[j + 1] = NextPending(Reset(h[j]))
  BY <1>3
<1> DEFINE T == {j \in 0 .. k : h[j] \in Event}
<1>6. 0 \in T
  BY <1>5
<1>7. \A j \in 0 .. k - 1 : j \in T => j + 1 \in T
  BY <1>5, DeliveryKeeps
<1>8. \A j \in 0 .. k : h[j] \in Event
  <2> HIDE DEF T
  <2>1. 0 .. k \subseteq T  BY <1>6, <1>7, UpTo
  <2> QED  BY <2>1 DEF T
<1>9. h \in [0 .. k -> Event]
  <2>1. h = [j \in 0 .. k |-> h[j]]
    BY <1>3
  <2> QED  BY <1>8, <2>1
<1> QED  BY <1>4, <1>5, <1>9 DEF Deliveries

(* So one delivery more is one NextPending after Reset more.               *)
LEMMA AfterStep ==
  ASSUME NEW e \in Event, NEW k \in Nat
  PROVE  /\ After(e, 0) = e /\ After(e, k) \in Event
         /\ After(e, k + 1) = NextPending(Reset(After(e, k)))
<1>1. PICK h : Deliveries(h, e, k) /\ After(e, k) = h[k]
  BY AfterRuns
<1>2. PICK g : Deliveries(g, e, k + 1) /\ After(e, k + 1) = g[k + 1]
  <2>1. k + 1 \in Nat  OBVIOUS
  <2> QED  BY <2>1, AfterRuns
<1>3. PICK f : Deliveries(f, e, 0) /\ After(e, 0) = f[0]
  <2>1. 0 \in Nat  OBVIOUS
  <2> QED  BY <2>1, AfterRuns
<1> DEFINE T == {j \in 0 .. k : g[j] = h[j]}
<1>4. 0 \in T
  BY <1>1, <1>2 DEF Deliveries
<1>5. ASSUME NEW j \in 0 .. k - 1, j \in T PROVE j + 1 \in T
  <2>1. j + 1 \in 0 .. k /\ j \in 0 .. (k + 1) - 1
    OBVIOUS
  <2>2. h[j + 1] = NextPending(Reset(h[j])) /\ g[j + 1] = NextPending(Reset(g[j]))
    BY <1>1, <1>2, <2>1 DEF Deliveries
  <2> QED  BY <1>5, <2>1, <2>2
<1>6. g[k] = h[k]
  <2> HIDE DEF T
  <2>1. 0 .. k \subseteq T  BY <1>4, <1>5, UpTo
  <2> QED  BY <2>1 DEF T
<1>7. g[k + 1] = NextPending(Reset(g[k]))
  <2>1. k \in 0 .. (k + 1) - 1  OBVIOUS
  <2> QED  BY <1>2, <2>1 DEF Deliveries
<1>8. h[k] \in Event
  BY <1>1 DEF Deliveries
<1> QED  BY <1>1, <1>2, <1>3, <1>6, <1>7, <1>8 DEF Deliveries

(* Deliveries keep what the event is.                                      *)
LEMMA AfterKeeps ==
  ASSUME NEW e \in Event, GoodEvent(e), NEW k \in Nat
  PROVE  /\ After(e, k) \in Event /\ GoodEvent(After(e, k))
         /\ After(e, k).key = e.key /\ After(e, k).kind = e.kind
<1> DEFINE T == {j \in 0 .. k : /\ After(e, j) \in Event /\ GoodEvent(After(e, j))
                                /\ After(e, j).key = e.key /\ After(e, j).kind = e.kind}
<1>1. 0 \in T
  BY AfterStep
<1>2. ASSUME NEW j \in 0 .. k - 1, j \in T PROVE j + 1 \in T
  <2>1. j \in Nat /\ j + 1 \in 0 .. k
    OBVIOUS
  <2>2. After(e, j + 1) = NextPending(Reset(After(e, j)))
    BY <2>1, AfterStep
  <2> QED  BY <1>2, <2>1, <2>2, DeliveryKeeps
<1> HIDE DEF T
<1>3. k \in T
  <2>1. 0 .. k \subseteq T  BY <1>1, <1>2, UpTo
  <2> QED  BY <2>1
<1> QED  BY <1>3 DEF T

(* Of an event that queues, k deliveries hand out the k oldest triggers    *)
(* queued, in order, and leave the rest.                                   *)
LEMMA AfterQueued ==
  ASSUME NEW e \in Event, GoodEvent(e), e.kind \in Queueing,
         NEW k \in Nat, k <= Len(Contents(e))
  PROVE  /\ Contents(After(e, k)) = SubSeq(Contents(e), k + 1, Len(Contents(e)))
         /\ HandsOut(e, k, Contents(e))
<1> DEFINE c == Contents(e)
           Rest(j) == SubSeq(c, j + 1, Len(c))
           T == {j \in 0 .. k : Contents(After(e, j)) = Rest(j)}
<1>1. c \in Seq(Nat) /\ Len(c) \in Nat /\ k <= Len(c)
  BY ContentsAre
<1> HIDE DEF c
<1>2. ASSUME NEW j \in 0 .. k
      PROVE  /\ Rest(j) \in Seq(Nat) /\ Len(Rest(j)) = Len(c) - j
             /\ \A i \in 1 .. Len(c) - j : Rest(j)[i] = c[j + i]
  <2>1. j + 1 \in Int /\ Len(c) \in Int /\ \A i \in j + 1 .. Len(c) : c[i] \in Nat
    BY <1>1
  <2>2. /\ Rest(j) \in Seq(Nat)
        /\ Len(Rest(j)) = IF j + 1 <= Len(c) THEN Len(c) - (j + 1) + 1 ELSE 0
        /\ \A i \in 1 .. Len(c) - (j + 1) + 1 : Rest(j)[i] = c[(j + 1) + i - 1]
    BY <2>1, SubSeqProperties
  <2>3. Len(c) - (j + 1) + 1 = Len(c) - j /\ (j + 1 <= Len(c) \/ Len(c) = j)
    BY <1>1
  <2>4. \A i \in 1 .. Len(c) - j : (j + 1) + i - 1 = j + i
    BY <1>1
  <2> HIDE DEF Rest
  <2>5. Len(Rest(j)) = Len(c) - j
    <3>1. CASE j + 1 <= Len(c)
      BY <1>1, <2>2, <3>1
    <3>2. CASE Len(c) = j
      BY <1>1, <2>2, <3>2
    <3> QED  BY <2>3, <3>1, <3>2
  <2>6. ASSUME NEW i \in 1 .. Len(c) - j PROVE Rest(j)[i] = c[j + i]
    <3>1. i \in 1 .. Len(c) - (j + 1) + 1
      BY <1>1
    <3>2. Rest(j)[i] = c[(j + 1) + i - 1]
      BY <2>2, <3>1
    <3> QED  BY <2>4, <3>2
  <2> QED  BY <2>2, <2>5, <2>6
<1> HIDE DEF Rest
<1>3. 0 \in T
  <2>1. Contents(After(e, 0)) = c
    BY AfterStep DEF c
  <2>2. Rest(0) = c
    <3>1. /\ Rest(0) \in Seq(Nat) /\ Len(Rest(0)) = Len(c)
          /\ \A i \in 1 .. Len(c) : Rest(0)[i] = c[i]
      BY <1>1, <1>2
    <3> QED  BY <1>1, <3>1, SeqEqual
  <2> QED  BY <2>1, <2>2
<1>4. ASSUME NEW j \in 0 .. k - 1, Contents(After(e, j)) = Rest(j)
      PROVE  /\ After(e, j).data = c[j + 1]
             /\ Contents(After(e, j + 1)) = Rest(j + 1)
  <2> DEFINE a == After(e, j)
  <2>1. j \in Nat /\ j \in 0 .. k /\ j + 1 \in 0 .. k /\ Len(c) - j \in Nat \ {0}
    BY <1>1
  <2>2. a \in Event /\ GoodEvent(a) /\ a.kind \in Queueing
    BY <2>1, AfterKeeps
  <2>3. After(e, j + 1) = NextPending(Reset(a))
    BY <2>1, AfterStep
  <2> HIDE DEF a
  <2>4. /\ Contents(a) \in Seq(Nat) /\ Len(Contents(a)) = Len(c) - j
        /\ \A i \in 1 .. Len(c) - j : Contents(a)[i] = c[j + i]
    BY <1>2, <1>4, <2>1 DEF a
  <2>5. Contents(a) # <<>>
    BY <2>1, <2>4
  <2>6. a.data = Contents(a)[1] /\ Contents(NextPending(Reset(a))) = Tail(Contents(a))
    BY <2>2, <2>5, DeliveryTakesFirst
  <2>7. Contents(a)[1] = c[j + 1]
    BY <2>1, <2>4
  <2>8. Tail(Contents(a)) = Rest(j + 1)
    <3>1. /\ Tail(Contents(a)) \in Seq(Nat) /\ Len(Tail(Contents(a))) = Len(c) - j - 1
          /\ \A i \in 1 .. Len(Tail(Contents(a))) : Tail(Contents(a))[i] = Contents(a)[i + 1]
      BY <2>4, <2>5, HeadTailProperties
    <3>2. /\ Rest(j + 1) \in Seq(Nat) /\ Len(Rest(j + 1)) = Len(c) - (j + 1)
          /\ \A i \in 1 .. Len(c) - (j + 1) : Rest(j + 1)[i] = c[(j + 1) + i]
      BY <1>2, <2>1
    <3>3. ASSUME NEW i \in 1 .. Len(Tail(Contents(a)))
          PROVE  Tail(Contents(a))[i] = Rest(j + 1)[i]
      <4>1. i + 1 \in 1 .. Len(c) - j /\ i \in 1 .. Len(c) - (j + 1) /\ j + (i + 1) = (j + 1) + i
        BY <1>1, <2>1, <3>1
      <4>2. Contents(a)[i + 1] = c[j + (i + 1)]
        BY <2>4, <4>1
      <4> QED  BY <3>1, <3>2, <4>1, <4>2
    <3>4. Len(Tail(Contents(a))) = Len(Rest(j + 1))
      BY <1>1, <2>1, <3>1, <3>2
    <3> QED  BY <3>1, <3>2, <3>3, <3>4, SeqEqual
  <2> QED  BY <2>3, <2>6, <2>7, <2>8 DEF a
<1>5. \A j \in 0 .. k : Contents(After(e, j)) = Rest(j)
  <2>1. \A j \in 0 .. k - 1 : j \in T => j + 1 \in T
    BY <1>4
  <2>2. 0 .. k \subseteq T
    <3> HIDE DEF T
    <3> QED  BY <1>3, <2>1, UpTo
  <2> QED  BY <2>2
<1>6. ASSUME NEW j \in 1 .. k PROVE After(e, j - 1).data = c[j]
  <2>1. j - 1 \in 0 .. k - 1 /\ j - 1 \in 0 .. k /\ (j - 1) + 1 = j
    OBVIOUS
  <2> QED  BY <1>4, <1>5, <2>1
<1> QED  BY <1>1, <1>5, <1>6 DEF c, Rest, HandsOut

-----------------------------------------------------------------------------
(* The places an event fills are there, and an event that queues fills no  *)
(* more than it has triggers for.                                          *)
LEMMA FillsFit ==
  ASSUME NEW e \in Event, NEW n \in Nat
  PROVE  /\ Fills(e, n) \in 0 .. n
         /\ e.kind \in Queueing => Fills(e, n) <= Len(Contents(e))
<1>1. /\ e.pending \in Seq(Nat) /\ Len(e.pending) \in Nat /\ Contents(e) \in Seq(Nat)
      /\ Len(Contents(e)) \in Nat
      /\ e.triggered => Len(Contents(e)) = Len(e.pending) + 1
  BY EventFields, ContentsAre
<1>2. Fills(e, n) \in 0 .. n
  BY <1>1 DEF Fills
<1>3. ASSUME e.kind \in Queueing PROVE Fills(e, n) <= Len(Contents(e))
  <2>1. e.kind # "timer" /\ e.kind # "level"
    BY <1>3 DEF Queueing
  <2>2. CASE ~e.triggered \/ n = 0
    BY <1>1, <2>2 DEF Fills
  <2>3. CASE e.triggered /\ n # 0
    <3>1. Fills(e, n) = IF n <= Len(e.pending) THEN n ELSE 1 + Len(e.pending)
      BY <2>1, <2>3 DEF Fills
    <3> QED  BY <1>1, <2>3, <3>1
  <2> QED  BY <2>2, <2>3
<1> QED  BY <1>2, <1>3

(* What a wait takes of each event: never more than it has.                *)
LEMMA TakenFits ==
  ASSUME NEW list \in Seq(Event), NEW n \in Nat
  PROVE  \A i \in DOMAIN list :
           /\ Taken(list, n)[i] \in Nat
           /\ list[i].kind \in Queueing => Taken(list, n)[i] <= Len(Contents(list[i]))
<1> DEFINE m == Len(list)
           step == [i \in 1 .. m |-> [x \in 0 .. n |-> x + Fills(list[i], n - x)]]
           P(g) == g = [i \in 0 .. m |->
                          IF i = 0 THEN 0 ELSE g[i - 1] + Fills(list[i], n - g[i - 1])]
           h == CHOOSE g : P(g)
<1>1. m \in Nat /\ DOMAIN list = 1 .. m /\ \A i \in 1 .. m : list[i] \in Event
  BY LenProperties, ElementOfSeq
<1>2. ASSUME NEW i \in 1 .. m, NEW x \in 0 .. n
      PROVE  /\ n - x \in Nat /\ Fills(list[i], n - x) \in 0 .. n - x
             /\ x + Fills(list[i], n - x) \in 0 .. n
  <2>1. n - x \in Nat /\ list[i] \in Event
    BY <1>1
  <2>2. Fills(list[i], n - x) \in 0 .. n - x
    BY <2>1, FillsFit
  <2> QED  BY <2>1, <2>2
<1>3. PICK f : Iterates(f, m, 0 .. n, 0, step)
  <2>0. 0 \in 0 .. n
    OBVIOUS
  <2>1. step \in [1 .. m -> [0 .. n -> 0 .. n]]
    <3> HIDE DEF m
    <3> QED  BY <1>2
  <2> HIDE DEF step, m
  <2> QED  BY <1>1, <2>0, <2>1, LoopRuns
<1>4. P(f)
  <2>1. /\ f \in [0 .. m -> 0 .. n] /\ f[0] = 0
        /\ \A i \in 1 .. m : f[i - 1] \in 0 .. n /\ f[i] = step[i][f[i - 1]]
    <3> HIDE DEF step, m
    <3> QED  BY <1>1, <1>3 DEF Iterates
  <2>2. \A i \in 1 .. m : \A x \in 0 .. n : step[i][x] = x + Fills(list[i], n - x)
    OBVIOUS
  <2> HIDE DEF step, m
  <2> QED  BY <2>1, <2>2
<1>5. P(h)
  BY <1>4, Zenon
<1>6. Taken(list, n) = [i \in DOMAIN list |-> h[i] - h[i - 1]]
  BY DEF Taken
<1> HIDE DEF h, m
<1>7. h[0] = 0 /\ \A i \in 0 .. m - 1 : h[i + 1] = h[i] + Fills(list[i + 1], n - h[i])
  BY <1>1, <1>5
<1> DEFINE T == {i \in 0 .. m : h[i] \in 0 .. n}
<1>8. 0 \in T
  BY <1>1, <1>7
<1>9. ASSUME NEW i \in 0 .. m - 1, i \in T PROVE i + 1 \in T
  <2>1. i + 1 \in 1 .. m /\ i + 1 \in 0 .. m /\ h[i] \in 0 .. n
    BY <1>1, <1>9
  <2>2. h[i] + Fills(list[i + 1], n - h[i]) \in 0 .. n
    BY <1>2, <2>1
  <2>3. h[i + 1] = h[i] + Fills(list[i + 1], n - h[i])
    BY <1>7
  <2> QED  BY <2>1, <2>2, <2>3
<1>10. \A i \in 0 .. m : h[i] \in 0 .. n
  <2> HIDE DEF T
  <2>1. 0 .. m \subseteq T  BY <1>1, <1>8, <1>9, UpTo
  <2> QED  BY <2>1 DEF T
<1>11. ASSUME NEW i \in DOMAIN list
       PROVE  /\ Taken(list, n)[i] \in Nat
              /\ list[i].kind \in Queueing => Taken(list, n)[i] <= Len(Contents(list[i]))
  <2>1. i \in 1 .. m /\ i - 1 \in 0 .. m - 1 /\ i - 1 \in 0 .. m /\ (i - 1) + 1 = i
    BY <1>1
  <2>2. h[i - 1] \in 0 .. n /\ n - h[i - 1] \in Nat /\ list[i] \in Event
    BY <1>1, <1>10, <2>1
  <2>3. h[i] = h[i - 1] + Fills(list[i], n - h[i - 1])
    BY <1>7, <2>1
  <2>4. /\ Fills(list[i], n - h[i - 1]) \in 0 .. n - h[i - 1]
        /\ list[i].kind \in Queueing => Fills(list[i], n - h[i - 1]) <= Len(Contents(list[i]))
    BY <2>2, FillsFit
  <2>5. Taken(list, n)[i] = Fills(list[i], n - h[i - 1])
    BY <1>6, <2>2, <2>3, <2>4
  <2> QED  BY <2>2, <2>4, <2>5
<1> QED  BY <1>11

-----------------------------------------------------------------------------
(* What is left of the first i events: each is one of them after its       *)
(* deliveries, no key is there twice, and whatever is no timer is there.   *)
Keeps(list, taken, i, r) ==
  /\ r \in Seq(Event)
  /\ \A j \in DOMAIN r : \E l \in 1 .. i : r[j] = After(list[l], taken[l])
  /\ \A a, b \in DOMAIN r : r[a].key = r[b].key => a = b
  /\ \A l \in 1 .. i : list[l].kind # "timer" => \E j \in DOMAIN r : r[j].key = list[l].key

(* One step of the loop over the list: an expired timer is dropped, any     *)
(* other event is kept as the deliveries leave it.                          *)
LEMMA KeepsGrows ==
  ASSUME NEW list, GoodList(list), NEW taken, \A l \in DOMAIN list : taken[l] \in Nat,
         NEW i \in 1 .. Len(list), NEW r, Keeps(list, taken, i - 1, r)
  PROVE  Keeps(list, taken, i,
               IF list[i].kind = "timer" /\ taken[i] > 0 THEN r
               ELSE Append(r, After(list[i], taken[i])))
<1> DEFINE e == After(list[i], taken[i])
<1>1. /\ list \in Seq(Event) /\ DOMAIN list = 1 .. Len(list) /\ Len(list) \in Nat
      /\ \A l \in 1 .. Len(list) : list[l] \in Event /\ GoodEvent(list[l]) /\ taken[l] \in Nat
      /\ \A a, b \in DOMAIN list : list[a].key = list[b].key => a = b
  BY LenProperties, ElementOfSeq DEF GoodList
<1>2. ASSUME NEW l \in 1 .. Len(list)
      PROVE  After(list[l], taken[l]) \in Event /\ After(list[l], taken[l]).key = list[l].key
  BY <1>1, AfterKeeps
<1>3. /\ r \in Seq(Event) /\ DOMAIN r = 1 .. Len(r) /\ Len(r) \in Nat
      /\ \A j \in DOMAIN r : \E l \in 1 .. i - 1 : r[j] = After(list[l], taken[l])
      /\ \A a, b \in DOMAIN r : r[a].key = r[b].key => a = b
      /\ \A l \in 1 .. i - 1 : list[l].kind # "timer" => \E j \in DOMAIN r : r[j].key = list[l].key
  BY LenProperties DEF Keeps
<1>4. 1 .. i - 1 \subseteq 1 .. i /\ 1 .. i = (1 .. i - 1) \cup {i} /\ i \in 1 .. i
  BY <1>1
<1>5. CASE list[i].kind = "timer" /\ taken[i] > 0
  <2>1. Keeps(list, taken, i, r)
    BY <1>3, <1>4, <1>5 DEF Keeps
  <2> QED  BY <1>5, <2>1
<1>6. CASE ~ (list[i].kind = "timer" /\ taken[i] > 0)
  <2> DEFINE q == Append(r, e)
  <2>1. e \in Event /\ e.key = list[i].key
    BY <1>2
  <2>2. ASSUME NEW j \in DOMAIN r PROVE r[j].key # e.key
    <3>1. PICK l \in 1 .. i - 1 : r[j] = After(list[l], taken[l])
      BY <1>3
    <3>2. l \in DOMAIN list /\ i \in DOMAIN list /\ l # i
      BY <1>1
    <3>3. r[j].key = list[l].key
      BY <1>1, <1>2, <3>1, <3>2
    <3> QED  BY <1>1, <2>1, <3>2, <3>3
  <2> HIDE DEF e
  <2>3. /\ q \in Seq(Event) /\ Len(q) = Len(r) + 1
        /\ \A j \in 1 .. Len(r) : q[j] = r[j]
        /\ q[Len(r) + 1] = e
    BY <1>3, <2>1, AppendProperties
  <2> HIDE DEF q
  <2>4. DOMAIN q = 1 .. Len(r) + 1
    BY <2>3, LenProperties
  <2>5. 1 .. Len(r) + 1 = DOMAIN r \cup {Len(r) + 1} /\ Len(r) + 1 \notin DOMAIN r
    BY <1>3
  <2>6. ASSUME NEW j \in DOMAIN q PROVE \E l \in 1 .. i : q[j] = After(list[l], taken[l])
    <3>1. CASE j = Len(r) + 1
      BY <1>4, <2>3, <3>1 DEF e
    <3>2. CASE j \in DOMAIN r
      BY <1>3, <1>4, <2>3, <3>2
    <3> QED  BY <2>4, <2>5, <3>1, <3>2
  <2>7. ASSUME NEW a \in DOMAIN q, NEW b \in DOMAIN q, q[a].key = q[b].key PROVE a = b
    BY <1>3, <2>2, <2>3, <2>4, <2>5, <2>7
  <2>8. ASSUME NEW l \in 1 .. i, list[l].kind # "timer"
        PROVE  \E j \in DOMAIN q : q[j].key = list[l].key
    <3>1. CASE l = i
      BY <2>1, <2>3, <2>4, <2>5, <3>1
    <3>2. CASE l \in 1 .. i - 1
      <4>1. PICK j \in DOMAIN r : r[j].key = list[l].key
        BY <1>3, <2>8, <3>2
      <4>2. j \in DOMAIN q /\ q[j] = r[j]
        BY <1>3, <2>3, <2>4, <2>5
      <4> QED  BY <4>1, <4>2
    <3> QED  BY <1>4, <3>1, <3>2
  <2>9. Keeps(list, taken, i, q)
    BY <2>3, <2>6, <2>7, <2>8 DEF Keeps
  <2> QED  BY <1>6, <2>9 DEF q, e
<1> QED  BY <1>5, <1>6

(* The list a delivery leaves: each event as it is after what was taken of  *)
(* it, without the timers that fired.                                       *)
LEMMA RemainingKeeps ==
  ASSUME NEW list, GoodList(list), NEW taken, \A l \in DOMAIN list : taken[l] \in Nat
  PROVE  Keeps(list, taken, Len(list), Remaining(list, taken))
<1> DEFINE n == Len(list)
           S == Seq(Event)
           Next1(i, x) == IF list[i].kind = "timer" /\ taken[i] > 0 THEN x
                          ELSE Append(x, After(list[i], taken[i]))
           step == [i \in 1 .. n |-> [x \in S |-> Next1(i, x)]]
           P(g) == g = [i \in 0 .. n |->
                          IF i = 0 THEN <<>>
                          ELSE IF list[i].kind = "timer" /\ taken[i] > 0 THEN g[i - 1]
                          ELSE Append(g[i - 1], After(list[i], taken[i]))]
           h == CHOOSE g : P(g)
<1>1. /\ list \in Seq(Event) /\ n \in Nat /\ DOMAIN list = 1 .. n
      /\ \A i \in 1 .. n : list[i] \in Event /\ GoodEvent(list[i]) /\ taken[i] \in Nat
  BY LenProperties, ElementOfSeq DEF GoodList
<1>2. \A i \in 1 .. n : \A x \in S : Next1(i, x) \in S
  BY <1>1, AfterKeeps, AppendProperties
<1>3. PICK f : Iterates(f, n, S, <<>>, step)
  <2>1. step \in [1 .. n -> [S -> S]] /\ <<>> \in S
    BY <1>2
  <2> HIDE DEF step, n, S
  <2> QED  BY <1>1, <2>1, LoopRuns
<1>4. P(f)
  <2>1. /\ f \in [0 .. n -> S] /\ f[0] = <<>>
        /\ \A i \in 1 .. n : f[i - 1] \in S /\ f[i] = step[i][f[i - 1]]
    <3> HIDE DEF step, n, S
    <3> QED  BY <1>1, <1>3 DEF Iterates
  <2>2. \A i \in 1 .. n : \A x \in S : step[i][x] = Next1(i, x)
    OBVIOUS
  <2>3. \A i \in 1 .. n : f[i] = Next1(i, f[i - 1])
    <3> HIDE DEF step, n, S, Next1
    <3> QED  BY <2>1, <2>2
  <2> DEFINE Case(i) == IF i = 0 THEN <<>> ELSE Next1(i, f[i - 1])
  <2>4. f = [i \in 0 .. n |-> Case(i)]
    <3> HIDE DEF Next1, step, n, S
    <3>1. f = [i \in 0 .. n |-> f[i]]
      BY <2>1
    <3>2. \A i \in 0 .. n : f[i] = Case(i)
      BY <1>1, <2>1, <2>3
    <3> HIDE DEF Case
    <3> QED  BY <3>1, <3>2
  <2> HIDE DEF step, n, S
  <2> QED  BY <2>4, Zenon
<1>5. P(h)
  BY <1>4, Zenon
<1>6. Remaining(list, taken) = h[n]
  BY DEF Remaining
<1> HIDE DEF h, n, S
<1>7. h[0] = <<>> /\ \A i \in 0 .. n - 1 : h[i + 1] = Next1(i + 1, h[i])
  <2>1. h[0] = <<>>
    BY <1>1, <1>5
  <2>2. ASSUME NEW i \in 0 .. n - 1 PROVE h[i + 1] = Next1(i + 1, h[i])
    <3>1. i + 1 \in 0 .. n /\ i + 1 # 0 /\ (i + 1) - 1 = i
      BY <1>1
    <3> QED  BY <1>5, <3>1
  <2> QED  BY <2>1, <2>2
<1> DEFINE T == {i \in 0 .. n : Keeps(list, taken, i, h[i])}
<1>8. 0 \in T
  <2>1. <<>> \in Seq(Event) /\ DOMAIN <<>> = {} /\ 1 .. 0 = {}
    OBVIOUS
  <2>2. Keeps(list, taken, 0, <<>>)
    BY <2>1 DEF Keeps
  <2> QED  BY <1>1, <1>7, <2>2
<1>9. ASSUME NEW i \in 0 .. n - 1, i \in T PROVE i + 1 \in T
  <2>1. i + 1 \in 1 .. n /\ i + 1 \in 0 .. n /\ (i + 1) - 1 = i /\ Keeps(list, taken, i, h[i])
    BY <1>1, <1>9
  <2>2. i + 1 \in 1 .. Len(list) /\ Keeps(list, taken, (i + 1) - 1, h[i])
    BY <2>1 DEF n
  <2>3. Keeps(list, taken, i + 1, Next1(i + 1, h[i]))
    BY <2>2, KeepsGrows
  <2> HIDE DEF Next1
  <2> QED  BY <1>7, <2>1, <2>3
<1>10. n \in T
  <2> HIDE DEF T
  <2>1. 0 .. n \subseteq T  BY <1>1, <1>8, <1>9, UpTo
  <2> QED  BY <1>1, <2>1
<1> QED  BY <1>6, <1>10 DEF n

-----------------------------------------------------------------------------
(* A list of events after one change: what is in it, and that it stays in  *)
(* good form.                                                              *)
Listed(list, k) == \E i \in DOMAIN list : list[i].key = k

(* The event found for a key is in the list and has that key. *)
LEMMA IndexIsOne ==
  ASSUME NEW list, NEW k, Listed(list, k)
  PROVE  IndexOfKey(list, k) \in DOMAIN list /\ list[IndexOfKey(list, k)].key = k
  BY DEF Listed, IndexOfKey

(* What a good list holds: events, each good, one per key. *)
LEMMA GoodListElements ==
  ASSUME NEW list, GoodList(list)
  PROVE  /\ list \in Seq(Event) /\ Len(list) \in Nat /\ DOMAIN list = 1 .. Len(list)
         /\ \A i \in DOMAIN list : list[i] \in Event /\ GoodEvent(list[i])
         /\ \A i, j \in DOMAIN list : list[i].key = list[j].key => i = j
  BY LenProperties, ElementOfSeq DEF GoodList

(* An event may be replaced by a good one of the same key. *)
LEMMA ReplacedStaysGood ==
  ASSUME NEW list, GoodList(list), NEW i \in DOMAIN list,
         NEW e \in Event, GoodEvent(e), e.key = list[i].key
  PROVE  /\ GoodList([list EXCEPT ![i] = e])
         /\ DOMAIN [list EXCEPT ![i] = e] = DOMAIN list
         /\ [list EXCEPT ![i] = e][i] = e
         /\ \A j \in DOMAIN list : j # i => [list EXCEPT ![i] = e][j] = list[j]
         /\ \A k : Listed([list EXCEPT ![i] = e], k) <=> Listed(list, k)
<1> DEFINE q == [list EXCEPT ![i] = e]
<1>1. /\ list \in Seq(Event)
      /\ \A j \in DOMAIN list : list[j] \in Event /\ GoodEvent(list[j])
      /\ \A a, b \in DOMAIN list : list[a].key = list[b].key => a = b
  BY GoodListElements
<1>2. q \in Seq(Event) /\ DOMAIN q = DOMAIN list /\ q[i] = e /\ \A j \in DOMAIN list : j # i => q[j] = list[j]
  BY <1>1, ExceptSeq, LenProperties
<1> HIDE DEF q
<1>3. \A j \in DOMAIN list : q[j].key = list[j].key
  BY <1>2
<1>4. GoodList(q)
  BY <1>1, <1>2, <1>3 DEF GoodList
<1> QED  BY <1>2, <1>3, <1>4 DEF q, Listed

(* A good event whose key is new may be appended. *)
LEMMA AppendedStaysGood ==
  ASSUME NEW list, GoodList(list), NEW e \in Event, GoodEvent(e), ~ Listed(list, e.key)
  PROVE  /\ GoodList(Append(list, e))
         /\ DOMAIN Append(list, e) = DOMAIN list \cup {Len(list) + 1}
         /\ Append(list, e)[Len(list) + 1] = e
         /\ \A j \in DOMAIN list : Append(list, e)[j] = list[j]
         /\ \A k : Listed(Append(list, e), k) <=> Listed(list, k) \/ k = e.key
<1> DEFINE q == Append(list, e)
<1>1. /\ list \in Seq(Event) /\ Len(list) \in Nat /\ DOMAIN list = 1 .. Len(list)
      /\ \A j \in DOMAIN list : list[j] \in Event /\ GoodEvent(list[j])
      /\ \A a, b \in DOMAIN list : list[a].key = list[b].key => a = b
  BY GoodListElements
<1>2. /\ q \in Seq(Event) /\ Len(q) = Len(list) + 1
      /\ \A j \in 1 .. Len(list) : q[j] = list[j]
      /\ q[Len(list) + 1] = e
  BY <1>1, AppendProperties
<1> HIDE DEF q
<1>3. DOMAIN q = DOMAIN list \cup {Len(list) + 1}
  BY <1>1, <1>2, LenProperties
<1>4. \A j \in DOMAIN list : q[j] = list[j] /\ q[j].key # e.key
  BY <1>1, <1>2 DEF Listed
<1>5. GoodList(q)
  <2>1. ASSUME NEW a \in DOMAIN q, NEW b \in DOMAIN q, q[a].key = q[b].key PROVE a = b
    BY <1>1, <1>2, <1>3, <1>4, <2>1
  <2>2. \A j \in DOMAIN q : GoodEvent(q[j])
    BY <1>1, <1>2, <1>3, <1>4
  <2> QED  BY <1>2, <2>1, <2>2 DEF GoodList
<1>6. \A k : Listed(q, k) <=> Listed(list, k) \/ k = e.key
  BY <1>2, <1>3, <1>4 DEF Listed
<1> QED  BY <1>1, <1>2, <1>3, <1>5, <1>6 DEF q

(* The list without its i-th event.                                        *)
Dropped(list, i) == [j \in 1 .. Len(list) - 1 |-> list[IF j < i THEN j ELSE j + 1]]

(* Any event may be dropped; the others are those listed before. *)
LEMMA DroppedStaysGood ==
  ASSUME NEW list, GoodList(list), NEW i \in DOMAIN list
  PROVE  /\ GoodList(Dropped(list, i))
         /\ \A j \in DOMAIN Dropped(list, i) :
              \E l \in DOMAIN list : l # i /\ Dropped(list, i)[j] = list[l]
         /\ \A k : Listed(Dropped(list, i), k) <=> Listed(list, k) /\ k # list[i].key
<1> DEFINE q == Dropped(list, i)
<1>0. q = [j \in 1 .. Len(list) - 1 |-> list[IF j < i THEN j ELSE j + 1]]
  BY DEF Dropped
<1> HIDE DEF q
<1>1. /\ list \in Seq(Event) /\ Len(list) \in Nat /\ DOMAIN list = 1 .. Len(list)
      /\ \A j \in DOMAIN list : list[j] \in Event /\ GoodEvent(list[j])
      /\ \A a, b \in DOMAIN list : list[a].key = list[b].key => a = b
  BY GoodListElements
<1> DEFINE At(j) == IF j < i THEN j ELSE j + 1
<1>2. Len(list) - 1 \in Nat /\ DOMAIN q = 1 .. Len(list) - 1
  BY <1>0, <1>1
<1>3. \A j \in DOMAIN q : At(j) \in DOMAIN list /\ At(j) # i /\ q[j] = list[At(j)]
  BY <1>0, <1>1, <1>2
<1>4. \A a, b \in DOMAIN q : At(a) = At(b) => a = b
  BY <1>1, <1>2
<1>5. ASSUME NEW l \in DOMAIN list, l # i PROVE \E j \in DOMAIN q : At(j) = l
  <2>1. CASE l < i
    <3>1. l \in DOMAIN q /\ At(l) = l
      BY <1>1, <1>2, <2>1
    <3> QED  BY <3>1
  <2>2. CASE l > i
    <3>1. l - 1 \in DOMAIN q /\ At(l - 1) = l
      BY <1>1, <1>2, <2>2
    <3> QED  BY <3>1
  <2> QED  BY <1>1, <1>5, <2>1, <2>2
<1> HIDE DEF At
<1>6. GoodList(q)
  <2>1. q \in Seq(Event)
    <3>1. \A j \in 1 .. Len(list) - 1 : q[j] \in Event
      BY <1>1, <1>2, <1>3
    <3>2. q = [j \in 1 .. Len(list) - 1 |-> q[j]]
      BY <1>0, <1>2
    <3> QED  BY <1>2, <3>1, <3>2, IsASeq
  <2>2. ASSUME NEW a \in DOMAIN q, NEW b \in DOMAIN q, q[a].key = q[b].key PROVE a = b
    BY <1>1, <1>3, <1>4, <2>2
  <2> QED  BY <1>1, <1>3, <2>1, <2>2 DEF GoodList
<1>7. ASSUME NEW k PROVE Listed(q, k) <=> Listed(list, k) /\ k # list[i].key
  <2>1. ASSUME Listed(q, k) PROVE Listed(list, k) /\ k # list[i].key
    <3>1. PICK j \in DOMAIN q : q[j].key = k
      BY <2>1 DEF Listed
    <3> QED  BY <1>1, <1>3, <3>1 DEF Listed
  <2>2. ASSUME Listed(list, k), k # list[i].key PROVE Listed(q, k)
    <3>1. PICK l \in DOMAIN list : list[l].key = k
      BY <2>2 DEF Listed
    <3>2. l # i
      BY <2>2, <3>1
    <3>3. PICK j \in DOMAIN q : At(j) = l
      BY <1>5, <3>2
    <3> QED  BY <1>3, <3>1, <3>3 DEF Listed
  <2> QED  BY <2>1, <2>2
<1> QED  BY <1>3, <1>6, <1>7 DEF q

-----------------------------------------------------------------------------
(* The operations on the queue keep what it holds equal to what is due.    *)
LEMMA HasListed == ASSUME NEW k PROVE HasEvent(k) <=> Listed(events, k)
  BY DEF HasEvent, Listed

(* The queue has an event after a step exactly when it is listed then. *)
LEMMA HasListedAfter == ASSUME NEW k PROVE HasEvent(k)' <=> Listed(events', k)
  BY DEF HasEvent, Listed

(* Adding an event: it is new and has nothing queued, the others stay.     *)
LEMMA AddKeeps ==
  ASSUME QueueInv, NEW e \in Event, GoodEvent(e), Contents(e) = <<>>,
         AddEvent(e), UNCHANGED <<sent, inOrder>>
  PROVE  /\ QueueInv'
         /\ \A k : HasEvent(k)' <=> HasEvent(k) \/ k = e.key
<1>1. /\ GoodList(events) /\ Matches(events, due) /\ due \in [Keys -> Seq(Nat)]
      /\ inOrder = TRUE /\ sent \in Nat /\ e.key \in Keys
  BY EventFields DEF QueueInv
<1>2. events' = Put(e) /\ due' = [due EXCEPT ![e.key] = <<>>]
  BY DEF AddEvent
<1>3. /\ due' \in [Keys -> Seq(Nat)] /\ due'[e.key] = <<>>
      /\ \A k \in Keys : k # e.key => due'[k] = due[k]
  <2>1. <<>> \in Seq(Nat)  OBVIOUS
  <2> QED  BY <1>1, <1>2, <2>1
<1>4. \A j \in DOMAIN events : events[j] \in Event /\ events[j].key \in Keys
  BY <1>1, GoodListElements, EventFields
<1>5. CASE HasEvent(e.key)
  <2> DEFINE i == IndexOfKey(events, e.key)
  <2>1. i \in DOMAIN events /\ events[i].key = e.key
    BY <1>5, HasListed, IndexIsOne
  <2>2. events' = [events EXCEPT ![i] = e]
    BY <1>2, <1>5 DEF Put
  <2> HIDE DEF i
  <2>3. /\ GoodList(events') /\ DOMAIN events' = DOMAIN events /\ events'[i] = e
        /\ \A j \in DOMAIN events : j # i => events'[j] = events[j]
        /\ \A k : Listed(events', k) <=> Listed(events, k)
    BY <1>1, <2>1, <2>2, ReplacedStaysGood
  <2>4. \A j \in DOMAIN events : j # i => events[j].key # e.key
    BY <1>1, <2>1, GoodListElements
  <2>5. Matches(events', due')
    <3>1. ASSUME NEW j \in DOMAIN events', events'[j].kind \in Queueing
          PROVE  Contents(events'[j]) = due'[events'[j].key]
      <4>1. CASE j = i
        BY <1>3, <2>3, <4>1
      <4>2. CASE j # i
        BY <1>1, <1>3, <1>4, <2>3, <2>4, <3>1, <4>2 DEF Matches
      <4> QED  BY <4>1, <4>2
    <3> QED  BY <3>1 DEF Matches
  <2>6. \A k : HasEvent(k)' <=> HasEvent(k)
    BY <2>3, HasListed, HasListedAfter
  <2> QED  BY <1>1, <1>3, <1>5, <2>3, <2>5, <2>6 DEF QueueInv
<1>6. CASE ~ HasEvent(e.key)
  <2>1. events' = Append(events, e) /\ ~ Listed(events, e.key)
    BY <1>2, <1>6, HasListed DEF Put
  <2>2. /\ GoodList(events') /\ DOMAIN events' = DOMAIN events \cup {Len(events) + 1}
        /\ events'[Len(events) + 1] = e
        /\ \A j \in DOMAIN events : events'[j] = events[j]
        /\ \A k : Listed(events', k) <=> Listed(events, k) \/ k = e.key
    BY <1>1, <2>1, AppendedStaysGood
  <2>3. \A j \in DOMAIN events : events[j].key # e.key
    BY <2>1 DEF Listed
  <2>4. Matches(events', due')
    BY <1>1, <1>3, <1>4, <2>2, <2>3 DEF Matches
  <2>5. \A k : HasEvent(k)' <=> HasEvent(k) \/ k = e.key
    BY <2>2, HasListed, HasListedAfter
  <2> QED  BY <1>1, <1>3, <2>2, <2>4, <2>5 DEF QueueInv
<1> QED  BY <1>5, <1>6

(* A new event of any kind can be added.                                   *)
LEMMA NewEventIsGood ==
  ASSUME NEW k \in Keys, NEW kind \in KindsOf(k)
  PROVE  /\ NewEvent(k, kind) \in Event /\ GoodEvent(NewEvent(k, kind))
         /\ NewEvent(k, kind).key = k /\ Contents(NewEvent(k, kind)) = <<>>
<1>1. kind \in Kinds
  BY DEF KindsOf, Kinds
<1>2. <<>> \in Seq(Nat)
  OBVIOUS
<1> QED  BY <1>1, <1>2 DEF NewEvent, Event, GoodEvent, Contents

(* Firing an event that queues puts the trigger at the end.                *)
LEMMA FiredQueues ==
  ASSUME NEW e \in Event, GoodEvent(e), NEW v \in Nat
  PROVE  /\ Fired(e, v) \in Event /\ GoodEvent(Fired(e, v))
         /\ Fired(e, v).key = e.key /\ Fired(e, v).kind = e.kind
         /\ e.kind \in Queueing => Contents(Fired(e, v)) = Append(Contents(e), v)
<1> DEFINE f == Fired(e, v)
<1>1. /\ e.pending \in Seq(Nat) /\ e.triggered \in BOOLEAN /\ e.data \in Nat
  BY EventFields
<1>2. CASE e.kind \in Queueing /\ e.triggered
  <2>1. f = [e EXCEPT !.pending = Append(@, v)]
    BY <1>2 DEF Fired
  <2>2. Append(e.pending, v) \in Seq(Nat)
    BY <1>1, AppendProperties
  <2>3. /\ f \in Event /\ f.key = e.key /\ f.kind = e.kind /\ f.deadline = e.deadline
        /\ f.triggered = e.triggered /\ f.data = e.data /\ f.pending = Append(e.pending, v)
    BY <2>1, <2>2 DEF Event
  <2> HIDE DEF f
  <2>4. GoodEvent(f)
    BY <1>2, <2>3 DEF GoodEvent
  <2>5. Contents(f) = Append(Contents(e), v)
    <3>1. /\ Contents(f) = <<e.data>> \o Append(e.pending, v)
          /\ Contents(e) = <<e.data>> \o e.pending
      BY <1>2, <2>3 DEF Contents
    <3>2. <<e.data>> \in Seq(Nat)
      BY <1>1
    <3> QED  BY <1>1, <3>1, <3>2
  <2> QED  BY <2>3, <2>4, <2>5 DEF f
<1>3. CASE ~ (e.kind \in Queueing /\ e.triggered)
  <2>1. f = [e EXCEPT !.triggered = TRUE, !.data = v]
    BY <1>3 DEF Fired
  <2>2. /\ f \in Event /\ f.key = e.key /\ f.kind = e.kind /\ f.deadline = e.deadline
        /\ f.triggered = TRUE /\ f.data = v /\ f.pending = e.pending
    BY <2>1 DEF Event
  <2> HIDE DEF f
  <2>3. GoodEvent(f)
    BY <2>2 DEF GoodEvent
  <2>4. ASSUME e.kind \in Queueing PROVE Contents(f) = Append(Contents(e), v)
    <3>1. ~ e.triggered /\ e.pending = <<>>
      BY <1>3, <2>4 DEF GoodEvent
    <3>2. Contents(f) = <<v>> \o <<>> /\ Contents(e) = <<>>
      BY <2>2, <3>1 DEF Contents
    <3> QED  BY <3>2
  <2> QED  BY <2>2, <2>3, <2>4 DEF f
<1> QED  BY <1>2, <1>3

(* A trigger leaves the list good and adds to what is due what it adds to   *)
(* the event; no event comes or goes.                                       *)
LEMMA TriggerKeeps ==
  ASSUME QueueInv, NEW k \in Keys, TriggerEvent(k), UNCHANGED inOrder
  PROVE  QueueInv' /\ \A j : HasEvent(j)' <=> HasEvent(j)
<1>1. /\ GoodList(events) /\ Matches(events, due) /\ due \in [Keys -> Seq(Nat)]
      /\ inOrder = TRUE /\ sent \in Nat
  BY DEF QueueInv
<1>2. CASE ~ HasEvent(k)
  <2>1. UNCHANGED <<events, sent, due>>
    BY <1>2 DEF TriggerEvent
  <2> QED  BY <1>1, <2>1 DEF QueueInv, HasEvent
<1>3. CASE HasEvent(k)
  <2> DEFINE i == IndexOfKey(events, k)
             v == sent + 1
             e == Fired(events[i], v)
  <2>1. i \in DOMAIN events /\ events[i].key = k
    BY <1>3, HasListed, IndexIsOne
  <2>2. /\ events' = [events EXCEPT ![i] = Fired(@, v)] /\ sent' = v
        /\ due' = IF events[i].kind \in Queueing THEN [due EXCEPT ![k] = Append(@, v)] ELSE due
    BY <1>3 DEF TriggerEvent
  <2> HIDE DEF i
  <2>3. v \in Nat /\ events[i] \in Event /\ GoodEvent(events[i])
    BY <1>1, <2>1, GoodListElements
  <2> HIDE DEF v
  <2>4. /\ e \in Event /\ GoodEvent(e) /\ e.key = k /\ e.kind = events[i].kind
        /\ events[i].kind \in Queueing => Contents(e) = Append(Contents(events[i]), v)
    BY <2>1, <2>3, FiredQueues
  <2>5. events' = [events EXCEPT ![i] = e]
    BY <2>2
  <2> HIDE DEF e
  <2>6. /\ GoodList(events') /\ DOMAIN events' = DOMAIN events /\ events'[i] = e
        /\ \A j \in DOMAIN events : j # i => events'[j] = events[j]
        /\ \A j : Listed(events', j) <=> Listed(events, j)
    BY <1>1, <2>1, <2>4, <2>5, ReplacedStaysGood
  <2>7. \A j \in DOMAIN events : j # i => events[j].key # k
    BY <1>1, <2>1, GoodListElements
  <2>8. \A j \in DOMAIN events : events[j].key \in Keys
    BY <1>1, GoodListElements, EventFields
  <2>9. Append(due[k], v) \in Seq(Nat)
    BY <1>1, <2>3, AppendProperties
  <2>10. /\ due' \in [Keys -> Seq(Nat)]
         /\ events[i].kind \in Queueing => due'[k] = Append(due[k], v)
         /\ \A j \in Keys : j # k => due'[j] = due[j]
    BY <1>1, <2>2, <2>9
  <2>11. Matches(events', due')
    <3>1. ASSUME NEW j \in DOMAIN events', events'[j].kind \in Queueing
          PROVE  Contents(events'[j]) = due'[events'[j].key]
      <4>1. CASE j = i
        <5>1. events[i].kind \in Queueing /\ events'[j] = e
          BY <2>4, <2>6, <3>1, <4>1
        <5>2. Contents(events[i]) = due[k]
          BY <1>1, <2>1, <5>1 DEF Matches
        <5> QED  BY <2>4, <2>10, <5>1, <5>2
      <4>2. CASE j # i
        BY <1>1, <2>6, <2>7, <2>8, <2>10, <3>1, <4>2 DEF Matches
      <4> QED  BY <4>1, <4>2
    <3> QED  BY <3>1 DEF Matches
  <2>12. \A j : HasEvent(j)' <=> HasEvent(j)
    BY <2>6, HasListed, HasListedAfter
  <2> QED  BY <1>1, <2>2, <2>3, <2>6, <2>10, <2>11, <2>12 DEF QueueInv
<1> QED  BY <1>2, <1>3

(* Deleting an event drops what is due for it, and touches no other.       *)
LEMMA DeleteKeeps ==
  ASSUME QueueInv, NEW k \in Keys, HasEvent(k),
         events' = Without(k), due' = [due EXCEPT ![k] = <<>>], UNCHANGED <<sent, inOrder>>
  PROVE  QueueInv' /\ \A j : HasEvent(j)' <=> HasEvent(j) /\ j # k
<1>1. /\ GoodList(events) /\ Matches(events, due) /\ due \in [Keys -> Seq(Nat)]
      /\ inOrder = TRUE /\ sent \in Nat
  BY DEF QueueInv
<1> DEFINE i == IndexOfKey(events, k)
<1>2. i \in DOMAIN events /\ events[i].key = k
  BY HasListed, IndexIsOne
<1>3. events' = Dropped(events, i)
  BY DEF Without, Dropped
<1> HIDE DEF i
<1>4. /\ GoodList(events')
      /\ \A j \in DOMAIN events' : \E l \in DOMAIN events : l # i /\ events'[j] = events[l]
      /\ \A j : Listed(events', j) <=> Listed(events, j) /\ j # events[i].key
  BY <1>1, <1>2, <1>3, DroppedStaysGood
<1>5. /\ due' \in [Keys -> Seq(Nat)] /\ \A j \in Keys : j # k => due'[j] = due[j]
  <2>1. <<>> \in Seq(Nat)  OBVIOUS
  <2> QED  BY <1>1, <2>1
<1>6. Matches(events', due')
  <2>1. ASSUME NEW j \in DOMAIN events', events'[j].kind \in Queueing
        PROVE  Contents(events'[j]) = due'[events'[j].key]
    <3>1. PICK l \in DOMAIN events : l # i /\ events'[j] = events[l]
      BY <1>4
    <3>2. events[l].key \in Keys /\ events[l].key # k
      BY <1>1, <1>2, <3>1, GoodListElements, EventFields
    <3>3. Contents(events[l]) = due[events[l].key]
      BY <1>1, <2>1, <3>1 DEF Matches
    <3> QED  BY <1>5, <3>1, <3>2, <3>3
  <2> QED  BY <2>1 DEF Matches
<1>7. \A j : HasEvent(j)' <=> HasEvent(j) /\ j # k
  BY <1>2, <1>4, HasListed, HasListedAfter
<1> QED  BY <1>1, <1>4, <1>5, <1>6, <1>7 DEF QueueInv

(* A deadline that passes changes nothing of what is queued.               *)
LEMMA DeadlineKeeps ==
  ASSUME QueueInv, NEW i \in DOMAIN events, DeadlinePasses(i)
  PROVE  QueueInv' /\ \A j : HasEvent(j)' <=> HasEvent(j)
<1>1. /\ GoodList(events) /\ Matches(events, due) /\ due \in [Keys -> Seq(Nat)]
      /\ inOrder = TRUE /\ sent \in Nat
  BY DEF QueueInv
<1> DEFINE e == [events[i] EXCEPT !.deadline = "passed"]
<1>2. /\ events[i].deadline = "ahead" /\ UNCHANGED <<sent, due, inOrder>>
      /\ events' = [events EXCEPT ![i] = e]
  BY DEF DeadlinePasses, history
<1>3. events[i] \in Event /\ GoodEvent(events[i])
  BY <1>1, GoodListElements
<1>4. e \in Event /\ e.key = events[i].key /\ e.kind = events[i].kind /\ e.triggered = events[i].triggered
      /\ e.pending = events[i].pending /\ e.data = events[i].data /\ e.deadline = "passed"
  BY <1>3 DEF Event
<1> HIDE DEF e
<1>5. e.kind = "timer" /\ GoodEvent(e)
  BY <1>2, <1>3, <1>4 DEF GoodEvent
<1>6. /\ GoodList(events') /\ DOMAIN events' = DOMAIN events /\ events'[i] = e
      /\ \A j \in DOMAIN events : j # i => events'[j] = events[j]
      /\ \A j : Listed(events', j) <=> Listed(events, j)
  BY <1>1, <1>2, <1>4, <1>5, ReplacedStaysGood
<1>7. Matches(events', due')
  <2>1. "timer" \notin Queueing
    BY DEF Queueing
  <2> QED  BY <1>1, <1>2, <1>5, <1>6, <2>1 DEF Matches
<1>8. \A j : HasEvent(j)' <=> HasEvent(j)
  BY <1>6, HasListed, HasListedAfter
<1> QED  BY <1>1, <1>2, <1>6, <1>7, <1>8 DEF QueueInv

-----------------------------------------------------------------------------
(* Timers that expired are triggered before anything is collected; what    *)
(* queues is not touched.                                                  *)
LEMMA TimersKeep ==
  ASSUME QueueInv
  PROVE  /\ GoodList(TriggerExpiredTimers) /\ Matches(TriggerExpiredTimers, due)
         /\ DOMAIN TriggerExpiredTimers = DOMAIN events
         /\ \A i \in DOMAIN events : TriggerExpiredTimers[i].key = events[i].key
<1> DEFINE list == TriggerExpiredTimers
<1>1. /\ events \in Seq(Event) /\ DOMAIN events = 1 .. Len(events) /\ Len(events) \in Nat
      /\ Matches(events, due)
      /\ \A i \in DOMAIN events : events[i] \in Event /\ GoodEvent(events[i])
      /\ \A i, j \in DOMAIN events : events[i].key = events[j].key => i = j
  BY GoodListElements DEF QueueInv
<1>2. list = [i \in DOMAIN events |->
                IF events[i].deadline = "passed" THEN [events[i] EXCEPT !.triggered = TRUE]
                ELSE events[i]]
  BY DEF TriggerExpiredTimers
<1> HIDE DEF list
<1>3. ASSUME NEW i \in DOMAIN events
      PROVE  /\ list[i] \in Event /\ GoodEvent(list[i]) /\ list[i].key = events[i].key
             /\ list[i].kind = events[i].kind
             /\ list[i].kind \in Queueing => list[i] = events[i]
  <2>1. CASE events[i].deadline = "passed"
    <3>1. list[i] = [events[i] EXCEPT !.triggered = TRUE] /\ events[i] \in Event
      BY <1>1, <1>2, <2>1
    <3>2. events[i].kind = "timer" /\ "timer" \notin Queueing
      BY <1>1, <2>1 DEF GoodEvent, Queueing
    <3>3. /\ list[i] \in Event /\ list[i].key = events[i].key /\ list[i].kind = events[i].kind
          /\ list[i].deadline = events[i].deadline
      BY <3>1 DEF Event
    <3> QED  BY <1>1, <3>2, <3>3 DEF GoodEvent
  <2>2. CASE events[i].deadline # "passed"
    BY <1>1, <1>2, <2>2
  <2> QED  BY <2>1, <2>2
<1>4. DOMAIN list = DOMAIN events
  BY <1>2
<1>5. GoodList(list)
  <2>1. list \in Seq(Event)
    <3>1. list = [i \in 1 .. Len(events) |-> list[i]]
      BY <1>1, <1>2
    <3>2. \A i \in 1 .. Len(events) : list[i] \in Event
      BY <1>1, <1>3
    <3> QED  BY <1>1, <3>1, <3>2, IsASeq
  <2> QED  BY <1>1, <1>3, <1>4, <2>1 DEF GoodList
<1>6. Matches(list, due)
  BY <1>1, <1>3, <1>4 DEF Matches
<1> QED  BY <1>3, <1>4, <1>5, <1>6 DEF list

(* Collecting hands out the oldest triggers due, drops exactly those, and  *)
(* erases timers only.                                                     *)
LEMMA CollectKeeps ==
  ASSUME QueueInv, NEW n \in Nat, GetTriggeredEvents(n), UNCHANGED sent
  PROVE  QueueInv' /\ \A k \in Sources : HasEvent(k)' <=> HasEvent(k)
<1> DEFINE list == TriggerExpiredTimers
           taken == Taken(list, n)
           queued == {i \in DOMAIN list : list[i].kind \in Queueing}
           left(k) == IF \E i \in queued : list[i].key = k THEN taken[IndexOfKey(list, k)] ELSE 0
<1>1. /\ due \in [Keys -> Seq(Nat)] /\ inOrder = TRUE /\ sent \in Nat
      /\ GoodList(list) /\ Matches(list, due) /\ DOMAIN list = DOMAIN events
      /\ \A i \in DOMAIN events : list[i].key = events[i].key
  BY TimersKeep DEF QueueInv
<1>2. /\ events' = Remaining(list, taken)
      /\ due' = [k \in Keys |-> SubSeq(due[k], left(k) + 1, Len(due[k]))]
      /\ inOrder' = (inOrder /\ \A i \in queued : HandsOut(list[i], taken[i], due[list[i].key]))
  BY DEF GetTriggeredEvents
<1> HIDE DEF list
<1>3. /\ list \in Seq(Event) /\ Len(list) \in Nat /\ DOMAIN list = 1 .. Len(list)
      /\ \A i \in DOMAIN list : list[i] \in Event /\ GoodEvent(list[i]) /\ list[i].key \in Keys
      /\ \A i, j \in DOMAIN list : list[i].key = list[j].key => i = j
  BY <1>1, GoodListElements, EventFields
<1>4. \A i \in DOMAIN list :
        taken[i] \in Nat /\ (i \in queued => taken[i] <= Len(Contents(list[i])))
  BY <1>3, TakenFits
<1> HIDE DEF taken
<1>5. ASSUME NEW i \in DOMAIN list
      PROVE  /\ After(list[i], taken[i]) \in Event /\ GoodEvent(After(list[i], taken[i]))
             /\ After(list[i], taken[i]).key = list[i].key
             /\ After(list[i], taken[i]).kind = list[i].kind
  BY <1>3, <1>4, AfterKeeps
<1>6. ASSUME NEW i \in queued
      PROVE  /\ Contents(list[i]) = due[list[i].key] /\ left(list[i].key) = taken[i]
             /\ HandsOut(list[i], taken[i], due[list[i].key])
             /\ Contents(After(list[i], taken[i])) = due'[list[i].key]
  <2>1. /\ i \in DOMAIN list /\ list[i].kind \in Queueing
        /\ list[i] \in Event /\ GoodEvent(list[i]) /\ list[i].key \in Keys
        /\ taken[i] \in Nat /\ taken[i] <= Len(Contents(list[i]))
    BY <1>3, <1>4
  <2>2. Contents(list[i]) = due[list[i].key]
    BY <1>1, <2>1 DEF Matches
  <2>3. left(list[i].key) = taken[i]
    <3>1. Listed(list, list[i].key)
      BY <2>1 DEF Listed
    <3>2. /\ IndexOfKey(list, list[i].key) \in DOMAIN list
          /\ list[IndexOfKey(list, list[i].key)].key = list[i].key
      BY <3>1, IndexIsOne
    <3>3. IndexOfKey(list, list[i].key) = i
      BY <1>3, <2>1, <3>2
    <3> QED  BY <3>3
  <2> HIDE DEF left
  <2>4. /\ Contents(After(list[i], taken[i])) =
             SubSeq(Contents(list[i]), taken[i] + 1, Len(Contents(list[i])))
        /\ HandsOut(list[i], taken[i], Contents(list[i]))
    BY <2>1, AfterQueued
  <2>5. due'[list[i].key] = SubSeq(due[list[i].key], taken[i] + 1, Len(due[list[i].key]))
    BY <1>2, <2>1, <2>3
  <2> QED  BY <2>2, <2>3, <2>4, <2>5
<1>7. Keeps(list, taken, Len(list), events')
  BY <1>1, <1>2, <1>4, RemainingKeeps
<1>8. ASSUME NEW j \in DOMAIN events'
      PROVE  \E i \in DOMAIN list : events'[j] = After(list[i], taken[i])
  BY <1>3, <1>7 DEF Keeps
<1>9. GoodList(events')
  <2>1. \A j \in DOMAIN events' : GoodEvent(events'[j])
    BY <1>5, <1>8
  <2> QED  BY <1>7, <2>1 DEF Keeps, GoodList
<1>10. due' \in [Keys -> Seq(Nat)]
  <2>1. ASSUME NEW k \in Keys PROVE SubSeq(due[k], left(k) + 1, Len(due[k])) \in Seq(Nat)
    <3>1. left(k) \in Nat
      <4>1. CASE \E i \in queued : list[i].key = k
        <5>1. PICK i \in queued : list[i].key = k
          BY <4>1
        <5>2. i \in DOMAIN list
          OBVIOUS
        <5> HIDE DEF left, queued
        <5> QED  BY <1>4, <1>6, <5>1, <5>2
      <4>2. CASE ~ \E i \in queued : list[i].key = k
        BY <4>2
      <4> QED  BY <4>1, <4>2
    <3> HIDE DEF left
    <3>2. due[k] \in Seq(Nat) /\ Len(due[k]) \in Nat
      BY <1>1
    <3>3. /\ left(k) + 1 \in Int /\ Len(due[k]) \in Int
          /\ \A i \in left(k) + 1 .. Len(due[k]) : due[k][i] \in Nat
      BY <3>1, <3>2
    <3> QED  BY <3>3, SubSeqProperties
  <2> HIDE DEF left
  <2> QED  BY <1>2, <2>1
<1>11. inOrder' = TRUE
  BY <1>1, <1>2, <1>6
<1>12. Matches(events', due')
  <2>1. ASSUME NEW j \in DOMAIN events', events'[j].kind \in Queueing
        PROVE  Contents(events'[j]) = due'[events'[j].key]
    <3>1. PICK i \in DOMAIN list : events'[j] = After(list[i], taken[i])
      BY <1>8
    <3>2. events'[j].key = list[i].key /\ list[i].kind \in Queueing
      BY <1>5, <2>1, <3>1
    <3>3. Contents(After(list[i], taken[i])) = due'[list[i].key]
      BY <1>6, <3>2
    <3> QED  BY <3>1, <3>2, <3>3
  <2> QED  BY <2>1 DEF Matches
<1>13. ASSUME NEW k \in Sources PROVE HasEvent(k)' <=> HasEvent(k)
  <2>1. ASSUME HasEvent(k)' PROVE HasEvent(k)
    <3>1. PICK j \in DOMAIN events' : events'[j].key = k
      BY <2>1 DEF HasEvent
    <3>2. PICK i \in DOMAIN list : events'[j] = After(list[i], taken[i])
      BY <1>8
    <3>3. list[i].key = k
      BY <1>5, <3>1, <3>2
    <3> QED  BY <1>1, <3>3 DEF HasEvent
  <2>2. ASSUME HasEvent(k) PROVE HasEvent(k)'
    <3>1. PICK i \in DOMAIN events : events[i].key = k
      BY <2>2 DEF HasEvent
    <3>2. i \in DOMAIN list /\ list[i].key = k
      BY <1>1, <3>1
    <3>3. list[i].kind \in KindsOf(k)
      BY <1>3, <3>2 DEF GoodEvent
    <3>4. list[i].kind # "timer"
      BY <3>3 DEF KindsOf, Sources
    <3>5. \E j \in DOMAIN events' : events'[j].key = k
      BY <1>3, <1>7, <3>2, <3>4 DEF Keeps
    <3> QED  BY <3>5 DEF HasEvent
  <2> QED  BY <2>1, <2>2
<1>14. sent' \in Nat
  BY <1>1
<1> QED  BY <1>9, <1>10, <1>11, <1>12, <1>13, <1>14 DEF QueueInv

-----------------------------------------------------------------------------
(* The calls and the sources.  What is not of the queue has its type.      *)
Args == [key : Keys, num : Nums \cup {1}, timed : BOOLEAN]

CallsOK ==
  /\ exists \in BOOLEAN /\ listed \in BOOLEAN
  /\ eqMutex \in Guests \cup {None}
  /\ arg \in [Guests -> Args]
  /\ calls \in 0 .. MaxCalls /\ begun \in 0 .. MaxTriggers
  /\ pc \in [Threads -> PC]
  /\ outer \in [Sources -> Threads \cup {None}]
  /\ gMutex \in {LabelThread, None}
  /\ flipListed \in BOOLEAN /\ eopCount \in Nat

(* The types are those of the queue and those of the calls and sources. *)
LEMMA TypeIsCallsOK == TypeOK => CallsOK
  BY DEF TypeOK, EqTypeOK, CallsOK, Args

(* The types hold after a step when the queue and the calls are good. *)
LEMMA TypeAfter ==
  ASSUME QueueInv', CallsOK'
  PROVE  TypeOK'
<1>1. /\ (events \in Seq(Event))' /\ (due \in [Keys -> Seq(Nat)])' /\ (inOrder \in BOOLEAN)'
      /\ (sent \in Nat)'
  BY DEF QueueInv, GoodList
<1>2. /\ (\A i \in DOMAIN events : events[i].kind \in KindsOf(events[i].key))'
      /\ (\A i, j \in DOMAIN events : events[i].key = events[j].key => i = j)'
  BY DEF QueueInv, GoodList, GoodEvent
<1> QED  BY <1>1, <1>2 DEF CallsOK, Args, TypeOK, EqTypeOK

(* Steps that leave alone who registered, deletes or destroys.             *)
LEMMA QuietKeeps ==
  ASSUME IInv, QueueInv', CallsOK',
         UNCHANGED <<exists, listed, eqMutex, flipListed, eopCount>>,
         \A s \in Sources : HasEvent(s)' <=> HasEvent(s),
         \A t \in Guests :
           \/ pc'[t] = pc[t] /\ arg'[t] = arg[t]
           \/ /\ pc'[t] \in {"idle", "wait", "register"}
              /\ pc[t] = "wait" \/ (pc[t] = "idle" /\ listed)
  PROVE  IInv'
<1>1. CallInv /\ RegistrationsAreLive
  BY DEF IInv
<1>2. "eop" \in Sources /\ "flip" \in Sources
  BY DEF Sources
<1>3. \A t \in Guests :
        {pc[t], pc'[t]} \cap {"unlink", "dtor", "destroy", "addEop"} # {} =>
          pc'[t] = pc[t] /\ arg'[t] = arg[t]
  OBVIOUS
<1>4. CallInv'
  <2>1. ASSUME NEW t \in Guests, pc'[t] \in {"unlink", "dtor"} PROVE eqMutex' = t
    BY <1>1, <1>3, <2>1 DEF CallInv
  <2>2. ASSUME NEW t \in Guests, pc'[t] = "unlink"
        PROVE  /\ arg'[t].key \in Sources /\ HasEvent(arg[t].key)'
               /\ arg'[t].key = "eop" => \A u \in Guests : pc'[u] # "addEop"
    <3>1. pc[t] = "unlink" /\ arg'[t] = arg[t]
      BY <1>3, <2>2
    <3>2. PICK s \in Sources : s = arg[t].key /\ HasEvent(s)
      BY <1>1, <3>1 DEF CallInv
    <3>3. HasEvent(s)' /\ s = arg'[t].key
      BY <3>1, <3>2
    <3>4. HasEvent(arg[t].key)'
      BY <3>3 DEF HasEvent
    <3>5. arg[t].key = "eop" => \A u \in Guests : pc[u] # "addEop"
      BY <1>1, <3>1 DEF CallInv
    <3> QED  BY <1>3, <3>1, <3>2, <3>4, <3>5
  <2>3. ASSUME NEW t \in Guests, pc'[t] = "addEop"
        PROVE  /\ exists' /\ HasEvent("eop")' /\ eopCount' = 0
               /\ \A u \in Guests : pc'[u] = "addEop" => u = t
    <3>1. pc[t] = "addEop"
      BY <1>3, <2>3
    <3>2. /\ exists /\ HasEvent("eop") /\ eopCount = 0
          /\ \A u \in Guests : pc[u] = "addEop" => u = t
      BY <1>1, <3>1 DEF CallInv
    <3> QED  BY <1>2, <1>3, <3>2
  <2>4. ASSUME NEW t \in Guests, pc'[t] \in {"destroy", "dtor"}
        PROVE  ~ listed' /\ \A u \in Guests \ {t} : pc'[u] = "idle"
    <3>1. pc[t] \in {"destroy", "dtor"}
      BY <1>3, <2>4
    <3>2. ~ listed /\ \A u \in Guests \ {t} : pc[u] = "idle"
      BY <1>1, <3>1 DEF CallInv
    <3> QED  BY <3>2
  <2>5. eopCount' <= 1
    BY <1>1 DEF CallInv
  <2> QED  BY <2>1, <2>2, <2>3, <2>4, <2>5 DEF CallInv
<1>5. RegistrationsAreLive'
  <2>1. /\ flipListed' <=> HasEvent("flip")'
        /\ eopCount' > 0 => exists' /\ HasEvent("eop")'
        /\ listed' => exists'
    BY <1>1, <1>2 DEF RegistrationsAreLive
  <2>2. HasEvent("eop")' => eopCount' > 0 \/ \E t \in Guests : pc'[t] = "addEop"
    BY <1>1, <1>2, <1>3 DEF RegistrationsAreLive
  <2> QED  BY <2>1, <2>2 DEF RegistrationsAreLive
<1> QED  BY <1>4, <1>5, TypeAfter DEF IInv

(* Where a thread goes, and what it carries, has its type.                 *)
LEMMA PlacesFit ==
  ASSUME CallsOK
  PROVE  /\ Guests \subseteq Threads /\ Window \in Threads \ Guests /\ LabelThread \in Threads \ Guests
         /\ Window # LabelThread /\ None \notin Threads /\ NoArg \in Args
         /\ \A t \in Threads, p \in PC : [pc EXCEPT ![t] = p] \in [Threads -> PC]
         /\ \A t \in Guests, a \in Args : [arg EXCEPT ![t] = a] \in [Guests -> Args]
<1>1. NoArg \in Args
  BY DEF NoArg, Args, Keys
<1>2. arg \in [Guests -> Args] /\ pc \in [Threads -> PC]
  BY DEF CallsOK
<1>3. /\ Guests \subseteq Threads /\ Window \in Threads \ Guests /\ LabelThread \in Threads \ Guests
      /\ Window # LabelThread /\ None \notin Threads
  BY ThreadsAssumption, EmulatorAssumption DEF Threads
<1> HIDE DEF NoArg, Args
<1>4. \A t \in Threads, p \in PC : [pc EXCEPT ![t] = p] \in [Threads -> PC]
  BY <1>2
<1>5. \A t \in Guests, a \in Args : [arg EXCEPT ![t] = a] \in [Guests -> Args]
  BY <1>2
<1> QED  BY <1>1, <1>3, <1>4, <1>5

(* The calls that keep to the queue's mutex.                               *)
LEMMA QueueNextKeeps ==
  ASSUME IInv, QueueNext, UNCHANGED sources
  PROVE  IInv'
<1>1. TypeOK /\ QueueInv /\ CallsOK
  BY TypeIsCallsOK DEF IInv
<1>2. /\ exists \in BOOLEAN /\ listed \in BOOLEAN
      /\ eqMutex \in Guests \cup {None}
      /\ arg \in [Guests -> Args]
      /\ calls \in 0 .. MaxCalls /\ begun \in 0 .. MaxTriggers
      /\ pc \in [Threads -> PC] /\ MaxCalls \in Nat /\ MaxTriggers \in Nat
      /\ UNCHANGED <<outer, gMutex, flipListed, eopCount>>
  BY <1>1, BoundsAssumption DEF CallsOK, sources
<1>3. "user" \in Keys /\ "timer" \in Keys /\ "user" \notin Sources /\ "timer" \notin Sources
  BY DEF Keys, Sources
<1>4. /\ UserKinds = KindsOf("user") /\ "timer" \in KindsOf("timer")
  BY DEF KindsOf
<1>5. "idle" \in PC /\ "wait" \in PC
  BY DEF PC
(* What is left to show of a call that only moves between idle and wait.   *)
<1> DEFINE Moved == \A t \in Guests :
             \/ pc'[t] = pc[t] /\ arg'[t] = arg[t]
             \/ /\ pc'[t] \in {"idle", "wait", "register"}
                /\ pc[t] = "wait" \/ (pc[t] = "idle" /\ listed)
           SameSources == \A s \in Sources : HasEvent(s)' <=> HasEvent(s)
<1>6. ASSUME QueueInv', SameSources, Moved, UNCHANGED <<exists, listed, eqMutex>>,
             pc' \in [Threads -> PC], arg' \in [Guests -> Args],
             calls' \in 0 .. MaxCalls, begun' \in 0 .. MaxTriggers
      PROVE  IInv'
  <2>1. CallsOK'
    BY <1>1, <1>2, <1>6 DEF CallsOK
  <2> QED  BY <1>2, <1>6, <2>1, QuietKeeps
<1>7. \A t \in Guests : Begin(t) => listed /\ pc[t] = "idle" /\ calls' \in 0 .. MaxCalls
  BY <1>2 DEF Begin
<1>8. BeginTrigger => begun' \in 0 .. MaxTriggers
  BY <1>2 DEF BeginTrigger
<1>9. UNCHANGED <<pc, arg>> => Moved /\ pc' \in [Threads -> PC] /\ arg' \in [Guests -> Args]
  BY <1>2
<1>10. ASSUME NEW t \in Guests, Return(t), pc[t] = "wait"
       PROVE  Moved /\ pc' \in [Threads -> PC] /\ arg' \in [Guests -> Args]
  BY <1>1, <1>2, <1>5, <1>10, PlacesFit DEF Return, Goto
<1> HIDE DEF Moved, SameSources
<1>11. ASSUME NEW n \in Nums, GetTriggeredEvents(n), UNCHANGED sent
       PROVE  QueueInv' /\ SameSources
  <2>1. n \in Nat
    BY BoundsAssumption
  <2> QED  BY <1>1, <1>11, <2>1, CollectKeeps DEF SameSources
<1>12. ASSUME UNCHANGED <<events, due, inOrder, sent>> PROVE QueueInv' /\ SameSources
  BY <1>1, <1>12 DEF QueueInv, SameSources, HasEvent
<1>13. ASSUME NEW t \in Guests, NEW kind \in UserKinds, AddUserEvent(t, kind) PROVE IInv'
  <2>1. /\ Begin(t) /\ AddEvent(NewEvent("user", kind))
        /\ UNCHANGED <<exists, listed, eqMutex, pc, arg, begun, sent, inOrder>>
    BY <1>13 DEF AddUserEvent
  <2>2. /\ NewEvent("user", kind) \in Event /\ GoodEvent(NewEvent("user", kind))
        /\ NewEvent("user", kind).key = "user" /\ Contents(NewEvent("user", kind)) = <<>>
    BY <1>3, <1>4, NewEventIsGood
  <2>3. QueueInv' /\ \A k : HasEvent(k)' <=> HasEvent(k) \/ k = "user"
    BY <1>1, <2>1, <2>2, AddKeeps
  <2>4. SameSources
    BY <1>3, <2>3 DEF SameSources
  <2> QED  BY <1>2, <1>6, <1>7, <1>9, <2>1, <2>3, <2>4
<1>14. ASSUME NEW t \in Guests, AddHRTimerEvent(t) PROVE IInv'
  <2>1. /\ Begin(t) /\ AddEvent(NewEvent("timer", "timer"))
        /\ UNCHANGED <<exists, listed, eqMutex, pc, arg, begun, sent, inOrder>>
    BY <1>14 DEF AddHRTimerEvent
  <2>2. /\ NewEvent("timer", "timer") \in Event /\ GoodEvent(NewEvent("timer", "timer"))
        /\ NewEvent("timer", "timer").key = "timer" /\ Contents(NewEvent("timer", "timer")) = <<>>
    BY <1>3, <1>4, NewEventIsGood
  <2>3. QueueInv' /\ \A k : HasEvent(k)' <=> HasEvent(k) \/ k = "timer"
    BY <1>1, <2>1, <2>2, AddKeeps
  <2>4. SameSources
    BY <1>3, <2>3 DEF SameSources
  <2> QED  BY <1>2, <1>6, <1>7, <1>9, <2>1, <2>3, <2>4
<1>15. ASSUME NEW t \in Guests, TriggerUserEvent(t) PROVE IInv'
  <2>1. /\ Begin(t) /\ BeginTrigger /\ TriggerEvent("user")
        /\ UNCHANGED <<exists, listed, eqMutex, pc, arg, inOrder>>
    BY <1>15 DEF TriggerUserEvent
  <2>2. QueueInv' /\ SameSources
    BY <1>1, <1>3, <2>1, TriggerKeeps DEF SameSources
  <2> QED  BY <1>6, <1>7, <1>8, <1>9, <2>1, <2>2
<1>16. ASSUME NEW t \in Guests, NEW k \in Keys, DeleteUserEvent(t, k) PROVE IInv'
  <2>1. /\ Begin(t) /\ k \notin Sources /\ HasEvent(k)
        /\ events' = Without(k) /\ due' = [due EXCEPT ![k] = <<>>]
        /\ UNCHANGED <<exists, listed, eqMutex, pc, arg, begun, sent, inOrder>>
    BY <1>16 DEF DeleteUserEvent
  <2>2. QueueInv' /\ \A j : HasEvent(j)' <=> HasEvent(j) /\ j # k
    BY <1>1, <2>1, DeleteKeeps
  <2>3. SameSources
    BY <2>1, <2>2 DEF SameSources
  <2> QED  BY <1>2, <1>6, <1>7, <1>9, <2>1, <2>2, <2>3
<1>17. ASSUME NEW t \in Guests, NEW n \in Nums, PollEqueue(t, n) PROVE IInv'
  <2>1. /\ Begin(t) /\ GetTriggeredEvents(n)
        /\ UNCHANGED <<exists, listed, eqMutex, pc, arg, begun, sent>>
    BY <1>17 DEF PollEqueue
  <2> QED  BY <1>2, <1>6, <1>7, <1>9, <1>11, <2>1
<1>18. ASSUME NEW t \in Guests, NEW n \in Nums, NEW timed \in BOOLEAN, WaitEqueue(t, n, timed)
       PROVE  IInv'
  <2>1. Begin(t) /\ UNCHANGED <<exists, listed, eqMutex, begun, sent>>
    BY <1>18 DEF WaitEqueue
  <2>2. CASE GetTriggeredEvents(n) /\ UNCHANGED <<pc, arg>>
    BY <1>2, <1>6, <1>7, <1>9, <1>11, <2>1, <2>2
  <2>3. CASE /\ Goto(t, "wait")
             /\ arg' = [arg EXCEPT ![t] = [NoArg EXCEPT !.num = n, !.timed = timed]]
             /\ UNCHANGED <<events, history>>
    <3>1. [NoArg EXCEPT !.num = n, !.timed = timed] \in Args
      BY DEF NoArg, Args, Keys
    <3>2. pc' \in [Threads -> PC] /\ arg' \in [Guests -> Args]
      BY <1>1, <1>5, <2>3, <3>1, PlacesFit DEF Goto
    <3>3. Moved
      BY <1>2, <1>7, <2>1, <2>3 DEF Moved, Goto
    <3>4. QueueInv' /\ SameSources
      BY <1>12, <2>1, <2>3 DEF history
    <3> QED  BY <1>2, <1>6, <1>7, <2>1, <3>2, <3>3, <3>4
  <2> QED  BY <1>18, <2>2, <2>3 DEF WaitEqueue
<1>19. ASSUME NEW t \in Guests, Wake(t) PROVE IInv'
  <2>1. /\ pc[t] = "wait" /\ GetTriggeredEvents(arg[t].num) /\ Return(t)
        /\ UNCHANGED <<exists, listed, eqMutex, calls, begun, sent>>
    BY <1>19 DEF Wake
  <2>2. PICK n \in Nat : n = arg[t].num
    <3>1. arg[t] \in Args
      BY <1>2
    <3>2. arg[t].num \in Nums \cup {1}
      BY <3>1 DEF Args
    <3>3. arg[t].num \in Nat
      BY <3>2, BoundsAssumption
    <3> QED  BY <3>3
  <2>3. QueueInv' /\ SameSources
    BY <1>1, <2>1, <2>2, CollectKeeps DEF SameSources
  <2> QED  BY <1>2, <1>6, <1>10, <2>1, <2>3
<1>20. ASSUME NEW t \in Guests, WaitTimesOut(t) PROVE IInv'
  <2>1. /\ pc[t] = "wait" /\ Return(t)
        /\ UNCHANGED <<exists, listed, eqMutex, events, calls, begun, sent, due, inOrder>>
    BY <1>20 DEF WaitTimesOut, queue, history
  <2> QED  BY <1>2, <1>6, <1>10, <1>12, <2>1
<1>21. ASSUME NEW i \in DOMAIN events, DeadlinePasses(i) PROVE IInv'
  <2>1. UNCHANGED <<exists, listed, eqMutex, pc, arg, calls, begun>>
    BY <1>21 DEF DeadlinePasses
  <2>2. QueueInv' /\ SameSources
    BY <1>1, <1>21, DeadlineKeeps DEF SameSources
  <2> QED  BY <1>2, <1>6, <1>9, <2>1, <2>2
<1> QED  BY <1>13, <1>14, <1>15, <1>16, <1>17, <1>18, <1>19, <1>20, <1>21 DEF QueueNext

(* The triggers of the emulator's threads, and the call that only takes a  *)
(* video out's mutex.                                                      *)
EmulatorSteps ==
  \/ \E t \in Guests : RegisterVideoOutEvent(t)
  \/ FlipDone
  \/ Interrupt
  \/ TriggerSteps

(* The first step of a flip registration and the triggers of all sources. *)
LEMMA EmulatorStepsKeep ==
  ASSUME IInv, EmulatorSteps
  PROVE  IInv'
<1>1. TypeOK /\ QueueInv /\ CallsOK
  BY TypeIsCallsOK DEF IInv
<1>2. /\ exists \in BOOLEAN /\ listed \in BOOLEAN /\ eqMutex \in Guests \cup {None}
      /\ arg \in [Guests -> Args]
      /\ calls \in 0 .. MaxCalls /\ begun \in 0 .. MaxTriggers
      /\ pc \in [Threads -> PC] /\ MaxCalls \in Nat /\ MaxTriggers \in Nat
      /\ outer \in [Sources -> Threads \cup {None}] /\ gMutex \in {LabelThread, None}
      /\ flipListed \in BOOLEAN /\ eopCount \in Nat
  BY <1>1, BoundsAssumption DEF CallsOK
<1>3. /\ "user" \in Keys /\ "flip" \in Keys /\ "eop" \in Keys /\ "flip" \in Sources /\ "eop" \in Sources
  BY DEF Keys, Sources
<1>4. {"idle", "register", "fire", "eop", "all", "forAll"} \subseteq PC
  BY DEF PC
<1>5. \A s \in Sources, t \in Threads \cup {None} :
        [outer EXCEPT ![s] = t] \in [Sources -> Threads \cup {None}]
  BY <1>2
<1>6. /\ Guests \subseteq Threads /\ Window \in Threads \ Guests /\ LabelThread \in Threads \ Guests
      /\ \A t \in Threads, p \in PC : [pc EXCEPT ![t] = p] \in [Threads -> PC]
  BY <1>1, PlacesFit
<1> DEFINE Moved == \A t \in Guests :
             \/ pc'[t] = pc[t] /\ arg'[t] = arg[t]
             \/ /\ pc'[t] \in {"idle", "wait", "register"}
                /\ pc[t] = "wait" \/ (pc[t] = "idle" /\ listed)
           SameSources == \A s \in Sources : HasEvent(s)' <=> HasEvent(s)
           Outer == /\ outer' \in [Sources -> Threads \cup {None}] /\ gMutex' \in {LabelThread, None}
                    /\ calls' \in 0 .. MaxCalls /\ begun' \in 0 .. MaxTriggers
<1>7. ASSUME QueueInv', SameSources, Moved, Outer, pc' \in [Threads -> PC],
             UNCHANGED <<exists, listed, eqMutex, arg, flipListed, eopCount>>
      PROVE  IInv'
  <2>1. CallsOK'
    BY <1>2, <1>7 DEF CallsOK
  <2> QED  BY <1>7, <2>1, QuietKeeps
<1>8. ASSUME NEW u \in Threads \ Guests, NEW p \in PC, Goto(u, p), UNCHANGED arg
      PROVE  Moved /\ pc' \in [Threads -> PC]
  <2>1. pc' = [pc EXCEPT ![u] = p] /\ pc' \in [Threads -> PC]
    BY <1>6, <1>8 DEF Goto
  <2>2. \A t \in Guests : pc'[t] = pc[t] /\ arg'[t] = arg[t]
    BY <1>2, <1>8, <2>1
  <2> QED  BY <2>1, <2>2
<1> HIDE DEF Moved, SameSources
<1>9. ASSUME UNCHANGED <<events, due, inOrder, sent>> PROVE QueueInv' /\ SameSources
  BY <1>1, <1>9 DEF QueueInv, SameSources, HasEvent
<1>10. ASSUME NEW k \in Keys, TriggerEvent(k) \/ UNCHANGED <<events, sent, due>>, UNCHANGED inOrder
       PROVE  QueueInv' /\ SameSources
  BY <1>1, <1>9, <1>10, TriggerKeeps DEF SameSources
<1>11. ASSUME NEW t \in Guests, RegisterVideoOutEvent(t) PROVE IInv'
  <2>1. /\ listed /\ pc[t] = "idle" /\ calls' \in 0 .. MaxCalls
        /\ outer' = [outer EXCEPT !["flip"] = t] /\ pc' = [pc EXCEPT ![t] = "register"]
        /\ UNCHANGED <<exists, listed, eqMutex, events, arg, begun, sent, due, inOrder,
                       gMutex, flipListed, eopCount>>
    BY <1>2, <1>11 DEF RegisterVideoOutEvent, Begin, LockOuter, Goto, queue, history
  <2>2. Moved /\ pc' \in [Threads -> PC]
    BY <1>2, <1>4, <1>6, <2>1 DEF Moved
  <2>3. Outer
    BY <1>2, <1>3, <1>5, <1>6, <2>1
  <2> QED  BY <1>7, <1>9, <2>1, <2>2, <2>3
<1>12. ASSUME FlipDone PROVE IInv'
  <2>1. /\ begun' \in 0 .. MaxTriggers
        /\ outer' = [outer EXCEPT !["flip"] = Window] /\ Goto(Window, "fire")
        /\ UNCHANGED <<exists, listed, eqMutex, events, arg, calls, sent, due, inOrder,
                       gMutex, flipListed, eopCount>>
    BY <1>2, <1>12 DEF FlipDone, BeginTrigger, LockOuter, queue, history
  <2>2. Moved /\ pc' \in [Threads -> PC]
    BY <1>4, <1>6, <1>8, <2>1
  <2>3. Outer
    BY <1>2, <1>3, <1>5, <1>6, <2>1
  <2> QED  BY <1>7, <1>9, <2>1, <2>2, <2>3
<1>13. ASSUME Interrupt PROVE IInv'
  <2>1. /\ begun' \in 0 .. MaxTriggers
        /\ outer' = [outer EXCEPT !["eop"] = LabelThread] /\ Goto(LabelThread, "eop")
        /\ UNCHANGED <<exists, listed, eqMutex, events, arg, calls, sent, due, inOrder,
                       gMutex, flipListed, eopCount>>
    BY <1>2, <1>13 DEF Interrupt, BeginTrigger, LockOuter, queue, history
  <2>2. Moved /\ pc' \in [Threads -> PC]
    BY <1>4, <1>6, <1>8, <2>1
  <2>3. Outer
    BY <1>2, <1>3, <1>5, <1>6, <2>1
  <2> QED  BY <1>7, <1>9, <2>1, <2>2, <2>3
<1>14. ASSUME TriggerFlip PROVE IInv'
  <2>1. /\ TriggerEvent("flip") \/ UNCHANGED <<events, sent, due>>
        /\ outer' = [outer EXCEPT !["flip"] = None] /\ Goto(Window, "idle")
        /\ UNCHANGED <<exists, listed, eqMutex, arg, calls, begun, inOrder, gMutex, flipListed, eopCount>>
    BY <1>14 DEF TriggerFlip, UnlockOuter
  <2>2. Moved /\ pc' \in [Threads -> PC]
    BY <1>4, <1>6, <1>8, <2>1
  <2>3. Outer
    BY <1>2, <1>3, <1>5, <2>1
  <2>4. QueueInv' /\ SameSources
    BY <1>3, <1>10, <2>1
  <2> QED  BY <1>7, <2>1, <2>2, <2>3, <2>4
<1>15. ASSUME TriggerEop PROVE IInv'
  <2>1. /\ TriggerEvent("eop") \/ UNCHANGED <<events, sent, due>>
        /\ Goto(LabelThread, "all")
        /\ UNCHANGED <<exists, listed, eqMutex, arg, calls, begun, inOrder, outer, gMutex,
                       flipListed, eopCount>>
    BY <1>15 DEF TriggerEop, sources
  <2>2. Moved /\ pc' \in [Threads -> PC]
    BY <1>4, <1>6, <1>8, <2>1
  <2>3. Outer
    BY <1>2, <2>1
  <2>4. QueueInv' /\ SameSources
    BY <1>3, <1>10, <2>1
  <2> QED  BY <1>7, <2>1, <2>2, <2>3, <2>4
<1>16. ASSUME LockEqueues PROVE IInv'
  <2>1. /\ gMutex' = LabelThread /\ Goto(LabelThread, "forAll")
        /\ UNCHANGED <<exists, listed, eqMutex, events, arg, calls, begun, sent, due, inOrder,
                       outer, flipListed, eopCount>>
    BY <1>16 DEF LockEqueues, queue, history
  <2>2. Moved /\ pc' \in [Threads -> PC]
    BY <1>4, <1>6, <1>8, <2>1
  <2>3. Outer
    BY <1>2, <2>1
  <2> QED  BY <1>7, <1>9, <2>1, <2>2, <2>3
<1>17. ASSUME TriggerUserEventForAll PROVE IInv'
  <2>1. /\ TriggerEvent("user") \/ UNCHANGED <<events, sent, due>>
        /\ gMutex' = None /\ outer' = [outer EXCEPT !["eop"] = None] /\ Goto(LabelThread, "idle")
        /\ UNCHANGED <<exists, listed, eqMutex, arg, calls, begun, inOrder, flipListed, eopCount>>
    BY <1>17 DEF TriggerUserEventForAll, UnlockOuter
  <2>2. Moved /\ pc' \in [Threads -> PC]
    BY <1>4, <1>6, <1>8, <2>1
  <2>3. Outer
    BY <1>2, <1>3, <1>5, <2>1
  <2>4. QueueInv' /\ SameSources
    BY <1>3, <1>10, <2>1
  <2> QED  BY <1>7, <2>1, <2>2, <2>3, <2>4
<1> QED  BY <1>11, <1>12, <1>13, <1>14, <1>15, <1>16, <1>17 DEF EmulatorSteps, TriggerSteps

-----------------------------------------------------------------------------
(* The calls that register, delete and destroy, each step of them.         *)
LEMMA StepFacts ==
  ASSUME IInv
  PROVE  /\ QueueInv /\ CallsOK /\ CallInv /\ RegistrationsAreLive
         /\ exists \in BOOLEAN /\ listed \in BOOLEAN /\ eqMutex \in Guests \cup {None}
         /\ arg \in [Guests -> Args] /\ calls \in 0 .. MaxCalls /\ begun \in 0 .. MaxTriggers
         /\ pc \in [Threads -> PC] /\ MaxCalls \in Nat
         /\ outer \in [Sources -> Threads \cup {None}] /\ gMutex \in {LabelThread, None}
         /\ flipListed \in BOOLEAN /\ eopCount \in {0, 1}
         /\ eqMutex = None => \A u \in Guests : pc[u] \notin {"unlink", "dtor"}
         /\ listed => exists /\ \A u \in Guests : pc[u] \notin {"destroy", "dtor"}
         /\ Guests \subseteq Threads /\ None \notin Guests
         /\ "flip" \in Sources /\ "eop" \in Sources /\ Sources = {"flip", "eop"}
         /\ {"idle", "unlink", "addEop", "destroy", "dtor"} \subseteq PC
         /\ \A t \in Guests, p \in PC : [pc EXCEPT ![t] = p] \in [Threads -> PC]
         /\ \A t \in Guests, a \in Args : [arg EXCEPT ![t] = a] \in [Guests -> Args]
         /\ NoArg \in Args
<1>1. TypeOK /\ QueueInv /\ CallsOK /\ CallInv /\ RegistrationsAreLive
  BY TypeIsCallsOK DEF IInv
<1>2. /\ exists \in BOOLEAN /\ listed \in BOOLEAN /\ eqMutex \in Guests \cup {None}
      /\ arg \in [Guests -> Args] /\ calls \in 0 .. MaxCalls /\ begun \in 0 .. MaxTriggers
      /\ pc \in [Threads -> PC] /\ MaxCalls \in Nat
      /\ outer \in [Sources -> Threads \cup {None}] /\ gMutex \in {LabelThread, None}
      /\ flipListed \in BOOLEAN
  BY <1>1, BoundsAssumption DEF CallsOK
<1>3. eopCount \in {0, 1}
  BY <1>1 DEF CallsOK, CallInv
<1>4. /\ Guests \subseteq Threads /\ None \notin Guests /\ NoArg \in Args
      /\ \A t \in Guests, p \in PC : [pc EXCEPT ![t] = p] \in [Threads -> PC]
      /\ \A t \in Guests, a \in Args : [arg EXCEPT ![t] = a] \in [Guests -> Args]
  BY <1>1, PlacesFit
<1>5. eqMutex = None => \A u \in Guests : pc[u] \notin {"unlink", "dtor"}
  BY <1>1, <1>4 DEF CallInv
<1>6. listed => exists /\ \A u \in Guests : pc[u] \notin {"destroy", "dtor"}
  BY <1>1 DEF CallInv, RegistrationsAreLive
<1>7. /\ "flip" \in Sources /\ "eop" \in Sources /\ Sources = {"flip", "eop"}
      /\ {"idle", "unlink", "addEop", "destroy", "dtor"} \subseteq PC
  BY DEF Sources, PC
<1> QED  BY <1>1, <1>2, <1>3, <1>4, <1>5, <1>6, <1>7

(* The invariant from its parts, the types being implied. *)
LEMMA IInvAfter ==
  ASSUME QueueInv', CallsOK', CallInv', RegistrationsAreLive'
  PROVE  IInv'
  BY TypeAfter DEF IInv

(* A flip event is added and its source remembers the queue. *)
LEMMA RegisterFinishKeeps ==
  ASSUME IInv, NEW t \in Guests, RegisterFinish(t)
  PROVE  IInv'
<1>1. /\ pc[t] = "register" /\ AddEvent(NewEvent("flip", "source")) /\ flipListed' = TRUE
      /\ eqMutex = None
      /\ outer' = [outer EXCEPT !["flip"] = None]
      /\ pc' = [pc EXCEPT ![t] = "idle"] /\ arg' = [arg EXCEPT ![t] = NoArg]
      /\ UNCHANGED <<exists, listed, eqMutex, calls, begun, sent, inOrder, gMutex, eopCount>>
  BY DEF RegisterFinish, UnlockOuter, Return, Goto, AddEvent
<1>2. QueueInv' /\ \A k : HasEvent(k)' <=> HasEvent(k) \/ k = "flip"
  <2>1. "flip" \in Keys /\ "source" \in KindsOf("flip")
    BY DEF Keys, Sources, KindsOf
  <2>2. /\ NewEvent("flip", "source") \in Event /\ GoodEvent(NewEvent("flip", "source"))
        /\ NewEvent("flip", "source").key = "flip" /\ Contents(NewEvent("flip", "source")) = <<>>
    BY <2>1, NewEventIsGood
  <2> QED  BY <1>1, <2>2, AddKeeps, StepFacts
<1>3. CallsOK'
  BY <1>1, StepFacts DEF CallsOK
<1>4. \A u \in Guests : pc[u] \notin {"unlink", "dtor", "destroy"}
  BY <1>1, StepFacts DEF CallInv
<1>5. \A u \in Guests : pc'[u] \notin {"unlink", "dtor", "destroy"} /\ (pc'[u] = "addEop" <=> pc[u] = "addEop")
  BY <1>1, <1>4, StepFacts
<1>6. CallInv'
  <2>1. ASSUME NEW u \in Guests, pc'[u] = "addEop"
        PROVE  /\ exists' /\ HasEvent("eop")' /\ eopCount' = 0
               /\ \A w \in Guests : pc'[w] = "addEop" => w = u
    <3>1. /\ exists /\ HasEvent("eop") /\ eopCount = 0
          /\ \A w \in Guests : pc[w] = "addEop" => w = u
      BY <1>5, <2>1, StepFacts DEF CallInv
    <3> QED  BY <1>1, <1>2, <1>5, <3>1
  <2>2. eopCount' <= 1
    BY <1>1, StepFacts
  <2> QED  BY <1>5, <2>1, <2>2 DEF CallInv
<1>7. RegistrationsAreLive'
  BY <1>1, <1>2, <1>5, StepFacts DEF RegistrationsAreLive
<1> QED  BY <1>2, <1>3, <1>6, <1>7, IInvAfter

(* The end-of-pipe event is added; its source has yet to count it. *)
LEMMA AddEqEventKeeps ==
  ASSUME IInv, NEW t \in Guests, AddEqEvent(t)
  PROVE  IInv'
<1>1. /\ listed /\ pc[t] = "idle" /\ calls' \in 0 .. MaxCalls
      /\ eopCount = 0 /\ \A u \in Guests : pc[u] # "addEop"
      /\ AddEvent(NewEvent("eop", "source")) /\ eqMutex = None
      /\ pc' = [pc EXCEPT ![t] = "addEop"]
      /\ UNCHANGED <<exists, listed, eqMutex, arg, begun, sent, inOrder, outer, gMutex,
                     flipListed, eopCount>>
  BY StepFacts DEF AddEqEvent, Begin, Goto, AddEvent, sources
<1>2. QueueInv' /\ \A k : HasEvent(k)' <=> HasEvent(k) \/ k = "eop"
  <2>1. "eop" \in Keys /\ "source" \in KindsOf("eop")
    BY DEF Keys, Sources, KindsOf
  <2>2. /\ NewEvent("eop", "source") \in Event /\ GoodEvent(NewEvent("eop", "source"))
        /\ NewEvent("eop", "source").key = "eop" /\ Contents(NewEvent("eop", "source")) = <<>>
    BY <2>1, NewEventIsGood
  <2> QED  BY <1>1, <2>2, AddKeeps, StepFacts
<1>3. CallsOK'
  BY <1>1, StepFacts DEF CallsOK
<1>4. \A u \in Guests : pc'[u] \notin {"unlink", "dtor", "destroy"} /\ (pc'[u] = "addEop" <=> u = t)
  BY <1>1, StepFacts
<1>5. CallInv'
  <2>1. exists' /\ HasEvent("eop")' /\ eopCount' = 0 /\ eopCount' <= 1
    BY <1>1, <1>2, StepFacts
  <2> QED  BY <1>4, <2>1 DEF CallInv
<1>6. RegistrationsAreLive'
  BY <1>1, <1>2, <1>4, StepFacts DEF RegistrationsAreLive
<1> QED  BY <1>2, <1>3, <1>5, <1>6, IInvAfter

(* The render context counts the end-of-pipe event, once. *)
LEMMA AddEopEqKeeps ==
  ASSUME IInv, NEW t \in Guests, AddEopEq(t)
  PROVE  IInv'
<1>1. /\ pc[t] = "addEop" /\ eopCount' = eopCount + 1
      /\ pc' = [pc EXCEPT ![t] = "idle"] /\ arg' = [arg EXCEPT ![t] = NoArg]
      /\ UNCHANGED <<exists, listed, events, eqMutex, calls, begun, sent, due, inOrder, outer,
                     gMutex, flipListed>>
  BY DEF AddEopEq, Return, Goto, queue, history
<1>2. QueueInv' /\ \A k : HasEvent(k)' <=> HasEvent(k)
  BY <1>1, StepFacts DEF QueueInv, HasEvent
<1>3. /\ exists /\ HasEvent("eop") /\ eopCount = 0
      /\ \A u \in Guests : pc[u] = "addEop" => u = t
  BY <1>1, StepFacts DEF CallInv
<1>4. CallsOK'
  BY <1>1, <1>3, StepFacts DEF CallsOK
<1>5. /\ \A u \in Guests : pc'[u] # "addEop"
      /\ \A u \in Guests : u # t => pc'[u] = pc[u] /\ arg'[u] = arg[u]
      /\ pc'[t] = "idle"
  BY <1>1, <1>3, StepFacts
<1>6. CallInv'
  <2>1. ASSUME NEW u \in Guests, pc'[u] \in {"unlink", "dtor"} PROVE eqMutex' = u
    BY <1>1, <1>5, <2>1, StepFacts DEF CallInv
  <2>2. ASSUME NEW u \in Guests, pc'[u] = "unlink"
        PROVE  arg'[u].key \in Sources /\ HasEvent(arg[u].key)'
    <3>1. pc[u] = "unlink" /\ arg'[u] = arg[u]
      BY <1>5, <2>2
    <3>2. PICK s \in Sources : s = arg[u].key /\ HasEvent(s)
      BY <3>1, StepFacts DEF CallInv
    <3>3. HasEvent(s)' /\ s = arg'[u].key
      BY <1>2, <3>1, <3>2
    <3> QED  BY <3>2, <3>3 DEF HasEvent
  <2>3. ASSUME NEW u \in Guests, pc'[u] \in {"destroy", "dtor"}
        PROVE  ~ listed' /\ \A w \in Guests \ {u} : pc'[w] = "idle"
    <3>1. pc[u] \in {"destroy", "dtor"} /\ u # t
      BY <1>5, <2>3
    <3>2. ~ listed /\ \A w \in Guests \ {u} : pc[w] = "idle"
      BY <3>1, StepFacts DEF CallInv
    <3> QED  BY <1>1, <3>1, <3>2
  <2> QED  BY <1>1, <1>3, <1>5, <2>1, <2>2, <2>3 DEF CallInv
<1>7. RegistrationsAreLive'
  BY <1>1, <1>2, <1>3, StepFacts DEF RegistrationsAreLive
<1> QED  BY <1>2, <1>4, <1>6, <1>7, IInvAfter

(* A delete takes the mutex, finds its event and goes on to unlink it. *)
LEMMA DeleteEventKeeps ==
  ASSUME IInv, NEW t \in Guests, NEW s \in Sources, DeleteEvent(t, s)
  PROVE  IInv'
<1>1. /\ listed /\ pc[t] = "idle" /\ calls' \in 0 .. MaxCalls
      /\ eqMutex = None /\ HasEvent(s) /\ eqMutex' = t
      /\ s = "eop" => \A u \in Guests : pc[u] # "addEop"
      /\ pc' = [pc EXCEPT ![t] = "unlink"]
      /\ arg' = [arg EXCEPT ![t] = [NoArg EXCEPT !.key = s]]
      /\ UNCHANGED <<exists, listed, events, begun, sent, due, inOrder, outer, gMutex,
                     flipListed, eopCount>>
  BY StepFacts DEF DeleteEvent, Begin, Goto, history, sources
<1>2. QueueInv' /\ \A k : HasEvent(k)' <=> HasEvent(k)
  BY <1>1, StepFacts DEF QueueInv, HasEvent
<1>3. [NoArg EXCEPT !.key = s] \in Args /\ [NoArg EXCEPT !.key = s].key = s
  BY DEF NoArg, Args, Keys
<1>4. CallsOK'
  BY <1>1, <1>3, StepFacts DEF CallsOK
<1>5. /\ pc'[t] = "unlink" /\ arg'[t].key = s
      /\ \A u \in Guests : u # t => pc'[u] = pc[u]
      /\ \A u \in Guests : u # t => pc'[u] \notin {"unlink", "dtor", "destroy"}
  BY <1>1, <1>3, StepFacts
<1>6. CallInv'
  <2>1. HasEvent(arg[t].key)'
    <3>1. HasEvent(s)'
      BY <1>1, <1>2
    <3> QED  BY <1>5, <3>1 DEF HasEvent
  <2>2. ASSUME NEW u \in Guests, pc'[u] = "addEop"
        PROVE  /\ exists' /\ HasEvent("eop")' /\ eopCount' = 0
               /\ \A w \in Guests : pc'[w] = "addEop" => w = u
    <3>1. pc[u] = "addEop"
      BY <1>5, <2>2
    <3>2. /\ exists /\ HasEvent("eop") /\ eopCount = 0
          /\ \A w \in Guests : pc[w] = "addEop" => w = u
      BY <3>1, StepFacts DEF CallInv
    <3> QED  BY <1>1, <1>2, <1>5, <3>2
  <2>3. s = "eop" => \A u \in Guests : pc'[u] # "addEop"
    BY <1>1, <1>5
  <2>4. eopCount' <= 1
    BY <1>1, StepFacts
  <2> QED  BY <1>1, <1>5, <2>1, <2>2, <2>3, <2>4 DEF CallInv
<1>7. RegistrationsAreLive'
  BY <1>1, <1>2, <1>5, StepFacts DEF RegistrationsAreLive
<1> QED  BY <1>2, <1>4, <1>6, <1>7, IInvAfter

(* Unlinking an event and erasing it, in one go.                           *)
LEMMA UnlinkKeeps ==
  ASSUME IInv, NEW s \in Sources, HasEvent(s), Unlink(s),
         events' = Without(s), due' = [due EXCEPT ![s] = <<>>], UNCHANGED <<sent, inOrder>>
  PROVE  /\ QueueInv' /\ \A k : HasEvent(k)' <=> HasEvent(k) /\ k # s
         /\ flipListed' \in BOOLEAN /\ (flipListed' <=> HasEvent("flip")')
         /\ eopCount' \in {0, 1} /\ (s # "eop" => eopCount' = eopCount)
         /\ (s = "eop" => eopCount' = 0)
<1>1. s \in Keys
  BY DEF Keys
<1>2. QueueInv' /\ \A k : HasEvent(k)' <=> HasEvent(k) /\ k # s
  BY <1>1, DeleteKeeps, StepFacts
<1>3. /\ flipListed' = (flipListed /\ s # "flip")
      /\ eopCount' = IF s = "eop" /\ eopCount > 0 THEN eopCount - 1 ELSE eopCount
  BY DEF Unlink
<1>4. flipListed \in BOOLEAN /\ eopCount \in {0, 1} /\ (flipListed <=> HasEvent("flip"))
  BY StepFacts DEF RegistrationsAreLive
<1>5. /\ eopCount' \in {0, 1} /\ (s # "eop" => eopCount' = eopCount)
      /\ (s = "eop" => eopCount' = 0)
  BY <1>3, <1>4
<1>6. flipListed' \in BOOLEAN /\ (flipListed' <=> HasEvent("flip")')
  BY <1>2, <1>3, <1>4
<1> QED  BY <1>2, <1>5, <1>6

(* A delete unlinks its event and the source forgets the queue. *)
LEMMA DeleteFinishKeeps ==
  ASSUME IInv, NEW t \in Guests, DeleteFinish(t)
  PROVE  IInv'
<1>1. PICK s \in Sources : s = arg[t].key /\ HasEvent(s) /\ (s = "eop" => \A u \in Guests : pc[u] # "addEop")
  BY StepFacts DEF DeleteFinish, CallInv
<1>2. /\ pc[t] = "unlink" /\ Unlink(s) /\ eqMutex = t
      /\ events' = Without(s) /\ due' = [due EXCEPT ![s] = <<>>] /\ eqMutex' = None
      /\ pc' = [pc EXCEPT ![t] = "idle"] /\ arg' = [arg EXCEPT ![t] = NoArg]
      /\ UNCHANGED <<exists, listed, calls, begun, sent, inOrder, outer, gMutex>>
  BY <1>1, StepFacts DEF DeleteFinish, Return, Goto, CallInv
<1>3. /\ QueueInv' /\ \A k : HasEvent(k)' <=> HasEvent(k) /\ k # s
      /\ flipListed' \in BOOLEAN /\ (flipListed' <=> HasEvent("flip")')
      /\ eopCount' \in {0, 1} /\ (s # "eop" => eopCount' = eopCount)
      /\ (s = "eop" => eopCount' = 0)
  BY <1>1, <1>2, UnlinkKeeps
<1>4. CallsOK'
  <2>1. eopCount' \in Nat
    BY <1>3
  <2> QED  BY <1>2, <1>3, <2>1, StepFacts DEF CallsOK
<1>5. \A u \in Guests : pc[u] \notin {"destroy", "dtor"} /\ (pc[u] = "unlink" => u = t)
  BY <1>2, StepFacts DEF CallInv
<1>6. \A u \in Guests : /\ pc'[u] \notin {"unlink", "destroy", "dtor"}
                        /\ pc'[u] = "addEop" <=> pc[u] = "addEop"
  BY <1>2, <1>5, StepFacts
<1>7. CallInv'
  <2>1. ASSUME NEW u \in Guests, pc'[u] = "addEop"
        PROVE  /\ exists' /\ HasEvent("eop")' /\ eopCount' = 0
               /\ \A w \in Guests : pc'[w] = "addEop" => w = u
    <3>1. pc[u] = "addEop"
      BY <1>6, <2>1
    <3>2. /\ exists /\ HasEvent("eop") /\ eopCount = 0 /\ s # "eop"
          /\ \A w \in Guests : pc[w] = "addEop" => w = u
      BY <1>1, <3>1, StepFacts DEF CallInv
    <3> QED  BY <1>2, <1>3, <1>6, <3>2
  <2>2. eopCount' <= 1
    BY <1>3
  <2> QED  BY <1>6, <2>1, <2>2 DEF CallInv
<1>8. RegistrationsAreLive'
  BY <1>2, <1>3, <1>6, StepFacts DEF RegistrationsAreLive
<1> QED  BY <1>3, <1>4, <1>7, <1>8, IInvAfter

(* The queue leaves the list of queues; only the last user does that. *)
LEMMA DeleteEqueueKeeps ==
  ASSUME IInv, NEW t \in Guests, DeleteEqueue(t)
  PROVE  IInv'
<1>1. /\ listed /\ pc[t] = "idle" /\ calls' \in 0 .. MaxCalls
      /\ \A u \in Guests \ {t} : pc[u] = "idle"
      /\ listed' = FALSE /\ pc' = [pc EXCEPT ![t] = "destroy"]
      /\ UNCHANGED <<exists, events, eqMutex, arg, begun, sent, due, inOrder, outer, gMutex,
                     flipListed, eopCount>>
  BY StepFacts DEF DeleteEqueue, Begin, Goto, history, sources
<1>2. QueueInv' /\ \A k : HasEvent(k)' <=> HasEvent(k)
  BY <1>1, StepFacts DEF QueueInv, HasEvent
<1>3. CallsOK'
  BY <1>1, StepFacts DEF CallsOK
<1>4. pc'[t] = "destroy" /\ \A u \in Guests \ {t} : pc'[u] = "idle"
  BY <1>1, StepFacts
<1>5. CallInv'
  BY <1>1, <1>4, StepFacts DEF CallInv
<1>6. RegistrationsAreLive'
  <2>1. \A u \in Guests : pc[u] # "addEop"
    BY <1>1
  <2> QED  BY <1>1, <1>2, <2>1, StepFacts DEF RegistrationsAreLive
<1> QED  BY <1>2, <1>3, <1>5, <1>6, IInvAfter

(* The destructor takes the mutex. *)
LEMMA DestructorKeeps ==
  ASSUME IInv, NEW t \in Guests, Destructor(t)
  PROVE  IInv'
<1>1. /\ pc[t] = "destroy" /\ eqMutex' = t /\ pc' = [pc EXCEPT ![t] = "dtor"]
      /\ UNCHANGED <<exists, listed, events, arg, calls, begun, sent, due, inOrder, outer, gMutex,
                     flipListed, eopCount>>
  BY DEF Destructor, Goto, history, sources
<1>2. QueueInv' /\ \A k : HasEvent(k)' <=> HasEvent(k)
  BY <1>1, StepFacts DEF QueueInv, HasEvent
<1>3. CallsOK'
  BY <1>1, StepFacts DEF CallsOK
<1>4. ~ listed /\ \A u \in Guests \ {t} : pc[u] = "idle"
  BY <1>1, StepFacts DEF CallInv
<1>5. pc'[t] = "dtor" /\ \A u \in Guests \ {t} : pc'[u] = "idle"
  BY <1>1, <1>4, StepFacts
<1>6. CallInv'
  BY <1>1, <1>4, <1>5, StepFacts DEF CallInv
<1>7. RegistrationsAreLive'
  <2>1. \A u \in Guests : pc[u] # "addEop"
    BY <1>1, <1>4
  <2> QED  BY <1>1, <1>2, <2>1, StepFacts DEF RegistrationsAreLive
<1> QED  BY <1>2, <1>3, <1>6, <1>7, IInvAfter

(* The source the destructor turns to next is one the queue has.           *)
LEMMA NextSourceIsThere ==
  ASSUME IInv, ToUnlink # {}
  PROVE  NextSource \in Sources /\ HasEvent(NextSource)
<1>1. DOMAIN events \in SUBSET Nat
  <2>1. DOMAIN events = 1 .. Len(events) /\ Len(events) \in Nat
    BY GoodListElements, StepFacts DEF QueueInv
  <2> QED  BY <2>1
<1>2. ToUnlink \in SUBSET Nat
  BY <1>1 DEF ToUnlink
<1>3. \E i \in ToUnlink : \A j \in ToUnlink : i <= j
  BY <1>2, LeastElement
<1> DEFINE m == CHOOSE i \in ToUnlink : \A j \in ToUnlink : i <= j
<1>4. m \in ToUnlink
  BY <1>3
<1>5. NextSource = events[m].key
  BY DEF NextSource
<1> HIDE DEF m
<1> QED  BY <1>4, <1>5 DEF ToUnlink, HasEvent

(* The destructor unlinks one event; its source forgets the queue. *)
LEMMA DestructorUnlinksKeeps ==
  ASSUME IInv, NEW t \in Guests, DestructorUnlinks(t)
  PROVE  IInv'
<1>1. PICK s \in Sources : s = NextSource /\ HasEvent(s)
  BY NextSourceIsThere DEF DestructorUnlinks
<1>2. /\ pc[t] = "dtor" /\ Unlink(s)
      /\ events' = Without(s) /\ due' = [due EXCEPT ![s] = <<>>]
      /\ UNCHANGED <<exists, listed, eqMutex, pc, arg, calls, begun, sent, inOrder, outer, gMutex>>
  BY <1>1 DEF DestructorUnlinks
<1>3. /\ QueueInv' /\ \A k : HasEvent(k)' <=> HasEvent(k) /\ k # s
      /\ flipListed' \in BOOLEAN /\ (flipListed' <=> HasEvent("flip")')
      /\ eopCount' \in {0, 1} /\ (s # "eop" => eopCount' = eopCount)
      /\ (s = "eop" => eopCount' = 0)
  BY <1>1, <1>2, UnlinkKeeps
<1>4. CallsOK'
  <2>1. eopCount' \in Nat
    BY <1>3
  <2> QED  BY <1>2, <1>3, <2>1, StepFacts DEF CallsOK
<1>5. ~ listed /\ \A u \in Guests \ {t} : pc[u] = "idle"
  BY <1>2, StepFacts DEF CallInv
<1>6. eqMutex = t
  BY <1>2, StepFacts DEF CallInv
<1>7. eopCount' <= 1
  BY <1>3
<1>8. CallInv'
  BY <1>2, <1>5, <1>6, <1>7 DEF CallInv
<1>9. RegistrationsAreLive'
  <2>1. \A u \in Guests : pc[u] # "addEop"
    BY <1>2, <1>5
  <2> QED  BY <1>2, <1>3, <2>1, StepFacts DEF RegistrationsAreLive
<1> QED  BY <1>3, <1>4, <1>8, <1>9, IInvAfter

(* The destructor ends: nothing is registered any more. *)
LEMMA DestructorEndsKeeps ==
  ASSUME IInv, NEW t \in Guests, DestructorEnds(t)
  PROVE  IInv'
<1>1. /\ pc[t] = "dtor" /\ ToUnlink = {}
      /\ exists' = FALSE /\ events' = <<>> /\ eqMutex' = None
      /\ due' = [k \in Keys |-> <<>>]
      /\ pc' = [pc EXCEPT ![t] = "idle"] /\ arg' = [arg EXCEPT ![t] = NoArg]
      /\ UNCHANGED <<listed, calls, begun, sent, inOrder, outer, gMutex, flipListed, eopCount>>
  BY DEF DestructorEnds, Return, Goto, sources
<1>2. ~ HasEvent("flip") /\ ~ HasEvent("eop")
  BY <1>1, StepFacts DEF ToUnlink, HasEvent
<1>3. ~ listed /\ \A u \in Guests \ {t} : pc[u] = "idle"
  BY <1>1, StepFacts DEF CallInv
<1>4. flipListed = FALSE /\ eopCount = 0
  BY <1>2, StepFacts DEF RegistrationsAreLive
<1>5. <<>> \in Seq(Nat) /\ <<>> \in Seq(Event) /\ DOMAIN <<>> = {}
  OBVIOUS
<1>6. QueueInv'
  <2>1. GoodList(events')
    BY <1>1, <1>5 DEF GoodList
  <2>2. Matches(events', due')
    BY <1>1, <1>5 DEF Matches
  <2>3. due' \in [Keys -> Seq(Nat)] /\ inOrder' = TRUE /\ sent' \in Nat
    BY <1>1, <1>5, StepFacts DEF QueueInv
  <2> QED  BY <2>1, <2>2, <2>3 DEF QueueInv
<1>7. \A k : ~ HasEvent(k)'
  BY <1>1, <1>5 DEF HasEvent
<1>8. CallsOK'
  BY <1>1, StepFacts DEF CallsOK
<1>9. \A u \in Guests : pc'[u] = "idle"
  BY <1>1, <1>3, StepFacts
<1>10. CallInv'
  BY <1>1, <1>4, <1>9 DEF CallInv
<1>11. RegistrationsAreLive'
  BY <1>1, <1>3, <1>4, <1>7 DEF RegistrationsAreLive
<1> QED  BY <1>6, <1>8, <1>10, <1>11, IInvAfter

-----------------------------------------------------------------------------
(* Initially nothing is listed, queued or registered. *)
LEMMA InitHolds == Init => IInv
<1> SUFFICES ASSUME Init PROVE IInv
  OBVIOUS
<1>1. /\ exists = TRUE /\ listed = TRUE /\ events = <<>> /\ eqMutex = None
      /\ pc = [t \in Threads |-> "idle"] /\ arg = [t \in Guests |-> NoArg]
      /\ calls = 0 /\ begun = 0 /\ sent = 0 /\ due = [k \in Keys |-> <<>>] /\ inOrder = TRUE
      /\ outer = [s \in Sources |-> None]
      /\ gMutex = None /\ flipListed = FALSE /\ eopCount = 0
  BY DEF Init, EqInit
<1>2. <<>> \in Seq(Nat) /\ <<>> \in Seq(Event) /\ DOMAIN <<>> = {}
  OBVIOUS
<1>3. /\ \A t \in Guests : t \in Threads /\ pc[t] = "idle"
      /\ \A k : ~ HasEvent(k)
  BY <1>1, <1>2 DEF Threads, HasEvent
<1>4. NoArg \in Args /\ "idle" \in PC
  BY DEF NoArg, Args, Keys, PC
<1>5. QueueInv
  <2>1. GoodList(events)
    BY <1>1, <1>2 DEF GoodList
  <2>2. Matches(events, due)
    BY <1>1, <1>2 DEF Matches
  <2> QED  BY <1>1, <1>2, <2>1, <2>2 DEF QueueInv
<1>6. TypeOK
  <2>1. /\ exists \in BOOLEAN /\ listed \in BOOLEAN /\ inOrder \in BOOLEAN
        /\ events \in Seq(Event) /\ eqMutex \in Guests \cup {None}
        /\ calls \in 0 .. MaxCalls /\ begun \in 0 .. MaxTriggers /\ sent \in Nat
        /\ due \in [Keys -> Seq(Nat)]
    BY <1>1, <1>2, BoundsAssumption
  <2>2. arg \in [Guests -> [key : Keys, num : Nums \cup {1}, timed : BOOLEAN]]
    BY <1>1, <1>4 DEF Args
  <2>3. /\ \A i \in DOMAIN events : events[i].kind \in KindsOf(events[i].key)
        /\ \A i, j \in DOMAIN events : events[i].key = events[j].key => i = j
    BY <1>1, <1>2
  <2>4. pc \in [Threads -> PC] /\ outer \in [Sources -> Threads \cup {None}]
    BY <1>1, <1>4
  <2> QED  BY <1>1, <2>1, <2>2, <2>3, <2>4 DEF TypeOK, EqTypeOK
<1>7. CallInv
  BY <1>1, <1>3 DEF CallInv
<1>8. RegistrationsAreLive
  BY <1>1, <1>3 DEF RegistrationsAreLive
<1> QED  BY <1>5, <1>6, <1>7, <1>8 DEF IInv

(* Every step keeps the invariant, one lemma per kind of step. *)
LEMMA StepHolds == IInv /\ [Next]_vars => IInv'
<1> SUFFICES ASSUME IInv, [Next]_vars PROVE IInv'
  OBVIOUS
<1>1. CASE QueueNext /\ UNCHANGED sources
  BY <1>1, QueueNextKeeps
<1>2. CASE EmulatorSteps
  BY <1>2, EmulatorStepsKeep
<1>3. CASE \E t \in Guests : AddEqEvent(t)
  BY <1>3, AddEqEventKeeps
<1>4. CASE \E t \in Guests, s \in Sources : DeleteEvent(t, s)
  BY <1>4, DeleteEventKeeps
<1>5. CASE \E t \in Guests : DeleteEqueue(t)
  BY <1>5, DeleteEqueueKeeps
<1>6. CASE \E t \in Guests : CallSteps(t)
  <2>1. PICK t \in Guests : CallSteps(t)
    BY <1>6
  <2> QED  BY <2>1, RegisterFinishKeeps, AddEopEqKeeps, DeleteFinishKeeps, DestructorKeeps,
              DestructorUnlinksKeeps, DestructorEndsKeeps DEF CallSteps
<1>7. CASE UNCHANGED vars
  <2>1. UNCHANGED <<exists, listed, events, eqMutex, pc, arg, calls, begun, sent, due, inOrder,
                    outer, gMutex, flipListed, eopCount>>
    BY <1>7 DEF vars, eqVars, queue, history, sources
  <2>2. QueueInv' /\ \A k : HasEvent(k)' <=> HasEvent(k)
    BY <2>1, StepFacts DEF QueueInv, HasEvent
  <2>3. CallsOK'
    BY <2>1, StepFacts DEF CallsOK
  <2> QED  BY <2>1, <2>2, <2>3, QuietKeeps
<1> QED  BY <1>1, <1>2, <1>3, <1>4, <1>5, <1>6, <1>7 DEF Next, EmulatorSteps

(* The invariant holds in every state. *)
LEMMA Invariance == Spec => []IInv
  BY InitHolds, StepHolds, PTL DEF Spec

(* The list of events and all the rest keep their types: no event is       *)
(* registered twice under one key (AddEvent in eventQueue.cpp).            *)
THEOREM TypeHolds == Spec => []TypeOK
<1>1. IInv => TypeOK
  BY DEF IInv
<1> QED  BY <1>1, Invariance, PTL

(* What the code queues of a trigger (TriggerEvent, GetTriggeredEvents and *)
(* the reset functions of eventQueue.cpp) is collected in the order of the *)
(* triggers, and nothing else drops it.                                    *)
THEOREM NothingLostHolds == Spec => []NothingLost
<1>1. IInv => NothingLost
  BY DEF IInv, QueueInv, Matches, NothingLost
<1> QED  BY <1>1, Invariance, PTL

(* A video out lists the queue exactly while the queue has its event, and  *)
(* the render context has an entry only for a queue that exists and has    *)
(* its event (VideoOutRegisterEvent, RemoveVideoOutEventQueue, AddEopEq,   *)
(* DeleteEopEq, and the destructor that calls the delete functions).       *)
THEOREM RegistrationsAreLiveHolds == Spec => []RegistrationsAreLive
<1>1. IInv => RegistrationsAreLive
  BY DEF IInv
<1> QED  BY <1>1, Invariance, PTL


-----------------------------------------------------------------------------
(* Who holds which mutex: m_mutex a thread that deletes, the video out's   *)
(* one that registers or the window thread, the render context's and       *)
(* g_equeues_mutex the label thread.  The emulator's threads keep to their *)
(* own places.                                                             *)
LockInv ==
  /\ eqMutex # None => pc[eqMutex] \in {"unlink", "dtor"}
  /\ outer["flip"] # None => pc[outer["flip"]] \in {"register", "fire"}
  /\ outer["eop"] # None =>
       outer["eop"] = LabelThread /\ pc[LabelThread] \in {"eop", "all", "forAll"}
  /\ gMutex # None => pc[LabelThread] = "forAll"
  /\ pc[Window] \in {"idle", "fire"} /\ pc[LabelThread] \in {"idle", "eop", "all", "forAll"}

(* Nobody takes or gives back a mutex, and only guest threads that hold    *)
(* none move.                                                              *)
LEMMA LocksRest ==
  ASSUME TypeOK, LockInv, UNCHANGED <<eqMutex, outer, gMutex>>,
         \A t \in Threads :
           \/ pc'[t] = pc[t]
           \/ t \in Guests /\ pc[t] \in {"idle", "wait", "addEop", "destroy"}
  PROVE  LockInv'
<1>1. eqMutex \in Guests \cup {None} /\ gMutex \in {LabelThread, None}
  BY DEF TypeOK, EqTypeOK
<1>2. /\ outer["flip"] \in Threads \cup {None} /\ outer["eop"] \in Threads \cup {None}
      /\ LabelThread \in Threads \ Guests /\ Window \in Threads \ Guests
      /\ Guests \subseteq Threads
  BY EmulatorAssumption, ThreadsAssumption DEF TypeOK, Sources, Threads
<1> QED  BY <1>1, <1>2 DEF LockInv

(* Every step keeps it: a mutex is given back in the step that leaves the  *)
(* place where it is held.                                                 *)
LEMMA LocksKeep == TypeOK /\ LockInv /\ [Next]_vars => LockInv'
<1> SUFFICES ASSUME TypeOK, LockInv, [Next]_vars PROVE LockInv'
  OBVIOUS
<1>1. /\ eqMutex \in Guests \cup {None} /\ gMutex \in {LabelThread, None}
      /\ pc \in [Threads -> PC] /\ outer \in [Sources -> Threads \cup {None}]
  BY DEF TypeOK, EqTypeOK
<1>2. /\ Guests \subseteq Threads /\ Window \in Threads \ Guests /\ LabelThread \in Threads \ Guests
      /\ Window # LabelThread /\ None \notin Threads
      /\ "flip" \in Sources /\ "eop" \in Sources
  BY EmulatorAssumption, ThreadsAssumption DEF Threads, Sources
<1>3. CASE QueueNext /\ UNCHANGED sources
  <2>1. UNCHANGED <<eqMutex, outer, gMutex>>
    BY <1>3 DEF QueueNext, AddUserEvent, AddHRTimerEvent, TriggerUserEvent, DeleteUserEvent,
       PollEqueue, WaitEqueue, Wake, WaitTimesOut, DeadlinePasses, sources, queue
  <2>2. UNCHANGED pc \/ \E t \in Guests, p \in {"idle", "wait"} :
          pc[t] \in {"idle", "wait"} /\ Goto(t, p)
    BY <1>3 DEF QueueNext, AddUserEvent, AddHRTimerEvent, TriggerUserEvent, DeleteUserEvent,
       PollEqueue, WaitEqueue, Wake, WaitTimesOut, DeadlinePasses, Begin, Return
  <2> QED  BY <1>1, <1>2, <2>1, <2>2, LocksRest DEF Goto
<1>4. ASSUME NEW t \in Guests, RegisterVideoOutEvent(t) \/ RegisterFinish(t)  PROVE LockInv'
  BY <1>1, <1>2, <1>4
  DEF LockInv, RegisterVideoOutEvent, RegisterFinish, Begin, Return, Goto, LockOuter, UnlockOuter, queue
<1>5. ASSUME NEW t \in Guests, AddEqEvent(t) \/ AddEopEq(t)  PROVE LockInv'
  BY <1>1, <1>2, <1>5, LocksRest DEF AddEqEvent, AddEopEq, Begin, Return, Goto, queue, sources
<1>6. ASSUME NEW t \in Guests, NEW s \in Sources, DeleteEvent(t, s)  PROVE LockInv'
  BY <1>1, <1>2, <1>6 DEF LockInv, DeleteEvent, Begin, Goto, sources
<1>7. ASSUME NEW t \in Guests, DeleteFinish(t) \/ DestructorEnds(t)  PROVE LockInv'
  BY <1>1, <1>2, <1>7 DEF LockInv, DeleteFinish, DestructorEnds, Return, Goto, Unlink, sources
<1>8. ASSUME NEW t \in Guests, DeleteEqueue(t)  PROVE LockInv'
  BY <1>1, <1>2, <1>8, LocksRest DEF DeleteEqueue, Begin, Goto, sources
<1>9. ASSUME NEW t \in Guests, Destructor(t)  PROVE LockInv'
  BY <1>1, <1>2, <1>9 DEF LockInv, Destructor, Goto, sources
<1>10. ASSUME NEW t \in Guests, DestructorUnlinks(t)  PROVE LockInv'
  BY <1>10, LocksRest DEF DestructorUnlinks
<1>11. CASE FlipDone \/ TriggerFlip
  BY <1>1, <1>2, <1>11 DEF LockInv, FlipDone, TriggerFlip, Goto, LockOuter, UnlockOuter, queue
<1>12. CASE Interrupt \/ TriggerEop
  BY <1>1, <1>2, <1>12 DEF LockInv, Interrupt, TriggerEop, Goto, LockOuter, queue, sources
<1>13. CASE LockEqueues \/ TriggerUserEventForAll
  BY <1>1, <1>2, <1>13 DEF LockInv, LockEqueues, TriggerUserEventForAll, Goto, UnlockOuter, queue
<1>14. CASE UNCHANGED vars
  BY <1>14, LocksRest DEF vars, eqVars, queue, sources
<1> QED  BY <1>3, <1>4, <1>5, <1>6, <1>7, <1>8, <1>9, <1>10, <1>11, <1>12, <1>13, <1>14
         DEF Next, CallSteps, TriggerSteps

(* The first event to unlink is one of a source.                           *)
LEMMA NextSourceIsSource ==
  ASSUME TypeOK, ToUnlink # {}
  PROVE  NextSource \in Sources
<1> DEFINE i == CHOOSE k \in ToUnlink : \A j \in ToUnlink : k <= j
<1>1. ToUnlink \subseteq Nat
  BY LenProperties DEF ToUnlink, TypeOK, EqTypeOK
<1>2. \E k \in ToUnlink : \A j \in ToUnlink : k <= j
  BY <1>1, LeastElement
<1>3. i \in ToUnlink
  BY <1>2
<1> QED  BY <1>3 DEF NextSource, ToUnlink

(* If m_mutex is held, its owner waits for a source's mutex, or goes on;   *)
(* and so does whoever holds that one, or waits for m_mutex.               *)
LEMMA HeldGoesOn ==
  ASSUME TypeOK, LockInv, CallInv, eqMutex # None
  PROVE  Cycle \/ \E t \in Threads : CanGo(t)
<1> DEFINE t == eqMutex
<1>1. t \in Guests /\ t \in Threads /\ pc[t] \in {"unlink", "dtor"}
  BY DEF TypeOK, EqTypeOK, LockInv, Threads
<1>2. SUFFICES ASSUME ~ \E u \in Threads : CanGo(u)  PROVE Cycle
  OBVIOUS
<1>3. PICK s \in Sources : WaitsForOuter(t, s) /\ outer[s] # None
  <2>1. CASE pc[t] = "unlink"
    <3>1. arg[t].key \in Sources
      BY <1>1, <2>1 DEF CallInv
    <3> QED  BY <1>1, <1>2, <2>1, <3>1 DEF CanGo, WaitsForOuter
  <2>2. CASE pc[t] = "dtor"
    <3>1. ToUnlink # {} /\ outer[NextSource] # None
      BY <1>1, <1>2, <2>2 DEF CanGo
    <3> QED  BY <2>2, <3>1, NextSourceIsSource DEF WaitsForOuter
  <2> QED  BY <1>1, <2>1, <2>2
<1>4. /\ outer[s] \in Threads
      /\ pc[outer[s]] \in {"register", "fire", "eop", "all", "forAll"}
      /\ pc[outer[s]] \in {"all", "forAll"} => outer[s] = LabelThread
  BY <1>3, ThreadsAssumption DEF LockInv, TypeOK, Sources
<1>5. WaitsForQueue(outer[s])
  <2>1. ~ CanGo(outer[s])
    BY <1>2, <1>4
  <2>2. ASSUME pc[outer[s]] = "all"  PROVE FALSE
    <3>1. gMutex # None
      BY <2>1, <2>2 DEF CanGo
    <3>2. pc[LabelThread] = "forAll"
      BY <3>1 DEF LockInv
    <3> QED  BY <1>4, <2>2, <3>2
  <2> QED  BY <1>4, <2>1, <2>2 DEF CanGo, WaitsForQueue
<1> QED  BY <1>1, <1>3, <1>4, <1>5 DEF Cycle

(* With m_mutex free, whoever is inside a call goes on, or waits for the   *)
(* label thread, which does.                                               *)
LEMMA FreeGoesOn ==
  ASSUME TypeOK, LockInv, CallInv, eqMutex = None,
         NEW t \in Threads, pc[t] \notin {"idle", "wait"}
  PROVE  \E u \in Threads : CanGo(u)
<1>1. /\ pc[t] \in PC /\ LabelThread \in Threads /\ gMutex \in {LabelThread, None}
      /\ None \notin Threads
  BY EmulatorAssumption, ThreadsAssumption DEF TypeOK, Threads
<1>2. CASE pc[t] \in {"register", "destroy", "fire", "eop", "forAll"}
  BY <1>2 DEF CanGo
<1>3. ASSUME gMutex # None  PROVE CanGo(LabelThread)
  BY <1>3 DEF CanGo, LockInv
<1>4. CASE pc[t] = "all"
  BY <1>1, <1>3, <1>4 DEF CanGo
<1>5. CASE pc[t] = "addEop"
  <2>1. CASE outer["eop"] = None
    BY <1>5, <2>1 DEF CanGo
  <2>2. CASE outer["eop"] # None
    <3>1. pc[LabelThread] \in {"eop", "all", "forAll"}
      BY <2>2 DEF LockInv
    <3>2. CanGo(LabelThread)
      BY <1>3, <3>1 DEF CanGo
    <3> QED  BY <1>1, <3>2
  <2> QED  BY <2>1, <2>2
<1>6. ASSUME pc[t] \in {"unlink", "dtor"}  PROVE FALSE
  <2>1. t \in Guests
    BY <1>6, EmulatorAssumption DEF LockInv, Threads
  <2> QED  BY <1>1, <1>6, <2>1 DEF CallInv
<1> QED  BY <1>1, <1>2, <1>4, <1>5, <1>6 DEF PC

(* A thread inside a call or a trigger waits for a mutex at most, and of   *)
(* all these threads one finds its mutexes free, unless a delete (which    *)
(* takes m_mutex and then the source's mutex) has met a trigger or a       *)
(* registration (which take them the other way round).                     *)
THEOREM SomebodyGoesOnHolds == Spec => []SomebodyGoesOn
<1>1. Init => LockInv
  BY EmulatorAssumption DEF Init, EqInit, LockInv, Sources, Threads
<1>2. IInv => TypeOK /\ CallInv
  BY DEF IInv
<1>3. TypeOK /\ CallInv /\ LockInv => SomebodyGoesOn
  BY HeldGoesOn, FreeGoesOn DEF SomebodyGoesOn
<1> QED  BY <1>1, <1>2, <1>3, LocksKeep, Invariance, PTL DEF Spec

=============================================================================
