----------------------------- MODULE EventQueue -----------------------------
(***************************************************************************)
(* sceKernel*Equeue as gpu/src/kernel/eventQueue.cpp implements it: one    *)
(* queue with its list of registered events, the triggers nobody has       *)
(* collected yet, and the threads that wait for them.  EventSources adds   *)
(* the emulator threads that trigger events and the lists they keep.       *)
(*                                                                         *)
(* An operation is one step, under the queue's mutex, unless it calls a    *)
(* delete function: that one takes another mutex inside, and is in         *)
(* EventSources.  A wait without a timeout comes back every 10 ms          *)
(* (CondVar::Wait in common/threads.cpp), one with a timeout when it runs  *)
(* out, so a sleeper may look again at any time, whomever Signal woke.     *)
(***************************************************************************)
EXTENDS Naturals, Sequences

CONSTANTS
  Guests,      (* guest threads                                            *)
  Emulator,    (* emulator threads                                         *)
  None,        (* nobody                                                   *)
  Nums,        (* how many events a wait has room for                      *)
  MaxCalls,    (* bound on the guest's calls                               *)
  MaxTriggers  (* bound on the triggers begun                              *)

Threads == Guests \cup Emulator

ASSUME ThreadsAssumption ==
  /\ Guests \cap Emulator = {} /\ None \notin Threads
ASSUME BoundsAssumption ==
  /\ Nums \subseteq Nat \ {0} /\ MaxCalls \in Nat /\ MaxTriggers \in Nat

(***************************************************************************)
(* An event is found by its id and filter, here its key.  A "flip" event   *)
(* stands for every event of a video out that is not triggered initially.  *)
(* The kind says which trigger and reset functions came with it: "level"   *)
(* and "edge" user events, "ampr" user events, one-shot timers, and events *)
(* of a source.                                                            *)
(***************************************************************************)
Sources == {"flip", "eop"}
Keys == {"user", "timer"} \cup Sources
UserKinds == {"level", "edge", "ampr"}
Kinds == UserKinds \cup {"timer", "source"}
Queueing == {"ampr", "source"}

KindsOf(k) == IF k = "user" THEN UserKinds ELSE IF k = "timer" THEN {"timer"} ELSE {"source"}

Event == [key : Keys, kind : Kinds, triggered : BOOLEAN, data : Nat,
          pending : Seq(Nat), deadline : {"none", "ahead", "passed"}]

VARIABLES
  exists,   (* the queue is not destroyed                                  *)
  listed,   (* it is in g_equeues: the guest may use it                    *)
  events,   (* m_events                                                    *)
  eqMutex,  (* who holds m_mutex over several steps                        *)
  pc,       (* where each thread is                                        *)
  arg,      (* the arguments of a guest thread's call                      *)
  calls,    (* calls of the guest so far                                   *)
  begun,    (* triggers begun so far                                       *)
  sent,     (* triggers so far; the n-th carries n as its data             *)
  due,      (* history: per key, the triggers nobody has collected         *)
  inOrder   (* history: every collected trigger was the oldest due         *)

queue == <<exists, listed, events, eqMutex>>
history == <<due, inOrder>>
eqVars == <<queue, pc, arg, calls, begun, sent, history>>

NoArg == [key |-> "user", num |-> 1, timed |-> FALSE]

EqTypeOK ==
  /\ exists \in BOOLEAN /\ listed \in BOOLEAN /\ inOrder \in BOOLEAN
  /\ events \in Seq(Event)
  /\ \A i \in DOMAIN events : events[i].kind \in KindsOf(events[i].key)
  /\ \A i, j \in DOMAIN events : events[i].key = events[j].key => i = j
  /\ eqMutex \in Guests \cup {None}
  /\ arg \in [Guests -> [key : Keys, num : Nums \cup {1}, timed : BOOLEAN]]
  /\ calls \in 0 .. MaxCalls /\ begun \in 0 .. MaxTriggers /\ sent \in Nat
  /\ due \in [Keys -> Seq(Nat)]

EqInit ==
  /\ exists = TRUE /\ listed = TRUE /\ events = <<>> /\ eqMutex = None
  /\ pc = [t \in Threads |-> "idle"]
  /\ arg = [t \in Guests |-> NoArg]
  /\ calls = 0 /\ begun = 0 /\ sent = 0
  /\ due = [k \in Keys |-> <<>>] /\ inOrder = TRUE

HasEvent(k) == \E i \in DOMAIN events : events[i].key = k
IndexOfKey(list, k) == CHOOSE i \in DOMAIN list : list[i].key = k
KindOf(k) == events[IndexOfKey(events, k)].kind
Without(k) ==
  LET i == IndexOfKey(events, k)
  IN  [j \in 1 .. Len(events) - 1 |-> events[IF j < i THEN j ELSE j + 1]]

NewEvent(k, kind) ==
  [key |-> k, kind |-> kind, triggered |-> FALSE, data |-> 0, pending |-> <<>>,
   deadline |-> IF kind = "timer" THEN "ahead" ELSE "none"]

-----------------------------------------------------------------------------
(* Adding: an event with the same id and filter is replaced where it is,   *)
(* with whatever it had pending.                                           *)
Put(e) ==
  IF HasEvent(e.key) THEN [events EXCEPT ![IndexOfKey(events, e.key)] = e]
  ELSE Append(events, e)

AddEvent(e) ==
  /\ eqMutex = None
  /\ events' = Put(e)
  /\ due' = [due EXCEPT ![e.key] = <<>>]

(* Triggering: user events remember the last trigger only, AMPR events and *)
(* events of a source queue what comes before the last was collected.      *)
Fired(e, v) ==
  IF e.kind \in Queueing /\ e.triggered
  THEN [e EXCEPT !.pending = Append(@, v)]
  ELSE [e EXCEPT !.triggered = TRUE, !.data = v]

TriggerEvent(k) ==
  IF HasEvent(k)
  THEN LET i == IndexOfKey(events, k) IN
       /\ events' = [events EXCEPT ![i] = Fired(@, sent + 1)]
       /\ sent' = sent + 1
       /\ due' = IF events[i].kind \in Queueing
                 THEN [due EXCEPT ![k] = Append(@, sent + 1)] ELSE due
  ELSE UNCHANGED <<events, sent, due>>

-----------------------------------------------------------------------------
(* Collecting.  One delivery resets the event and takes the next pending   *)
(* trigger; an event is asked again until it is no longer triggered or     *)
(* there is no more room, so a level event fills all the room there is.    *)
TriggerExpiredTimers ==
  [i \in DOMAIN events |->
     IF events[i].deadline = "passed" THEN [events[i] EXCEPT !.triggered = TRUE]
     ELSE events[i]]

Reset(e) ==
  IF e.kind = "level" THEN e ELSE [e EXCEPT !.triggered = FALSE, !.data = 0]

NextPending_Kept(e) ==
  IF e.pending = <<>> THEN e
  ELSE [e EXCEPT !.triggered = TRUE, !.data = Head(e.pending)]
NextPending(e) ==
  IF e.pending = <<>> THEN e
  ELSE [e EXCEPT !.triggered = TRUE, !.data = Head(e.pending), !.pending = Tail(@)]

After(e, k) ==
  LET after[j \in 0 .. k] == IF j = 0 THEN e ELSE NextPending(Reset(after[j - 1]))
  IN  after[k]

(* How many of n places an event fills.                                    *)
Fills(e, n) ==
  IF ~e.triggered \/ n = 0 THEN 0
  ELSE IF e.kind = "timer" THEN 1
  ELSE IF e.kind = "level" \/ n <= Len(e.pending) THEN n
  ELSE 1 + Len(e.pending)

Taken(list, n) ==
  LET upTo[i \in 0 .. Len(list)] ==
        IF i = 0 THEN 0 ELSE upTo[i - 1] + Fills(list[i], n - upTo[i - 1])
  IN  [i \in DOMAIN list |-> upTo[i] - upTo[i - 1]]

(* One-shot events are erased once collected.                              *)
Remaining(list, taken) ==
  LET kept[i \in 0 .. Len(list)] ==
        IF i = 0 THEN <<>>
        ELSE IF list[i].kind = "timer" /\ taken[i] > 0 THEN kept[i - 1]
        ELSE Append(kept[i - 1], After(list[i], taken[i]))
  IN  kept[Len(list)]

(* What k deliveries of an event hand out are the oldest triggers due.     *)
HandsOut(e, k, triggers) ==
  k <= Len(triggers) /\ \A j \in 1 .. k : After(e, j - 1).data = triggers[j]

HasTriggered == \E i \in DOMAIN events : TriggerExpiredTimers[i].triggered

GetTriggeredEvents(n) ==
  LET list == TriggerExpiredTimers
      taken == Taken(list, n)
      queued == {i \in DOMAIN list : list[i].kind \in Queueing}
      left(k) == IF \E i \in queued : list[i].key = k
                 THEN taken[IndexOfKey(list, k)] ELSE 0
  IN  /\ eqMutex = None
      /\ events' = Remaining(list, taken)
      /\ due' = [k \in Keys |-> SubSeq(due[k], left(k) + 1, Len(due[k]))]
      /\ inOrder' = (inOrder /\ \A i \in queued : HandsOut(list[i], taken[i], due[list[i].key]))

-----------------------------------------------------------------------------
(* Calls of the guest that keep to the queue's own mutex.                  *)
Begin(t) ==
  /\ listed /\ pc[t] = "idle" /\ calls < MaxCalls
  /\ calls' = calls + 1

BeginTrigger == begun < MaxTriggers /\ begun' = begun + 1

Goto(t, p) == pc' = [pc EXCEPT ![t] = p]

AddUserEvent(t, kind) ==
  /\ Begin(t)
  /\ AddEvent(NewEvent("user", kind))
  /\ UNCHANGED <<exists, listed, eqMutex, pc, arg, begun, sent, inOrder>>

AddHRTimerEvent(t) ==
  /\ Begin(t)
  /\ AddEvent(NewEvent("timer", "timer"))
  /\ UNCHANGED <<exists, listed, eqMutex, pc, arg, begun, sent, inOrder>>

TriggerUserEvent(t) ==
  /\ Begin(t)
  /\ eqMutex = None
  /\ BeginTrigger
  /\ TriggerEvent("user")
  /\ UNCHANGED <<exists, listed, eqMutex, pc, arg, inOrder>>

DeleteUserEvent(t, k) ==
  /\ Begin(t)
  /\ eqMutex = None /\ k \notin Sources /\ HasEvent(k)
  /\ events' = Without(k)
  /\ due' = [due EXCEPT ![k] = <<>>]
  /\ UNCHANGED <<exists, listed, eqMutex, pc, arg, begun, sent, inOrder>>

(* sceKernelWaitEqueue with a timeout of 0 only collects.                  *)
PollEqueue(t, n) ==
  /\ Begin(t)
  /\ GetTriggeredEvents(n)
  /\ UNCHANGED <<exists, listed, eqMutex, pc, arg, begun, sent>>

WaitEqueue(t, n, timed) ==
  /\ Begin(t)
  /\ IF HasTriggered
     THEN GetTriggeredEvents(n) /\ UNCHANGED <<pc, arg>>
     ELSE /\ eqMutex = None
          /\ Goto(t, "wait")
          /\ arg' = [arg EXCEPT ![t] = [NoArg EXCEPT !.num = n, !.timed = timed]]
          /\ UNCHANGED <<events, history>>
  /\ UNCHANGED <<exists, listed, eqMutex, begun, sent>>

(* A sleeper looks again.                                                  *)
Return(t) == Goto(t, "idle") /\ arg' = [arg EXCEPT ![t] = NoArg]

Wake(t) ==
  /\ pc[t] = "wait" /\ HasTriggered
  /\ GetTriggeredEvents(arg[t].num)
  /\ Return(t)
  /\ UNCHANGED <<exists, listed, eqMutex, calls, begun, sent>>

WaitTimesOut(t) ==
  /\ pc[t] = "wait" /\ arg[t].timed /\ ~HasTriggered /\ eqMutex = None
  /\ Return(t)
  /\ UNCHANGED <<queue, calls, begun, sent, history>>

(* The deadline of a timer passes; it is noticed when somebody collects.   *)
DeadlinePasses(i) ==
  /\ events[i].deadline = "ahead"
  /\ events' = [events EXCEPT ![i].deadline = "passed"]
  /\ UNCHANGED <<exists, listed, eqMutex, pc, arg, calls, begun, sent, history>>

QueueNext ==
  \/ \E t \in Guests, kind \in UserKinds : AddUserEvent(t, kind)
  \/ \E t \in Guests : AddHRTimerEvent(t)
  \/ \E t \in Guests : TriggerUserEvent(t)
  \/ \E t \in Guests, k \in Keys : DeleteUserEvent(t, k)
  \/ \E t \in Guests, n \in Nums : PollEqueue(t, n)
  \/ \E t \in Guests, n \in Nums, timed \in BOOLEAN : WaitEqueue(t, n, timed)
  \/ \E t \in Guests : Wake(t)
  \/ \E t \in Guests : WaitTimesOut(t)
  \/ \E i \in DOMAIN events : DeadlinePasses(i)

-----------------------------------------------------------------------------
(* What is queued for an event.                                            *)
Contents(e) == IF e.triggered THEN <<e.data>> \o e.pending ELSE e.pending

(* A trigger of an AMPR event or of an event of a source is collected once,*)
(* in the order of the triggers, or still queued; only registering the     *)
(* event anew or deleting it drops one.                                    *)
NothingLost ==
  /\ inOrder
  /\ \A i \in DOMAIN events :
       events[i].kind \in Queueing => Contents(events[i]) = due[events[i].key]
=============================================================================
