---------------------------- MODULE EventSources ----------------------------
(***************************************************************************)
(* An event queue with the parts of the emulator that trigger its events:  *)
(* a video out (presentation/videoOut.cpp) with the window thread, and the *)
(* render context (renderer/renderContext.cpp, renderer/sync.cpp) with the *)
(* label thread.  Each keeps a list of the queues to trigger under a mutex *)
(* of its own, and triggers them with that mutex held; deleting an event   *)
(* takes the queue's mutex first and the source's inside it.               *)
(***************************************************************************)
EXTENDS EventQueue

CONSTANTS Window, LabelThread   (* the window thread and the label thread  *)

ASSUME EmulatorAssumption ==
  Emulator = {Window, LabelThread} /\ Window # LabelThread

VARIABLES
  outer,      (* who holds a source's mutex                                *)
  gMutex,     (* who holds g_equeues_mutex over several steps              *)
  flipListed, (* the queue is in VideoOutConfig::flip_eqs                  *)
  eopCount    (* RenderContext::m_eop_eqs: the count of the queue's entry, *)
              (* 0 if there is none                                        *)

sources == <<outer, gMutex, flipListed, eopCount>>
vars == <<eqVars, sources>>

PC == {"idle", "wait", "register", "addEop", "unlink", "destroy", "dtor",
       "fire", "eop", "all", "forAll"}

TypeOK ==
  /\ EqTypeOK
  /\ pc \in [Threads -> PC]
  /\ outer \in [Sources -> Threads \cup {None}]
  /\ gMutex \in {LabelThread, None}
  /\ flipListed \in BOOLEAN /\ eopCount \in Nat

Init ==
  /\ EqInit
  /\ outer = [s \in Sources |-> None]
  /\ gMutex = None /\ flipListed = FALSE /\ eopCount = 0

LockOuter(s, t) == outer[s] = None /\ outer' = [outer EXCEPT ![s] = t]
UnlockOuter_Kept(s) == UNCHANGED outer
UnlockOuter(s) == outer' = [outer EXCEPT ![s] = None]

-----------------------------------------------------------------------------
(* sceVideoOutAddFlipEvent: the video out's mutex, then the queue's.       *)
RegisterVideoOutEvent(t) ==
  /\ Begin(t)
  /\ LockOuter("flip", t)
  /\ Goto(t, "register")
  /\ UNCHANGED <<queue, arg, begun, sent, history, gMutex, flipListed, eopCount>>

RegisterFinish(t) ==
  /\ pc[t] = "register"
  /\ AddEvent(NewEvent("flip", "source"))
  /\ flipListed' = TRUE
  /\ UnlockOuter("flip")
  /\ Return(t)
  /\ UNCHANGED <<exists, listed, eqMutex, calls, begun, sent, inOrder, gMutex, eopCount>>

(* sceAgcDriverAddEqEvent: the event first, then the render context's      *)
(* entry, whose count goes up if it is there.  The guest registers it only *)
(* if it is not registered and nobody else is at it.                       *)
AddEqEvent(t) ==
  /\ Begin(t)
  /\ eopCount = 0 /\ ~HasEvent("eop") /\ \A u \in Guests : pc[u] # "addEop"
  /\ AddEvent(NewEvent("eop", "source"))
  /\ Goto(t, "addEop")
  /\ UNCHANGED <<exists, listed, eqMutex, arg, begun, sent, inOrder, sources>>

AddEopEq(t) ==
  /\ pc[t] = "addEop"
  /\ outer["eop"] = None
  /\ eopCount' = eopCount + 1
  /\ Return(t)
  /\ UNCHANGED <<queue, calls, begun, sent, history, outer, gMutex, flipListed>>

-----------------------------------------------------------------------------
(* The delete functions: RemoveVideoOutEventQueue, EopEventDeleteFunc.     *)
Unlink_Kept(s) ==
  /\ outer[s] = None
  /\ eopCount' = IF s = "eop" /\ eopCount > 0 THEN eopCount - 1 ELSE eopCount
  /\ UNCHANGED flipListed
Unlink(s) ==
  /\ outer[s] = None
  /\ flipListed' = (flipListed /\ s # "flip")
  /\ eopCount' = IF s = "eop" /\ eopCount > 0 THEN eopCount - 1 ELSE eopCount

(* Deleting an event of a source, with m_mutex held until it is erased.    *)
DeleteEvent(t, s) ==
  /\ Begin(t)
  /\ eqMutex = None /\ HasEvent(s)
  /\ s = "eop" => \A u \in Guests : pc[u] # "addEop"
  /\ eqMutex' = t
  /\ arg' = [arg EXCEPT ![t] = [NoArg EXCEPT !.key = s]]
  /\ Goto(t, "unlink")
  /\ UNCHANGED <<exists, listed, events, begun, sent, history, sources>>

DeleteFinish(t) ==
  LET s == arg[t].key IN
  /\ pc[t] = "unlink"
  /\ Unlink(s)
  /\ events' = Without(s)
  /\ due' = [due EXCEPT ![s] = <<>>]
  /\ eqMutex' = None
  /\ Return(t)
  /\ UNCHANGED <<exists, listed, calls, begun, sent, inOrder, outer, gMutex>>

(* sceKernelDeleteEqueue, when no other guest thread uses the queue: out   *)
(* of g_equeues, then the destructor runs the delete functions with        *)
(* m_mutex held and frees the queue.                                       *)
DeleteEqueue(t) ==
  /\ Begin(t)
  /\ \A u \in Guests \ {t} : pc[u] = "idle"
  /\ gMutex = None
  /\ listed' = FALSE
  /\ Goto(t, "destroy")
  /\ UNCHANGED <<exists, events, eqMutex, arg, begun, sent, history, sources>>

Destructor(t) ==
  /\ pc[t] = "destroy"
  /\ eqMutex = None
  /\ eqMutex' = t
  /\ Goto(t, "dtor")
  /\ UNCHANGED <<exists, listed, events, arg, calls, begun, sent, history, sources>>

ToUnlink == {i \in DOMAIN events : events[i].key \in Sources}
NextSource == events[CHOOSE i \in ToUnlink : \A j \in ToUnlink : i <= j].key

(* An event whose delete function has run is taken off the list, which     *)
(* nobody else can see any more.                                           *)
DestructorUnlinks(t) ==
  /\ pc[t] = "dtor" /\ ToUnlink # {}
  /\ LET s == NextSource IN
     /\ Unlink(s)
     /\ events' = Without(s)
     /\ due' = [due EXCEPT ![s] = <<>>]
  /\ UNCHANGED <<exists, listed, eqMutex, pc, arg, calls, begun, sent, inOrder, outer, gMutex>>

DestructorEnds(t) ==
  /\ pc[t] = "dtor" /\ ToUnlink = {}
  /\ exists' = FALSE /\ events' = <<>> /\ eqMutex' = None
  /\ due' = [k \in Keys |-> <<>>]
  /\ Return(t)
  /\ UNCHANGED <<listed, calls, begun, sent, inOrder, sources>>

-----------------------------------------------------------------------------
(* The window thread: a flip is done, TriggerVideoOutEventsLocked.         *)
FlipDone ==
  /\ pc[Window] = "idle" /\ BeginTrigger
  /\ LockOuter("flip", Window)
  /\ Goto(Window, "fire")
  /\ UNCHANGED <<queue, arg, calls, sent, history, gMutex, flipListed, eopCount>>

TriggerFlip ==
  /\ pc[Window] = "fire"
  /\ IF flipListed THEN eqMutex = None /\ TriggerEvent("flip")
     ELSE UNCHANGED <<events, sent, due>>
  /\ UnlockOuter("flip")
  /\ Goto(Window, "idle")
  /\ UNCHANGED <<exists, listed, eqMutex, arg, calls, begun, inOrder, gMutex, flipListed, eopCount>>

(* The label thread: an interrupt, RenderContext::TriggerEopEvent.  The    *)
(* render context's mutex is held to the end, g_equeues_mutex while the    *)
(* user interrupt event of every queue is triggered.                       *)
Interrupt ==
  /\ pc[LabelThread] = "idle" /\ BeginTrigger
  /\ LockOuter("eop", LabelThread)
  /\ Goto(LabelThread, "eop")
  /\ UNCHANGED <<queue, arg, calls, sent, history, gMutex, flipListed, eopCount>>

TriggerEop ==
  /\ pc[LabelThread] = "eop"
  /\ IF eopCount > 0 THEN eqMutex = None /\ TriggerEvent("eop")
     ELSE UNCHANGED <<events, sent, due>>
  /\ Goto(LabelThread, "all")
  /\ UNCHANGED <<exists, listed, eqMutex, arg, calls, begun, inOrder, sources>>

LockEqueues ==
  /\ pc[LabelThread] = "all"
  /\ gMutex = None /\ gMutex' = LabelThread
  /\ Goto(LabelThread, "forAll")
  /\ UNCHANGED <<queue, arg, calls, begun, sent, history, outer, flipListed, eopCount>>

TriggerUserEventForAll ==
  /\ pc[LabelThread] = "forAll"
  /\ IF listed THEN eqMutex = None /\ TriggerEvent("user")
     ELSE UNCHANGED <<events, sent, due>>
  /\ gMutex' = None
  /\ UnlockOuter("eop")
  /\ Goto(LabelThread, "idle")
  /\ UNCHANGED <<exists, listed, eqMutex, arg, calls, begun, inOrder, flipListed, eopCount>>

-----------------------------------------------------------------------------
CallSteps(t) ==
  \/ RegisterFinish(t)
  \/ AddEopEq(t)
  \/ DeleteFinish(t)
  \/ Destructor(t)
  \/ DestructorUnlinks(t)
  \/ DestructorEnds(t)

TriggerSteps ==
  \/ TriggerFlip
  \/ TriggerEop
  \/ LockEqueues
  \/ TriggerUserEventForAll

Next ==
  \/ QueueNext /\ UNCHANGED sources
  \/ \E t \in Guests : RegisterVideoOutEvent(t)
  \/ \E t \in Guests : AddEqEvent(t)
  \/ \E t \in Guests, s \in Sources : DeleteEvent(t, s)
  \/ \E t \in Guests : DeleteEqueue(t)
  \/ \E t \in Guests : CallSteps(t)
  \/ FlipDone
  \/ Interrupt
  \/ TriggerSteps

(* Threads inside a call or a trigger run; nothing is asked of a sleeper.  *)
Fairness ==
  /\ \A t \in Guests : WF_vars(CallSteps(t))
  /\ WF_vars(TriggerFlip)
  /\ WF_vars(TriggerEop \/ LockEqueues \/ TriggerUserEventForAll)

Spec == Init /\ [][Next]_vars /\ Fairness

-----------------------------------------------------------------------------
(* What the sources remember is true: a video out lists the queue exactly  *)
(* while the queue has its event, so no EXIT is reached; the render        *)
(* context has an entry only for a queue that exists, so that no trigger   *)
(* goes to a deleted one.                                                  *)
RegistrationsAreLive ==
  /\ flipListed <=> HasEvent("flip")
  /\ eopCount > 0 => exists /\ HasEvent("eop")
  /\ HasEvent("eop") => eopCount > 0 \/ \E t \in Guests : pc[t] = "addEop"
  /\ listed => exists

(* The two lock orders meet: a guest thread holds m_mutex and waits for a  *)
(* source's mutex, whose holder waits for m_mutex.                         *)
WaitsForOuter(t, s) ==
  \/ pc[t] = "unlink" /\ arg[t].key = s
  \/ pc[t] = "dtor" /\ ToUnlink # {} /\ NextSource = s
WaitsForQueue(u) ==
  \/ pc[u] = "register"
  \/ pc[u] = "fire" /\ flipListed
  \/ pc[u] = "eop" /\ eopCount > 0
  \/ pc[u] \in {"all", "forAll"} /\ listed
Cycle ==
  \E t \in Guests, s \in Sources :
    /\ eqMutex = t /\ WaitsForOuter(t, s)
    /\ \E u \in Threads : outer[s] = u /\ WaitsForQueue(u)

(* The next section of a thread inside a call finds its mutexes free.      *)
CanGo(t) ==
  \/ pc[t] \in {"register", "destroy"} /\ eqMutex = None
  \/ pc[t] = "addEop" /\ outer["eop"] = None
  \/ pc[t] = "unlink" /\ outer[arg[t].key] = None
  \/ pc[t] = "dtor" /\ (ToUnlink # {} => outer[NextSource] = None)
  \/ pc[t] = "fire" /\ (flipListed => eqMutex = None)
  \/ pc[t] = "eop" /\ (eopCount > 0 => eqMutex = None)
  \/ pc[t] = "all" /\ gMutex = None
  \/ pc[t] = "forAll" /\ (listed => eqMutex = None)

(* Whenever threads are inside calls or triggers, one of them can go on,   *)
(* unless the two lock orders have met.                                    *)
SomebodyGoesOn ==
  (\E t \in Threads : pc[t] \notin {"idle", "wait"}) =>
    Cycle \/ \E t \in Threads : CanGo(t)

(* Nothing but that cycle keeps a call or an emulator thread from going    *)
(* on.                                                                     *)
OnlyTheCycleBlocks ==
  \A t \in Threads :
    pc[t] \notin {"idle", "wait"} ~> pc[t] = "idle" \/ Cycle
=============================================================================
