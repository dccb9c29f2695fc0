------------------------------ MODULE FlipFifo ------------------------------
(***************************************************************************)
(* What the flip queue promises those who flip: a flip that is accepted    *)
(* takes one of Capacity places and waits until it is shown, which gives   *)
(* the place back; it is shown as it was asked for; and those of one       *)
(* source (sceVideoOutSubmitFlip, or the command buffers) are shown in the *)
(* order in which they were accepted.                                      *)
(***************************************************************************)
EXTENDS Naturals

CONSTANTS
  Handles,  (* video outs                                                  *)
  Buffers,  (* display buffer indices                                      *)
  Capacity  (* flips that may wait together                                *)

VARIABLES
  waiting,  (* the flips accepted and not yet shown                        *)
  room,     (* the places nobody has                                       *)
  accepted  (* how many were accepted so far                               *)

Sources == {"cpu", "gpu"}

Init == waiting = {} /\ room = Capacity /\ accepted = 0

Accept(h, b, s) ==
  /\ room > 0
  /\ room' = room - 1
  /\ accepted' = accepted + 1
  /\ waiting' = waiting \cup {[id |-> accepted + 1, cfg |-> h, index |-> b, source |-> s]}

Show(f) ==
  /\ \A g \in waiting : g.source = f.source => f.id <= g.id
  /\ waiting' = waiting \ {f}
  /\ room' = room + 1
  /\ UNCHANGED accepted

Next ==
  \/ \E h \in Handles, b \in Buffers, s \in Sources : Accept(h, b, s)
  \/ \E f \in waiting : Show(f)

Spec == Init /\ [][Next]_<<waiting, room, accepted>>
=============================================================================
