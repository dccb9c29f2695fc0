--------------------------- MODULE MCEventSources ---------------------------
(* Two guest threads, the window thread and the label thread.              *)
EXTENDS EventSources

CONSTANTS g1, g2, win, label

MCGuests == {g1, g2}
MCEmulator == {win, label}
=============================================================================
