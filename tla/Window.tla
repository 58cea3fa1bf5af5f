------------------------------- MODULE Window -------------------------------
(***************************************************************************)
(* What the scorer is promised about telemetry: a sliding window that      *)
(* holds, oldest first, the most recent Capacity samples that were pushed. *)
(* The ring buffer of collector.c implements it (module Ring).             *)
(***************************************************************************)
EXTENDS Naturals, Sequences

CONSTANTS
  Sample,    \* the samples a poll can produce
  Capacity   \* the number of samples the window keeps

VARIABLE window

Init == window = << >>

Push(s) ==
  window' = Append(IF Len(window) < Capacity THEN window ELSE Tail(window), s)

Next == \E s \in Sample : Push(s)

Spec == Init /\ [][Next]_window
=============================================================================
