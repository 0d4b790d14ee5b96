------------------------------ MODULE Building ------------------------------
(***************************************************************************)
(* What the monitor promises the people who use it, with no loop, no       *)
(* interrupt and no device: every change is one step, is about the floor   *)
(* it selects, and the page that answers it, if one is sent, has the       *)
(* counts it leads to.                                                     *)
(***************************************************************************)
EXTENDS Integers

CONSTANTS
  Floors,
  Capacity,  \* people at which nobody more is let in
  Numbers    \* numbers people type to set a count, whatever they mean

VARIABLES
  counts,    \* people on each floor
  selected,  \* the floor in view
  reply      \* counts on the last page sent, <<>> if none was sent

vars == <<counts, selected, reply>>

Init ==
  /\ counts = [f \in Floors |-> 0]
  /\ selected = 0
  /\ reply = <<>>

Answer == reply' \in {counts', reply}

\* A button moves the view to some floor.
Browse ==
  /\ selected' \in Floors
  /\ UNCHANGED <<counts, reply>>

Visit ==
  /\ UNCHANGED <<counts, selected>>
  /\ Answer

Change(f, n) ==
  /\ counts' = [counts EXCEPT ![f] = n]
  /\ selected' = f
  /\ Answer

\* Nobody leaves an empty floor, nobody enters a full one.
Enter(f) == Change(f, IF counts[f] < Capacity THEN counts[f] + 1 ELSE counts[f])
Leave(f) == Change(f, IF counts[f] > 0 THEN counts[f] - 1 ELSE counts[f])

EmptyAll ==
  /\ counts' = [f \in Floors |-> 0]
  /\ UNCHANGED selected
  /\ Answer

Next ==
  \/ Browse
  \/ Visit
  \/ \E f \in Floors : Enter(f) \/ Leave(f) \/ \E n \in Numbers \cup {0} : Change(f, n)
  \/ EmptyAll

Spec == Init /\ [][Next]_vars
=============================================================================
