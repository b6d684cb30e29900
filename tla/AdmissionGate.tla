--------------------------- MODULE AdmissionGate ---------------------------
(***************************************************************************)
(* What internal/runtime's Supervisor promises its callers, with nothing   *)
(* of how it keeps the promise: a call holds at most one slot, once; at    *)
(* most Capacity slots are held at a time (0: no limit); a slot is given   *)
(* back by its holder and never granted to the same call again.            *)
(***************************************************************************)
EXTENDS Naturals, FiniteSets

CONSTANTS
  Calls,      \* one element per call of Supervisor.Admit
  Capacity    \* the configured number of slots; 0 means unbounded

VARIABLES
  holders,    \* the calls that hold a slot
  gone        \* the calls that have given theirs back, or were turned away

gateVars == <<holders, gone>>

Init == holders = {} /\ gone = {}

\* A call takes a slot, if one is free.
Grant(c) ==
  /\ c \notin holders \cup gone
  /\ Capacity > 0 => Cardinality(holders) < Capacity
  /\ holders' = holders \cup {c}
  /\ UNCHANGED gone

\* A holder gives its slot back.
Return(c) ==
  /\ c \in holders
  /\ holders' = holders \ {c}
  /\ gone' = gone \cup {c}

\* A call whose context is cancelled leaves without having held a slot.
TurnAway(c) ==
  /\ c \notin holders \cup gone
  /\ gone' = gone \cup {c}
  /\ UNCHANGED holders

Next == \E c \in Calls : Grant(c) \/ Return(c) \/ TurnAway(c)

Spec == Init /\ [][Next]_gateVars
=============================================================================
