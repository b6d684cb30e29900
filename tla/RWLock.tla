------------------------------- MODULE RWLock -------------------------------
(***************************************************************************)
(* What the file locks of internal/atomicio promise: any number of shared  *)
(* holders or one exclusive holder, and a holder that dies lets go.        *)
(***************************************************************************)
CONSTANT Workers

VARIABLES
  readers,   \* the shared holders
  writers    \* the exclusive holders

vars == <<readers, writers>>

Init == readers = {} /\ writers = {}

Share(w) == writers = {} /\ readers' = readers \cup {w} /\ UNCHANGED writers

Own(w) == readers = {} /\ writers = {} /\ writers' = {w} /\ UNCHANGED readers

\* One holder lets go, or several do at once when their process dies.
LetGo(W) == readers' = readers \ W /\ writers' = writers \ W

Next ==
  \/ \E w \in Workers : Share(w) \/ Own(w)
  \/ \E W \in SUBSET Workers : LetGo(W)

Spec == Init /\ [][Next]_vars
=============================================================================
