----------------------------- MODULE Librarian -----------------------------
(***************************************************************************)
(* What the model registry of pkgtk (models/registry.py) promises: every   *)
(* key has one lifecycle state, a key is added once, and afterwards its    *)
(* state moves only along ALLOWED, one legal move at a time, whoever asks. *)
(***************************************************************************)
CONSTANT Keys          \* (part, rev, corner, model_type) tuples

VARIABLE state         \* state[k]: the lifecycle state of k, or "absent"

States == {"requested", "received", "validated", "filed", "stale"}

\* The table of legal moves.
ALLOWED == [s \in States |->
    CASE s = "requested" -> {"received"}
      [] s = "received"  -> {"received", "validated"}
      [] s = "validated" -> {"filed"}
      [] s = "filed"     -> {"stale", "validated"}
      [] s = "stale"     -> {"requested", "received"}]

Init == state = [k \in Keys |-> "absent"]

\* A key enters the registry once, as "requested".
Add(k) ==
    /\ state[k] = "absent"
    /\ state' = [state EXCEPT ![k] = "requested"]

\* A key that is in the registry takes one legal move.
Move(k) ==
    /\ state[k] # "absent"
    /\ \E s \in ALLOWED[state[k]] : state' = [state EXCEPT ![k] = s]

Next == \E k \in Keys : Add(k) \/ Move(k)

Spec == Init /\ [][Next]_state
=============================================================================
