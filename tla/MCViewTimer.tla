----------------------------- MODULE MCViewTimer -----------------------------
(* Model-checking definitions for ViewTimer. *)
EXTENDS ViewTimer, TLC

\* Goroutines of one kind are alike. For runs without liveness properties.
TimerSymmetry == Permutations(Timers)
=============================================================================
