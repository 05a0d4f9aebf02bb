------------------------------ MODULE ViewTimer ------------------------------
(***************************************************************************)
(* MyTimer of orderer/common/timer.go, the timer behind the view change,   *)
(* under the goroutines that use it. A handler (HandlePrepare,             *)
(* HandleDecide, HandleNewView, GenProposal) calls Stop and later Start; a *)
(* timer goroutine that expires runs StartViewChange, which calls Start.   *)
(* IsStopped is read and written without a lock, so every access is a step *)
(* of its own; stopChan is unbuffered, so a send is a step together with   *)
(* the timer goroutine that receives it.                                   *)
(*                                                                         *)
(* The durations are left out: an armed timer may expire at any time.      *)
(***************************************************************************)
EXTENDS Integers, FiniteSets

CONSTANTS
    Callers,    \* goroutines that run handlers: the message and request loops
    Timers,     \* bound: goroutines of timers that may exist at a time
    MaxRounds   \* bound: handlers run by each caller

ASSUME TimerAssumption ==
    /\ Callers \cap Timers = {}
    /\ IsFiniteSet(Callers) /\ IsFiniteSet(Timers)
    /\ MaxRounds \in Nat

VARIABLES
    isStopped,  \* IsStopped
    pc,         \* where a goroutine is
    rounds      \* handlers each caller has finished

vars == <<isStopped, pc, rounds>>

\* The places of pc. idle: a caller between two handlers, a timer that does not
\* exist. armed: in the select of the timer goroutine. expired: its time.After case
\* was taken. stop, stopSend, stopSet, start, startSend, startSet and spawn are
\* places in Stop and Start, work is between the two.
Goto(x, place) == pc' = [pc EXCEPT ![x] = place]

Armed == {t \in Timers : pc[t] = "armed"}

\* Goroutines that have not yet started the timer they are about to start
Busy == {x \in Callers \cup Timers : pc[x] \notin {"idle", "armed"}}

\* There is a goroutine left for one more start
Room ==
    Cardinality({t \in Timers : pc[t] # "idle"}) + Cardinality(Busy) < Cardinality(Timers)

----------------------------------------------------------------------------
(* Stop *)

\* A handler that will stop and start the timer begins
Begin(c) ==
    /\ pc[c] = "idle" /\ rounds[c] < MaxRounds /\ Room
    /\ Goto(c, "stop")
    /\ UNCHANGED <<isStopped, rounds>>

\* if !t.IsStopped
StopCheck(c) ==
    /\ pc[c] = "stop"
    /\ Goto(c, IF isStopped THEN "work" ELSE "stopSend")
    /\ UNCHANGED <<isStopped, rounds>>

\* Mutant: a start that stopped the running timer returns at once
SendStopReturns(x, t) ==
    /\ pc[x] \in {"stopSend", "startSend"} /\ pc[t] = "armed"
    /\ pc' = [pc EXCEPT ![t] = "idle",
                        ![x] = IF @ = "stopSend" THEN "stopSet" ELSE "idle"]
    /\ UNCHANGED <<isStopped, rounds>>

\* t.stopChan <- true in Stop or in Start meets the select of an armed timer,
\* which ends
SendStop(x, t) ==
    /\ pc[x] \in {"stopSend", "startSend"} /\ pc[t] = "armed"
    /\ pc' = [pc EXCEPT ![t] = "idle",
                        ![x] = IF @ = "stopSend" THEN "stopSet" ELSE "spawn"]
    /\ UNCHANGED <<isStopped, rounds>>

\* t.IsStopped = true
StopSet(c) ==
    /\ pc[c] = "stopSet"
    /\ isStopped' = TRUE
    /\ Goto(c, "work")
    /\ UNCHANGED rounds

\* What the handler does between Stop and Start
Work(c) ==
    /\ pc[c] = "work"
    /\ Goto(c, "start")
    /\ UNCHANGED <<isStopped, rounds>>

----------------------------------------------------------------------------
(* Start, by a handler or by an expired timer *)

StartCheck(x) ==
    /\ pc[x] = "start"
    /\ Goto(x, IF isStopped THEN "startSet" ELSE "startSend")
    /\ UNCHANGED <<isStopped, rounds>>

\* t.IsStopped = false
StartSet(x) ==
    /\ pc[x] = "startSet"
    /\ isStopped' = FALSE
    /\ Goto(x, "spawn")
    /\ UNCHANGED rounds

\* go func() { select ... }, and Start returns
Spawn(x, t) ==
    /\ pc[x] = "spawn" /\ pc[t] = "idle"
    /\ pc' = [pc EXCEPT ![x] = "idle", ![t] = "armed"]
    /\ rounds' = IF x \in Callers THEN [rounds EXCEPT ![x] = @ + 1] ELSE rounds
    /\ UNCHANGED isStopped

----------------------------------------------------------------------------
(* Expiry *)

Expire(t) ==
    /\ pc[t] = "armed" /\ Room
    /\ Goto(t, "expired")
    /\ UNCHANGED <<isStopped, rounds>>

\* Mutant: the flag is not set when the timer expires
ExpireActionNoFlag(t) ==
    /\ pc[t] = "expired"
    /\ Goto(t, "start")
    /\ UNCHANGED <<isStopped, rounds>>

\* t.IsStopped = true, then StartViewChange up to its Start
ExpireAction(t) ==
    /\ pc[t] = "expired"
    /\ isStopped' = TRUE
    /\ Goto(t, "start")
    /\ UNCHANGED rounds

Init ==
    /\ isStopped = TRUE
    /\ pc = [x \in Callers \cup Timers |-> "idle"]
    /\ rounds = [c \in Callers |-> 0]

CallStep(x) ==
    \/ StartCheck(x) \/ StartSet(x)
    \/ \E t \in Timers : SendStop(x, t) \/ Spawn(x, t)

Next ==
    \/ \E c \in Callers : Begin(c) \/ StopCheck(c) \/ StopSet(c) \/ Work(c)
    \/ \E x \in Callers \cup Timers : CallStep(x)
    \/ \E t \in Timers : Expire(t) \/ ExpireAction(t)

\* Goroutines that can run are run; a send on stopChan is served when an armed
\* timer keeps being there. Nothing makes a timer expire or a handler begin.
Fairness ==
    /\ \A c \in Callers : WF_vars(StopCheck(c) \/ StopSet(c) \/ Work(c))
    /\ \A x \in Callers \cup Timers : SF_vars(CallStep(x))
    /\ \A t \in Timers : WF_vars(ExpireAction(t))

Spec == Init /\ [][Next]_vars

FairSpec == Spec /\ Fairness

----------------------------------------------------------------------------

Quiet == Busy = {}

\* The views are protected: once a handler has run, and whenever no call is in
\* progress, some timer is running and IsStopped says so. No interleaving of Stop,
\* Start and an expiry loses the timer, though the flag is not locked.
TimerRuns ==
    Quiet /\ (\E c \in Callers : rounds[c] > 0) => Armed # {} /\ ~isStopped

\* The places of a goroutine
Place == {"idle", "armed", "expired", "stop", "stopSend", "stopSet", "work",
          "start", "startSend", "startSet", "spawn"}

\* The inductive invariant behind TimerRuns. A stopped flag has a goroutine that is
\* on its way to clear it, or no start has been made yet; and after a start there is
\* always a goroutine, running the timer or about to replace it.
TimerInv ==
    /\ isStopped \in BOOLEAN
    /\ pc \in [Callers \cup Timers -> Place]
    /\ rounds \in [Callers -> Nat]
    /\ \A c \in Callers : pc[c] \notin {"armed", "expired"}
    /\ isStopped =>
          \/ \E x \in Callers \cup Timers : pc[x] \in {"work", "start", "startSet"}
          \/ /\ \A c \in Callers : rounds[c] = 0
             /\ \A x \in Callers \cup Timers : pc[x] \in {"idle", "stop"}
    /\ (\E c \in Callers : rounds[c] > 0) => \E x \in Callers \cup Timers : pc[x] # "idle"

\* A handler never hangs in Stop or Start: if the timer it wants to stop has just
\* expired, the view change starts another one that takes the stop signal.
CallsReturn == \A c \in Callers : pc[c] # "idle" ~> pc[c] = "idle"

\* The field of MyTimer: "indicate whether the timer is running". When nobody is
\* inside Stop, Start or an expiry (handlers may be between their two calls), the
\* flag is set exactly when no timer goroutine is left that could expire.
FlagTellsRunning ==
    (\A x \in Busy : pc[x] = "work") => (isStopped <=> Armed = {})
=============================================================================
