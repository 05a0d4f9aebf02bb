--------------------------- MODULE ViewTimerProofs ---------------------------
(***************************************************************************)
(* The view timer is never lost, for every number of goroutines that use   *)
(* it and of timers that are alive at a time, and however often they run.  *)
(***************************************************************************)
EXTENDS ViewTimer, TLAPS

LEMMA TimerInit == Init => TimerInv
  BY DEF Init, TimerInv, Place

\* Stop: the goroutine that sets the flag still has its Start before it.
LEMMA StopStep ==
    ASSUME TimerInv, NEW c \in Callers,
           Begin(c) \/ StopCheck(c) \/ StopSet(c) \/ Work(c)
    PROVE  TimerInv'
<1> USE DEF TimerInv, Place, Goto
<1>1. CASE Begin(c)
  BY <1>1 DEF Begin
<1>2. CASE StopCheck(c)
  BY <1>2 DEF StopCheck
<1>3. CASE StopSet(c)
  BY <1>3 DEF StopSet
<1>4. CASE Work(c)
  BY <1>4 DEF Work
<1> QED  BY <1>1, <1>2, <1>3, <1>4

\* Start: it clears the flag before it makes the timer's goroutine, unless the
\* flag said that a timer was running, which it has then stopped.
LEMMA StartStep ==
    ASSUME TimerInv, NEW x \in Callers \cup Timers, CallStep(x)
    PROVE  TimerInv'
<1> USE DEF TimerInv, Place, Goto
<1>1. CASE StartCheck(x)
  BY <1>1 DEF StartCheck
<1>2. CASE StartSet(x)
  BY <1>2 DEF StartSet
<1>3. ASSUME NEW t \in Timers, SendStop(x, t) PROVE TimerInv'
  <2>1. /\ x # t /\ pc[t] = "armed" /\ t \notin Callers
        /\ pc[x] \in {"stopSend", "startSend"}
        /\ UNCHANGED <<isStopped, rounds>>
    BY <1>3 DEF SendStop
  <2>2. /\ pc'[t] = "idle" /\ pc'[x] \in {"stopSet", "spawn"}
        /\ \A y \in Callers \cup Timers : y \notin {x, t} => pc'[y] = pc[y]
        /\ pc' \in [Callers \cup Timers -> Place]
    BY <1>3, <2>1 DEF SendStop
  <2>3. isStopped => \E y \in Callers \cup Timers : pc'[y] \in {"work", "start", "startSet"}
    <3> SUFFICES ASSUME isStopped
                 PROVE  \E y \in Callers \cup Timers : pc'[y] \in {"work", "start", "startSet"}
      OBVIOUS
    <3>1. PICK y \in Callers \cup Timers : pc[y] \in {"work", "start", "startSet"}
      BY <2>1
    <3> QED  BY <2>1, <2>2, <3>1
  <2> QED  BY <2>1, <2>2, <2>3
<1>4. ASSUME NEW t \in Timers, Spawn(x, t) PROVE TimerInv'
  <2>1. /\ x # t /\ pc[x] = "spawn" /\ pc[t] = "idle" /\ UNCHANGED isStopped
        /\ rounds' = IF x \in Callers THEN [rounds EXCEPT ![x] = @ + 1] ELSE rounds
    BY <1>4 DEF Spawn
  <2>2. /\ pc'[t] = "armed" /\ pc'[x] = "idle"
        /\ \A y \in Callers \cup Timers : y \notin {x, t} => pc'[y] = pc[y]
        /\ pc' \in [Callers \cup Timers -> Place]
    BY <1>4, <2>1 DEF Spawn
  <2>3. t \notin Callers /\ rounds' \in [Callers -> Nat]
    BY <2>1, TimerAssumption
  <2>4. isStopped => \E y \in Callers \cup Timers : pc'[y] \in {"work", "start", "startSet"}
    <3> SUFFICES ASSUME isStopped
                 PROVE  \E y \in Callers \cup Timers : pc'[y] \in {"work", "start", "startSet"}
      OBVIOUS
    <3>1. PICK y \in Callers \cup Timers : pc[y] \in {"work", "start", "startSet"}
      BY <2>1
    <3> QED  BY <2>1, <2>2, <3>1
  <2> QED  BY <2>1, <2>2, <2>3, <2>4
<1> QED  BY <1>1, <1>2, <1>3, <1>4 DEF CallStep

\* An expiry: the goroutine that sets the flag goes on to Start.
LEMMA ExpireStep ==
    ASSUME TimerInv, NEW t \in Timers, Expire(t) \/ ExpireAction(t)
    PROVE  TimerInv'
<1> USE DEF TimerInv, Place, Goto
<1>1. t \notin Callers
  BY TimerAssumption
<1>2. CASE Expire(t)
  BY <1>1, <1>2 DEF Expire
<1>3. CASE ExpireAction(t)
  BY <1>1, <1>3 DEF ExpireAction
<1> QED  BY <1>2, <1>3

\* Every interleaving of Stop, Start and expiries keeps TimerInv.
THEOREM TimerInvCorrect == Spec => []TimerInv
<1>1. TimerInv /\ [Next]_vars => TimerInv'
  <2> SUFFICES ASSUME TimerInv, [Next]_vars PROVE TimerInv'
    OBVIOUS
  <2>1. CASE UNCHANGED vars
    BY <2>1 DEF vars, TimerInv
  <2> QED  BY <2>1, StopStep, StartStep, ExpireStep DEF Next
<1> QED  BY <1>1, TimerInit, PTL DEF Spec

\* The view timer is never lost: IsStopped is not protected by a lock, yet when no
\* call is in progress after the first Start, a timer runs and the flag says so.
THEOREM TimerRunsCorrect == Spec => []TimerRuns
<1>1. TimerInv => TimerRuns
  BY DEF TimerInv, TimerRuns, Quiet, Busy, Armed
<1> QED  BY <1>1, TimerInvCorrect, PTL
=============================================================================
