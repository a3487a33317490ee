--------------------------- MODULE RecoveryTurns ---------------------------
(***************************************************************************)
(* The turns a node's workers take to recover a shard from an archive      *)
(* (quil-engine/src/recovery_turns.rs).  A fixed number of recoveries run  *)
(* at once; the other workers queue.  A released turn goes to the first    *)
(* waiter whose successor session is blocked, but past the longest waiter  *)
(* at most PRIORITY_RUN times in a row.                                    *)
(*                                                                         *)
(* Every action is one critical section of the queue's mutex, or a step    *)
(* outside it.  A grant is delivered through a channel, so a worker that   *)
(* stops waiting may find that its turn has just been granted.             *)
(***************************************************************************)
EXTENDS Integers, FiniteSets, SequencesExt

CONSTANTS
  Workers,
  Turns,        \* RECOVERY_TURNS
  PriorityRun   \* PRIORITY_RUN

ASSUME TurnsAssumption ==
  /\ IsFiniteSet(Workers)
  /\ Turns \in Nat \ {0}
  /\ PriorityRun \in Nat

VARIABLES
  free,      \* turns nobody has
  bypassed,  \* turns granted in a row past the longest waiter
  waiters,   \* the queued workers in arrival order
  worker,    \* worker[w]: where the worker's recovery attempt is
  blocked,   \* workers whose successor-blocked flag is set
  \* history, for workers that wait
  ahead,     \* ahead[w]: waiters in front of w when it queued
  overtaken  \* overtaken[w]: turns granted to others since w queued

vars == <<free, bypassed, waiters, worker, blocked, ahead, overtaken>>

\* "granted": the turn is in the worker's channel, not yet received.
\* "passing": the attempt was dropped with the turn in its channel.
WorkerStates == {"idle", "waiting", "granted", "passing", "holding"}

HasTurn(w) == worker[w] \in {"granted", "passing", "holding"}

Init ==
  /\ free = Turns /\ bypassed = 0 /\ waiters = <<>>
  /\ worker = [w \in Workers |-> "idle"]
  /\ blocked = {}
  /\ ahead = [w \in Workers |-> 0]
  /\ overtaken = [w \in Workers |-> 0]

-----------------------------------------------------------------------------
\* set_successor_blocked, by the worker's engine at any time.  The flags are
\* independent, so a scan that reads them one after another has the effect of
\* a scan at one moment with the writes in another order.
SetBlocked(w) ==
  /\ blocked' = IF w \in blocked THEN blocked \ {w} ELSE blocked \cup {w}
  /\ UNCHANGED <<free, bypassed, waiters, worker, ahead, overtaken>>

\* acquire, take_or_queue: a free turn is taken only when nobody waits.
Acquire(w) ==
  /\ worker[w] = "idle"
  /\ IF free > 0 /\ waiters = <<>>
     THEN /\ free' = free - 1
          /\ worker' = [worker EXCEPT ![w] = "holding"]
          /\ UNCHANGED <<waiters, ahead, overtaken>>
     ELSE /\ waiters' = Append(waiters, w)
          /\ worker' = [worker EXCEPT ![w] = "waiting"]
          /\ ahead' = [ahead EXCEPT ![w] = Len(waiters)]
          /\ overtaken' = [overtaken EXCEPT ![w] = 0]
          /\ UNCHANGED free
  /\ UNCHANGED <<bypassed, blocked>>

\* Mutant: blocked successors always go first.
PicksBlockedAlways(i) ==
  IF \E j \in DOMAIN waiters : waiters[j] \in blocked
  THEN waiters[i] \in blocked /\ \A j \in 1 .. (i - 1) : waiters[j] \notin blocked
  ELSE i = 1

\* The position `next` picks of a queue that is not empty.
Picks(i) ==
  IF bypassed < PriorityRun /\ \E j \in DOMAIN waiters : waiters[j] \in blocked
  THEN waiters[i] \in blocked /\ \A j \in 1 .. (i - 1) : waiters[j] \notin blocked
  ELSE i = 1

\* Mutant: the turn is freed, whoever waits.
ReleaseFreeing(w) ==
  /\ free' = free + 1
  /\ worker' = [worker EXCEPT ![w] = "idle"]
  /\ UNCHANGED <<bypassed, waiters, ahead, overtaken>>

\* release: the turn w had goes to the next waiter, or is free.  The send
\* succeeds, since every waiter in the queue listens (WaitersListen).
Release(w) ==
  \/ /\ waiters = <<>>
     /\ free' = free + 1
     /\ worker' = [worker EXCEPT ![w] = "idle"]
     /\ UNCHANGED <<bypassed, waiters, ahead, overtaken>>
  \/ \E i \in DOMAIN waiters :
       /\ Picks(i)
       /\ bypassed' = IF i = 1 THEN 0 ELSE bypassed + 1
       /\ waiters' = RemoveAt(waiters, i)
       /\ worker' = [worker EXCEPT ![w] = "idle", ![waiters[i]] = "granted"]
       /\ ahead' = [ahead EXCEPT ![waiters[i]] = 0]
       /\ overtaken' = [v \in Workers |->
                          IF worker[v] = "waiting" /\ v # waiters[i]
                          THEN overtaken[v] + 1 ELSE 0]
       /\ UNCHANGED free

\* The waiting worker receives its turn.
Receive(w) ==
  /\ worker[w] = "granted"
  /\ worker' = [worker EXCEPT ![w] = "holding"]
  /\ UNCHANGED <<free, bypassed, waiters, blocked, ahead, overtaken>>

\* The attempt ends, or is dropped, while it holds the turn: Turn::drop.
Finish(w) ==
  /\ worker[w] = "holding"
  /\ Release(w)
  /\ UNCHANGED blocked

\* Mutant: the dropped attempt stays in the queue.
CancelWaitingQueued(w) ==
  /\ worker[w] = "waiting"
  /\ worker' = [worker EXCEPT ![w] = "idle"]
  /\ UNCHANGED <<free, bypassed, waiters, blocked, ahead, overtaken>>

\* The attempt is dropped while it waits: Queued::drop withdraws it.
CancelWaiting(w) ==
  /\ worker[w] = "waiting"
  /\ \E i \in DOMAIN waiters :
       waiters[i] = w /\ waiters' = RemoveAt(waiters, i)
  /\ worker' = [worker EXCEPT ![w] = "idle"]
  /\ ahead' = [ahead EXCEPT ![w] = 0]
  /\ overtaken' = [overtaken EXCEPT ![w] = 0]
  /\ UNCHANGED <<free, bypassed, blocked>>

\* Mutant: an attempt that is no longer queued is taken to have had its turn.
CancelGrantedLosing(w) ==
  /\ worker[w] = "granted"
  /\ worker' = [worker EXCEPT ![w] = "idle"]
  /\ UNCHANGED <<free, bypassed, waiters, blocked, ahead, overtaken>>

\* The attempt is dropped after its turn was granted: it finds itself
\* withdrawn from the queue, unlocks, and finds the turn in its channel.
CancelGranted(w) ==
  /\ worker[w] = "granted"
  /\ worker' = [worker EXCEPT ![w] = "passing"]
  /\ UNCHANGED <<free, bypassed, waiters, blocked, ahead, overtaken>>

PassOn(w) ==
  /\ worker[w] = "passing"
  /\ Release(w)
  /\ UNCHANGED blocked

-----------------------------------------------------------------------------
Step(w) ==
  \/ SetBlocked(w) \/ Acquire(w) \/ Receive(w) \/ Finish(w)
  \/ CancelWaiting(w) \/ CancelGranted(w) \/ PassOn(w)

Next == \E w \in Workers : Step(w)

Spec == Init /\ [][Next]_vars

\* Granted workers are scheduled, drops run to their end, and an attempt that
\* has its turn ends: it makes a bounded number of archive requests, each with
\* a timeout.
Fairness ==
  \A w \in Workers : WF_vars(Receive(w)) /\ WF_vars(Finish(w)) /\ WF_vars(PassOn(w))

FairSpec == Spec /\ Fairness

-----------------------------------------------------------------------------
\* The queue's counters stay within their limits: the run past the longest
\* waiter ends at PRIORITY_RUN.
TypeOK ==
  /\ free \in 0 .. Turns
  /\ bypassed \in 0 .. PriorityRun
  /\ waiters \in Seq(Workers)
  /\ worker \in [Workers -> WorkerStates]
  /\ blocked \subseteq Workers
  /\ ahead \in [Workers -> Nat]
  /\ overtaken \in [Workers -> Nat]

\* No turn is lost and none is made: the turns workers have and the free ones
\* are RECOVERY_TURNS, also while a dropped attempt passes its turn on.
TurnsConserved ==
  free + Cardinality({w \in Workers : HasTurn(w)}) = Turns

\* No worker waits while a turn is free.
FreeTurnsUnwanted == free > 0 => waiters = <<>>

\* The queue holds exactly the workers that wait, each once: a grant is never
\* sent to an attempt that has gone, and an attempt that waits is not lost.
WaitersListen ==
  /\ \A i, j \in DOMAIN waiters : waiters[i] = waiters[j] => i = j
  /\ \A w \in Workers : worker[w] = "waiting" <=> \E i \in DOMAIN waiters : waiters[i] = w

\* Blocked successors delay a waiter by at most PRIORITY_RUN turns for itself
\* and for each worker that was in front of it.
OvertakingBounded ==
  \A w \in Workers : worker[w] = "waiting" =>
    overtaken[w] <= (PriorityRun + 1) * ahead[w] + PriorityRun

\* A worker that waits gets a turn, unless its attempt is dropped.
WaitersServed ==
  \A w \in Workers : worker[w] = "waiting" ~> worker[w] # "waiting"

=============================================================================
