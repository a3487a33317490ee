------------------------ MODULE RecoveryTurnsProofs ------------------------
(***************************************************************************)
(* The safety of the recovery turns, for any number of workers and turns   *)
(* and any PRIORITY_RUN.                                                   *)
(***************************************************************************)
EXTENDS RecoveryTurns, FiniteSetTheorems, SequenceTheorems, TLAPS

\* What a waiter can still be delayed by: PriorityRun + 1 turns for each
\* worker in front of it, and the rest of the current run.
Weight(n) == (PriorityRun + 1) * n

DelayInv ==
  \A i \in DOMAIN waiters :
    overtaken[waiters[i]] + Weight(i - 1) <= Weight(ahead[waiters[i]]) + bypassed

IInv == TypeOK /\ TurnsConserved /\ FreeTurnsUnwanted /\ WaitersListen /\ DelayInv

\* Each worker in front weighs PriorityRun + 1 turns.
LEMMA WeightFacts ==
  \A n \in Nat : Weight(n) \in Nat /\ Weight(n + 1) = Weight(n) + PriorityRun + 1
PROOF
  BY TurnsAssumption DEF TurnsAssumption, Weight

-----------------------------------------------------------------------------
(* Withdrawing or granting the waiter at a position. *)

\* RemoveAt shifts what is behind the position and keeps what is before it.
LEMMA RemoveAtElements ==
  ASSUME NEW S, NEW q \in Seq(S), NEW i \in 1 .. Len(q)
  PROVE  /\ RemoveAt(q, i) \in Seq(S)
         /\ Len(RemoveAt(q, i)) = Len(q) - 1
         /\ \A j \in 1 .. (Len(q) - 1) :
              RemoveAt(q, i)[j] = IF j < i THEN q[j] ELSE q[j + 1]
PROOF
  <1> DEFINE a == SubSeq(q, 1, i - 1)
             b == SubSeq(q, i + 1, Len(q))
  <1>1. /\ a \in Seq(S) /\ Len(a) = i - 1 /\ \A j \in 1 .. (i - 1) : a[j] = q[j]
        /\ b \in Seq(S) /\ Len(b) = Len(q) - i
        /\ \A j \in 1 .. (Len(q) - i) : b[j] = q[i + j]
    OBVIOUS
  <1>2. RemoveAt(q, i) = a \o b
    BY DEF RemoveAt
  <1> HIDE DEF a, b
  <1>3. /\ a \o b \in Seq(S) /\ Len(a \o b) = Len(q) - 1
        /\ \A j \in 1 .. (Len(q) - 1) :
             (a \o b)[j] = IF j < i THEN a[j] ELSE b[j - (i - 1)]
    <2>1. /\ a \o b \in Seq(S) /\ Len(a \o b) = Len(a) + Len(b)
          /\ \A j \in 1 .. (Len(a) + Len(b)) :
               (a \o b)[j] = IF j <= Len(a) THEN a[j] ELSE b[j - Len(a)]
      BY <1>1, ConcatProperties
    <2> QED
      BY <1>1, <2>1
  <1> QED
    BY <1>1, <1>2, <1>3

-----------------------------------------------------------------------------
(* Counting turns. *)

Holders == {w \in Workers : HasTurn(w)}

\* The turns held change by one when one worker takes or gives up a turn.
LEMMA HoldersCount ==
  ASSUME NEW H \in SUBSET Workers, NEW w
  PROVE  /\ Cardinality(H) \in Nat
         /\ w \notin H => Cardinality(H \cup {w}) = Cardinality(H) + 1
         /\ w \in H => Cardinality(H \ {w}) = Cardinality(H) - 1
PROOF
  <1>1. IsFiniteSet(H)
    BY FS_Subset, TurnsAssumption DEF TurnsAssumption
  <1>2. Cardinality(H) \in Nat
    BY <1>1, FS_CardinalityType
  <1>3. w \notin H => Cardinality(H \cup {w}) = Cardinality(H) + 1
    BY <1>1, FS_AddElement
  <1>4. w \in H => Cardinality(H \ {w}) = Cardinality(H) - 1
    BY <1>1, FS_RemoveElement
  <1> QED
    BY <1>2, <1>3, <1>4

-----------------------------------------------------------------------------
\* All turns are free and nobody waits.
LEMMA InitInv == Init => IInv
PROOF
  <1> SUFFICES ASSUME Init PROVE IInv
    OBVIOUS
  <1> USE TurnsAssumption DEF TurnsAssumption, Init
  <1>1. TypeOK
    BY DEF TypeOK, WorkerStates
  <1>2. TurnsConserved
    <2>1. {w \in Workers : HasTurn(w)} = {}
      BY DEF HasTurn
    <2>2. Cardinality({w \in Workers : HasTurn(w)}) = 0
      BY <2>1, FS_EmptySet
    <2>3. free + 0 = Turns
      BY DEF Init
    <2> QED
      BY <2>2, <2>3 DEF TurnsConserved
  <1> QED
    BY <1>1, <1>2 DEF IInv, FreeTurnsUnwanted, WaitersListen, DelayInv

\* A worker takes a free turn, or joins the end of the queue.
LEMMA AcquireStep == ASSUME IInv, NEW w \in Workers, Acquire(w) PROVE IInv'
PROOF
  <1> USE TurnsAssumption DEF TurnsAssumption
  <1>0. TypeOK /\ TurnsConserved /\ FreeTurnsUnwanted /\ WaitersListen /\ DelayInv
    BY DEF IInv
  <1>1. CASE free > 0 /\ waiters = <<>>
    <2>1. /\ free' = free - 1 /\ worker' = [worker EXCEPT ![w] = "holding"]
          /\ waiters' = waiters /\ ahead' = ahead /\ overtaken' = overtaken
          /\ bypassed' = bypassed /\ blocked' = blocked /\ worker[w] = "idle"
      BY <1>1 DEF Acquire
    <2>2. TypeOK'
      BY <1>0, <1>1, <2>1 DEF TypeOK, WorkerStates
    <2>3. TurnsConserved'
      <3>1. Holders' = Holders \cup {w} /\ w \notin Holders /\ Holders \in SUBSET Workers
        BY <1>0, <2>1 DEF Holders, HasTurn, TypeOK
      <3>2. Cardinality(Holders') = Cardinality(Holders) + 1 /\ Cardinality(Holders) \in Nat
        BY <3>1, HoldersCount
      <3> QED
        BY <1>0, <2>1, <3>2 DEF TurnsConserved, Holders, TypeOK
    <2>4. FreeTurnsUnwanted' /\ WaitersListen' /\ DelayInv'
      BY <1>0, <1>1, <2>1 DEF FreeTurnsUnwanted, WaitersListen, DelayInv, TypeOK
    <2> QED
      BY <2>2, <2>3, <2>4 DEF IInv
  <1>2. CASE ~(free > 0 /\ waiters = <<>>)
    <2>1. /\ waiters' = Append(waiters, w) /\ worker' = [worker EXCEPT ![w] = "waiting"]
          /\ ahead' = [ahead EXCEPT ![w] = Len(waiters)]
          /\ overtaken' = [overtaken EXCEPT ![w] = 0]
          /\ free' = free /\ bypassed' = bypassed /\ blocked' = blocked /\ worker[w] = "idle"
      BY <1>2 DEF Acquire
    <2>2. TypeOK'
      BY <1>0, <2>1 DEF TypeOK, WorkerStates
    <2>3. TurnsConserved'
      <3>1. Holders' = Holders
        BY <1>0, <2>1 DEF Holders, HasTurn, TypeOK
      <3> QED
        BY <1>0, <2>1, <3>1 DEF TurnsConserved, Holders
    <2>4. FreeTurnsUnwanted'
      BY <1>0, <1>2, <2>1 DEF FreeTurnsUnwanted, TypeOK
    <2>5. /\ DOMAIN waiters = 1 .. Len(waiters) /\ Len(waiters) \in Nat
          /\ DOMAIN waiters' = 1 .. (Len(waiters) + 1) /\ waiters'[Len(waiters) + 1] = w
          /\ \A i \in 1 .. Len(waiters) : waiters'[i] = waiters[i] /\ waiters[i] \in Workers
      <3>1. waiters \in Seq(Workers)
        BY <1>0 DEF TypeOK
      <3> QED
        BY <2>1, <3>1
    <2>8. \A i \in 1 .. Len(waiters) : waiters[i] # w
      BY <1>0, <2>1, <2>5 DEF WaitersListen
    <2>6. WaitersListen'
      <3>1. \A i, j \in DOMAIN waiters' : waiters'[i] = waiters'[j] => i = j
        BY <1>0, <2>5, <2>8 DEF WaitersListen
      <3>2. ASSUME NEW v \in Workers
            PROVE  worker'[v] = "waiting" <=> \E i \in DOMAIN waiters' : waiters'[i] = v
        <4>1. CASE v = w
          <5>1. worker'[v] = "waiting" /\ Len(waiters) + 1 \in DOMAIN waiters'
            BY <1>0, <2>1, <2>5, <4>1 DEF TypeOK
          <5> QED
            BY <2>5, <4>1, <5>1
        <4>2. CASE v # w
          <5>1. worker'[v] = worker[v]
            BY <1>0, <2>1, <4>2 DEF TypeOK
          <5>2. (\E i \in DOMAIN waiters' : waiters'[i] = v) <=> \E i \in DOMAIN waiters : waiters[i] = v
            BY <2>5, <4>2
          <5> QED
            BY <1>0, <5>1, <5>2 DEF WaitersListen
        <4> QED
          BY <4>1, <4>2
      <3> QED
        BY <3>1, <3>2 DEF WaitersListen
    <2>7. DelayInv'
      <3> SUFFICES ASSUME NEW i \in 1 .. (Len(waiters) + 1)
                   PROVE  overtaken'[waiters'[i]] + Weight(i - 1)
                            <= Weight(ahead'[waiters'[i]]) + bypassed'
        BY <2>5 DEF DelayInv, Weight
      <3>1. CASE i = Len(waiters) + 1
        <4>1. overtaken'[waiters'[i]] = 0 /\ ahead'[waiters'[i]] = i - 1
          BY <1>0, <2>1, <2>5, <3>1 DEF TypeOK
        <4> QED
          BY <1>0, <2>1, <2>5, <3>1, <4>1, WeightFacts DEF TypeOK
      <3>2. CASE i \in 1 .. Len(waiters)
        <4>1. overtaken'[waiters'[i]] = overtaken[waiters[i]] /\ ahead'[waiters'[i]] = ahead[waiters[i]]
          BY <1>0, <2>1, <2>5, <2>8, <3>2 DEF TypeOK
        <4> QED
          BY <1>0, <2>1, <2>5, <3>2, <4>1 DEF DelayInv
      <3> QED
        BY <2>5, <3>1, <3>2
    <2> QED
      BY <2>2, <2>3, <2>4, <2>6, <2>7 DEF IInv
  <1> QED
    BY <1>1, <1>2

\* What remains of the queue when the waiter at a position leaves it.
LEMMA QueueWithout ==
  ASSUME TypeOK, WaitersListen, NEW i \in DOMAIN waiters, waiters' = RemoveAt(waiters, i)
  PROVE  /\ Len(waiters) \in Nat /\ DOMAIN waiters = 1 .. Len(waiters)
         /\ waiters' \in Seq(Workers) /\ DOMAIN waiters' = 1 .. (Len(waiters) - 1)
         /\ \A j \in DOMAIN waiters' :
              /\ j \in DOMAIN waiters /\ j + 1 \in DOMAIN waiters
              /\ waiters'[j] = waiters[IF j < i THEN j ELSE j + 1]
              /\ waiters'[j] # waiters[i]
              /\ waiters'[j] \in Workers /\ worker[waiters'[j]] = "waiting"
         /\ \A j, k \in DOMAIN waiters' : waiters'[j] = waiters'[k] => j = k
         /\ \A v \in Workers : (\E j \in DOMAIN waiters' : waiters'[j] = v)
                                 <=> (worker[v] = "waiting" /\ v # waiters[i])
PROOF
  <1>1. waiters \in Seq(Workers) /\ i \in 1 .. Len(waiters) /\ Len(waiters) \in Nat
        /\ DOMAIN waiters = 1 .. Len(waiters)
    BY DEF TypeOK
  <1>2. /\ waiters' \in Seq(Workers) /\ DOMAIN waiters' = 1 .. (Len(waiters) - 1)
        /\ \A j \in DOMAIN waiters' : waiters'[j] = waiters[IF j < i THEN j ELSE j + 1]
    <2>1. /\ waiters' \in Seq(Workers) /\ Len(waiters') = Len(waiters) - 1
          /\ \A j \in 1 .. (Len(waiters) - 1) :
               waiters'[j] = IF j < i THEN waiters[j] ELSE waiters[j + 1]
      BY <1>1, RemoveAtElements
    <2> QED
      BY <1>1, <2>1
  <1>3. \A j \in DOMAIN waiters' : j \in DOMAIN waiters /\ j + 1 \in DOMAIN waiters
    BY <1>1, <1>2
  <1>4. \A j, k \in DOMAIN waiters : waiters[j] = waiters[k] => j = k
    BY DEF WaitersListen
  <1>5. \A j \in DOMAIN waiters : waiters[j] \in Workers /\ worker[waiters[j]] = "waiting"
    BY <1>1 DEF WaitersListen
  <1>6. \A j \in DOMAIN waiters' : waiters'[j] # waiters[i]
    BY <1>1, <1>2, <1>3, <1>4
  <1>7. \A j, k \in DOMAIN waiters' : waiters'[j] = waiters'[k] => j = k
    BY <1>1, <1>2, <1>3, <1>4
  <1>8. ASSUME NEW v \in Workers, worker[v] = "waiting", v # waiters[i]
        PROVE  \E j \in DOMAIN waiters' : waiters'[j] = v
    <2>1. PICK k \in DOMAIN waiters : waiters[k] = v
      BY <1>8 DEF WaitersListen
    <2>2. CASE k < i
      <3>1. k \in DOMAIN waiters'
        BY <1>1, <1>2, <2>2
      <3> QED
        BY <1>2, <2>1, <2>2, <3>1
    <2>3. CASE k > i
      <3>1. k - 1 \in DOMAIN waiters' /\ ~(k - 1 < i) /\ (k - 1) + 1 = k
        BY <1>1, <1>2, <2>3
      <3> QED
        BY <1>2, <2>1, <3>1
    <2> QED
      BY <1>1, <1>8, <2>1, <2>2, <2>3
  <1>9. \A j \in DOMAIN waiters' : waiters'[j] \in Workers /\ worker[waiters'[j]] = "waiting"
    BY <1>1, <1>2, <1>3, <1>5
  <1> QED
    BY <1>1, <1>2, <1>3, <1>6, <1>7, <1>8, <1>9

\* A turn is handed over or becomes free.
LEMMA ReleaseStep ==
  ASSUME IInv, NEW w \in Workers, worker[w] \in {"holding", "passing"}, Release(w), blocked' = blocked
  PROVE  IInv'
PROOF
  <1> USE TurnsAssumption DEF TurnsAssumption
  <1>0. TypeOK /\ TurnsConserved /\ FreeTurnsUnwanted /\ WaitersListen /\ DelayInv
    BY DEF IInv
  <1>1. Holders \in SUBSET Workers /\ w \in Holders
    BY DEF Holders, HasTurn
  <1>2. CASE /\ waiters = <<>> /\ free' = free + 1 /\ worker' = [worker EXCEPT ![w] = "idle"]
             /\ UNCHANGED <<bypassed, waiters, ahead, overtaken>>
    <2>1. Cardinality(Holders') = Cardinality(Holders) - 1 /\ Cardinality(Holders) \in Nat
          /\ Cardinality(Holders') \in Nat
      <3>1. Holders' = Holders \ {w} /\ Holders' \in SUBSET Workers
        BY <1>0, <1>2 DEF Holders, HasTurn, TypeOK
      <3> QED
        BY <1>1, <3>1, HoldersCount
    <2>2. TurnsConserved'
      BY <1>0, <1>2, <2>1 DEF TurnsConserved, Holders, TypeOK
    <2>3. free' \in 0 .. Turns
      BY <1>0, <1>2, <2>1, <2>2 DEF TurnsConserved, Holders, TypeOK
    <2>4. TypeOK'
      BY <1>0, <1>2, <2>3 DEF TypeOK, WorkerStates
    <2>5. WaitersListen'
      BY <1>0, <1>2 DEF WaitersListen, TypeOK
    <2> QED
      BY <1>0, <1>2, <2>2, <2>4, <2>5 DEF IInv, FreeTurnsUnwanted, DelayInv
  <1>3. ASSUME NEW i \in DOMAIN waiters, Picks(i),
               bypassed' = IF i = 1 THEN 0 ELSE bypassed + 1,
               waiters' = RemoveAt(waiters, i),
               worker' = [worker EXCEPT ![w] = "idle", ![waiters[i]] = "granted"],
               ahead' = [ahead EXCEPT ![waiters[i]] = 0],
               overtaken' = [v \in Workers |->
                               IF worker[v] = "waiting" /\ v # waiters[i]
                               THEN overtaken[v] + 1 ELSE 0],
               free' = free
        PROVE  IInv'
    <2> DEFINE g == waiters[i]
    <2>1. /\ Len(waiters) \in Nat /\ DOMAIN waiters = 1 .. Len(waiters)
          /\ waiters' \in Seq(Workers) /\ DOMAIN waiters' = 1 .. (Len(waiters) - 1)
          /\ \A j \in DOMAIN waiters' :
               /\ j \in DOMAIN waiters /\ j + 1 \in DOMAIN waiters
               /\ waiters'[j] = waiters[IF j < i THEN j ELSE j + 1]
               /\ waiters'[j] # waiters[i]
               /\ waiters'[j] \in Workers /\ worker[waiters'[j]] = "waiting"
          /\ \A j, k \in DOMAIN waiters' : waiters'[j] = waiters'[k] => j = k
          /\ \A v \in Workers : (\E j \in DOMAIN waiters' : waiters'[j] = v)
                                  <=> (worker[v] = "waiting" /\ v # waiters[i])
      BY <1>0, <1>3, QueueWithout
    <2>2. g \in Workers /\ worker[g] = "waiting" /\ g # w
      BY <1>0, <2>1 DEF WaitersListen, TypeOK
    <2>3. bypassed' \in 0 .. PriorityRun /\ (i # 1 => bypassed' = bypassed + 1)
      BY <1>0, <1>3, <2>1 DEF Picks, TypeOK
    <2>4. TypeOK'
      <3>1. overtaken' \in [Workers -> Nat]
        BY <1>0, <1>3 DEF TypeOK
      <3>2. worker' \in [Workers -> WorkerStates] /\ ahead' \in [Workers -> Nat]
        BY <1>0, <1>3 DEF TypeOK, WorkerStates
      <3> QED
        BY <1>0, <1>3, <2>1, <2>3, <3>1, <3>2 DEF TypeOK
    <2>5. TurnsConserved'
      <3>1. Holders' = (Holders \ {w}) \cup {g} /\ g \notin Holders
        BY <1>0, <1>3, <2>2 DEF Holders, HasTurn, TypeOK
      <3>2. Cardinality(Holders') = Cardinality(Holders)
        <4> HIDE DEF g
        <4>1. Cardinality(Holders \ {w}) = Cardinality(Holders) - 1 /\ Cardinality(Holders) \in Nat
          BY <1>1, HoldersCount
        <4>2. Cardinality((Holders \ {w}) \cup {g}) = Cardinality(Holders \ {w}) + 1
          <5>1. Holders \ {w} \in SUBSET Workers /\ g \notin Holders \ {w}
            BY <1>1, <3>1
          <5> QED
            BY <5>1, HoldersCount
        <4> QED
          BY <3>1, <4>1, <4>2
      <3> QED
        BY <1>0, <1>3, <3>2 DEF TurnsConserved, Holders
    <2>6. FreeTurnsUnwanted'
      BY <1>0, <1>3, <2>1 DEF FreeTurnsUnwanted, TypeOK
    <2>7. WaitersListen'
      <3>1. \A v \in Workers : worker'[v] = "waiting" <=> (worker[v] = "waiting" /\ v # g)
        BY <1>0, <1>3, <2>2 DEF TypeOK
      <3> QED
        BY <2>1, <3>1 DEF WaitersListen
    <2>8. DelayInv'
      <3> SUFFICES ASSUME NEW j \in DOMAIN waiters'
                   PROVE  overtaken'[waiters'[j]] + Weight(j - 1)
                            <= Weight(ahead'[waiters'[j]]) + bypassed'
        BY DEF DelayInv, Weight
      <3> DEFINE k == IF j < i THEN j ELSE j + 1
                 v == waiters[k]
      <3>1. /\ waiters'[j] = v /\ k \in DOMAIN waiters /\ v \in Workers
            /\ overtaken'[v] = overtaken[v] + 1 /\ ahead'[v] = ahead[v]
            /\ overtaken[v] \in Nat /\ ahead[v] \in Nat
        <4>1. waiters'[j] = v /\ k \in DOMAIN waiters /\ v \in Workers
              /\ v # waiters[i] /\ worker[v] = "waiting"
          BY <2>1
        <4> HIDE DEF v
        <4> QED
          BY <1>0, <1>3, <2>2, <4>1 DEF TypeOK
      <3>2. overtaken[v] + Weight(k - 1) <= Weight(ahead[v]) + bypassed
        BY <1>0, <3>1 DEF DelayInv
      <3>3. j - 1 \in Nat /\ Weight(j - 1) \in Nat /\ Weight(ahead[v]) \in Nat
            /\ Weight(j) = Weight(j - 1) + PriorityRun + 1
        <4>1. j - 1 \in Nat /\ (j - 1) + 1 = j
          BY <2>1
        <4> QED
          BY <3>1, <4>1, WeightFacts
      <3>4. /\ bypassed \in Nat /\ bypassed' \in Nat /\ bypassed <= PriorityRun
            /\ i = 1 => bypassed' = 0
            /\ i # 1 => bypassed' = bypassed + 1
        BY <1>0, <1>3, <2>3 DEF TypeOK
      <3>5. CASE j < i
        <4>1. k - 1 = j - 1 /\ i # 1
          BY <2>1, <3>5
        <4> QED
          BY <3>1, <3>2, <3>3, <3>4, <4>1
      <3>6. CASE ~(j < i)
        <4>1. k - 1 = j
          BY <2>1, <3>6
        <4>2. overtaken[v] + Weight(j) <= Weight(ahead[v]) + bypassed
          BY <3>2, <4>1
        <4> HIDE DEF k, v
        <4> QED
          BY <3>1, <3>3, <3>4, <4>2
      <3> QED
        BY <3>5, <3>6
    <2> QED
      BY <2>4, <2>5, <2>6, <2>7, <2>8 DEF IInv
  <1> QED
    BY <1>2, <1>3 DEF Release

\* A waiter leaves the queue.
LEMMA WithdrawStep == ASSUME IInv, NEW w \in Workers, CancelWaiting(w) PROVE IInv'
PROOF
  <1> USE TurnsAssumption DEF TurnsAssumption
  <1>0. TypeOK /\ TurnsConserved /\ FreeTurnsUnwanted /\ WaitersListen /\ DelayInv
    BY DEF IInv
  <1>1. /\ worker[w] = "waiting" /\ worker' = [worker EXCEPT ![w] = "idle"]
        /\ ahead' = [ahead EXCEPT ![w] = 0] /\ overtaken' = [overtaken EXCEPT ![w] = 0]
        /\ free' = free /\ bypassed' = bypassed /\ blocked' = blocked
    BY DEF CancelWaiting
  <1>2. PICK i \in DOMAIN waiters : waiters[i] = w /\ waiters' = RemoveAt(waiters, i)
    BY DEF CancelWaiting
  <1>3. /\ Len(waiters) \in Nat /\ DOMAIN waiters = 1 .. Len(waiters)
        /\ waiters' \in Seq(Workers) /\ DOMAIN waiters' = 1 .. (Len(waiters) - 1)
        /\ \A j \in DOMAIN waiters' :
             /\ j \in DOMAIN waiters /\ j + 1 \in DOMAIN waiters
             /\ waiters'[j] = waiters[IF j < i THEN j ELSE j + 1]
             /\ waiters'[j] # w
             /\ waiters'[j] \in Workers
        /\ \A j, k \in DOMAIN waiters' : waiters'[j] = waiters'[k] => j = k
        /\ \A v \in Workers : (\E j \in DOMAIN waiters' : waiters'[j] = v)
                                <=> (worker[v] = "waiting" /\ v # w)
    BY <1>0, <1>2, QueueWithout
  <1>4. TypeOK'
    BY <1>0, <1>1, <1>3 DEF TypeOK, WorkerStates
  <1>5. TurnsConserved'
    <2>1. Holders' = Holders
      BY <1>0, <1>1 DEF Holders, HasTurn, TypeOK
    <2> QED
      BY <1>0, <1>1, <2>1 DEF TurnsConserved, Holders
  <1>6. FreeTurnsUnwanted'
    BY <1>0, <1>1, <1>3 DEF FreeTurnsUnwanted, TypeOK
  <1>7. WaitersListen'
    <2>1. \A v \in Workers : worker'[v] = "waiting" <=> (worker[v] = "waiting" /\ v # w)
      BY <1>0, <1>1 DEF TypeOK
    <2> QED
      BY <1>3, <2>1 DEF WaitersListen
  <1>8. DelayInv'
    <2> SUFFICES ASSUME NEW j \in DOMAIN waiters'
                 PROVE  overtaken'[waiters'[j]] + Weight(j - 1)
                          <= Weight(ahead'[waiters'[j]]) + bypassed'
      BY DEF DelayInv, Weight
    <2> DEFINE k == IF j < i THEN j ELSE j + 1
               v == waiters[k]
    <2>1. /\ waiters'[j] = v /\ k \in DOMAIN waiters /\ v \in Workers
          /\ overtaken'[v] = overtaken[v] /\ ahead'[v] = ahead[v]
          /\ overtaken[v] \in Nat /\ ahead[v] \in Nat
      <3>1. waiters'[j] = v /\ k \in DOMAIN waiters /\ v \in Workers /\ v # w
        BY <1>3
      <3> HIDE DEF v
      <3> QED
        BY <1>0, <1>1, <3>1 DEF TypeOK
    <2>2. overtaken[v] + Weight(k - 1) <= Weight(ahead[v]) + bypassed
      BY <1>0, <2>1 DEF DelayInv
    <2>3. Weight(j - 1) \in Nat /\ Weight(ahead[v]) \in Nat
          /\ Weight(j) = Weight(j - 1) + PriorityRun + 1
      <3>1. j - 1 \in Nat /\ (j - 1) + 1 = j
        BY <1>3
      <3> QED
        BY <2>1, <3>1, WeightFacts
    <2>4. bypassed \in Nat /\ (k - 1 = j - 1 \/ k - 1 = j)
      BY <1>0, <1>3 DEF TypeOK
    <2> HIDE DEF k, v
    <2> QED
      BY <1>1, <2>1, <2>2, <2>3, <2>4
  <1> QED
    BY <1>4, <1>5, <1>6, <1>7, <1>8 DEF IInv

\* A granted turn is received, or its attempt is dropped: it stays with the worker.
LEMMA KeepTurnStep ==
  ASSUME IInv, NEW w \in Workers, Receive(w) \/ CancelGranted(w)
  PROVE  IInv'
PROOF
  <1> USE TurnsAssumption DEF TurnsAssumption
  <1>0. TypeOK /\ TurnsConserved /\ FreeTurnsUnwanted /\ WaitersListen /\ DelayInv
    BY DEF IInv
  <1>1. /\ worker[w] = "granted"
        /\ \E x \in {"holding", "passing"} : worker' = [worker EXCEPT ![w] = x]
        /\ UNCHANGED <<free, bypassed, waiters, blocked, ahead, overtaken>>
    BY DEF Receive, CancelGranted
  <1>2. TypeOK'
    BY <1>0, <1>1 DEF TypeOK, WorkerStates
  <1>3. TurnsConserved'
    <2>1. Holders' = Holders
      BY <1>0, <1>1 DEF Holders, HasTurn, TypeOK
    <2> QED
      BY <1>0, <1>1, <2>1 DEF TurnsConserved, Holders
  <1>4. WaitersListen'
    <2>1. \A v \in Workers : worker'[v] = "waiting" <=> worker[v] = "waiting"
      BY <1>0, <1>1 DEF TypeOK
    <2> QED
      BY <1>0, <1>1, <2>1 DEF WaitersListen
  <1> QED
    BY <1>0, <1>1, <1>2, <1>3, <1>4 DEF IInv, FreeTurnsUnwanted, DelayInv

\* Every step of a worker, and stuttering, preserves the invariant.
LEMMA Inductive == IInv /\ [Next]_vars => IInv'
PROOF
  <1> SUFFICES ASSUME IInv, [Next]_vars PROVE IInv'
    OBVIOUS
  <1>1. CASE UNCHANGED vars
    BY <1>1 DEF vars, IInv, TypeOK, TurnsConserved, HasTurn, FreeTurnsUnwanted, WaitersListen, DelayInv
  <1>2. ASSUME NEW w \in Workers, Step(w) PROVE IInv'
    <2>1. CASE SetBlocked(w)
      BY <2>1 DEF SetBlocked, IInv, TypeOK, TurnsConserved, HasTurn, FreeTurnsUnwanted,
                  WaitersListen, DelayInv
    <2>2. CASE Acquire(w)
      BY <2>2, AcquireStep
    <2>3. CASE Receive(w) \/ CancelGranted(w)
      BY <2>3, KeepTurnStep
    <2>4. CASE Finish(w) \/ PassOn(w)
      BY <2>4, ReleaseStep DEF Finish, PassOn
    <2>5. CASE CancelWaiting(w)
      BY <2>5, WithdrawStep
    <2> QED
      BY <1>2, <2>1, <2>2, <2>3, <2>4, <2>5 DEF Step
  <1> QED
    BY <1>1, <1>2 DEF Next

\* The inductive invariant holds in every reachable state.
LEMMA Invariance == Spec => []IInv
PROOF
  BY InitInv, Inductive, PTL DEF Spec

-----------------------------------------------------------------------------
(* Theorems. *)

\* The fields of TurnQueue stay in range: never more free turns than
\* RECOVERY_TURNS, and next resets the run before it passes PRIORITY_RUN.
THEOREM TypeCorrect == Spec => []TypeOK
PROOF
  BY Invariance, PTL DEF IInv

\* recovery_turns.rs loses no turn and makes none: the turns held, granted or
\* being passed on and the free ones are always RECOVERY_TURNS.
THEOREM NoTurnLost == Spec => []TurnsConserved
PROOF
  BY Invariance, PTL DEF IInv

\* take_or_queue and release never leave a turn free while a worker waits.
THEOREM NoTurnIdle == Spec => []FreeTurnsUnwanted
PROOF
  BY Invariance, PTL DEF IInv

\* Queued::drop keeps the queue and the waiting attempts the same, so release's
\* send always finds a receiver.
THEOREM GrantsAreHeard == Spec => []WaitersListen
PROOF
  BY Invariance, PTL DEF IInv

\* next's PRIORITY_RUN bounds how long blocked successors delay any waiter.
THEOREM BoundedOvertaking == Spec => []OvertakingBounded
PROOF
  <1>1. IInv => OvertakingBounded
    <2> SUFFICES ASSUME IInv, NEW w \in Workers, worker[w] = "waiting"
                 PROVE  overtaken[w] <= (PriorityRun + 1) * ahead[w] + PriorityRun
      BY DEF OvertakingBounded
    <2>1. PICK i \in DOMAIN waiters : waiters[i] = w
      BY DEF IInv, WaitersListen
    <2>2. /\ overtaken[w] + Weight(i - 1) <= Weight(ahead[w]) + bypassed
          /\ i - 1 \in Nat /\ ahead[w] \in Nat /\ overtaken[w] \in Nat
          /\ bypassed \in 0 .. PriorityRun
      BY <2>1 DEF IInv, DelayInv, TypeOK
    <2>3. Weight(i - 1) \in Nat /\ Weight(ahead[w]) \in Nat
      BY <2>2, WeightFacts
    <2>4. overtaken[w] <= Weight(ahead[w]) + PriorityRun
      BY <2>2, <2>3, TurnsAssumption DEF TurnsAssumption
    <2> QED
      BY <2>4 DEF Weight
  <1> QED
    BY <1>1, Invariance, PTL

=============================================================================
