---------------------------- MODULE FrameLedger ----------------------------
(***************************************************************************)
(* What the GLOBAL execution pipeline of one archive promises, without     *)
(* queue, candidates, leases, markers or crashes: finalized frames become  *)
(* canonical, are executed one at a time in the order of their heights,    *)
(* each against the record of the frame that was agreed, and a frame is    *)
(* announced to peers only when it is canonical.  Nothing is ever taken    *)
(* back.  That a frame is executed in the end is not promised: an archive  *)
(* that stopped inside a frame may need an operator.                       *)
(***************************************************************************)
EXTENDS Naturals

CONSTANT N              \* frames of the agreed chain, at heights 1..N

VARIABLES
  done,                 \* the frames 1..done have been executed
  canonical,            \* heights with a canonical record
  announced             \* heights advertised and gossiped as finalized

vars == <<done, canonical, announced>>

Init ==
  /\ done = 0
  /\ canonical = {}
  /\ announced = {}

\* Records of finalized frames appear at any heights, in any order, and may
\* be announced at once.
Record ==
  /\ canonical \subseteq canonical' /\ canonical' \subseteq 1..N
  /\ announced \subseteq announced' /\ announced' \subseteq canonical'
  /\ UNCHANGED done

\* The next frame is executed; its record is there, or is written with it.
Execute ==
  /\ done < N
  /\ done' = done + 1
  /\ canonical' = canonical \cup {done'}
  /\ UNCHANGED announced

Next == Record \/ Execute

Spec == Init /\ [][Next]_vars
=============================================================================
