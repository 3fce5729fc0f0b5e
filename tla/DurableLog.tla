----------------------------- MODULE DurableLog -----------------------------
(***************************************************************************)
(* What the record log promises across power failures: the log that a      *)
(* restart recovers is a sequence that only grows at its end, and loses    *)
(* only its oldest record, and that only when it is full.                  *)
(***************************************************************************)
EXTENDS Sequences, Integers

CONSTANTS Record, Capacity

VARIABLE log

Init == log = << >>

Store(r) == Len(log) < Capacity /\ log' = Append(log, r)

Evict == Len(log) = Capacity /\ log' = Tail(log)

Next == Evict \/ \E r \in Record : Store(r)

Spec == Init /\ [][Next]_log
=============================================================================
