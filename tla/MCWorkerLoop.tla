---------------------------- MODULE MCWorkerLoop ----------------------------
(* WorkerLoop for TLC: two workers with two requests each, one of which     *)
(* writes both rows, in the one order or the other.                         *)
EXTENDS WorkerLoop

CONSTANTS r1, r2, r3, r4, w1, w2, x, y

MCHome == [r \in Requests |-> IF r \in {r1, r2} THEN w1 ELSE w2]

MCWrites == [r \in Requests |->
    CASE r = r1 -> {<<x>>, <<x, y>>} [] r = r3 -> {<<y>>, <<y, x>>}
      [] OTHER -> {<<x>>, <<y>>}]

=============================================================================
