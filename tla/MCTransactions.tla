--------------------------- MODULE MCTransactions ---------------------------
(***************************************************************************)
(* The operations of the runs of Transactions.                             *)
(***************************************************************************)
EXTENDS Transactions

CONSTANTS t1, t2, t3, r1, r2

Do(kind, row) == [kind |-> kind, row |-> row, guarded |-> FALSE]
Guarded(kind, row) == [kind |-> kind, row |-> row, guarded |-> TRUE]

\* Two batches that take the rows in opposite orders, one of which undoes a
\* failed statement and goes on, and a third call with a single statement.
Crossing ==
  [t \in Callers |->
     CASE t = t1 -> <<Do("lock", r1), Do("add", r2)>>
       [] t = t2 -> <<Do("swap", r2), Guarded("lock", r1), Do("add", r2)>>
       [] OTHER -> <<Do("lock", r1)>>]
=============================================================================
