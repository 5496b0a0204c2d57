----------------------------- MODULE CountTable -----------------------------
(***************************************************************************)
(* What network_procfs.c promises to whoever takes net_lock: a table with  *)
(* a packet and a byte count per source address, in which a packet is      *)
(* counted, and the whole table cleared, in one step.                      *)
(***************************************************************************)
EXTENDS Naturals

CONSTANTS Addr, DataLen

VARIABLE table

Zero == [count |-> 0, data |-> 0]

Init == table = [a \in Addr |-> Zero]

Log(a, n) ==
  table' = [table EXCEPT ![a] = [count |-> @.count + 1, data |-> @.data + n]]

Clear == table' = [a \in Addr |-> Zero]

Next == (\E a \in Addr, n \in DataLen : Log(a, n)) \/ Clear

Spec == Init /\ [][Next]_table
=============================================================================
