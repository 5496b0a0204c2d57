----------------------------- MODULE DebugfsSum ------------------------------
(***************************************************************************)
(* add_write of debugfs_basic.c: processes that write to the file add, each *)
(* through its own open file, add a u64 to the u32 sum.  sum += value is a  *)
(* load and a store, and nothing serialises them.                           *)
(***************************************************************************)
EXTENDS Integers, Sequences, FiniteSetsExt

CONSTANTS
  Adder,    \* processes that write to add
  U32,      \* sum is computed modulo U32
  Value,    \* the numbers written, below the modulus of u64
  MaxAdds   \* bound: writes

VARIABLES
  sum,     \* the u32
  adding,  \* per process: the number of the add in progress, or 0
  reg,     \* per process: the value of sum it has loaded
  value,   \* the values added so far, by the number of the add
  ended,   \* the adds that have stored their sum
  apart    \* the adds that no other has overlapped

vars == <<sum, adding, reg, value, ended, apart>>

Init ==
  /\ sum = 0 /\ value = <<>> /\ ended = {} /\ apart = {}
  /\ adding = [p \in Adder |-> 0] /\ reg = [p \in Adder |-> 0]

Busy == {adding[p] : p \in Adder} \ {0}

\* add_write loads sum.
add_write(p, v) ==
  /\ adding[p] = 0 /\ Len(value) < MaxAdds
  /\ value' = Append(value, v)
  /\ adding' = [adding EXCEPT ![p] = Len(value) + 1]
  /\ reg' = [reg EXCEPT ![p] = sum]
  /\ apart' = IF Busy = {} THEN apart \cup {Len(value) + 1} ELSE apart \ Busy
  /\ UNCHANGED <<sum, ended>>

mut_not_truncated(p) ==
  /\ adding[p] # 0
  /\ sum' = reg[p] + value[adding[p]]
  /\ ended' = ended \cup {adding[p]}
  /\ adding' = [adding EXCEPT ![p] = 0]
  /\ UNCHANGED <<reg, value, apart>>

\* It adds, in 64 bits, and stores the lower 32.
add_write_store(p) ==
  /\ adding[p] # 0
  /\ sum' = (reg[p] + value[adding[p]]) % U32
  /\ ended' = ended \cup {adding[p]}
  /\ adding' = [adding EXCEPT ![p] = 0]
  /\ UNCHANGED <<reg, value, apart>>

Next == \E p \in Adder : (\E v \in Value : add_write(p, v)) \/ add_write_store(p)

-----------------------------------------------------------------------------
(* Properties.                                                             *)

\* Every variable stays in its type.
TypeOK ==
  /\ sum \in 0..(U32 - 1) /\ reg \in [Adder -> 0..(U32 - 1)]
  /\ adding \in [Adder -> 0..MaxAdds] /\ value \in Seq(Value)
  /\ ended \subseteq DOMAIN value /\ apart \subseteq DOMAIN value

SumOf(S) == SumFunctionOnSet(value, S) % U32

\* The file sum shows, modulo 2^32, the total of some of the values written to
\* add, and add_write loses only values whose write overlapped another: every
\* other one is counted, once, for ever.
LosesOnlyOverlapped ==
  \E S \in SUBSET ended : ended \cap apart \subseteq S /\ sum = SumOf(S)
==============================================================================
