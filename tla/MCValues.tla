------------------------------- MODULE MCValues -------------------------------
(* The modules about what transfers to and from a module's memory leave      *)
(* there: which one runs is chosen at the start, and the others stay in      *)
(* their initial states.                                                     *)
EXTENDS SimAcc

CONSTANTS
  VRAM_SIZE, Length, Wrap, MaxCalls,  \* see Vram
  U32, Value, MaxAdds                 \* see DebugfsSum

\* The system call layer cuts lengths at 2^31 - 4096, so that an offset and a
\* length never wrap around a 64-bit size_t.
ASSUME ValuesAssumption ==
  /\ VRAM_SIZE \in Nat \ {0} /\ Wrap \in Nat /\ MaxCalls \in Nat
  /\ Length \subseteq Nat /\ \A n \in Length : VRAM_SIZE + n < Wrap
  /\ U32 \in Nat \ {0} /\ Value \subseteq Nat /\ MaxAdds \in Nat

VARIABLES
  model,
  vram, off, pc, len, i, call, ret, calls,
  total, adding, reg, value, ended, apart

vvars == <<vram, off, pc, len, i, call, ret, calls>>
dvars == <<total, adding, reg, value, ended, apart>>
all == <<model, vars, vvars, dvars>>

V == INSTANCE Vram WITH Proc <- Writer
D == INSTANCE DebugfsSum WITH Adder <- Writer, sum <- total

AllInit ==
  /\ model \in {"SimAcc", "Vram", "DebugfsSum"}
  /\ Init /\ V!Init /\ D!Init

AllNext ==
  \/ model = "SimAcc" /\ Next /\ UNCHANGED <<model, vvars, dvars>>
  \/ model = "Vram" /\ V!Next /\ UNCHANGED <<model, vars, dvars>>
  \/ model = "DebugfsSum" /\ D!Next /\ UNCHANGED <<model, vars, vvars>>

AllSpec == AllInit /\ [][AllNext]_all

\* Every text that fits in input_buf over a digit and a separator, and a longer one.
Texts == UNION {[1..n -> {9, 12}] : n \in 0..MAX_INPUT_SIZE} \cup {<<9, 12, 9, 9>>}

-----------------------------------------------------------------------------
\* The type invariants of the modules.
TypesOK == TypeOK /\ V!TypeOK /\ D!TypeOK

\* hardware_map.c: my_read and my_write stay in the mapped memory.
AccessInside == V!AccessInside

\* hardware_map.c: my_write leaves bytes only where its result says.
WritesWhereReported == V!WritesWhereReported

\* debugfs_basic.c: add_write loses only values whose adds overlapped.
LosesOnlyOverlapped == D!LosesOnlyOverlapped
==============================================================================
