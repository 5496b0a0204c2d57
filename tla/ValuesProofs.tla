---------------------------- MODULE ValuesProofs ----------------------------
(* Proofs about MCValues: the memory of Vram and the sum of DebugfsSum for   *)
(* any sizes, moduli, values and processes, and with SimAccProofs the        *)
(* theorems about the three models.                                          *)
EXTENDS MCValues, SimAccProofs

-----------------------------------------------------------------------------
(* Vram: the inductive invariant of the mapped memory.                     *)

\* In a loop, what is left of the transfer fits behind the offset.
Fits ==
  \A p \in Writer : pc[p] # "idle" => off[p] + len[p] <= VRAM_SIZE /\ i[p] <= len[p]

\* Call numbers are used once, and only by calls that have begun.
CallInv ==
  /\ \A p \in Writer : call[p] <= calls
  /\ \A p, q \in Writer : p # q /\ call[p] # 0 => call[p] # call[q]
  /\ \A a \in V!Address : vram[a] <= calls

\* In a loop, the bytes of the call are those counted by i.
DoneInv ==
  \A p \in Writer, a \in V!Address :
    pc[p] # "idle" /\ vram[a] = call[p]
      => call[p] # 0 /\ a \in off[p]..(off[p] + i[p] - 1)

\* A process in a loop has a call number.
Numbered == \A p \in Writer : pc[p] # "idle" => call[p] # 0

\* The inductive invariant of the memory.
MemInv == V!TypeOK /\ Fits /\ CallInv /\ DoneInv /\ Numbered /\ V!WritesWhereReported

\* Lengths are cut to what lies between the offset and the end.
LEMMA CutFits ==
  ASSUME NEW o \in 0..VRAM_SIZE, NEW n \in Length
  PROVE  V!Cut(o, n) \in 0..VRAM_SIZE /\ o + V!Cut(o, n) <= VRAM_SIZE
  <1>1. o + n \in 0..(Wrap - 1) /\ VRAM_SIZE \in Nat /\ n \in Nat /\ Wrap \in Nat
    BY ValuesAssumption
  <1>2. (o + n) % Wrap = o + n
    BY <1>1
  <1> QED
    BY <1>1, <1>2 DEF V!Cut

\* V!Init establishes the invariant.
LEMMA MemInit == V!Init => MemInv
  BY ValuesAssumption
  DEF V!Init, MemInv, V!TypeOK, Fits, CallInv, DoneInv, Numbered, V!WritesWhereReported, V!Address, V!Boot

\* The first part of my_read and my_write keeps the invariant.
LEMMA MemEnters ==
  ASSUME MemInv, NEW p \in Writer, NEW n \in Length, NEW loop \in {"read", "write"},
         V!Enter(p, n, loop)
  PROVE  MemInv'
  <1> USE DEF MemInv
  <1>0. VRAM_SIZE \in Nat /\ off[p] \in 0..VRAM_SIZE
    BY ValuesAssumption DEF V!TypeOK
  <1>c. V!Cut(off[p], n) \in 0..VRAM_SIZE /\ off[p] + V!Cut(off[p], n) <= VRAM_SIZE
    BY <1>0, CutFits
  <1>1. V!TypeOK'
    BY <1>0, <1>c DEF V!TypeOK, V!Enter
  <1>2. Fits'
    BY <1>0, <1>c DEF V!TypeOK, V!Enter, Fits
  <1>3. CallInv'
    BY DEF V!TypeOK, V!Enter, CallInv
  <1>4. Numbered'
    BY DEF V!TypeOK, V!Enter, Numbered
  <1>u. \A a \in V!Address : vram'[a] # call'[p]
    BY DEF V!TypeOK, V!Enter, CallInv
  <1>5. DoneInv'
    <2> SUFFICES ASSUME NEW q \in Writer, NEW a \in V!Address,
                        pc'[q] # "idle", vram'[a] = call'[q]
                 PROVE  call'[q] # 0 /\ a \in off'[q]..(off'[q] + i'[q] - 1)
      BY DEF DoneInv
    <2>1. q # p
      BY <1>u
    <2>2. pc'[q] = pc[q] /\ call'[q] = call[q] /\ i'[q] = i[q] /\ off' = off /\ vram' = vram
      BY <2>1 DEF V!TypeOK, V!Enter
    <2> QED
      BY <2>2 DEF DoneInv
  <1>6. V!WritesWhereReported'
    <2> SUFFICES ASSUME NEW q \in Writer, NEW a \in V!Address,
                        pc'[q] = "idle", call'[q] # 0, vram'[a] = call'[q]
                 PROVE  a \in V!Window(q)'
      BY DEF V!WritesWhereReported
    <2>1. q # p
      BY <1>u
    <2>2. /\ pc'[q] = pc[q] /\ call'[q] = call[q] /\ len'[q] = len[q]
          /\ ret'[q] = ret[q] /\ off' = off /\ vram' = vram
      BY <2>1 DEF V!TypeOK, V!Enter
    <2> QED
      BY <2>2 DEF V!WritesWhereReported, V!Window
  <1> QED
    BY <1>1, <1>2, <1>3, <1>4, <1>5, <1>6

\* One byte written keeps the invariant.
LEMMA MemWrites ==
  ASSUME MemInv, NEW p \in Writer, V!my_write_byte(p)
  PROVE  MemInv'
  <1> USE DEF MemInv
  <1>0. VRAM_SIZE \in Nat /\ off[p] + i[p] \in V!Address /\ i[p] + 1 <= len[p]
    <2>1. VRAM_SIZE \in Nat /\ {off[p], len[p], i[p]} \subseteq 0..VRAM_SIZE
      BY ValuesAssumption DEF V!TypeOK
    <2>2. off[p] + len[p] <= VRAM_SIZE /\ i[p] < len[p]
      BY DEF Fits, V!my_write_byte
    <2> QED
      BY <2>1, <2>2 DEF V!Address
  <1>1. V!TypeOK'
    BY <1>0 DEF V!TypeOK, V!my_write_byte
  <1>2. Fits'
    BY <1>0 DEF V!TypeOK, V!my_write_byte, Fits
  <1>3. CallInv'
    <2>1. \A q \in Writer : call'[q] <= calls'
      BY DEF CallInv, V!my_write_byte
    <2>2. \A q, r \in Writer : q # r /\ call'[q] # 0 => call'[q] # call'[r]
      BY DEF CallInv, V!my_write_byte
    <2>3. ASSUME NEW a \in V!Address PROVE vram'[a] <= calls'
      <3>1. vram[a] <= calls /\ call[p] <= calls /\ calls' = calls
        BY DEF CallInv, V!my_write_byte
      <3>2. vram'[a] = IF a = off[p] + i[p] THEN call[p] ELSE vram[a]
        BY <1>0 DEF V!TypeOK, V!my_write_byte
      <3> QED
        BY <3>1, <3>2
    <2> QED
      BY <2>1, <2>2, <2>3 DEF CallInv
  <1>4. Numbered'
    BY DEF V!TypeOK, V!my_write_byte, Numbered
  <1>5. DoneInv'
    <2> SUFFICES ASSUME NEW q \in Writer, NEW a \in V!Address,
                        pc'[q] # "idle", vram'[a] = call'[q]
                 PROVE  call'[q] # 0 /\ a \in off'[q]..(off'[q] + i'[q] - 1)
      BY DEF DoneInv
    <2>1. CASE q = p
      BY <2>1, <1>0 DEF V!TypeOK, V!my_write_byte, DoneInv, Numbered, V!Address
    <2>2. CASE q # p
      <3>1. call[p] # 0 /\ call[p] # call[q]
        BY <2>2 DEF CallInv, Numbered, V!my_write_byte
      <3>2. vram[a] = call[q] /\ pc[q] # "idle" /\ off' = off /\ i'[q] = i[q] /\ call' = call
        BY <3>1, <2>2, <1>0 DEF V!TypeOK, V!my_write_byte
      <3> QED
        BY <3>2 DEF DoneInv
    <2> QED
      BY <2>1, <2>2
  <1>6. V!WritesWhereReported'
    <2> SUFFICES ASSUME NEW q \in Writer, NEW a \in V!Address,
                        pc'[q] = "idle", call'[q] # 0, vram'[a] = call'[q]
                 PROVE  a \in V!Window(q)'
      BY DEF V!WritesWhereReported
    <2>1. q # p
      BY DEF V!my_write_byte
    <2>2. call[p] # 0 /\ call[p] # call[q]
      BY <2>1 DEF CallInv, Numbered, V!my_write_byte
    <2>3. vram[a] = call[q] /\ pc[q] = "idle" /\ UNCHANGED <<off, len, ret, call>>
      BY <2>2, <1>0 DEF V!TypeOK, V!my_write_byte
    <2> QED
      BY <2>3 DEF V!WritesWhereReported, V!Window
  <1> QED
    BY <1>1, <1>2, <1>3, <1>4, <1>5, <1>6

\* The other steps keep the invariant.
LEMMA MemStep == MemInv /\ [V!Next]_vvars => MemInv'
  <1> SUFFICES ASSUME MemInv, [V!Next]_vvars PROVE MemInv'
    OBVIOUS
  <1> USE DEF MemInv
  <1>0. VRAM_SIZE \in Nat
    BY ValuesAssumption
  <1>1. ASSUME NEW p \in Writer, NEW n \in Length, V!my_read(p, n) PROVE MemInv'
    BY <1>1, MemEnters DEF V!my_read
  <1>2. ASSUME NEW p \in Writer, NEW n \in Length, V!my_write(p, n) PROVE MemInv'
    BY <1>2, MemEnters DEF V!my_write
  <1>3. ASSUME NEW p \in Writer, V!my_read_byte(p) PROVE MemInv'
    <2>1. V!TypeOK' /\ Fits' /\ CallInv' /\ Numbered'
      BY <1>0, <1>3 DEF V!TypeOK, Fits, CallInv, Numbered, V!my_read_byte
    <2>2. DoneInv'
      BY <1>0, <1>3 DEF V!TypeOK, DoneInv, V!my_read_byte
    <2>3. V!WritesWhereReported'
      BY <1>3 DEF V!TypeOK, V!WritesWhereReported, V!Window, V!my_read_byte
    <2> QED
      BY <2>1, <2>2, <2>3
  <1>4. ASSUME NEW p \in Writer, V!my_write_byte(p) PROVE MemInv'
    BY <1>4, MemWrites
  <1>5. ASSUME NEW p \in Writer, V!my_fault(p) PROVE MemInv'
    <2>1. V!TypeOK' /\ Fits' /\ CallInv' /\ Numbered' /\ DoneInv'
      BY <1>0, <1>5 DEF V!TypeOK, Fits, CallInv, Numbered, DoneInv, V!my_fault
    <2>2. V!WritesWhereReported'
      <3> SUFFICES ASSUME NEW q \in Writer, NEW a \in V!Address,
                          pc'[q] = "idle", call'[q] # 0, vram'[a] = call'[q]
                   PROVE  a \in V!Window(q)'
        BY DEF V!WritesWhereReported
      <3>1. CASE q = p
        <4>1. /\ ret'[p] = V!EFAULT /\ UNCHANGED <<off, len>>
              /\ pc[p] # "idle" /\ i[p] < len[p] /\ vram[a] = call[p]
          BY <1>5, <3>1 DEF V!TypeOK, V!my_fault
        <4>2. a \in off[p]..(off[p] + i[p] - 1)
          BY <4>1 DEF DoneInv
        <4>3. a \in off[p]..(off[p] + len[p] - 1)
          BY <4>1, <4>2, <1>0 DEF V!TypeOK
        <4> QED
          BY <4>1, <4>3, <3>1 DEF V!Window
      <3>2. CASE q # p
        BY <3>2, <1>5 DEF V!TypeOK, V!WritesWhereReported, V!Window, V!my_fault
      <3> QED
        BY <3>1, <3>2
    <2> QED
      BY <2>1, <2>2
  <1>6. ASSUME NEW p \in Writer, V!my_return(p) PROVE MemInv'
    <2>1. V!TypeOK' /\ Fits' /\ CallInv' /\ Numbered' /\ DoneInv'
      BY <1>0, <1>6 DEF V!TypeOK, Fits, CallInv, Numbered, DoneInv, V!my_return
    <2>2. V!WritesWhereReported'
      <3> SUFFICES ASSUME NEW q \in Writer, NEW a \in V!Address,
                          pc'[q] = "idle", call'[q] # 0, vram'[a] = call'[q]
                   PROVE  a \in V!Window(q)'
        BY DEF V!WritesWhereReported
      <3>1. CASE q = p
        <4>1. /\ off'[p] = off[p] + len[p] /\ ret'[p] = len[p] /\ ret'[p] # V!EFAULT
              /\ pc[p] # "idle" /\ i[p] >= len[p] /\ vram[a] = call[p]
          BY <1>0, <1>6, <3>1 DEF V!TypeOK, V!my_return, V!EFAULT
        <4>2. a \in off[p]..(off[p] + i[p] - 1) /\ i[p] = len[p]
          BY <4>1, <1>0 DEF DoneInv, Fits, V!TypeOK
        <4> QED
          BY <4>1, <4>2, <3>1, <1>0 DEF V!Window, V!TypeOK
      <3>2. CASE q # p
        BY <3>2, <1>6 DEF V!TypeOK, V!WritesWhereReported, V!Window, V!my_return
      <3> QED
        BY <3>1, <3>2
    <2> QED
      BY <2>1, <2>2
  <1>7. ASSUME NEW p \in Writer, V!my_open(p) PROVE MemInv'
    <2>1. V!TypeOK' /\ Fits' /\ Numbered'
      BY <1>0, <1>7 DEF V!TypeOK, Fits, Numbered, V!my_open
    <2>2. CallInv'
      BY <1>7 DEF V!TypeOK, CallInv, V!my_open
    <2>3. DoneInv'
      BY <1>7 DEF V!TypeOK, DoneInv, V!my_open
    <2>4. V!WritesWhereReported'
      BY <1>7 DEF V!TypeOK, V!WritesWhereReported, V!Window, V!my_open
    <2> QED
      BY <2>1, <2>2, <2>3, <2>4
  <1>8. CASE UNCHANGED vvars
    BY <1>8 DEF vvars, V!TypeOK, Fits, CallInv, Numbered, DoneInv, V!WritesWhereReported, V!Window
  <1> QED
    BY <1>1, <1>2, <1>3, <1>4, <1>5, <1>6, <1>7, <1>8 DEF V!Next

-----------------------------------------------------------------------------
(* DebugfsSum: what the sum counts.                                        *)

\* What the reference sum of DebugfsSum folds to, as a sum over a set.
LEMMA SumOfIs == \A A : D!SumOf(A) = Sum(value, A) % U32
BY Zenon DEF D!SumOf, D!SumFunctionOnSet, D!FoldFunctionOnSet, D!MapThenFoldSet, Sum, SumFun, IsSumFun, SumStep, Pick

\* The same, for the values after a step.
LEMMA SumOfNext == \A A : D!SumOf(A)' = Sum(value', A) % U32
BY Zenon DEF D!SumOf, D!SumFunctionOnSet, D!FoldFunctionOnSet, D!MapThenFoldSet, Sum, SumFun, IsSumFun, SumStep, Pick

\* x is the total of some of the adds that have ended, and all that were apart.
Counts(A, x) == A \subseteq ended /\ ended \cap apart \subseteq A /\ x = D!SumOf(A)

\* The inductive invariant: the sum and every loaded copy of it count some of
\* the adds that ended and all that were apart; an add in progress has a number
\* of its own, and is apart only while it is the only one.
AddInv ==
  /\ D!TypeOK
  /\ \A p \in Writer : adding[p] # 0 => adding[p] \in DOMAIN value \ ended
  /\ \A p, q \in Writer : p # q /\ adding[p] # 0 /\ adding[q] # 0 =>
       adding[p] # adding[q] /\ adding[p] \notin apart
  /\ \E A : Counts(A, total)
  /\ \A p \in Writer : adding[p] # 0 => \E A : Counts(A, reg[p])

\* Loading the module establishes it.
LEMMA AddInit == D!Init => AddInv
<1> SUFFICES ASSUME D!Init PROVE AddInv
  OBVIOUS
<1> USE ValuesAssumption
<1>1. Counts({}, total)
  <2>1. D!SumOf({}) = 0 % U32
    BY SumEmpty, SumOfIs
  <2> QED BY <2>1 DEF Counts, D!Init
<1>2. D!TypeOK
  <2>1. value = <<>> /\ value \in Seq(Value)
    BY DEF D!Init
  <2> QED BY <2>1 DEF D!Init, D!TypeOK
<1> QED BY <1>1, <1>2 DEF AddInv, D!Init

\* The values written so far.
LEMMA Values ==
  ASSUME D!TypeOK
  PROVE  /\ value \in Seq(Value) /\ Len(value) \in Nat /\ DOMAIN value = 1..Len(value)
         /\ \A n \in 1..Len(value) : value[n] \in Nat
         /\ \A A \in SUBSET (1..Len(value)) : IsFiniteSet(A)
<1>1. value \in Seq(Value) /\ Len(value) \in Nat /\ DOMAIN value = 1..Len(value)
  BY DEF D!TypeOK
<1>2. \A n \in 1..Len(value) : value[n] \in Nat
  <2>1. \A n \in 1..Len(value) : value[n] \in Value
    BY <1>1
  <2> QED BY <2>1, Zenon, ValuesAssumption
<1>3. \A A \in SUBSET (1..Len(value)) : IsFiniteSet(A)
  <2>1. IsFiniteSet(1..Len(value))
    BY <1>1, FS_Interval
  <2> QED BY <2>1, FS_Subset, Zenon
<1> QED BY <1>1, <1>2, <1>3

\* An add begins.
LEMMA AddBegins ==
  ASSUME AddInv, NEW p \in Writer, NEW v \in Value, D!add_write(p, v)
  PROVE  AddInv'
<1> USE ValuesAssumption
<1> DEFINE n == Len(value) + 1
<1>0. D!TypeOK
  BY DEF AddInv
<1>1. /\ value \in Seq(Value) /\ Len(value) \in Nat /\ DOMAIN value = 1..Len(value)
      /\ \A A \in SUBSET (1..Len(value)) : IsFiniteSet(A)
  BY <1>0, Values
<1>2. /\ adding[p] = 0 /\ n <= MaxAdds /\ value' = Append(value, v)
      /\ adding' = [adding EXCEPT ![p] = n] /\ reg' = [reg EXCEPT ![p] = total]
      /\ apart' = IF D!Busy = {} THEN apart \cup {n} ELSE apart \ D!Busy
      /\ UNCHANGED <<total, ended>>
  BY <1>1 DEF D!add_write
<1>3. /\ value' \in Seq(Value) /\ Len(value') = n /\ DOMAIN value' = 1..n
      /\ \A k \in 1..Len(value) : value'[k] = value[k]
  BY <1>1, <1>2
<1> HIDE DEF n
<1>4. n \in Nat \ {0} /\ n \notin 1..Len(value) /\ 1..Len(value) \subseteq 1..n /\ n \in 1..n
  BY <1>1 DEF n
<1>5. /\ adding'[p] = n /\ reg'[p] = total
      /\ \A q \in Writer : q # p => adding'[q] = adding[q] /\ reg'[q] = reg[q]
  BY <1>0, <1>2 DEF D!TypeOK
<1>6. D!TypeOK'
  <2>1. ended' \subseteq DOMAIN value' /\ apart' \subseteq DOMAIN value'
    BY <1>0, <1>1, <1>2, <1>3, <1>4 DEF D!TypeOK
  <2>2. adding' \in [Writer -> 0..MaxAdds] /\ reg' \in [Writer -> 0..(U32 - 1)]
    BY <1>0, <1>2, <1>4 DEF D!TypeOK
  <2> QED BY <1>0, <1>2, <1>3, <2>1, <2>2 DEF D!TypeOK
<1>7. ended \subseteq 1..Len(value) /\ apart \subseteq 1..Len(value)
  BY <1>0, <1>1 DEF D!TypeOK
<1>8. ASSUME NEW A, NEW x, Counts(A, x) PROVE \E B : Counts(B, x)'
  <2>1. A \subseteq ended' /\ ended' \cap apart' \subseteq A
    BY <1>2, <1>4, <1>7, <1>8 DEF Counts
  <2>2. Sum(value', A) = Sum(value, A)
    <3>1. IsFiniteSet(A) /\ A \subseteq 1..Len(value)
      BY <1>1, <1>7, <1>8 DEF Counts
    <3>2. \A k \in A : value'[k] = value[k]
      BY <1>3, <3>1
    <3> QED BY <3>1, <3>2, SumAgree, Zenon
  <2>3. x = D!SumOf(A)'
    BY <1>8, <2>2, SumOfIs, SumOfNext DEF Counts
  <2>4. x = D!SumOf(A) /\ A \subseteq ended
    BY <1>8 DEF Counts
  <2> QED BY <2>1, <2>3 DEF Counts
<1>9. \A q \in Writer : adding'[q] # 0 => adding'[q] \in DOMAIN value' \ ended'
  BY <1>1, <1>2, <1>3, <1>4, <1>5, <1>7 DEF AddInv
<1>10. ASSUME NEW q \in Writer, NEW r \in Writer, q # r, adding'[q] # 0, adding'[r] # 0
       PROVE  adding'[q] # adding'[r] /\ adding'[q] \notin apart'
  <2>1. \A t \in Writer : t # p /\ adding[t] # 0 => adding[t] \in D!Busy /\ adding[t] \in 1..Len(value)
    BY <1>1 DEF AddInv, D!Busy
  <2>2. D!Busy # {} /\ apart' = apart \ D!Busy
    BY <1>2, <1>5, <1>10, <2>1
  <2>3. CASE q = p
    BY <1>4, <1>5, <1>7, <1>10, <2>1, <2>2, <2>3
  <2>4. CASE r = p
    BY <1>4, <1>5, <1>7, <1>10, <2>1, <2>2, <2>4
  <2>5. CASE q # p /\ r # p
    BY <1>5, <1>10, <2>2, <2>5 DEF AddInv
  <2> QED BY <2>3, <2>4, <2>5
<1>11. \E A : Counts(A, total)'
  <2>1. PICK A : Counts(A, total)
    BY DEF AddInv
  <2>2. PICK B : Counts(B, total)'
    BY <1>2, <1>8, <2>1 DEF Counts
  <2> QED BY <2>2
<1>12. ASSUME NEW q \in Writer, adding'[q] # 0 PROVE \E A : Counts(A, reg[q])'
  <2>1. \E A : Counts(A, reg'[q])
    BY <1>5, <1>12 DEF AddInv
  <2> QED BY <1>8, <2>1 DEF Counts
<1> QED BY <1>6, <1>9, <1>10, <1>11, <1>12 DEF AddInv

\* An add ends: what it has loaded counts, and its value.
LEMMA AddEnds ==
  ASSUME AddInv, NEW p \in Writer, D!add_write_store(p)
  PROVE  AddInv'
<1> USE ValuesAssumption
<1> DEFINE n == adding[p]
<1>0. D!TypeOK
  BY DEF AddInv
<1>1. /\ DOMAIN value = 1..Len(value) /\ \A k \in 1..Len(value) : value[k] \in Nat
      /\ \A A \in SUBSET (1..Len(value)) : IsFiniteSet(A)
  BY <1>0, Values
<1>2. /\ n # 0 /\ total' = (reg[p] + value[n]) % U32 /\ ended' = ended \cup {n}
      /\ adding' = [adding EXCEPT ![p] = 0] /\ UNCHANGED <<reg, value, apart>>
  BY DEF D!add_write_store
<1>3. n \in 1..Len(value) /\ n \notin ended /\ ended \subseteq 1..Len(value)
  BY <1>0, <1>1, <1>2 DEF AddInv, D!TypeOK
<1>4. adding'[p] = 0 /\ \A q \in Writer : q # p => adding'[q] = adding[q]
  BY <1>0, <1>2 DEF D!TypeOK
<1>5. PICK A : Counts(A, reg[p])
  BY <1>2 DEF AddInv
<1> HIDE DEF n
<1>6. value[n] \in Nat /\ reg[p] \in Nat
  BY <1>0, <1>1, <1>3 DEF D!TypeOK
<1>7. D!TypeOK'
  <2>1. total' \in 0..(U32 - 1)
    <3>1. reg[p] + value[n] \in Nat
      BY <1>6
    <3> QED BY <1>2, <3>1, ModLe, Zenon
  <2>2. adding' \in [Writer -> 0..MaxAdds]
    BY <1>0, <1>2 DEF D!TypeOK
  <2>3. ended' \subseteq DOMAIN value'
    BY <1>1, <1>2, <1>3
  <2> QED BY <1>0, <1>2, <2>1, <2>2, <2>3 DEF D!TypeOK
<1>8. \A q \in Writer : adding'[q] # 0 => adding'[q] \in DOMAIN value' \ ended'
  <2>1. \A q \in Writer : q # p /\ adding[q] # 0 => adding[q] # n
    BY <1>2 DEF AddInv, n
  <2>2. \A q \in Writer : adding[q] # 0 => adding[q] \in DOMAIN value \ ended
    BY DEF AddInv
  <2>3. value' = value /\ ended' = ended \cup {n}
    BY <1>2
  <2> QED BY <1>4, <2>1, <2>2, <2>3
<1>9. \A q, r \in Writer : q # r /\ adding'[q] # 0 /\ adding'[r] # 0 =>
        adding'[q] # adding'[r] /\ adding'[q] \notin apart'
  BY <1>2, <1>4 DEF AddInv
<1>10. \E B : Counts(B, total)'
  <2>1. A \subseteq ended /\ ended \cap apart \subseteq A /\ reg[p] = Sum(value, A) % U32
    BY <1>5, SumOfIs DEF Counts
  <2>2. n \notin A /\ IsFiniteSet(A) /\ \A k \in A \cup {n} : value[k] \in Nat
    BY <1>1, <1>3, <2>1
  <2>3. Sum(value, A \cup {n}) = Sum(value, A) + value[n]
    BY <2>2, SumAdd, Zenon
  <2>4. Sum(value, A) \in Nat
    BY <2>2, SumNat
  <2>5. total' = Sum(value, A \cup {n}) % U32
    <3>1. ((Sum(value, A) % U32) + value[n]) % U32 = (Sum(value, A) + value[n]) % U32
      BY <1>6, <2>4, ModAdd, Zenon
    <3> QED BY <1>2, <2>1, <2>3, <3>1
  <2>6. PICK B : B = A \cup {n}
    OBVIOUS
  <2>7. B \subseteq ended' /\ ended' \cap apart' \subseteq B /\ total' = Sum(value', B) % U32
    BY <1>2, <2>1, <2>5, <2>6
  <2>8. total' = D!SumOf(B)'
    BY <2>7, SumOfNext
  <2> QED BY <2>7, <2>8 DEF Counts
<1>11. ASSUME NEW q \in Writer, adding'[q] # 0 PROVE \E B : Counts(B, reg[q])'
  <2>1. q # p /\ adding[q] # 0 /\ n \notin apart
    BY <1>2, <1>4, <1>11 DEF AddInv, n
  <2>2. PICK B : Counts(B, reg[q])
    BY <2>1 DEF AddInv
  <2>3. B \subseteq ended' /\ ended' \cap apart' \subseteq B /\ reg'[q] = Sum(value', B) % U32
    BY <1>2, <2>1, <2>2, SumOfIs DEF Counts
  <2>4. reg'[q] = D!SumOf(B)'
    BY <2>3, SumOfNext
  <2> QED BY <2>3, <2>4 DEF Counts
<1> QED BY <1>7, <1>8, <1>9, <1>10, <1>11 DEF AddInv

\* Every step of DebugfsSum keeps the invariant.
LEMMA AddStep == AddInv /\ [D!Next]_dvars => AddInv'
<1> SUFFICES ASSUME AddInv, [D!Next]_dvars PROVE AddInv'
  OBVIOUS
<1>1. CASE UNCHANGED dvars
  <2>1. \A A, x : Counts(A, x) => A \subseteq ended' /\ ended' \cap apart' \subseteq A /\ x = Sum(value', A) % U32
    BY <1>1, SumOfIs DEF Counts, dvars
  <2>2. \A A, x : Counts(A, x) => Counts(A, x)'
    BY <2>1, SumOfNext DEF Counts
  <2>3. D!TypeOK'
    BY <1>1 DEF AddInv, dvars, D!TypeOK
  <2> QED BY <1>1, <2>2, <2>3 DEF AddInv, dvars
<1> QED BY <1>1, AddBegins, AddEnds DEF D!Next

-----------------------------------------------------------------------------
(* The theorems about the three models together.                           *)

\* Which model runs is chosen at the start: the invariants hold side by side.
ValuesInv == MemInv /\ AccInv /\ SumInv /\ AddInv

\* They hold at the start.
LEMMA ValuesInit == AllInit => ValuesInv
BY MemInit, AccInit, SumInit, AddInit DEF AllInit, ValuesInv

\* A step of one model keeps its own invariant and leaves the others' variables alone.
LEMMA ValuesStep == ValuesInv /\ [AllNext]_all => ValuesInv'
<1> SUFFICES ASSUME ValuesInv, [AllNext]_all PROVE ValuesInv'
  OBVIOUS
<1>1. [Next]_vars /\ [V!Next]_vvars /\ [D!Next]_dvars
  BY DEF AllNext, all
<1> QED BY <1>1, MemStep, AccStep, SumStays, AddStep DEF ValuesInv

\* The variables of my_read and my_write, of simacc_write and of add_write keep
\* their types: offsets and copies stay in the memory and in input_buf.
THEOREM TypesCorrect == AllSpec => []TypesOK
<1>1. ValuesInv => TypesOK
  BY DEF ValuesInv, MemInv, AccInv, AddInv, TypesOK
<1> QED BY <1>1, ValuesInit, ValuesStep, PTL DEF AllSpec

\* The result of a simacc_write that no other overlaps is the sum of the numbers
\* of its text and of those behind it in input_buf, modulo unsigned long,
\* whatever writes that failed or overlapped have left there.
THEOREM BufferSummed == AllSpec => []SumOfBuffer
<1>1. ValuesInv => SumOfBuffer
  BY SumShown DEF ValuesInv
<1> QED BY <1>1, ValuesInit, ValuesStep, PTL DEF AllSpec

\* The sprintf of simacc_write needs RESULT_SIZE digits in input_buf to leave
\* result, however writers overlap.
THEOREM SumFits == AllSpec => []ResultFits
<1>1. ValuesInv => ResultFits
  BY AccFits DEF ValuesInv
<1> QED BY <1>1, ValuesInit, ValuesStep, PTL DEF AllSpec

\* The u32 sum of debugfs_basic.c is, modulo its width, the sum of some of the
\* values added, among them all whose add_write no other overlapped.
THEOREM OnlyOverlappedLost == AllSpec => []LosesOnlyOverlapped
<1>1. ValuesInv => LosesOnlyOverlapped
  BY DEF ValuesInv, AddInv, Counts, LosesOnlyOverlapped, D!LosesOnlyOverlapped
<1> QED BY <1>1, ValuesInit, ValuesStep, PTL DEF AllSpec

\* No ioread8 or iowrite8 of my_read and my_write leaves the mapped memory.
THEOREM AccessesInside == AllSpec => []AccessInside
<1>1. ValuesInv => AccessInside
  BY ValuesAssumption DEF ValuesInv, MemInv, AccessInside, V!AccessInside, V!TypeOK, Fits, V!Address
<1> QED BY <1>1, ValuesInit, ValuesStep, PTL DEF AllSpec

\* A finished my_write leaves bytes only where its result and offset say.
THEOREM WritesAccounted == AllSpec => []WritesWhereReported
<1>1. ValuesInv => WritesWhereReported
  BY DEF ValuesInv, MemInv, WritesWhereReported
<1> QED BY <1>1, ValuesInit, ValuesStep, PTL DEF AllSpec
==============================================================================
