-------------------------------- MODULE SimAcc --------------------------------
(***************************************************************************)
(* /proc/simacc (file_proc.c): a write stores text in input_buf and leaves *)
(* the sum of its numbers in result.  The character constant the code      *)
(* means as NUL is a multi-character one: stored in a char it is ';', and  *)
(* no char equals it, so the loop always walks the whole buffer.  Nothing  *)
(* serialises the writers, which share input_buf and result.               *)
(***************************************************************************)
EXTENDS Integers, Sequences, FiniteSetsExt

CONSTANTS
  Writer,         \* processes that write
  MAX_INPUT_SIZE, \* the size of input_buf
  RESULT_SIZE,    \* the size of result, 16
  ULong,          \* unsigned long is computed modulo ULong
  Text,           \* the texts written: sequences of characters, none of them Nul
  MaxWrites       \* bound: writes

Digit == 0..9   \* the characters '0' to '9'
Semi == 10      \* ';'
Nul == 11       \* the byte of a cleared buffer
Space == 12     \* any other character
Char == Digit \cup {Semi, Nul, Space}

ASSUME SimAccAssumption ==
  /\ MAX_INPUT_SIZE \in Nat \ {0} /\ RESULT_SIZE \in Nat \ {0} /\ ULong \in Nat \ {0}
  /\ \A t \in Text : t \in Seq(Char)
  /\ MaxWrites \in Nat

Unset == -1     \* result holds "0;", as init_simacc leaves it
Mixed == -2     \* result holds characters of two numbers

VARIABLES
  input_buf, \* the bytes of the buffer, from index 0
  result,    \* the number in result, Unset or Mixed
  wpc,       \* per writer: where simacc_write is
  text,      \* per writer: the text of its last write
  done,      \* per writer: bytes copied, then bytes the loop has read
  num, sum,  \* per writer: the locals of the loop
  digits,    \* per writer: digits the loop has read
  single,    \* per writer: no other write overlapped its last one
  behind,    \* per writer: what lay behind the text when its copy began
  printed,   \* the writer result is from, or Unset
  begun      \* writes so far

vars == <<input_buf, result, wpc, text, done, num, sum, digits, single, behind,
          printed, begun>>
locals == <<num, sum, digits>>

\* init_simacc.
Init ==
  /\ input_buf = [i \in 0..(MAX_INPUT_SIZE - 1) |->
                    IF i = MAX_INPUT_SIZE - 1 THEN Semi ELSE Nul]
  /\ result = Unset /\ printed = Unset /\ begun = 0
  /\ wpc = [w \in Writer |-> "idle"] /\ text = [w \in Writer |-> <<>>]
  /\ done = [w \in Writer |-> 0] /\ num = [w \in Writer |-> 0]
  /\ sum = [w \in Writer |-> 0] /\ digits = [w \in Writer |-> 0]
  /\ single = [w \in Writer |-> FALSE] /\ behind = [w \in Writer |-> <<>>]

mut_no_clamp(t) == Len(t)

\* len, from count.
CopyLen(t) == Min({Len(t), MAX_INPUT_SIZE})

\* The buffer from index n on.
From(n) == [k \in 1..Max({0, MAX_INPUT_SIZE - n}) |-> input_buf[n + k - 1]]

simacc_write(w, t) ==
  /\ wpc[w] = "idle" /\ begun < MaxWrites
  /\ begun' = begun + 1
  /\ text' = [text EXCEPT ![w] = t] /\ done' = [done EXCEPT ![w] = 0]
  /\ single' = [v \in Writer |-> IF v = w THEN \A u \in Writer \ {w} : wpc[u] = "idle"
                                         ELSE single[v] /\ wpc[v] = "idle"]
  /\ behind' = [behind EXCEPT ![w] = From(CopyLen(t) + 1)]
  /\ wpc' = [wpc EXCEPT ![w] = "copy"]
  /\ UNCHANGED <<input_buf, result, locals, printed>>

\* One byte of copy_from_user.
simacc_write_copy(w) ==
  /\ wpc[w] = "copy" /\ done[w] < CopyLen(text[w])
  /\ input_buf' = [input_buf EXCEPT ![done[w]] = text[w][done[w] + 1]]
  /\ done' = [done EXCEPT ![w] = @ + 1]
  /\ UNCHANGED <<result, wpc, text, locals, single, behind, printed, begun>>

\* User memory faults: the rest is cleared, and -EFAULT leaves no end mark.
simacc_write_fault(w) ==
  /\ wpc[w] = "copy" /\ done[w] < CopyLen(text[w])
  /\ input_buf' = [i \in DOMAIN input_buf |->
                     IF i \in done[w]..(CopyLen(text[w]) - 1) THEN Nul ELSE input_buf[i]]
  /\ wpc' = [wpc EXCEPT ![w] = "idle"]
  /\ UNCHANGED <<result, text, done, locals, single, behind, printed, begun>>

mut_no_end_mark(w) ==
  /\ wpc[w] = "copy" /\ done[w] = CopyLen(text[w])
  /\ done' = [done EXCEPT ![w] = 0] /\ digits' = [digits EXCEPT ![w] = 0]
  /\ num' = [num EXCEPT ![w] = 0] /\ sum' = [sum EXCEPT ![w] = 0]
  /\ wpc' = [wpc EXCEPT ![w] = "loop"]
  /\ UNCHANGED <<input_buf, result, text, single, behind, printed, begun>>

\* input_buf[len] = ';', behind the buffer when len is its size.
simacc_write_mark(w) ==
  /\ wpc[w] = "copy" /\ done[w] = CopyLen(text[w])
  /\ input_buf' = [i \in DOMAIN input_buf |-> IF i = done[w] THEN Semi ELSE input_buf[i]]
  /\ done' = [done EXCEPT ![w] = 0] /\ digits' = [digits EXCEPT ![w] = 0]
  /\ num' = [num EXCEPT ![w] = 0] /\ sum' = [sum EXCEPT ![w] = 0]
  /\ wpc' = [wpc EXCEPT ![w] = "loop"]
  /\ UNCHANGED <<result, text, single, behind, printed, begun>>

mut_num_kept(w) ==
  /\ wpc[w] = "loop" /\ done[w] < MAX_INPUT_SIZE
  /\ LET c == input_buf[done[w]] IN
     IF c \in Digit
       THEN /\ num' = [num EXCEPT ![w] = (@ * 10 + c) % ULong]
            /\ digits' = [digits EXCEPT ![w] = @ + 1] /\ UNCHANGED sum
       ELSE /\ sum' = [sum EXCEPT ![w] = (@ + num[w]) % ULong] /\ UNCHANGED <<num, digits>>
  /\ done' = [done EXCEPT ![w] = @ + 1]
  /\ UNCHANGED <<input_buf, result, wpc, text, single, behind, printed, begun>>

\* One turn of the loop: a number counts when something else follows it.
simacc_write_loop(w) ==
  /\ wpc[w] = "loop" /\ done[w] < MAX_INPUT_SIZE
  /\ LET c == input_buf[done[w]] IN
     IF c \in Digit
       THEN /\ num' = [num EXCEPT ![w] = (@ * 10 + c) % ULong]
            /\ digits' = [digits EXCEPT ![w] = @ + 1] /\ UNCHANGED sum
       ELSE /\ sum' = [sum EXCEPT ![w] = (@ + num[w]) % ULong]
            /\ num' = [num EXCEPT ![w] = 0] /\ UNCHANGED digits
  /\ done' = [done EXCEPT ![w] = @ + 1]
  /\ UNCHANGED <<input_buf, result, wpc, text, single, behind, printed, begun>>

\* sprintf to result; two at a time may mix their characters.
simacc_write_print(w) ==
  /\ wpc[w] = "loop" /\ done[w] = MAX_INPUT_SIZE
  /\ \/ result' = sum[w]
     \/ result' = Mixed /\ \E v \in Writer \ {w} : wpc[v] = "loop" /\ done[v] = MAX_INPUT_SIZE
  /\ printed' = w
  /\ wpc' = [wpc EXCEPT ![w] = "idle"]
  /\ UNCHANGED <<input_buf, text, done, locals, single, behind, begun>>

Next ==
  \E w \in Writer :
    \/ \E t \in Text : simacc_write(w, t)
    \/ simacc_write_copy(w) \/ simacc_write_fault(w) \/ simacc_write_mark(w)
    \/ simacc_write_loop(w) \/ simacc_write_print(w)

-----------------------------------------------------------------------------
(* The reference: a digit counts ten times for each digit that directly    *)
(* follows it, if its number is followed by something else.                *)

Pow10[n \in Nat] == IF n = 0 THEN 1 ELSE 10 * Pow10[n - 1]

Following(t, k) == {j \in (k + 1)..Len(t) : \A m \in (k + 1)..j : t[m] \in Digit}

Weight(t) == [k \in DOMAIN t |-> t[k] * Pow10[Cardinality(Following(t, k))]]

Total(t) ==
  SumFunctionOnSet(Weight(t),
    {k \in DOMAIN t : t[k] \in Digit /\ \E j \in k..Len(t) : t[j] \notin Digit})

-----------------------------------------------------------------------------
(* Properties.                                                             *)

\* Every variable stays in its type.
TypeOK ==
  /\ input_buf \in [0..(MAX_INPUT_SIZE - 1) -> Char]
  /\ result \in 0..(ULong - 1) \cup {Unset, Mixed} /\ printed \in Writer \cup {Unset}
  /\ wpc \in [Writer -> {"idle", "copy", "loop"}]
  /\ done \in [Writer -> 0..MAX_INPUT_SIZE] /\ digits \in [Writer -> 0..MAX_INPUT_SIZE]
  /\ num \in [Writer -> 0..(ULong - 1)] /\ sum \in [Writer -> 0..(ULong - 1)]
  /\ begun \in 0..MaxWrites

\* result is from a write of w that no other overlapped and whose text, with the
\* end mark, fits in input_buf.
ShowsAlone(w) ==
  /\ printed = w /\ wpc[w] = "idle" /\ done[w] = MAX_INPUT_SIZE
  /\ single[w] /\ Len(text[w]) < MAX_INPUT_SIZE

\* Whatever was left by failed writes and by writes that overlapped, the result
\* of a simacc_write that no other overlaps is the sum of the numbers of its
\* text and of those that lay behind it in input_buf, where the loop reads on.
SumOfBuffer ==
  \A w \in Writer : ShowsAlone(w) =>
    result = (Total(Append(text[w], Semi)) + Total(behind[w])) % ULong

\* Also when writers overlap, what simacc_write prints fits in result if the loop
\* has read fewer than RESULT_SIZE digits, old ones behind the text included.
ResultFits ==
  \A w \in Writer :
    wpc[w] = "loop" /\ digits[w] < RESULT_SIZE => sum[w] < Pow10[RESULT_SIZE - 1]
==============================================================================
