------------------------------- MODULE SeqPass -------------------------------
(***************************************************************************)
(* Reading a list through the kernel's seq_read: the tasks of              *)
(* seq_file_procfs.c and the addresses of network_procfs.c.  Both my_start *)
(* ignore the position and begin with the first record; my_next of the     *)
(* task list, which is circular, never returns NULL.  seq_read fills its   *)
(* buffer with whole records and keeps what the caller has no room for.    *)
(* The task list stays as it is (see TaskWalk for forks and exits).        *)
(***************************************************************************)
EXTENDS Integers, SequencesExt

CONSTANTS
  RecLen,   \* bytes of a record
  BufSize,  \* bytes of the seq_file's buffer: a page, more than a record
  MaxLen,   \* bound: records
  Size      \* the lengths passed to read(2), none of them 0

ASSUME SeqPassAssumption ==
  /\ RecLen \in Nat \ {0} /\ BufSize \in Nat /\ RecLen < BufSize
  /\ MaxLen \in Nat /\ Size \subseteq Nat

VARIABLES
  list,     \* tasks, or net
  count,    \* records: record 1 is the one my_start shows, count the last
  at,       \* the record to be shown next, or NULL between calls
  seqbuf,   \* the bytes in the seq_file's buffer
  room,     \* bytes the current call may still return
  out,      \* the bytes the current or last call has returned
  stage,    \* idle, start, show or next
  last,     \* the last byte the reader had got before this call, or NoByte
  seen      \* the records the reader has got whole

vars == <<list, count, at, seqbuf, room, out, stage, last, seen>>

NULL == 0
NoByte == [rec |-> NULL, byte |-> RecLen]
Byte == [rec : 1..MaxLen, byte : 1..RecLen]
Record(r) == [b \in 1..RecLen |-> [rec |-> r, byte |-> b]]

Init ==
  /\ list \in {"tasks", "net"} /\ count \in 0..MaxLen /\ (list = "tasks" => count > 0)
  /\ at = NULL /\ seqbuf = <<>> /\ room = 0 /\ out = <<>>
  /\ stage = "idle" /\ last = NoByte /\ seen = {}

Lesser(a, b) == IF a < b THEN a ELSE b

\* copy_to_user of as much of the bytes as the caller has room for.
Deliver(bytes, space, before) ==
  LET n == Lesser(Len(bytes), space) IN
  /\ out' = before \o SubSeq(bytes, 1, n)
  /\ seqbuf' = SubSeq(bytes, n + 1, Len(bytes))
  /\ room' = space - n
  /\ seen' = seen \cup {b.rec : b \in {c \in ToSet(SubSeq(bytes, 1, n)) : c.byte = RecLen}}

\* read(2): what is left of the last call goes first.
seq_read(n) ==
  /\ stage = "idle"
  /\ last' = IF out = <<>> THEN last ELSE Last(out)
  /\ Deliver(seqbuf, n, <<>>)
  /\ stage' = IF n > Len(seqbuf) THEN "start" ELSE "idle"
  /\ UNCHANGED <<list, count, at>>

mut_start_second ==
  /\ stage = "start"
  /\ at' = IF count > 1 THEN 2 ELSE NULL
  /\ stage' = IF count > 1 THEN "show" ELSE "idle"
  /\ UNCHANGED <<list, count, seqbuf, room, out, last, seen>>

\* my_start: the first record wherever the reader is; none in an empty list.
my_start ==
  /\ stage = "start"
  /\ at' = IF count > 0 THEN 1 ELSE NULL
  /\ stage' = IF count > 0 THEN "show" ELSE "idle"
  /\ UNCHANGED <<list, count, seqbuf, room, out, last, seen>>

\* my_stop, and the call returns.
my_stop ==
  /\ Deliver(seqbuf, room, out)
  /\ at' = NULL /\ stage' = "idle"

\* my_show: a record that does not fit in the buffer is given up.
my_show ==
  /\ stage = "show"
  /\ IF Len(seqbuf) + RecLen >= BufSize
       THEN my_stop
       ELSE /\ seqbuf' = seqbuf \o Record(at)
            /\ stage' = "next"
            /\ UNCHANGED <<at, room, out, seen>>
  /\ UNCHANGED <<list, count, last>>

mut_next_past_end ==
  /\ stage = "next"
  /\ IF Len(seqbuf) >= room THEN my_stop
     ELSE at' = at + 1 /\ stage' = "show" /\ UNCHANGED <<seqbuf, room, out, seen>>
  /\ UNCHANGED <<list, count, last>>

\* my_next, unless the caller's room is filled.  The task after the last is
\* the first again.
my_next ==
  /\ stage = "next"
  /\ IF Len(seqbuf) >= room \/ (at = count /\ list = "net")
       THEN my_stop
       ELSE /\ at' = IF at = count THEN 1 ELSE at + 1
            /\ stage' = "show"
            /\ UNCHANGED <<seqbuf, room, out, seen>>
  /\ UNCHANGED <<list, count, last>>

\* A packet comes from a new address.
Grow ==
  /\ list = "net" /\ count < MaxLen
  /\ count' = count + 1
  /\ UNCHANGED <<list, at, seqbuf, room, out, stage, last, seen>>

ReadSteps == my_start \/ my_show \/ my_next
Read == \E n \in Size : seq_read(n)
Next == Read \/ ReadSteps \/ Grow

\* A reader that reads on for ever.
FairSpec == Init /\ [][Next]_vars /\ WF_vars(Read) /\ WF_vars(ReadSteps)

-----------------------------------------------------------------------------
(* Properties.                                                             *)

\* Every variable stays in its type, the buffer within its size.
TypeOK ==
  /\ count \in 0..MaxLen /\ at \in 0..count /\ room \in Nat
  /\ seqbuf \in Seq(Byte) /\ Len(seqbuf) < BufSize /\ out \in Seq(Byte)
  /\ stage \in {"idle", "start", "show", "next"}
  /\ last \in Byte \cup {NoByte} /\ seen \subseteq 1..MaxLen

\* The byte that follows another in a listing: a record is never torn, and the
\* next record follows or the listing begins again.
Follows(b, c) ==
  \/ c.rec = b.rec /\ c.byte = b.byte + 1
  \/ b.byte = RecLen /\ c.byte = 1 /\ c.rec \in {1, b.rec + 1}

\* However a reader cuts its reads, and whatever is added meanwhile, the bytes
\* it gets from my_show are whole records, each followed by the next of the
\* list or by the first.
RecordsWhole ==
  LET got == <<last>> \o out IN \A k \in 1..Len(out) : Follows(got[k], got[k + 1])

\* Since my_start ignores the position, a reader sees no record that does not
\* fit in the first buffer of seq_read, however often it reads.
OnlyFirstBuffer == \A r \in seen : r * RecLen < BufSize

\* Reading on, a reader gets all records of the task list, also when they are
\* more than fit in the buffer of seq_read.
AllListed == <>(list = "tasks" => seen = 1..count)
==============================================================================
