----------------------------- MODULE SeqPassProofs -----------------------------
(* The inductive invariant of SeqPass, for any number of records and any     *)
(* lengths of records, buffer and reads.                                     *)
EXTENDS SeqPass, SequenceTheorems, TLAPS

\* The last byte the reader has got, and the last one that my_show has printed.
Got == IF out = <<>> THEN last ELSE out[Len(out)]
Printed == IF seqbuf = <<>> THEN Got ELSE seqbuf[Len(seqbuf)]

InOrder(s) == \A k \in 1..(Len(s) - 1) : Follows(s[k], s[k + 1])

\* The bytes got and the bytes in the buffer are one listing, which ends with a record.
Listing ==
  /\ InOrder(out) /\ InOrder(seqbuf)
  /\ out # <<>> => Follows(last, out[1])
  /\ seqbuf # <<>> => Follows(Got, seqbuf[1])
  /\ Printed.byte = RecLen

\* A pass begins with an empty buffer, so the record it is at is one that the
\* buffer has room for from the beginning of the list.
Position ==
  /\ stage = "start" => seqbuf = <<>>
  /\ stage = "show" =>
       at \in {1, Printed.rec + 1} /\ at \in 1..count /\ (at - 1) * RecLen <= Len(seqbuf)
  /\ stage = "next" => at = Printed.rec /\ at \in 1..count /\ at * RecLen <= Len(seqbuf)

Early == \A k \in 1..Len(seqbuf) : seqbuf[k].rec * RecLen < BufSize

SeqInv == TypeOK /\ Listing /\ Position /\ Early /\ OnlyFirstBuffer

\* The first n of the bytes go to the caller, behind those it has got before; the
\* others are kept.
Moved(n, bytes, space, before) ==
  /\ n <= space /\ (space >= Len(bytes) => n = Len(bytes)) /\ room' = space - n
  /\ out' \in Seq(Byte) /\ Len(out') = Len(before) + n
  /\ \A k \in 1..Len(before) : out'[k] = before[k]
  /\ \A k \in 1..n : out'[Len(before) + k] = bytes[k]
  /\ seqbuf' \in Seq(Byte) /\ Len(seqbuf') = Len(bytes) - n
  /\ \A k \in 1..(Len(bytes) - n) : seqbuf'[k] = bytes[n + k]
  /\ \A r \in seen' : r \in seen \/ \E k \in 1..n : r = bytes[k].rec

\* copy_to_user moves as many bytes as there are and as there is room for.
LEMMA Delivered ==
  ASSUME NEW bytes \in Seq(Byte), NEW space \in Nat, NEW before \in Seq(Byte),
         Deliver(bytes, space, before)
  PROVE  \E n \in 0..Len(bytes) : Moved(n, bytes, space, before)
<1> DEFINE n == Lesser(Len(bytes), space)
           sent == SubSeq(bytes, 1, n)
           rest == SubSeq(bytes, n + 1, Len(bytes))
<1>1. Len(bytes) \in Nat /\ n \in 0..Len(bytes) /\ n <= space /\ (space >= Len(bytes) => n = Len(bytes))
  BY LenProperties DEF Lesser
<1>2. /\ out' = before \o sent /\ seqbuf' = rest /\ room' = space - n
      /\ seen' = seen \cup {b.rec : b \in {c \in ToSet(sent) : c.byte = RecLen}}
  BY DEF Deliver
<1> HIDE DEF n
<1>3. sent \in Seq(Byte) /\ Len(sent) = n /\ \A k \in 1..n : sent[k] = bytes[k]
  <2>1. \A i \in 1..n : bytes[i] \in Byte
    BY <1>1, ElementOfSeq
  <2> QED BY <1>1, <2>1, SubSeqProperties
<1>4. /\ rest \in Seq(Byte) /\ Len(rest) = Len(bytes) - n
      /\ \A k \in 1..(Len(bytes) - n) : rest[k] = bytes[n + k]
  <2>1. \A i \in (n + 1)..Len(bytes) : bytes[i] \in Byte
    BY <1>1, ElementOfSeq
  <2> QED BY <1>1, <2>1, SubSeqProperties
<1> HIDE DEF sent, rest
<1>5. /\ out' \in Seq(Byte) /\ Len(out') = Len(before) + n
      /\ \A k \in 1..Len(before) : out'[k] = before[k]
      /\ \A k \in 1..n : out'[Len(before) + k] = bytes[k]
  <2>1. Len(before) \in Nat
    BY LenProperties
  <2>2. /\ out' \in Seq(Byte) /\ Len(out') = Len(before) + Len(sent)
        /\ \A i \in 1..(Len(before) + Len(sent)) :
             out'[i] = IF i <= Len(before) THEN before[i] ELSE sent[i - Len(before)]
    BY <1>2, <1>3, ConcatProperties
  <2>3. ASSUME NEW k \in 1..Len(before) PROVE out'[k] = before[k]
    BY <1>1, <1>3, <2>1, <2>2
  <2>4. ASSUME NEW k \in 1..n PROVE out'[Len(before) + k] = bytes[k]
    <3>1. /\ Len(before) + k \in 1..(Len(before) + Len(sent)) /\ ~(Len(before) + k <= Len(before))
          /\ (Len(before) + k) - Len(before) = k
      BY <1>1, <1>3, <2>1
    <3> QED BY <1>3, <2>2, <3>1
  <2> QED BY <1>3, <2>2, <2>3, <2>4
<1>6. \A r \in seen' : r \in seen \/ \E k \in 1..n : r = bytes[k].rec
  <2>1. \A b \in ToSet(sent) : \E k \in 1..n : b = bytes[k]
    BY <1>3, LenProperties DEF ToSet
  <2> QED BY <1>2, <2>1
<1> QED BY <1>1, <1>2, <1>4, <1>5, <1>6 DEF Moved

\* Delivering bytes that follow what the reader has got keeps the listing.
LEMMA DeliverKeeps ==
  ASSUME NEW bytes \in Seq(Byte), NEW space \in Nat, NEW before \in Seq(Byte), NEW first,
         Deliver(bytes, space, before), last' = first,
         InOrder(before), InOrder(bytes),
         before # <<>> => Follows(first, before[1]),
         bytes # <<>> => Follows(IF before = <<>> THEN first ELSE before[Len(before)], bytes[1])
  PROVE  /\ InOrder(out') /\ InOrder(seqbuf')
         /\ out' # <<>> => Follows(first, out'[1])
         /\ seqbuf' # <<>> => Follows(Got', seqbuf'[1])
         /\ Printed' = IF bytes # <<>> THEN bytes[Len(bytes)]
                       ELSE IF before = <<>> THEN first ELSE before[Len(before)]
<1>0. PICK n \in 0..Len(bytes) : Moved(n, bytes, space, before)
  BY Delivered
<1>1. /\ out' \in Seq(Byte) /\ Len(out') = Len(before) + n
      /\ \A k \in 1..Len(before) : out'[k] = before[k]
      /\ \A k \in 1..n : out'[Len(before) + k] = bytes[k]
      /\ seqbuf' \in Seq(Byte) /\ Len(seqbuf') = Len(bytes) - n
      /\ \A k \in 1..(Len(bytes) - n) : seqbuf'[k] = bytes[n + k]
  BY <1>0 DEF Moved
<1>2. /\ Len(before) \in Nat /\ Len(bytes) \in Nat /\ n \in Nat
      /\ (before = <<>> <=> Len(before) = 0) /\ (bytes = <<>> <=> Len(bytes) = 0)
      /\ (out' = <<>> <=> Len(before) + n = 0) /\ (seqbuf' = <<>> <=> Len(bytes) = n)
  <2>1. \A s \in Seq(Byte) : Len(s) \in Nat /\ (s = <<>> <=> Len(s) = 0)
    BY EmptySeq, LenProperties
  <2> QED BY <1>1, <2>1
<1> DEFINE end == IF before = <<>> THEN first ELSE before[Len(before)]
<1>3. Got' = IF n = 0 THEN end ELSE bytes[n]
  <2>1. CASE n = 0
    BY <1>1, <1>2, <2>1 DEF Got
  <2>2. CASE n # 0
    BY <1>1, <1>2, <2>2 DEF Got
  <2> QED BY <2>1, <2>2
<1>4. ASSUME NEW k \in 1..(Len(out') - 1)
      PROVE  Follows(out'[k], out'[k + 1])
  <2>1. CASE k < Len(before)
    <3>1. out'[k] = before[k] /\ out'[k + 1] = before[k + 1] /\ k \in 1..(Len(before) - 1)
      BY <1>1, <1>2, <2>1
    <3> QED BY <3>1 DEF InOrder
  <2>2. CASE k = Len(before)
    <3>1. out'[k] = before[Len(before)] /\ 1 \in 1..n /\ out'[k + 1] = bytes[1]
      BY <1>1, <1>2, <2>2
    <3> QED BY <1>2, <2>2, <3>1
  <2>3. CASE k > Len(before)
    <3> DEFINE j == k - Len(before)
    <3>0. Len(out') = Len(before) + n
      BY <1>1
    <3>1. j \in 1..n /\ j + 1 \in 1..n /\ k = Len(before) + j /\ k + 1 = Len(before) + (j + 1)
      BY <1>2, <2>3, <3>0
    <3> HIDE DEF j
    <3>2. out'[k] = bytes[j] /\ out'[k + 1] = bytes[j + 1]
      BY <1>1, <3>1, Zenon
    <3>3. j \in 1..(Len(bytes) - 1)
      BY <1>2, <3>1
    <3> QED BY <3>2, <3>3 DEF InOrder
  <2> QED BY <1>1, <1>2, <2>1, <2>2, <2>3
<1>5. ASSUME NEW k \in 1..(Len(seqbuf') - 1)
      PROVE  Follows(seqbuf'[k], seqbuf'[k + 1])
  <2>0. /\ k \in 1..(Len(bytes) - n) /\ k + 1 \in 1..(Len(bytes) - n)
        /\ n + (k + 1) = (n + k) + 1 /\ n + k \in 1..(Len(bytes) - 1)
    BY <1>1, <1>2
  <2>1. seqbuf'[k] = bytes[n + k] /\ seqbuf'[k + 1] = bytes[(n + k) + 1]
    <3>1. seqbuf'[k + 1] = bytes[n + (k + 1)]
      BY <1>1, <2>0
    <3> QED BY <1>1, <2>0, <3>1
  <2> QED BY <2>0, <2>1 DEF InOrder
<1>6. out' # <<>> => Follows(first, out'[1])
  <2>1. CASE before # <<>>
    BY <1>1, <1>2, <2>1
  <2>2. CASE before = <<>>
    BY <1>1, <1>2, <2>2
  <2> QED BY <2>1, <2>2
<1>7. seqbuf' # <<>> => Follows(Got', seqbuf'[1])
  <2> SUFFICES ASSUME seqbuf' # <<>> PROVE Follows(Got', seqbuf'[1])
    OBVIOUS
  <2>a. n # Len(bytes)
    BY <1>2, Zenon
  <2>0. n < Len(bytes) /\ 1 \in 1..(Len(bytes) - n)
    BY <1>2, <2>a
  <2>1. seqbuf'[1] = bytes[n + 1] /\ n < Len(bytes)
    BY <1>1, <2>0
  <2>2. CASE n = 0
    BY <1>2, <1>3, <2>1, <2>2
  <2>3. CASE n # 0
    <3>1. n \in 1..(Len(bytes) - 1)
      BY <1>2, <2>1, <2>3
    <3> QED BY <1>3, <2>1, <2>3, <3>1 DEF InOrder
  <2> QED BY <2>2, <2>3
<1>8. Printed' = IF bytes # <<>> THEN bytes[Len(bytes)] ELSE end
  <2>1. CASE n = Len(bytes)
    BY <1>2, <1>3, <2>1 DEF Printed
  <2>2. CASE n # Len(bytes)
    BY <1>1, <1>2, <2>2 DEF Printed
  <2> QED BY <2>1, <2>2
<1> QED BY <1>4, <1>5, <1>6, <1>7, <1>8 DEF InOrder

\* The reader has got nothing, and the buffer holds nothing, from beyond the
\* first buffer.
LEMMA DeliverEarly ==
  ASSUME TypeOK, Early, OnlyFirstBuffer, NEW space \in Nat, NEW before \in Seq(Byte),
         Deliver(seqbuf, space, before)
  PROVE  /\ Early' /\ OnlyFirstBuffer'
         /\ room' \in Nat /\ out' \in Seq(Byte) /\ seen' \subseteq 1..MaxLen
         /\ seqbuf' \in Seq(Byte) /\ Len(seqbuf') < BufSize
         /\ space >= Len(seqbuf) => seqbuf' = <<>>
<1>1. seqbuf \in Seq(Byte) /\ Len(seqbuf) \in Nat /\ \A k \in 1..Len(seqbuf) : seqbuf[k] \in Byte
  BY LenProperties, ElementOfSeq DEF TypeOK
<1>0. PICK n \in 0..Len(seqbuf) : Moved(n, seqbuf, space, before)
  BY <1>1, Delivered
<1>2. /\ n <= space /\ (space >= Len(seqbuf) => n = Len(seqbuf)) /\ room' = space - n
      /\ out' \in Seq(Byte)
      /\ seqbuf' \in Seq(Byte) /\ Len(seqbuf') = Len(seqbuf) - n
      /\ \A k \in 1..(Len(seqbuf) - n) : seqbuf'[k] = seqbuf[n + k]
      /\ \A r \in seen' : r \in seen \/ \E k \in 1..n : r = seqbuf[k].rec
  BY <1>0 DEF Moved
<1>3. \A r \in seen' : r \in seen \/ \E k \in 1..Len(seqbuf) : r = seqbuf[k].rec
  <2>1. 1..n \subseteq 1..Len(seqbuf)
    BY <1>1
  <2> QED BY <1>2, <2>1, Zenon
<1>4. Early'
  BY <1>1, <1>2 DEF Early
<1>5. OnlyFirstBuffer'
  BY <1>3 DEF OnlyFirstBuffer, Early
<1>6. seen' \subseteq 1..MaxLen
  BY <1>1, <1>3 DEF TypeOK, Byte
<1>7. space >= Len(seqbuf) => seqbuf' = <<>>
  <2> SUFFICES ASSUME space >= Len(seqbuf) PROVE seqbuf' = <<>>
    OBVIOUS
  <2>1. Len(seqbuf') = 0
    BY <1>1, <1>2
  <2> QED BY <1>2, <2>1, EmptySeq
<1>8. room' \in Nat /\ Len(seqbuf') < BufSize
  BY <1>1, <1>2, SeqPassAssumption DEF TypeOK
<1> QED BY <1>2, <1>4, <1>5, <1>6, <1>7, <1>8

\* The last byte of a listing.
LEMMA LastByte ==
  ASSUME TypeOK
  PROVE  Got \in Byte \cup {NoByte} /\ Printed \in Byte \cup {NoByte}
<1>1. \A s \in Seq(Byte) : s # <<>> => s[Len(s)] \in Byte
  BY EmptySeq, ElementOfSeq
<1> QED BY <1>1 DEF TypeOK, Got, Printed

\* The invariant holds at the start.
LEMMA SeqInit == Init => SeqInv
<1> SUFFICES ASSUME Init PROVE SeqInv
  OBVIOUS
<1>1. TypeOK
  BY SeqPassAssumption, EmptySeq DEF Init, TypeOK, NULL
<1>2. seqbuf = <<>> /\ out = <<>> /\ last = NoByte /\ Len(seqbuf) = 0 /\ seen = {} /\ stage = "idle"
  BY EmptySeq DEF Init
<1> QED BY <1>1, <1>2 DEF SeqInv, Listing, InOrder, Position, Early, OnlyFirstBuffer, Got,
           Printed, NoByte

\* A read(2) that begins keeps it.
LEMMA StepRead ==
  ASSUME SeqInv, NEW n \in Size, seq_read(n)
  PROVE  SeqInv'
<1>1. /\ stage = "idle" /\ last' = Got /\ Deliver(seqbuf, n, <<>>)
      /\ stage' = IF n > Len(seqbuf) THEN "start" ELSE "idle"
      /\ UNCHANGED <<list, count, at>>
  BY DEF seq_read, Got, Last
<1>2. TypeOK /\ seqbuf \in Seq(Byte) /\ Len(seqbuf) \in Nat /\ n \in Nat /\ <<>> \in Seq(Byte) /\ Len(<<>>) = 0
  BY SeqPassAssumption, EmptySeq, LenProperties DEF SeqInv, TypeOK
<1>3. /\ InOrder(out') /\ InOrder(seqbuf')
      /\ out' # <<>> => Follows(Got, out'[1])
      /\ seqbuf' # <<>> => Follows(Got', seqbuf'[1])
      /\ Printed' = IF seqbuf # <<>> THEN seqbuf[Len(seqbuf)] ELSE Got
  <2>1. InOrder(<<>>)
    BY <1>2 DEF InOrder
  <2>2. InOrder(seqbuf) /\ (seqbuf # <<>> => Follows(Got, seqbuf[1]))
    BY DEF SeqInv, Listing
  <2> QED BY <1>1, <1>2, <2>1, <2>2, DeliverKeeps
<1>4. Listing'
  BY <1>1, <1>3 DEF Listing, SeqInv, Printed
<1>5. /\ Early' /\ OnlyFirstBuffer'
      /\ room' \in Nat /\ out' \in Seq(Byte) /\ seen' \subseteq 1..MaxLen
      /\ seqbuf' \in Seq(Byte) /\ Len(seqbuf') < BufSize
      /\ n >= Len(seqbuf) => seqbuf' = <<>>
  BY <1>1, <1>2, DeliverEarly DEF SeqInv
<1>6. TypeOK'
  BY <1>1, <1>2, <1>5, LastByte DEF TypeOK
<1>7. Position'
  BY <1>1, <1>2, <1>5 DEF Position
<1> QED BY <1>4, <1>5, <1>6, <1>7 DEF SeqInv

\* my_stop, and the return of seq_read.
LEMMA StepStop ==
  ASSUME SeqInv, my_stop, UNCHANGED <<list, count, last>>
  PROVE  SeqInv'
<1>1. Deliver(seqbuf, room, out) /\ at' = NULL /\ stage' = "idle"
  BY DEF my_stop
<1>2. TypeOK /\ seqbuf \in Seq(Byte) /\ out \in Seq(Byte) /\ room \in Nat
  BY DEF SeqInv, TypeOK
<1>3. /\ InOrder(out') /\ InOrder(seqbuf')
      /\ out' # <<>> => Follows(last, out'[1])
      /\ seqbuf' # <<>> => Follows(Got', seqbuf'[1])
      /\ Printed' = Printed
  <2>1. /\ InOrder(seqbuf) /\ InOrder(out) /\ (out # <<>> => Follows(last, out[1]))
        /\ seqbuf # <<>> => Follows(IF out = <<>> THEN last ELSE out[Len(out)], seqbuf[1])
    BY DEF SeqInv, Listing, Got
  <2>2. /\ InOrder(out') /\ InOrder(seqbuf')
        /\ out' # <<>> => Follows(last, out'[1])
        /\ seqbuf' # <<>> => Follows(Got', seqbuf'[1])
        /\ Printed' = IF seqbuf # <<>> THEN seqbuf[Len(seqbuf)]
                       ELSE IF out = <<>> THEN last ELSE out[Len(out)]
    BY <1>1, <1>2, <2>1, DeliverKeeps
  <2> QED BY <2>2 DEF Printed, Got
<1>4. Listing'
  BY <1>3 DEF Listing, SeqInv
<1>5. /\ Early' /\ OnlyFirstBuffer'
      /\ room' \in Nat /\ out' \in Seq(Byte) /\ seen' \subseteq 1..MaxLen
      /\ seqbuf' \in Seq(Byte) /\ Len(seqbuf') < BufSize
  BY <1>1, <1>2, DeliverEarly DEF SeqInv
<1>6. TypeOK'
  BY <1>1, <1>2, <1>5, SeqPassAssumption DEF TypeOK, NULL
<1>7. Position'
  BY <1>1 DEF Position
<1> QED BY <1>4, <1>5, <1>6, <1>7 DEF SeqInv

\* The bytes that my_show prints.
LEMMA RecordBytes ==
  ASSUME NEW r \in 1..MaxLen
  PROVE  /\ Record(r) \in Seq(Byte) /\ Len(Record(r)) = RecLen
         /\ \A b \in 1..RecLen : Record(r)[b].rec = r /\ Record(r)[b].byte = b
<1>1. Record(r) \in [1..RecLen -> Byte]
  BY DEF Record, Byte
<1>2. RecLen \in Nat
  BY SeqPassAssumption
<1> QED BY <1>1, <1>2, SeqDef, LenProperties DEF Record

\* my_show prints a record, behind what is in the buffer.
LEMMA StepPrint ==
  ASSUME SeqInv, stage = "show", Len(seqbuf) + RecLen < BufSize,
         seqbuf' = seqbuf \o Record(at), stage' = "next",
         UNCHANGED <<at, room, out, seen, list, count, last>>
  PROVE  SeqInv'
<1>1. /\ TypeOK /\ seqbuf \in Seq(Byte) /\ Len(seqbuf) \in Nat /\ RecLen \in Nat \ {0}
      /\ at \in 1..MaxLen /\ at \in 1..count /\ BufSize \in Nat
  BY SeqPassAssumption, LenProperties DEF SeqInv, TypeOK, Position
<1>2. /\ seqbuf' \in Seq(Byte) /\ Len(seqbuf') = Len(seqbuf) + RecLen
      /\ \A i \in 1..(Len(seqbuf) + RecLen) :
           seqbuf'[i] = IF i <= Len(seqbuf) THEN seqbuf[i] ELSE Record(at)[i - Len(seqbuf)]
  BY <1>1, RecordBytes, ConcatProperties
<1>3. \A k \in 1..Len(seqbuf) : seqbuf'[k] = seqbuf[k]
  BY <1>1, <1>2
<1>4. ASSUME NEW i \in (Len(seqbuf) + 1)..(Len(seqbuf) + RecLen)
      PROVE  seqbuf'[i].rec = at /\ seqbuf'[i].byte = i - Len(seqbuf)
  <2>1. i - Len(seqbuf) \in 1..RecLen /\ i \in 1..(Len(seqbuf) + RecLen) /\ ~(i <= Len(seqbuf))
    BY <1>1
  <2>2. seqbuf'[i] = Record(at)[i - Len(seqbuf)]
    BY <1>2, <2>1
  <2> QED BY <1>1, <2>1, <2>2, RecordBytes
<1>5. seqbuf' # <<>> /\ (seqbuf = <<>> <=> Len(seqbuf) = 0)
  BY <1>1, <1>2, EmptySeq
<1>6. Got' = Got
  BY DEF Got
<1>7. Printed'.rec = at /\ Printed'.byte = RecLen
  <2>1. Len(seqbuf') \in (Len(seqbuf) + 1)..(Len(seqbuf) + RecLen)
    BY <1>1, <1>2
  <2>2. Printed' = seqbuf'[Len(seqbuf')]
    BY <1>5 DEF Printed
  <2> QED BY <1>1, <1>2, <1>4, <2>1, <2>2
<1>8. Follows(Printed, seqbuf'[Len(seqbuf) + 1])
  <2>1. Printed.byte = RecLen /\ at \in {1, Printed.rec + 1}
    BY DEF SeqInv, Listing, Position
  <2>2. seqbuf'[Len(seqbuf) + 1].rec = at /\ seqbuf'[Len(seqbuf) + 1].byte = 1
    <3>1. /\ Len(seqbuf) + 1 \in (Len(seqbuf) + 1)..(Len(seqbuf) + RecLen)
          /\ (Len(seqbuf) + 1) - Len(seqbuf) = 1
      BY <1>1
    <3> QED BY <1>4, <3>1
  <2> QED BY <2>1, <2>2 DEF Follows
<1>9. InOrder(seqbuf')
  <2> SUFFICES ASSUME NEW k \in 1..(Len(seqbuf') - 1) PROVE Follows(seqbuf'[k], seqbuf'[k + 1])
    BY DEF InOrder
  <2>1. CASE k < Len(seqbuf)
    <3>1. k \in 1..(Len(seqbuf) - 1) /\ k \in 1..Len(seqbuf) /\ k + 1 \in 1..Len(seqbuf)
      BY <1>1, <2>1
    <3>2. Follows(seqbuf[k], seqbuf[k + 1])
      BY <3>1 DEF SeqInv, Listing, InOrder
    <3> QED BY <1>3, <3>1, <3>2
  <2>2. CASE k = Len(seqbuf)
    <3>1. k \in 1..Len(seqbuf) /\ Len(seqbuf) # 0
      BY <1>1, <2>2
    <3>2. Printed = seqbuf[k] /\ seqbuf'[k] = seqbuf[k]
      BY <1>3, <1>5, <2>2, <3>1 DEF Printed
    <3> QED BY <1>8, <2>2, <3>2
  <2>3. CASE k > Len(seqbuf)
    <3>1. /\ k \in (Len(seqbuf) + 1)..(Len(seqbuf) + RecLen)
          /\ k + 1 \in (Len(seqbuf) + 1)..(Len(seqbuf) + RecLen)
      BY <1>1, <1>2, <2>3
    <3>2. /\ seqbuf'[k].rec = at /\ seqbuf'[k].byte = k - Len(seqbuf)
          /\ seqbuf'[k + 1].rec = at /\ seqbuf'[k + 1].byte = (k + 1) - Len(seqbuf)
      BY <1>4, <3>1
    <3>3. (k + 1) - Len(seqbuf) = (k - Len(seqbuf)) + 1
      BY <1>1
    <3> QED BY <3>2, <3>3 DEF Follows
  <2> QED BY <1>1, <1>2, <2>1, <2>2, <2>3
<1>10. Listing'
  <2>1. Follows(Got, seqbuf'[1])
    <3>1. CASE seqbuf = <<>>
      BY <1>5, <1>8, <3>1 DEF Printed
    <3>2. CASE seqbuf # <<>>
      <4>1. 1 \in 1..Len(seqbuf)
        BY <1>1, <1>5, <3>2
      <4> QED BY <1>3, <3>2, <4>1 DEF SeqInv, Listing
    <3> QED BY <3>1, <3>2
  <2> QED BY <1>6, <1>7, <1>9, <2>1 DEF SeqInv, Listing
<1>11. at * RecLen <= Len(seqbuf')
  <2>1. (at - 1) * RecLen <= Len(seqbuf)
    BY DEF SeqInv, Position
  <2>2. at * RecLen = (at - 1) * RecLen + RecLen
    BY <1>1
  <2>3. (at - 1) * RecLen \in Int /\ at * RecLen \in Int
    BY <1>1
  <2> QED BY <1>1, <1>2, <2>1, <2>2, <2>3
<1>12. Position'
  BY <1>1, <1>7, <1>11 DEF Position
<1>13. Early'
  <2> SUFFICES ASSUME NEW k \in 1..Len(seqbuf') PROVE seqbuf'[k].rec * RecLen < BufSize
    BY DEF Early
  <2>1. CASE k <= Len(seqbuf)
    BY <1>1, <1>3, <2>1 DEF SeqInv, Early
  <2>2. CASE k > Len(seqbuf)
    <3>1. seqbuf'[k].rec = at
      BY <1>1, <1>2, <1>4, <2>2
    <3>2. at * RecLen \in Int
      BY <1>1
    <3> QED BY <1>1, <1>2, <1>11, <3>1, <3>2
  <2> QED BY <1>1, <1>2, <2>1, <2>2
<1>14. TypeOK'
  BY <1>1, <1>2 DEF TypeOK
<1> QED BY <1>10, <1>12, <1>13, <1>14 DEF SeqInv, OnlyFirstBuffer

\* The steps that leave the bytes alone.
LEMMA SeqKept ==
  ASSUME SeqInv, UNCHANGED <<seqbuf, out, last, seen, room>>, TypeOK', Position'
  PROVE  SeqInv'
BY DEF SeqInv, Listing, InOrder, Early, OnlyFirstBuffer, Got, Printed

\* my_start keeps the invariant.
LEMMA StepStart ==
  ASSUME SeqInv, my_start
  PROVE  SeqInv'
<1>1. /\ stage = "start" /\ at' = IF count > 0 THEN 1 ELSE NULL
      /\ stage' = IF count > 0 THEN "show" ELSE "idle"
      /\ UNCHANGED <<list, count, seqbuf, room, out, last, seen>>
  BY DEF my_start
<1>2. count \in 0..MaxLen /\ Len(seqbuf) = 0 /\ MaxLen \in Nat
  BY <1>1, SeqPassAssumption, EmptySeq DEF SeqInv, TypeOK, Position
<1>3. TypeOK'
  BY <1>1, <1>2 DEF SeqInv, TypeOK, NULL
<1>4. (1 - 1) * RecLen = 0
  BY SeqPassAssumption
<1>5. Position'
  BY <1>1, <1>2, <1>4 DEF Position
<1> QED BY <1>1, <1>3, <1>5, SeqKept

\* So does my_show,
LEMMA StepShow ==
  ASSUME SeqInv, my_show
  PROVE  SeqInv'
<1>1. stage = "show" /\ UNCHANGED <<list, count, last>>
  BY DEF my_show
<1>2. CASE Len(seqbuf) + RecLen >= BufSize
  BY <1>1, <1>2, StepStop DEF my_show
<1>3. CASE ~(Len(seqbuf) + RecLen >= BufSize)
  <2>1. Len(seqbuf) + RecLen < BufSize
    BY <1>3, SeqPassAssumption, LenProperties DEF SeqInv, TypeOK
  <2> QED BY <1>1, <1>3, <2>1, StepPrint DEF my_show
<1> QED BY <1>2, <1>3

\* and my_next.
LEMMA StepNext ==
  ASSUME SeqInv, my_next
  PROVE  SeqInv'
<1>1. stage = "next" /\ UNCHANGED <<list, count, last>>
  BY DEF my_next
<1>2. CASE Len(seqbuf) >= room \/ (at = count /\ list = "net")
  BY <1>1, <1>2, StepStop DEF my_next
<1>3. CASE ~(Len(seqbuf) >= room \/ (at = count /\ list = "net"))
  <2>1. /\ at' = IF at = count THEN 1 ELSE at + 1
        /\ stage' = "show" /\ UNCHANGED <<seqbuf, room, out, seen>>
    BY <1>3 DEF my_next
  <2>2. /\ at \in 1..count /\ at = Printed.rec /\ at * RecLen <= Len(seqbuf)
        /\ count \in Nat /\ Len(seqbuf) \in Nat /\ RecLen \in Nat
    BY <1>1, SeqPassAssumption, LenProperties DEF SeqInv, TypeOK, Position
  <2>3. at' \in 1..count /\ at' \in {1, Printed.rec + 1}
    BY <2>1, <2>2
  <2>4. (at' - 1) * RecLen <= Len(seqbuf)
    <3>1. CASE at = count
      BY <2>1, <2>2, <3>1
    <3>2. CASE at # count
      BY <2>1, <2>2, <3>2
    <3> QED BY <3>1, <3>2
  <2>5. TypeOK'
    BY <1>1, <2>1, <2>2, <2>3 DEF SeqInv, TypeOK
  <2>6. Printed' = Printed
    BY <1>1, <2>1 DEF Printed, Got
  <2>7. Position'
    BY <1>1, <2>1, <2>3, <2>4, <2>6 DEF Position
  <2> QED BY <1>1, <2>1, <2>5, <2>7, SeqKept
<1> QED BY <1>2, <1>3

\* Every step keeps the invariant.
LEMMA SeqStep == SeqInv /\ [Next]_vars => SeqInv'
<1> SUFFICES ASSUME SeqInv, [Next]_vars PROVE SeqInv'
  OBVIOUS
<1>1. CASE Grow
  <2>1. count' = count + 1 /\ count < MaxLen /\ UNCHANGED <<list, at, seqbuf, room, out, stage, last, seen>>
    BY <1>1 DEF Grow
  <2>2. count \in 0..MaxLen /\ MaxLen \in Nat
    BY SeqPassAssumption DEF SeqInv, TypeOK
  <2>3. TypeOK'
    BY <2>1, <2>2 DEF SeqInv, TypeOK
  <2>4. Position'
    BY <2>1, <2>2 DEF SeqInv, Position, Printed, Got
  <2> QED BY <2>1, <2>3, <2>4, SeqKept
<1>2. CASE UNCHANGED vars
  <2>1. TypeOK' /\ Position'
    BY <1>2 DEF vars, SeqInv, TypeOK, Position, Printed, Got
  <2> QED BY <1>2, <2>1, SeqKept DEF vars
<1> QED BY <1>1, <1>2, StepRead, StepStart, StepShow, StepNext DEF Next, Read, ReadSteps

\* The reader's part of the listing.
LEMMA SeqWhole == SeqInv => RecordsWhole
<1> SUFFICES ASSUME SeqInv, NEW k \in 1..Len(out)
             PROVE  Follows((<<last>> \o out)[k], (<<last>> \o out)[k + 1])
  BY DEF RecordsWhole
<1>1. out \in Seq(Byte) /\ Len(out) \in Nat
  BY LenProperties DEF SeqInv, TypeOK
<1> DEFINE B == Byte \cup {NoByte}
<1>2. out \in Seq(B) /\ <<last>> \in Seq(B) /\ Len(<<last>>) = 1 /\ <<last>>[1] = last
  <2>1. out \in Seq(B)
    BY <1>1, SeqMonotonic
  <2>2. last \in B
    BY DEF SeqInv, TypeOK
  <2> QED BY <2>1, <2>2
<1> HIDE DEF B
<1>3. \A i \in 1..(1 + Len(out)) :
        (<<last>> \o out)[i] = IF i <= 1 THEN <<last>>[i] ELSE out[i - 1]
  BY <1>2, ConcatProperties
<1>4. (<<last>> \o out)[k + 1] = out[k]
  <2>1. k + 1 \in 1..(1 + Len(out)) /\ ~(k + 1 <= 1) /\ (k + 1) - 1 = k
    BY <1>1
  <2> QED BY <1>3, <2>1
<1>5. CASE k = 1
  <2>1. (<<last>> \o out)[k] = last
    BY <1>1, <1>2, <1>3, <1>5
  <2>2. out # <<>>
    BY <1>1, EmptySeq
  <2> QED BY <1>4, <1>5, <2>1, <2>2 DEF SeqInv, Listing
<1>6. CASE k # 1
  <2>1. /\ k \in 1..(1 + Len(out)) /\ ~(k <= 1) /\ k - 1 \in 1..(Len(out) - 1)
        /\ (k - 1) + 1 = k
    BY <1>1, <1>6
  <2>2. (<<last>> \o out)[k] = out[k - 1]
    BY <1>3, <2>1
  <2>3. Follows(out[k - 1], out[(k - 1) + 1])
    BY <2>1 DEF SeqInv, Listing, InOrder
  <2> QED BY <1>4, <2>1, <2>2, <2>3
<1> QED BY <1>5, <1>6
================================================================================
