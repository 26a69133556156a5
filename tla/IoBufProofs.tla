---------------------------- MODULE IoBufProofs -----------------------------
(* Proofs about IoBuf for the programs that are careful in every situation   *)
(* (Uses = {}): the stream and the descriptor stay in sync, and every call   *)
(* is what it would be on the file without a buffer, for every size of the   *)
(* buffer, every file, every length of a read and every set of writes.       *)
(*                                                                           *)
(* A call goes through several values of the kernel's record and of the      *)
(* stream's before it is done (flush, drain, refill). The invariant is       *)
(* therefore a relation InStep(k, b) between two records rather than a       *)
(* statement about the variables, and each helper of the calls has a lemma   *)
(* that says how it changes the two.                                         *)
EXTENDS IoBuf, SequenceTheorems, TLAPS

----------------------------------------------------------------------------
(* Sequences.                                                               *)

\* A function on 1..n is a sequence of length n.
LEMMA FunctionIsSeq ==
  ASSUME NEW S, NEW n \in Nat, NEW f \in [1..n -> S]
  PROVE  f \in Seq(S) /\ Len(f) = n
OBVIOUS

\* The n bytes of a sequence behind its first p.
LEMMA SubSeqBytes ==
  ASSUME NEW S, NEW s \in Seq(S), NEW p \in Nat, NEW n \in Nat, p + n <= Len(s)
  PROVE  /\ SubSeq(s, p + 1, p + n) \in Seq(S)
         /\ Len(SubSeq(s, p + 1, p + n)) = n
         /\ \A i \in 1..n : SubSeq(s, p + 1, p + n)[i] = s[p + i]
<1>1. /\ p + 1 \in Int /\ p + n \in Int /\ (p + n) - (p + 1) + 1 = n
      /\ (p + 1 <= p + n) <=> (n # 0)
      /\ \A i \in 1..n : (p + 1) + i - 1 = p + i
  OBVIOUS
<1>2. \A i \in (p + 1)..(p + n) : s[i] \in S
  <2>1. \A i \in 1..Len(s) : s[i] \in S
    BY ElementOfSeq
  <2>2. Len(s) \in Nat
    BY LenProperties
  <2> QED BY <2>1, <2>2
<1> DEFINE m == p + 1
           l == p + n
<1>3. m \in Int /\ l \in Int /\ \A i \in m..l : s[i] \in S
  BY <1>1, <1>2
<1> HIDE DEF m, l
<1>4. /\ SubSeq(s, m, l) \in Seq(S)
      /\ Len(SubSeq(s, m, l)) = IF m <= l THEN l - m + 1 ELSE 0
      /\ \A i \in 1..(l - m + 1) : SubSeq(s, m, l)[i] = s[m + i - 1]
  BY <1>3, SubSeqProperties
<1> QED BY <1>1, <1>4 DEF m, l

----------------------------------------------------------------------------
(* The kernel's side.                                                       *)

Kernel == [file : Seq(Byte), off : Nat]

\* What PIO_unix_write makes of a file: its length, the offset behind the new
\* bytes, and where each byte comes from.
LEMMA WroteBytes ==
  ASSUME NEW k \in Kernel, NEW d \in Seq(Byte)
  PROVE  LET w == Wrote(k, d)
             end == k.off + Len(d) IN
         /\ w \in Kernel
         /\ w.off = end
         /\ Len(w.file) = IF d = <<>> \/ end < Len(k.file) THEN Len(k.file) ELSE end
         /\ \A i \in 1..Len(w.file) :
              w.file[i] = IF i \in (k.off + 1)..end THEN d[i - k.off]
                          ELSE IF i <= Len(k.file) THEN k.file[i] ELSE Hole
<1> DEFINE end == k.off + Len(d)
           n == IF d = <<>> \/ end < Len(k.file) THEN Len(k.file) ELSE end
           byte(i) == CASE i \in (k.off + 1)..end -> d[i - k.off]
                        [] i \notin (k.off + 1)..end /\ i <= Len(k.file) -> k.file[i]
                        [] OTHER -> Hole
           f == [i \in 1..n |-> byte(i)]
<1>1. /\ Len(d) \in Nat /\ k.off \in Nat /\ k.file \in Seq(Byte)
      /\ Len(k.file) \in Nat /\ end \in Nat /\ n \in Nat
  BY LenProperties DEF Kernel
<1>2. \A i \in 1..n : byte(i) = IF i \in (k.off + 1)..end THEN d[i - k.off]
                                ELSE IF i <= Len(k.file) THEN k.file[i] ELSE Hole
  OBVIOUS
<1>3. ASSUME NEW i \in 1..n PROVE byte(i) \in Byte
  <2>1. CASE i \in (k.off + 1)..end
    <3>1. i - k.off \in 1..Len(d)
      BY <1>1, <2>1
    <3> QED BY <1>2, <2>1, <3>1, ElementOfSeq
  <2>2. CASE i \notin (k.off + 1)..end /\ i <= Len(k.file)
    <3>1. i \in 1..Len(k.file)
      BY <1>1, <2>2
    <3>2. k.file[i] \in Byte
      BY <1>1, <3>1, ElementOfSeq
    <3> QED BY <1>2, <2>2, <3>2
  <2>3. CASE i \notin (k.off + 1)..end /\ ~ (i <= Len(k.file))
    BY <1>2, <2>3 DEF Byte
  <2> QED BY <2>1, <2>2, <2>3
<1> HIDE DEF byte, n
<1>4. f \in [1..n -> Byte]
  BY <1>3
<1>5. f \in Seq(Byte) /\ Len(f) = n
  BY <1>1, <1>4, FunctionIsSeq
<1>6. Wrote(k, d) = [file |-> f, off |-> end]
  BY DEF Wrote, byte, n
<1>7. Wrote(k, d).file = f /\ Wrote(k, d).off = end /\ Wrote(k, d) \in Kernel
  BY <1>1, <1>5, <1>6 DEF Kernel
<1>8. \A i \in 1..n : f[i] = byte(i)
  OBVIOUS
<1> HIDE DEF f
<1>9. \A i \in 1..n : f[i] = IF i \in (k.off + 1)..end THEN d[i - k.off]
                             ELSE IF i <= Len(k.file) THEN k.file[i] ELSE Hole
  BY <1>2, <1>8
<1> QED BY <1>5, <1>7, <1>9 DEF n

\* Two kernel records with the same offset and the same bytes are the same.
LEMMA KernelEqual ==
  ASSUME NEW k \in Kernel, NEW l \in Kernel, k.off = l.off,
         Len(k.file) = Len(l.file), \A i \in 1..Len(k.file) : k.file[i] = l.file[i]
  PROVE  k = l
<1>1. k.file = l.file
  BY SeqEqual DEF Kernel
<1> QED BY <1>1 DEF Kernel

\* A flush of nothing writes nothing.
LEMMA WroteNothing ==
  ASSUME NEW k \in Kernel
  PROVE  Wrote(k, <<>>) = k
<1>1. <<>> \in Seq(Byte) /\ Len(<<>>) = 0 /\ k.off \in Nat /\ Len(k.file) \in Nat
  BY EmptySeq, LenProperties DEF Kernel
<1> DEFINE w == Wrote(k, <<>>)
<1>2. /\ w \in Kernel /\ w.off = k.off + 0 /\ Len(w.file) = Len(k.file)
      /\ \A i \in 1..Len(w.file) :
           w.file[i] = IF i \in (k.off + 1)..(k.off + 0) THEN <<>>[i - k.off]
                       ELSE IF i <= Len(k.file) THEN k.file[i] ELSE Hole
  BY <1>1, WroteBytes
<1> HIDE DEF w
<1>3. \A i \in 1..Len(w.file) : w.file[i] = k.file[i]
  BY <1>1, <1>2
<1>4. w = k
  BY <1>1, <1>2, <1>3, KernelEqual
<1> QED BY <1>4 DEF w

\* Writing two pieces one after the other is writing them together: what the
\* buffer collects is written by one system call instead of several.
LEMMA WroteTwice ==
  ASSUME NEW k \in Kernel, NEW c \in Seq(Byte), NEW d \in Seq(Byte), d # <<>>
  PROVE  Wrote(k, c \o d) = Wrote(Wrote(k, c), d)
<1> DEFINE cd == c \o d
           one == Wrote(k, c)
           two == Wrote(one, d)
           all == Wrote(k, cd)
<1>1. /\ Len(c) \in Nat /\ Len(d) \in Nat \ {0} /\ k.off \in Nat
      /\ Len(k.file) \in Nat /\ (c = <<>> => Len(c) = 0)
  BY EmptySeq, LenProperties DEF Kernel
<1>2. /\ cd \in Seq(Byte) /\ Len(cd) = Len(c) + Len(d)
      /\ \A i \in 1..(Len(c) + Len(d)) :
           cd[i] = IF i <= Len(c) THEN c[i] ELSE d[i - Len(c)]
  BY ConcatProperties
<1>3. cd # <<>>
  BY <1>1, <1>2, EmptySeq
<1>4. /\ one \in Kernel /\ one.off = k.off + Len(c)
      /\ Len(one.file) = IF c = <<>> \/ k.off + Len(c) < Len(k.file)
                         THEN Len(k.file) ELSE k.off + Len(c)
      /\ \A i \in 1..Len(one.file) :
           one.file[i] = IF i \in (k.off + 1)..(k.off + Len(c)) THEN c[i - k.off]
                         ELSE IF i <= Len(k.file) THEN k.file[i] ELSE Hole
  BY WroteBytes
<1> HIDE DEF one, cd
<1>5. /\ two \in Kernel /\ two.off = one.off + Len(d)
      /\ Len(two.file) = IF one.off + Len(d) < Len(one.file)
                         THEN Len(one.file) ELSE one.off + Len(d)
      /\ \A i \in 1..Len(two.file) :
           two.file[i] = IF i \in (one.off + 1)..(one.off + Len(d)) THEN d[i - one.off]
                         ELSE IF i <= Len(one.file) THEN one.file[i] ELSE Hole
  BY <1>4, WroteBytes
<1>6. /\ all \in Kernel /\ all.off = k.off + Len(cd)
      /\ Len(all.file) = IF k.off + Len(cd) < Len(k.file)
                         THEN Len(k.file) ELSE k.off + Len(cd)
      /\ \A i \in 1..Len(all.file) :
           all.file[i] = IF i \in (k.off + 1)..(k.off + Len(cd)) THEN cd[i - k.off]
                         ELSE IF i <= Len(k.file) THEN k.file[i] ELSE Hole
  BY <1>2, <1>3, WroteBytes
<1> HIDE DEF two, all
<1>7. all.off = two.off
  BY <1>1, <1>2, <1>4, <1>5, <1>6
<1>8. Len(all.file) = Len(two.file) /\ Len(all.file) \in Nat
  BY <1>1, <1>2, <1>4, <1>5, <1>6
<1>9. ASSUME NEW i \in 1..Len(all.file) PROVE all.file[i] = two.file[i]
  <2>1. i \in Nat /\ i > 0
    BY <1>8
  <2>2. CASE i <= k.off
    <3>1. /\ i \notin (k.off + 1)..(k.off + Len(cd))
          /\ i \notin (k.off + 1)..(k.off + Len(c))
          /\ i \notin (one.off + 1)..(one.off + Len(d))
      BY <1>1, <1>2, <1>4, <2>1, <2>2
    <3>2. all.file[i] = IF i <= Len(k.file) THEN k.file[i] ELSE Hole
      BY <1>6, <3>1
    <3>3. two.file[i] = IF i <= Len(one.file) THEN one.file[i] ELSE Hole
      BY <1>5, <1>8, <3>1
    <3>4. i <= Len(one.file) => i \in 1..Len(one.file)
      BY <1>1, <1>4, <2>1
    <3>5. i <= Len(one.file) =>
            one.file[i] = IF i <= Len(k.file) THEN k.file[i] ELSE Hole
      BY <1>4, <3>1, <3>4
    <3>6. i <= Len(k.file) => i <= Len(one.file)
      BY <1>1, <1>4, <2>1
    <3> QED BY <3>2, <3>3, <3>5, <3>6
  <2>3. CASE i > k.off /\ i <= k.off + Len(c)
    <3>1. i - k.off \in 1..(Len(c) + Len(d)) /\ i - k.off <= Len(c)
      BY <1>1, <2>1, <2>3
    <3>2. all.file[i] = c[i - k.off]
      <4>1. cd[i - k.off] = c[i - k.off]
        BY <1>2, <3>1
      <4>2. i \in (k.off + 1)..(k.off + Len(cd))
        BY <1>1, <1>2, <2>1, <2>3
      <4> QED BY <1>6, <4>1, <4>2
    <3>3. i \in 1..Len(one.file) /\ two.file[i] = one.file[i]
      BY <1>1, <1>4, <1>5, <1>8, <2>1, <2>3
    <3>4. one.file[i] = c[i - k.off]
      BY <1>1, <1>4, <2>1, <2>3, <3>3
    <3> QED BY <3>2, <3>3, <3>4
  <2>4. CASE i > k.off + Len(c) /\ i <= k.off + Len(c) + Len(d)
    <3>1. /\ i - k.off \in 1..(Len(c) + Len(d)) /\ ~ (i - k.off <= Len(c))
          /\ (i - k.off) - Len(c) = i - one.off
      <4>1. k.off \in Nat /\ Len(c) \in Nat /\ Len(d) \in Nat /\ one.off = k.off + Len(c)
        BY <1>1, <1>4
      <4> QED BY <4>1, <2>1, <2>4
    <3>2. all.file[i] = d[i - one.off]
      <4>1. cd[i - k.off] = d[i - one.off]
        BY <1>2, <3>1
      <4> QED BY <1>1, <1>2, <1>6, <2>1, <2>4, <4>1
    <3>3. two.file[i] = d[i - one.off]
      BY <1>1, <1>4, <1>5, <1>8, <2>1, <2>4
    <3> QED BY <3>2, <3>3
  <2>5. CASE i > k.off + Len(c) + Len(d)
    <3>1. i <= Len(k.file) /\ all.file[i] = k.file[i]
      BY <1>1, <1>2, <1>6, <1>8, <2>1, <2>5
    <3>2. i \in 1..Len(one.file) /\ one.file[i] = k.file[i]
      BY <1>1, <1>4, <2>1, <2>5, <3>1
    <3>3. two.file[i] = one.file[i]
      BY <1>1, <1>4, <1>5, <1>8, <2>1, <2>5, <3>2
    <3> QED BY <3>1, <3>2, <3>3
  <2> QED BY <1>1, <2>1, <2>2, <2>3, <2>4, <2>5
<1>10. all = two
  BY <1>5, <1>6, <1>7, <1>8, <1>9, KernelEqual
<1> QED BY <1>10 DEF all, two, one, cd

----------------------------------------------------------------------------
(* The stream and the kernel in step.                                       *)

Stream ==
  [size : {0, BufSize}, buf : Seq(Byte), next : Nat,
   endb : {NoEnd} \cup (1..BufSize), reading : BOOLEAN, writing : BOOLEAN,
   fpos : 0..MaxOffset]

\* The read buffer holds the bytes of the file before the descriptor's offset.
ReadAhead(k, b) ==
  /\ b.next < b.endb /\ b.endb <= b.size
  /\ b.endb <= k.off /\ k.off <= Len(k.file)
  /\ b.fpos = k.off - b.endb + b.next
  /\ \A i \in 1..b.endb : b.buf[i] = k.file[k.off - b.endb + i]

InStep(k, b) ==
  /\ k \in Kernel /\ Len(k.file) <= MaxOffset
  /\ b \in Stream /\ Len(b.buf) = b.size
  /\ b.writing => ~ b.reading /\ b.next < b.size /\ b.fpos = k.off + b.next
  /\ b.reading => ReadAhead(k, b)
  /\ ~ b.writing /\ ~ b.reading => b.next = 0 /\ b.fpos = k.off

\* The inductive invariant.
IInv == InStep(os, io)

\* The fields of a stream.
LEMMA StreamFields ==
  ASSUME NEW b \in Stream
  PROVE  /\ b.size \in Nat /\ b.buf \in Seq(Byte) /\ b.next \in Nat /\ b.endb \in Int
         /\ b.endb = NoEnd \/ b.endb \in 1..BufSize
         /\ b.reading \in BOOLEAN /\ b.writing \in BOOLEAN
         /\ b.fpos \in Nat /\ b.fpos <= MaxOffset
         /\ Len(b.buf) \in Nat
BY IoAssumption, LenProperties DEF Stream, NoEnd

\* The fields of a kernel record.
LEMMA KernelFields ==
  ASSUME NEW k \in Kernel
  PROVE  k.file \in Seq(Byte) /\ k.off \in Nat /\ Len(k.file) \in Nat
BY LenProperties DEF Kernel

\* What a flush would write.
LEMMA UnwrittenBytes ==
  ASSUME NEW k, NEW b, InStep(k, b)
  PROVE  /\ Unwritten(b) \in Seq(Byte)
         /\ Len(Unwritten(b)) = IF b.writing THEN b.next ELSE 0
         /\ ~ b.writing => Unwritten(b) = <<>>
         /\ b.writing => \A i \in 1..b.next : Unwritten(b)[i] = b.buf[i]
<1>1. CASE ~ b.writing
  BY <1>1, EmptySeq DEF Unwritten
<1>2. CASE b.writing
  <2>1. /\ b.buf \in Seq(Byte) /\ b.next \in Nat /\ 0 + b.next <= Len(b.buf)
        /\ 0 + 1 = 1 /\ 0 + b.next = b.next /\ \A i \in 1..b.next : 0 + i = i
    BY <1>2, StreamFields DEF InStep
  <2>2. /\ SubSeq(b.buf, 0 + 1, 0 + b.next) \in Seq(Byte)
        /\ Len(SubSeq(b.buf, 0 + 1, 0 + b.next)) = b.next
        /\ \A i \in 1..b.next : SubSeq(b.buf, 0 + 1, 0 + b.next)[i] = b.buf[0 + i]
    BY <2>1, SubSeqBytes
  <2>3. Unwritten(b) = SubSeq(b.buf, 0 + 1, 0 + b.next)
    BY <1>2, <2>1 DEF Unwritten
  <2> QED BY <1>2, <2>1, <2>2, <2>3
<1> QED BY <1>1, <1>2

\* What writing the buffer does to the file: the descriptor goes to the
\* stream's position, within the bound.
LEMMA WroteUnwritten ==
  ASSUME NEW k, NEW b, InStep(k, b)
  PROVE  LET w == Wrote(k, Unwritten(b)) IN
         /\ w \in Kernel /\ Len(w.file) <= MaxOffset
         /\ ~ b.reading => w.off = b.fpos
         /\ ~ b.writing => w = k
<1> DEFINE w == Wrote(k, Unwritten(b))
<1>1. CASE ~ b.writing
  <2>1. k \in Kernel /\ Unwritten(b) = <<>>
    BY <1>1, UnwrittenBytes DEF InStep
  <2>2. w = k
    BY <2>1, WroteNothing
  <2> QED BY <1>1, <2>1, <2>2 DEF InStep
<1>2. CASE b.writing
  <2>1. /\ k \in Kernel /\ Unwritten(b) \in Seq(Byte) /\ Len(Unwritten(b)) = b.next
        /\ Len(k.file) <= MaxOffset /\ b.fpos = k.off + b.next
    BY <1>2, UnwrittenBytes DEF InStep
  <2>2. /\ b.fpos \in Nat /\ b.fpos <= MaxOffset /\ Len(k.file) \in Nat
    BY <2>1, StreamFields, KernelFields DEF InStep
  <2>3. /\ w \in Kernel /\ w.off = b.fpos
        /\ Len(w.file) = Len(k.file) \/ Len(w.file) = b.fpos
    BY <2>1, WroteBytes
  <2> QED BY <1>2, <2>1, <2>2, <2>3
<1> QED BY <1>1, <1>2

\* The fields of the flushed stream.
LEMMA FlushedFields ==
  ASSUME NEW k, NEW b, InStep(k, b)
  PROVE  LET f == Flushed(b) IN
         /\ f \in Stream /\ f.size = b.size /\ f.buf = b.buf /\ f.endb = b.endb
         /\ f.fpos = b.fpos /\ f.next = 0 /\ f.reading = FALSE /\ f.writing = FALSE
<1>1. b \in Stream
  BY DEF InStep
<1>2. CASE b.size = 0
  <2>1. ~ b.writing /\ ~ b.reading /\ b.next = 0
    BY <1>1, <1>2, StreamFields DEF InStep, ReadAhead
  <2> QED BY <1>1, <1>2, <2>1 DEF Flushed, Stream
<1>3. CASE b.size # 0 /\ ~ (b.writing \/ b.reading)
  BY <1>1, <1>3 DEF Flushed, Stream, InStep
<1>4. CASE b.size # 0 /\ (b.writing \/ b.reading)
  <2>1. Flushed(b) = [b EXCEPT !.next = 0, !.writing = FALSE, !.reading = FALSE]
    <3>1. (b.reading /\ b.writing) = FALSE
      BY <1>4 DEF InStep
    <3> QED BY <1>4, <3>1 DEF Flushed
  <2> DEFINE f == [b EXCEPT !.next = 0, !.writing = FALSE, !.reading = FALSE]
  <2>2. f \in Stream
    BY <1>1 DEF Stream
  <2>3. /\ f.size = b.size /\ f.buf = b.buf /\ f.endb = b.endb /\ f.fpos = b.fpos
        /\ f.next = 0 /\ f.reading = FALSE /\ f.writing = FALSE
    BY <1>1 DEF Stream
  <2> QED BY <2>1, <2>2, <2>3
<1> QED BY <1>2, <1>3, <1>4

\* Writing the buffer and releasing it.
LEMMA FlushInStep ==
  ASSUME NEW k, NEW b, InStep(k, b), ~ b.reading
  PROVE  InStep(Wrote(k, Unwritten(b)), Flushed(b))
BY WroteUnwritten, FlushedFields DEF InStep

\* The flush before a read: nothing is left to write, and a read buffer stays.
LEMMA WriteFlushInStep ==
  ASSUME NEW k, NEW b, InStep(k, b)
  PROVE  LET w == Wrote(k, Unwritten(b))
             f == WriteFlushed(b) IN
         /\ InStep(w, f) /\ ~ f.writing
         /\ f.fpos = b.fpos /\ f.size = b.size
<1>1. CASE b.writing
  <2>1. ~ b.reading /\ WriteFlushed(b) = Flushed(b)
    BY <1>1 DEF InStep, WriteFlushed
  <2> QED BY <2>1, FlushInStep, FlushedFields
<1>2. CASE ~ b.writing
  BY <1>2, WroteUnwritten DEF WriteFlushed
<1> QED BY <1>1, <1>2

----------------------------------------------------------------------------
(* Reading.                                                                 *)

\* data is the n bytes of the file f behind its first p
IsBytes(data, f, p, n) ==
  /\ data \in Seq(Byte) /\ Len(data) = n
  /\ n > 0 => p + n <= Len(f)
  /\ \A i \in 1..n : data[i] = f[p + i]

\* No bytes are a piece of the file at every position.
LEMMA NoBytes == \A f, p : IsBytes(<<>>, f, p, 0)
<1>1. <<>> \in Seq(Byte) /\ Len(<<>>) = 0
  BY EmptySeq
<1>2. 1..0 = {} /\ ~ (0 > 0)
  OBVIOUS
<1> QED BY <1>1, <1>2 DEF IsBytes

\* Two pieces of the file that follow each other are one piece.
LEMMA BytesJoin ==
  ASSUME NEW f \in Seq(Byte), NEW p \in Nat, NEW m \in Nat, NEW n \in Nat,
         NEW c, NEW d, IsBytes(c, f, p, m), IsBytes(d, f, p + m, n)
  PROVE  IsBytes(c \o d, f, p, m + n)
<1>1. /\ c \in Seq(Byte) /\ Len(c) = m /\ d \in Seq(Byte) /\ Len(d) = n
      /\ \A i \in 1..m : c[i] = f[p + i]
      /\ \A i \in 1..n : d[i] = f[(p + m) + i]
      /\ m > 0 => p + m <= Len(f)
      /\ n > 0 => (p + m) + n <= Len(f)
  BY DEF IsBytes
<1> DEFINE cd == c \o d
<1>2. /\ cd \in Seq(Byte) /\ Len(cd) = m + n
      /\ \A i \in 1..(m + n) : cd[i] = IF i <= m THEN c[i] ELSE d[i - m]
  <2>1. c \in Seq(Byte) /\ d \in Seq(Byte)
    BY <1>1
  <2>2. /\ cd \in Seq(Byte) /\ Len(cd) = Len(c) + Len(d)
        /\ \A i \in 1..(Len(c) + Len(d)) :
             cd[i] = IF i <= Len(c) THEN c[i] ELSE d[i - Len(c)]
    BY <2>1, ConcatProperties
  <2> QED BY <1>1, <2>2
<1> HIDE DEF cd
<1>3. ASSUME NEW i \in 1..(m + n) PROVE cd[i] = f[p + i]
  <2>1. CASE i <= m
    BY <1>1, <1>2, <2>1
  <2>2. CASE i > m
    <3>1. i - m \in 1..n /\ (p + m) + (i - m) = p + i /\ ~ (i <= m)
      BY <2>2
    <3>2. d[i - m] = f[p + i]
      BY <1>1, <3>1
    <3> QED BY <1>2, <3>1, <3>2
  <2> QED BY <2>1, <2>2
<1>4. m + n > 0 => p + (m + n) <= Len(f)
  <2>1. Len(f) \in Nat
    BY LenProperties
  <2> QED BY <1>1, <2>1
<1>5. IsBytes(cd, f, p, m + n)
  BY <1>2, <1>3, <1>4 DEF IsBytes
<1> QED BY <1>5 DEF cd

\* How many bytes read() returns: none only at the end of the file.
LEMMA CountsRange ==
  ASSUME NEW k \in Kernel, NEW len \in Nat, NEW n \in Counts(k, len)
  PROVE  /\ n \in Nat /\ n <= len
         /\ n > 0 => k.off + n <= Len(k.file)
         /\ n = 0 => len = 0 \/ k.off >= Len(k.file)
BY KernelFields DEF Counts, Smaller

\* The bytes that read() returns.
LEMMA FileBytes ==
  ASSUME NEW k \in Kernel, NEW n \in Nat, n > 0 => k.off + n <= Len(k.file)
  PROVE  IsBytes(FromFile(k, n), k.file, k.off, n)
<1>1. k.file \in Seq(Byte) /\ k.off \in Nat /\ Len(k.file) \in Nat
  BY KernelFields
<1>2. CASE n = 0
  <2>1. FromFile(k, n) = <<>>
    <3>1. k.off + 1 \in Int /\ k.off + n \in Int /\ k.off + n < k.off + 1
      BY <1>1, <1>2
    <3> QED BY <3>1, SubSeqEmpty DEF FromFile
  <2> QED BY <1>2, <2>1, NoBytes
<1>3. CASE n > 0
  <2> DEFINE f == k.file
             o == k.off
             d == SubSeq(f, o + 1, o + n)
  <2>1. f \in Seq(Byte) /\ o \in Nat /\ o + n <= Len(f)
    BY <1>1, <1>3
  <2>2. FromFile(k, n) = d
    BY DEF FromFile
  <2> HIDE DEF f, o
  <2>3. d \in Seq(Byte) /\ Len(d) = n /\ \A i \in 1..n : d[i] = f[o + i]
    BY <2>1, SubSeqBytes
  <2> HIDE DEF d
  <2>4. IsBytes(FromFile(k, n), f, o, n)
    BY <2>1, <2>2, <2>3 DEF IsBytes
  <2> QED BY <2>4 DEF f, o
<1> QED BY <1>2, <1>3

\* The descriptor after a read of n bytes.
LEMMA SkippedFields ==
  ASSUME NEW k \in Kernel, NEW n \in Nat
  PROVE  /\ Skipped(k, n) \in Kernel
         /\ Skipped(k, n).file = k.file /\ Skipped(k, n).off = k.off + n
         /\ n = 0 => Skipped(k, n) = k
<1>1. k.off \in Nat
  BY KernelFields
<1>2. Skipped(k, n) \in Kernel
  BY <1>1 DEF Skipped, Kernel
<1>3. Skipped(k, n).file = k.file /\ Skipped(k, n).off = k.off + n
  BY <1>1 DEF Skipped, Kernel
<1>4. n = 0 => Skipped(k, n) = k
  BY <1>1, <1>2, <1>3, KernelEqual
<1> QED BY <1>2, <1>3, <1>4

\* The buffer after bytes were put into it.
LEMMA StoredBytes ==
  ASSUME NEW buf \in Seq(Byte), NEW d \in Seq(Byte), NEW p \in Nat,
         p + Len(d) <= Len(buf)
  PROVE  /\ Stored(buf, p, d) \in Seq(Byte)
         /\ Len(Stored(buf, p, d)) = Len(buf)
         /\ \A i \in 1..Len(buf) :
              Stored(buf, p, d)[i] = IF i \in (p + 1)..(p + Len(d)) THEN d[i - p]
                                     ELSE buf[i]
<1>1. /\ Len(d) \in Nat /\ Len(buf) \in Nat /\ DOMAIN buf = 1..Len(buf)
      /\ \A i \in 1..Len(d) : d[i] \in Byte
      /\ \A i \in 1..Len(buf) : buf[i] \in Byte
  BY LenProperties, ElementOfSeq
<1>2. DOMAIN buf \cup ((p + 1)..(p + Len(d))) = 1..Len(buf)
  BY <1>1
<1> DEFINE f == [i \in 1..Len(buf) |-> IF i \in (p + 1)..(p + Len(d)) THEN d[i - p]
                                       ELSE buf[i]]
<1>3. Stored(buf, p, d) = f
  BY <1>2 DEF Stored
<1>4. f \in [1..Len(buf) -> Byte]
  <2> SUFFICES ASSUME NEW i \in 1..Len(buf)
               PROVE  (IF i \in (p + 1)..(p + Len(d)) THEN d[i - p] ELSE buf[i]) \in Byte
    OBVIOUS
  <2>1. i \in (p + 1)..(p + Len(d)) => i - p \in 1..Len(d)
    BY <1>1
  <2> QED BY <1>1, <2>1
<1>5. f \in Seq(Byte) /\ Len(f) = Len(buf)
  BY <1>1, <1>4, FunctionIsSeq
<1> QED BY <1>3, <1>5

\* PIO_buf_fill_readbuf on a stream that has no bytes in its buffer.
LEMMA FillInStep ==
  ASSUME NEW k, NEW b, InStep(k, b), ~ b.reading, ~ b.writing,
         NEW n \in Counts(k, b.size)
  PROVE  LET f == Filled(k, b, n) IN
         /\ InStep(Skipped(k, n), f)
         /\ f.fpos = b.fpos /\ f.size = b.size /\ ~ f.writing
         /\ n \in Nat /\ Skipped(k, n).file = k.file
         /\ n = 0 => b.size = 0 \/ b.fpos >= Len(k.file)
         /\ n = 0 => f = b
         /\ n > 0 => f.reading /\ f.next = 0 /\ f.endb = n
<1>1. /\ k \in Kernel /\ Len(k.file) <= MaxOffset /\ b \in Stream
      /\ Len(b.buf) = b.size /\ b.next = 0 /\ b.fpos = k.off
  BY DEF InStep
<1>2. /\ b.size \in Nat /\ b.buf \in Seq(Byte) /\ k.off \in Nat /\ Len(k.file) \in Nat
  BY <1>1, StreamFields, KernelFields
<1>3. /\ n \in Nat /\ n <= b.size /\ (n > 0 => k.off + n <= Len(k.file))
      /\ (n = 0 => b.size = 0 \/ k.off >= Len(k.file))
  BY <1>1, <1>2, CountsRange
<1>4. /\ Skipped(k, n) \in Kernel /\ Skipped(k, n).file = k.file
      /\ Skipped(k, n).off = k.off + n /\ (n = 0 => Skipped(k, n) = k)
  BY <1>1, <1>3, SkippedFields
<1>5. CASE n = 0
  BY <1>1, <1>3, <1>4, <1>5 DEF Filled
<1>6. CASE n > 0
  <2> DEFINE d == FromFile(k, n)
             st == Stored(b.buf, 0, d)
             f == [b EXCEPT !.buf = st, !.endb = n, !.next = 0, !.reading = TRUE]
  <2>1. IsBytes(d, k.file, k.off, n)
    BY <1>1, <1>3, FileBytes
  <2>2. /\ d \in Seq(Byte) /\ Len(d) = n /\ \A i \in 1..n : d[i] = k.file[k.off + i]
    BY <2>1 DEF IsBytes
  <2> HIDE DEF d
  <2>3. /\ st \in Seq(Byte) /\ Len(st) = b.size
        /\ \A i \in 1..n : st[i] = d[i]
    <3>1. 0 + Len(d) <= Len(b.buf)
      BY <1>1, <1>2, <1>3, <2>2
    <3>2. /\ st \in Seq(Byte) /\ Len(st) = Len(b.buf)
          /\ \A i \in 1..Len(b.buf) :
               st[i] = IF i \in (0 + 1)..(0 + Len(d)) THEN d[i - 0] ELSE b.buf[i]
      BY <1>2, <2>2, <3>1, StoredBytes
    <3> HIDE DEF st
    <3>3. \A i \in 1..n : i \in 1..Len(b.buf) /\ i \in (0 + 1)..(0 + Len(d)) /\ i - 0 = i
      BY <1>1, <1>2, <1>3, <2>2
    <3> QED BY <1>1, <3>2, <3>3
  <2> HIDE DEF st
  <2>4. n \in 1..BufSize
    BY <1>1, <1>3, <1>6, IoAssumption DEF Stream
  <2>5. f \in Stream
    BY <1>1, <2>3, <2>4 DEF Stream
  <2>6. /\ f.size = b.size /\ f.buf = st /\ f.endb = n /\ f.fpos = b.fpos
        /\ f.next = 0 /\ f.reading = TRUE /\ f.writing = b.writing
    BY <1>1 DEF Stream
  <2>7. Filled(k, b, n) = f
    BY <1>6 DEF Filled, st, d
  <2> HIDE DEF f
  <2>8. ReadAhead(Skipped(k, n), f)
    <3>1. (k.off + n) - n = k.off /\ (k.off + n) - n + 0 = k.off
      BY <1>2, <1>3
    <3> QED BY <1>1, <1>2, <1>3, <1>4, <1>6, <2>2, <2>3, <2>6, <3>1 DEF ReadAhead
  <2>9. InStep(Skipped(k, n), f)
    BY <1>1, <1>4, <2>3, <2>5, <2>6, <2>8 DEF InStep
  <2> QED BY <1>3, <1>4, <1>6, <2>6, <2>7, <2>9
<1> QED BY <1>3, <1>5, <1>6

\* Taking bytes out of a read buffer, or none if there is no read buffer. The
\* bytes are those of the file at the stream's position, and a buffer that
\* was used up is released.
LEMMA TakeInStep ==
  ASSUME NEW k, NEW b, InStep(k, b), ~ b.writing, NEW n \in Nat,
         n <= IF b.reading THEN b.endb - b.next ELSE 0
  PROVE  LET f == Taken(b, n) IN
         /\ InStep(k, f) /\ ~ f.writing
         /\ f.fpos = b.fpos + n /\ f.size = b.size
         /\ b.reading /\ n = b.endb - b.next => ~ f.reading
         /\ ~ b.reading => ~ f.reading
         /\ IsBytes(FromBuf(b, n), k.file, b.fpos, n)
<1>1. /\ k \in Kernel /\ Len(k.file) <= MaxOffset /\ b \in Stream
      /\ Len(b.buf) = b.size
  BY DEF InStep
<1>2. /\ b.size \in Nat /\ b.buf \in Seq(Byte) /\ k.off \in Nat /\ Len(k.file) \in Nat
      /\ b.next \in Nat /\ b.endb \in Int /\ b.fpos \in Nat /\ MaxOffset \in Nat
      /\ b.endb = NoEnd \/ b.endb \in 1..BufSize
  BY <1>1, StreamFields, KernelFields, IoAssumption
<1> DEFINE g == [b EXCEPT !.next = @ + n, !.fpos = @ + n]
           u == [g EXCEPT !.reading = FALSE, !.endb = NoEnd, !.next = 0]
<1>3. CASE ~ b.reading
  <2>1. n = 0 /\ b.next = 0
    BY <1>3 DEF InStep
  <2>2. g = b
    <3>1. b.next + n = b.next /\ b.fpos + n = b.fpos
      BY <1>2, <2>1
    <3> QED BY <1>1, <3>1 DEF Stream
  <2>3. Taken(b, n) = b
    <3>1. b.next # b.endb
      BY <1>2, <2>1 DEF NoEnd
    <3> QED BY <2>2, <3>1 DEF Taken, UsedUp
  <2>4. FromBuf(b, n) = <<>>
    <3>1. b.next + 1 \in Int /\ b.next + n \in Int /\ b.next + n < b.next + 1
      BY <1>2, <2>1
    <3> QED BY <3>1, SubSeqEmpty DEF FromBuf
  <2>5. b.fpos + n = b.fpos
    BY <1>2, <2>1
  <2> QED BY <1>3, <2>1, <2>3, <2>4, <2>5, NoBytes
<1>4. CASE b.reading
  <2>1. /\ b.next < b.endb /\ b.endb <= b.size
        /\ b.endb <= k.off /\ k.off <= Len(k.file)
        /\ b.fpos = k.off - b.endb + b.next
        /\ \A i \in 1..b.endb : b.buf[i] = k.file[k.off - b.endb + i]
        /\ n <= b.endb - b.next
    BY <1>4 DEF InStep, ReadAhead
  <2>2. b.next + n \in Nat /\ b.fpos + n \in Nat /\ b.fpos + n <= MaxOffset
    <3>1. b.next + n \in Nat /\ b.fpos + n \in Nat
      BY <1>1, <1>2
    <3>2. b.fpos + n <= k.off
      BY <1>1, <1>2, <2>1
    <3>3. k.off <= MaxOffset
      BY <1>1, <1>2, <2>1
    <3> QED BY <1>1, <1>2, <3>1, <3>2, <3>3
  <2>3. IsBytes(FromBuf(b, n), k.file, b.fpos, n)
    <3>1. b.next + n <= Len(b.buf) /\ b.fpos + n <= Len(k.file)
      <4>1. /\ n \in Nat /\ b.next \in Nat /\ b.endb \in Int /\ k.off \in Nat
            /\ b.fpos \in Nat /\ b.size \in Nat /\ Len(b.buf) = b.size
            /\ Len(k.file) \in Nat
        BY <1>1, <1>2, <2>1
      <4>2. b.next + n <= b.endb
        BY <4>1, <2>1
      <4>3. /\ b.endb <= b.size /\ b.endb <= k.off /\ k.off <= Len(k.file)
            /\ b.fpos = k.off - b.endb + b.next
        BY <2>1
      <4>4. b.fpos + n <= k.off
        BY <4>1, <4>2, <4>3
      <4> QED BY <4>1, <4>2, <4>3, <4>4
    <3>2. /\ FromBuf(b, n) \in Seq(Byte) /\ Len(FromBuf(b, n)) = n
          /\ \A i \in 1..n : FromBuf(b, n)[i] = b.buf[b.next + i]
      <4> b.buf \in Seq(Byte) /\ b.next \in Nat /\ b.next + n <= Len(b.buf)
        BY <1>2, <3>1
      <4>1. /\ SubSeq(b.buf, b.next + 1, b.next + n) \in Seq(Byte)
            /\ Len(SubSeq(b.buf, b.next + 1, b.next + n)) = n
            /\ \A i \in 1..n : SubSeq(b.buf, b.next + 1, b.next + n)[i] = b.buf[b.next + i]
        BY SubSeqBytes
      <4> QED BY <4>1 DEF FromBuf
    <3>3. \A i \in 1..n : /\ b.next + i \in 1..b.endb
                          /\ k.off - b.endb + (b.next + i) = b.fpos + i
      <4> TAKE i \in 1..n
      <4>1. b.next + i \in 1..b.endb
        <5>1. b.next \in Nat /\ b.endb \in Int /\ n \in Nat /\ n <= b.endb - b.next
          BY <1>2, <2>1
        <5> QED BY <5>1
      <4>2. k.off - b.endb + (b.next + i) = (k.off - b.endb + b.next) + i
        BY <1>2, <2>1
      <4> QED BY <2>1, <4>1, <4>2
    <3>4. \A i \in 1..n : b.buf[b.next + i] = k.file[b.fpos + i]
      BY <2>1, <3>3
    <3> QED BY <3>1, <3>2, <3>4 DEF IsBytes
  <2>4. g \in Stream
    <3>1. b.fpos + n \in 0..MaxOffset
      BY <1>2, <2>2
    <3> QED BY <1>1, <2>2, <3>1 DEF Stream
  <2>5. /\ g.size = b.size /\ g.buf = b.buf /\ g.endb = b.endb /\ g.fpos = b.fpos + n
        /\ g.next = b.next + n /\ g.reading = b.reading /\ g.writing = b.writing
    BY <1>1 DEF Stream
  <2>6. CASE n = b.endb - b.next
    <3>1. Taken(b, n) = u
      <4>1. g.next = g.endb
        BY <1>2, <2>5, <2>6
      <4> QED BY <4>1 DEF Taken, UsedUp
    <3> HIDE DEF g
    <3>2. u \in Stream
      BY <2>4 DEF Stream
    <3>3. /\ u.size = g.size /\ u.buf = g.buf /\ u.endb = NoEnd /\ u.fpos = g.fpos
          /\ u.next = 0 /\ u.reading = FALSE /\ u.writing = g.writing
      BY <2>4 DEF Stream
    <3>4. g.fpos = k.off
      BY <1>2, <2>1, <2>5, <2>6
    <3> HIDE DEF u
    <3>5. InStep(k, u)
      BY <1>1, <2>5, <3>2, <3>3, <3>4 DEF InStep
    <3> QED BY <1>4, <2>3, <2>5, <3>1, <3>3, <3>5
  <2>7. CASE n # b.endb - b.next
    <3>1. g.next # g.endb /\ g.next < g.endb
      BY <1>2, <2>1, <2>5, <2>7
    <3>2. Taken(b, n) = g
      BY <3>1 DEF Taken, UsedUp
    <3> HIDE DEF g
    <3>3. ReadAhead(k, g)
      <4>1. g.fpos = k.off - g.endb + g.next
        BY <1>2, <2>1, <2>5
      <4> QED BY <2>1, <2>5, <3>1, <4>1 DEF ReadAhead
    <3>4. InStep(k, g)
      BY <1>1, <1>4, <2>4, <2>5, <3>3 DEF InStep
    <3> QED BY <1>4, <2>3, <2>5, <2>7, <3>2, <3>4
  <2> QED BY <2>6, <2>7
<1> QED BY <1>3, <1>4

\* A read of up to len bytes at position p is done: it returned bytes of the
\* file k had, none only if none were asked for or p is at the end.
ReadDone(k, p, len) ==
  \E data \in Seq(Byte), n \in Nat :
    /\ last' = [call |-> "read", len |-> len, data |-> data]
    /\ IsBytes(data, k.file, p, n) /\ n <= len
    /\ n = 0 => len = 0 \/ p >= Len(k.file)
    /\ io'.fpos = p + n
    /\ InStep(os', io') /\ ~ io'.writing /\ os'.file = k.file

\* The second part of a read, after head was taken out of the buffer: the
\* rest comes from the file, directly or through the buffer.
LEMMA RefillReads ==
  ASSUME NEW k, NEW b, InStep(k, b), ~ b.reading, ~ b.writing,
         NEW len \in Nat, NEW p \in Nat, NEW h \in Nat, h <= len,
         NEW head, IsBytes(head, k.file, p, h), b.fpos = p + h,
         Refill(k, b, len, head)
  PROVE  ReadDone(k, p, len)
<1> DEFINE rest == len - h
<1>1. /\ k \in Kernel /\ Len(k.file) <= MaxOffset /\ b \in Stream
      /\ Len(b.buf) = b.size /\ b.next = 0 /\ b.fpos = k.off
  BY DEF InStep
<1>2. /\ b.size \in Nat /\ k.off \in Nat /\ Len(k.file) \in Nat /\ k.file \in Seq(Byte)
      /\ rest \in Nat /\ b.fpos \in Nat /\ MaxOffset \in Nat /\ b.fpos <= MaxOffset
  BY <1>1, StreamFields, KernelFields, IoAssumption
<1>3. Len(head) = h
  BY DEF IsBytes
\* more bytes of the file behind head
<1>4. ASSUME NEW d, NEW n \in Nat, IsBytes(d, k.file, k.off, n)
      PROVE  /\ IsBytes(head \o d, k.file, p, h + n)
             /\ head \o d \in Seq(Byte)
  <2>1. IsBytes(d, k.file, p + h, n)
    BY <1>1, <1>4
  <2>2. IsBytes(head \o d, k.file, p, h + n)
    BY <1>2, <2>1, BytesJoin
  <2> QED BY <2>2 DEF IsBytes
<1>5. ASSUME NEW n \in Counts(k, rest),
             os' = Skipped(k, n), io' = [b EXCEPT !.fpos = @ + n],
             last' = [call |-> "read", len |-> len, data |-> head \o FromFile(k, n)]
      PROVE  ReadDone(k, p, len)
  <2>1. /\ n \in Nat /\ n <= rest /\ (n > 0 => k.off + n <= Len(k.file))
        /\ (n = 0 => rest = 0 \/ k.off >= Len(k.file))
    BY <1>1, <1>2, <1>5, CountsRange
  <2>2. /\ IsBytes(head \o FromFile(k, n), k.file, p, h + n)
        /\ head \o FromFile(k, n) \in Seq(Byte)
    BY <1>1, <1>4, <2>1, FileBytes
  <2>3. /\ os' \in Kernel /\ os'.file = k.file /\ os'.off = k.off + n
    BY <1>1, <1>5, <2>1, SkippedFields
  <2>4. b.fpos + n \in 0..MaxOffset
    BY <1>1, <1>2, <2>1
  <2>5. io' \in Stream
    BY <1>1, <1>5, <2>4 DEF Stream
  <2>6. /\ io'.size = b.size /\ io'.buf = b.buf /\ io'.endb = b.endb
        /\ io'.fpos = b.fpos + n /\ io'.next = b.next
        /\ io'.reading = b.reading /\ io'.writing = b.writing
    BY <1>1, <1>5 DEF Stream
  <2>7. InStep(os', io')
    BY <1>1, <2>3, <2>5, <2>6 DEF InStep
  <2>8. /\ h + n \in Nat /\ h + n <= len /\ io'.fpos = p + (h + n)
        /\ (h + n = 0 => len = 0 \/ p >= Len(k.file))
    BY <1>1, <1>2, <2>1, <2>6
  <2> QED BY <1>5, <2>2, <2>3, <2>6, <2>7, <2>8 DEF ReadDone
<1>6. ASSUME NEW n \in Counts(k, b.size), rest < b.size,
             os' = Skipped(k, n), io' = Taken(Filled(k, b, n), Smaller(rest, n)),
             last' = [call |-> "read", len |-> len,
                      data |-> head \o FromBuf(Filled(k, b, n), Smaller(rest, n))]
      PROVE  ReadDone(k, p, len)
  <2> DEFINE f == Filled(k, b, n)
             take == Smaller(rest, n)
  <2>1. /\ InStep(Skipped(k, n), f) /\ f.fpos = b.fpos /\ ~ f.writing
        /\ n \in Nat /\ Skipped(k, n).file = k.file
        /\ n = 0 => f = b
        /\ n > 0 => f.reading /\ f.next = 0 /\ f.endb = n
    BY <1>6, FillInStep
  <2>2. n = 0 => k.off >= Len(k.file)
    BY <1>1, <1>2, <1>6, CountsRange
  <2>3. /\ take \in Nat /\ take <= rest /\ take <= n
        /\ (take = 0 => rest = 0 \/ n = 0)
    BY <1>2, <2>1 DEF Smaller
  <2> HIDE DEF f, take
  <2>4. take <= IF f.reading THEN f.endb - f.next ELSE 0
    <3>1. CASE n = 0
      BY <2>1, <2>3, <3>1
    <3>2. CASE n > 0
      BY <2>1, <2>3, <3>2
    <3> QED BY <2>1, <3>1, <3>2
  <2> DEFINE g == Taken(f, take)
             data == FromBuf(f, take)
             l == Skipped(k, n)
  <2>5. /\ InStep(l, g) /\ ~ g.writing /\ g.fpos = f.fpos + take
        /\ IsBytes(data, l.file, f.fpos, take)
    <3> HIDE DEF l
    <3>1. InStep(l, f)
      BY <2>1 DEF l
    <3> QED BY <2>1, <2>3, <2>4, <3>1, TakeInStep
  <2>6. IsBytes(data, k.file, k.off, take)
    BY <1>1, <2>1, <2>5
  <2>7. io' = g /\ os' = l /\ last' = [call |-> "read", len |-> len, data |-> head \o data]
    BY <1>6 DEF f, take
  <2> HIDE DEF g, data, l
  <2>8. IsBytes(head \o data, k.file, p, h + take) /\ head \o data \in Seq(Byte)
    BY <1>4, <2>3, <2>6
  <2>9. /\ h + take \in Nat /\ h + take <= len /\ g.fpos = p + (h + take)
        /\ (h + take = 0 => len = 0 \/ p >= Len(k.file))
    BY <1>1, <1>2, <2>1, <2>2, <2>3, <2>5
  <2>10. l.file = k.file
    BY <2>1 DEF l
  <2> QED BY <2>5, <2>7, <2>8, <2>9, <2>10 DEF ReadDone
<1> QED BY <1>3, <1>5, <1>6 DEF Refill

\* PIO_buf_read returns the bytes of the file at the stream's position.
LEMMA ReadReads ==
  ASSUME NEW k, NEW b, InStep(k, b), ~ b.writing, NEW len \in Nat,
         ReadFrom(k, b, len)
  PROVE  ReadDone(k, b.fpos, len)
<1> DEFINE avail == IF b.reading THEN b.endb - b.next ELSE 0
           n == Smaller(avail, len)
<1>1. /\ k \in Kernel /\ b \in Stream
  BY DEF InStep
<1>2. /\ b.next \in Nat /\ b.endb \in Int /\ b.fpos \in Nat /\ b.reading \in BOOLEAN
      /\ (b.reading => b.next < b.endb)
  BY <1>1, StreamFields DEF InStep, ReadAhead
<1>3. avail \in Nat /\ n \in Nat /\ n <= avail /\ n <= len /\ (n = avail \/ n = len)
  BY <1>2 DEF Smaller
<1>4. /\ InStep(k, Taken(b, n)) /\ ~ Taken(b, n).writing
      /\ Taken(b, n).fpos = b.fpos + n
      /\ (b.reading /\ n = b.endb - b.next => ~ Taken(b, n).reading)
      /\ IsBytes(FromBuf(b, n), k.file, b.fpos, n)
  <2> HIDE DEF n
  <2> QED BY <1>3, TakeInStep
<1>5. ASSUME b.reading, n = len, os' = k, io' = Taken(b, n),
             last' = [call |-> "read", len |-> len, data |-> FromBuf(b, n)]
      PROVE  ReadDone(k, b.fpos, len)
  <2> HIDE DEF n
  <2>1. FromBuf(b, n) \in Seq(Byte)
    BY <1>4 DEF IsBytes
  <2>2. n = 0 => len = 0
    BY <1>5
  <2>3. n \in Nat /\ n <= len /\ io'.fpos = b.fpos + n /\ ~ io'.writing
        /\ InStep(os', io') /\ os'.file = k.file
    BY <1>3, <1>4, <1>5
  <2> QED BY <1>4, <1>5, <2>1, <2>2, <2>3 DEF ReadDone
<1>6. ASSUME b.reading, n < len, Refill(k, Taken(b, n), len, FromBuf(b, n))
      PROVE  ReadDone(k, b.fpos, len)
  <2>1. n = b.endb - b.next
    BY <1>2, <1>3, <1>6
  <2> HIDE DEF n
  <2>2. ~ Taken(b, n).reading
    BY <1>4, <1>6, <2>1
  <2> QED BY <1>2, <1>3, <1>4, <1>6, <2>2, RefillReads
<1>7. ASSUME ~ b.reading, Refill(k, b, len, <<>>)
      PROVE  ReadDone(k, b.fpos, len)
  <2>1. IsBytes(<<>>, k.file, b.fpos, 0) /\ b.fpos = b.fpos + 0 /\ 0 <= len
    BY <1>2, NoBytes
  <2> QED BY <1>2, <1>7, <2>1, RefillReads
<1> QED BY <1>5, <1>6, <1>7 DEF ReadFrom

----------------------------------------------------------------------------
(* The calls. Each keeps the invariant and is a call of AbstractFile, or    *)
(* changes nothing that AbstractFile has.                                   *)

\* Without a write buffer the file is what it will be after a flush.
LEMMA ContentIsFile ==
  /\ IInv /\ ~ io.writing => Content = os.file
  /\ IInv' /\ ~ io'.writing => Content' = os'.file
BY WroteUnwritten DEF IInv, Content

\* The parts of the state that AbstractFile sees stay the same.
Unseen == Content' = Content /\ io'.fpos = io.fpos /\ last' = last

\* A read is a read of the file.
LEMMA ReadStep ==
  ASSUME IInv, NEW len \in ReadLens, PIO_buf_read(len)
  PROVE  IInv' /\ Plain!FRead
<1> DEFINE k == Wrote(os, Unwritten(io))
           b == WriteFlushed(io)
<1>1. InStep(k, b) /\ ~ b.writing /\ b.fpos = io.fpos
  BY WriteFlushInStep DEF IInv
<1>2. ReadFrom(k, b, len)
  BY DEF PIO_buf_read
<1>3. Content = k.file
  BY DEF Content
<1> HIDE DEF k, b
<1>4. ReadDone(k, io.fpos, len) /\ len \in Nat
  BY <1>1, <1>2, ReadReads, IoAssumption
<1>5. PICK data \in Seq(Byte), n \in Nat :
    /\ last' = [call |-> "read", len |-> len, data |-> data]
    /\ IsBytes(data, k.file, io.fpos, n) /\ n <= len
    /\ n = 0 => len = 0 \/ io.fpos >= Len(k.file)
    /\ io'.fpos = io.fpos + n
    /\ InStep(os', io') /\ ~ io'.writing /\ os'.file = k.file
  BY <1>4 DEF ReadDone
<1>6. IInv' /\ Content' = Content
  <2>1. IInv'
    BY <1>5 DEF IInv
  <2> QED BY <1>3, <1>5, <2>1, ContentIsFile
<1>7. /\ Len(data) = n /\ (n > 0 => io.fpos + n <= Len(Content))
      /\ data = Plain!Bytes(Content, io.fpos, n)
  <2>1. /\ Len(data) = n /\ DOMAIN data = 1..n /\ data = [i \in 1..n |-> data[i]]
        /\ \A i \in 1..n : data[i] = Content[io.fpos + i]
        /\ (n > 0 => io.fpos + n <= Len(Content))
    BY <1>3, <1>5, LenProperties DEF IsBytes
  <2> QED BY <2>1 DEF Plain!Bytes
<1>8. last'.call = "read" /\ last'.len = len /\ last'.data = data
  BY <1>5
<1> QED BY <1>3, <1>5, <1>6, <1>7, <1>8 DEF Plain!FRead

\* A peek shows the byte of the file that the next read returns.
LEMMA PeekStep ==
  ASSUME IInv, PIO_buf_peek
  PROVE  IInv' /\ Plain!FPeek
<1> DEFINE k == Wrote(os, Unwritten(io))
           b == WriteFlushed(io)
<1>1. InStep(k, b) /\ ~ b.writing /\ b.fpos = io.fpos /\ b.size = io.size
  BY WriteFlushInStep DEF IInv
<1>2. /\ io.size > 0 /\ Content = k.file
      /\ \/ /\ b.reading
            /\ os' = k /\ io' = b
            /\ last' = [call |-> "peek", data |-> FromBuf(b, 1)]
         \/ /\ ~ b.reading
            /\ \E n \in Counts(k, b.size) :
                 /\ os' = Skipped(k, n) /\ io' = Filled(k, b, n)
                 /\ last' = [call |-> "peek",
                             data |-> FromBuf(Filled(k, b, n), Smaller(1, n))]
  BY DEF PIO_buf_peek, Content
<1> HIDE DEF k, b
<1>3. /\ k \in Kernel /\ b \in Stream /\ k.file \in Seq(Byte) /\ Len(k.file) \in Nat
      /\ b.fpos \in Nat /\ b.next \in Nat /\ b.endb \in Int /\ b.size \in Nat
      /\ k.off \in Nat
  BY <1>1, StreamFields, KernelFields DEF InStep
\* a piece of one byte
<1>4. ASSUME NEW d, IsBytes(d, k.file, io.fpos, 1)
      PROVE  io.fpos < Len(Content) /\ d = <<Content[io.fpos + 1]>>
  <2>1. /\ d \in Seq(Byte) /\ Len(d) = 1 /\ d[1] = k.file[io.fpos + 1]
        /\ io.fpos + 1 <= Len(k.file)
    BY <1>4 DEF IsBytes
  <2>2. d = <<d[1]>>
    BY <2>1
  <2> QED BY <1>1, <1>2, <1>3, <2>1, <2>2
<1>5. ASSUME InStep(os', io'), ~ io'.writing, os'.file = k.file, io'.fpos = io.fpos
      PROVE  IInv' /\ UNCHANGED <<Content, io.fpos>>
  <2>1. IInv'
    BY <1>5 DEF IInv
  <2> QED BY <1>2, <1>5, <2>1, ContentIsFile
<1>6. CASE /\ b.reading /\ os' = k /\ io' = b
           /\ last' = [call |-> "peek", data |-> FromBuf(b, 1)]
  <2>1. b.next < b.endb
    BY <1>1, <1>6 DEF InStep, ReadAhead
  <2>2. IsBytes(FromBuf(b, 1), k.file, io.fpos, 1)
    BY <1>1, <1>3, <1>6, <2>1, TakeInStep
  <2>3. last'.call = "peek" /\ last'.data = FromBuf(b, 1)
    BY <1>6
  <2> QED BY <1>1, <1>4, <1>5, <1>6, <2>2, <2>3 DEF Plain!FPeek
<1>7. ASSUME ~ b.reading, NEW n \in Counts(k, b.size),
             os' = Skipped(k, n), io' = Filled(k, b, n),
             last' = [call |-> "peek", data |-> FromBuf(Filled(k, b, n), Smaller(1, n))]
      PROVE  IInv' /\ Plain!FPeek
  <2> DEFINE f == Filled(k, b, n)
             one == Smaller(1, n)
             l == Skipped(k, n)
  <2>1. /\ InStep(l, f) /\ f.fpos = b.fpos /\ ~ f.writing
        /\ n \in Nat /\ l.file = k.file
        /\ n = 0 => f = b
        /\ n > 0 => f.reading /\ f.next = 0 /\ f.endb = n
    BY <1>1, <1>7, FillInStep
  <2>2. n = 0 => k.off >= Len(k.file)
    BY <1>1, <1>2, <1>3, <1>7, CountsRange
  <2>3. one = IF n > 0 THEN 1 ELSE 0
    BY <2>1 DEF Smaller
  <2>4. last'.call = "peek" /\ last'.data = FromBuf(f, one)
    BY <1>7
  <2>5. IInv' /\ UNCHANGED <<Content, io.fpos>>
    BY <1>1, <1>5, <1>7, <2>1
  <2> HIDE DEF f, one, l
  <2>6. one <= IF f.reading THEN f.endb - f.next ELSE 0
    <3>1. CASE n = 0
      BY <1>7, <2>1, <2>3, <3>1
    <3>2. CASE n > 0
      BY <2>1, <2>3, <3>2
    <3> QED BY <2>1, <3>1, <3>2
  <2>7. IsBytes(FromBuf(f, one), k.file, io.fpos, one)
    <3>1. one \in Nat
      BY <2>3
    <3>2. IsBytes(FromBuf(f, one), l.file, f.fpos, one)
      BY <2>1, <2>6, <3>1, TakeInStep
    <3> QED BY <1>1, <2>1, <3>2
  <2>8. CASE n > 0
    BY <1>4, <2>3, <2>4, <2>5, <2>7, <2>8 DEF Plain!FPeek
  <2>9. CASE n = 0
    <3>1. io.fpos = k.off
      BY <1>1, <1>7 DEF InStep
    <3>2. ~ (io.fpos < Len(Content))
      BY <1>2, <1>3, <2>2, <2>9, <3>1
    <3>3. FromBuf(f, one) \in Seq(Byte) /\ Len(FromBuf(f, one)) = 0
      BY <2>3, <2>7, <2>9 DEF IsBytes
    <3>4. FromBuf(f, one) = <<>>
      BY <3>3, EmptySeq
    <3> QED BY <2>4, <2>5, <3>2, <3>4 DEF Plain!FPeek
  <2> QED BY <2>1, <2>8, <2>9
<1> QED BY <1>2, <1>6, <1>7

\* The bytes of a write are collected behind the ones already in the buffer.
LEMMA BufferAppends ==
  ASSUME NEW k, NEW b, InStep(k, b), ~ b.reading, NEW d \in Seq(Byte),
         b.next + Len(d) <= b.size
  PROVE  LET st == Stored(b.buf, b.next, d) IN
         /\ st \in Seq(Byte) /\ Len(st) = b.size
         /\ SubSeq(st, 1, b.next + Len(d)) = Unwritten(b) \o d
<1> DEFINE st == Stored(b.buf, b.next, d)
           u == Unwritten(b)
<1>1. /\ b.buf \in Seq(Byte) /\ Len(b.buf) = b.size /\ b.next \in Nat /\ b.size \in Nat
      /\ Len(d) \in Nat
  BY StreamFields, LenProperties DEF InStep
<1>2. /\ st \in Seq(Byte) /\ Len(st) = b.size
      /\ \A i \in 1..b.size :
           st[i] = IF i \in (b.next + 1)..(b.next + Len(d)) THEN d[i - b.next]
                   ELSE b.buf[i]
  BY <1>1, StoredBytes
<1>3. u \in Seq(Byte) /\ Len(u) = b.next /\ \A i \in 1..b.next : u[i] = b.buf[i]
  <2>1. CASE b.writing
    BY <2>1, UnwrittenBytes
  <2>2. CASE ~ b.writing
    <3>1. b.next = 0
      BY <2>2 DEF InStep
    <3> QED BY <2>2, <3>1, UnwrittenBytes
  <2> QED BY <2>1, <2>2
<1> HIDE DEF st, u
<1> DEFINE n == b.next + Len(d)
           l == SubSeq(st, 1, n)
           r == u \o d
<1>4. n \in Nat /\ n <= b.size /\ 0 + n = n /\ 0 + 1 = 1 /\ \A i \in 1..n : 0 + i = i
  BY <1>1
<1> HIDE DEF n
<1>5. l \in Seq(Byte) /\ Len(l) = n /\ \A i \in 1..n : l[i] = st[i]
  <2>1. /\ SubSeq(st, 0 + 1, 0 + n) \in Seq(Byte)
        /\ Len(SubSeq(st, 0 + 1, 0 + n)) = n
        /\ \A i \in 1..n : SubSeq(st, 0 + 1, 0 + n)[i] = st[0 + i]
    BY <1>2, <1>4, SubSeqBytes
  <2> QED BY <1>4, <2>1
<1>6. /\ r \in Seq(Byte) /\ Len(r) = n
      /\ \A i \in 1..n : r[i] = IF i <= b.next THEN u[i] ELSE d[i - b.next]
  <2>1. /\ r \in Seq(Byte) /\ Len(r) = Len(u) + Len(d)
        /\ \A i \in 1..(Len(u) + Len(d)) :
             r[i] = IF i <= Len(u) THEN u[i] ELSE d[i - Len(u)]
    BY <1>3, ConcatProperties
  <2> HIDE DEF r
  <2> QED BY <1>3, <2>1 DEF n
<1> HIDE DEF l, r
<1>7. ASSUME NEW i \in 1..n PROVE l[i] = r[i]
  <2>1. i \in 1..b.size
    BY <1>1, <1>4
  <2>2. CASE i <= b.next
    <3>1. i \in 1..b.next /\ i \notin (b.next + 1)..(b.next + Len(d))
      BY <1>1, <2>1, <2>2
    <3> QED BY <1>2, <1>3, <1>5, <1>6, <2>1, <2>2, <3>1
  <2>3. CASE i > b.next
    <3>1. i \in (b.next + 1)..(b.next + Len(d)) /\ ~ (i <= b.next)
      BY <1>1, <1>4, <2>3 DEF n
    <3> QED BY <1>2, <1>5, <1>6, <2>1, <3>1
  <2> QED BY <1>1, <2>1, <2>2, <2>3
<1>8. l = r
  BY <1>5, <1>6, <1>7, SeqEqual
<1> QED BY <1>2, <1>8 DEF l, r, n, st, u

\* A write to the file, and what AbstractFile says of it.
LEMMA WroteIsOverwritten ==
  ASSUME NEW k, NEW d
  PROVE  Wrote(k, d).file = Plain!Overwritten(k.file, k.off, d)
BY DEF Wrote, Plain!Overwritten

\* A write puts its bytes into the file at the stream's position, as far as
\* the program can tell.
LEMMA WriteStep ==
  ASSUME Uses = {}, IInv, NEW d \in Writes, PIO_buf_write(d)
  PROVE  IInv' /\ Plain!FWrite
<1> DEFINE k == Wrote(os, Unwritten(io))
           avail == IF io.writing THEN io.size - io.next ELSE io.size
<1>1. /\ InStep(os, io) /\ ~ io.reading /\ Dropped(io) = io
      /\ io.fpos + Len(d) <= MaxOffset
      /\ ~ (avail < Len(d) /\ Len(d) < io.size)
      /\ last' = [call |-> "write", data |-> d]
  BY DEF IInv, PIO_buf_write, Careful, Dropped
<1>2. \/ Len(d) >= io.size /\ WriteThrough(io, d)
      \/ Len(d) < io.size /\ avail > Len(d) /\ WriteBuffered(io, d)
      \/ Len(d) < io.size /\ avail <= Len(d) /\ WriteAcross(io, avail, d)
  BY <1>1 DEF PIO_buf_write
<1>3. /\ d \in Seq(Byte) /\ Len(d) \in Nat \ {0} /\ d # <<>>
  BY IoAssumption, FileAssumption, EmptySeq
<1>4. /\ io \in Stream /\ Len(io.buf) = io.size /\ io.size \in Nat /\ io.next \in Nat
      /\ io.endb \in Int /\ io.fpos \in Nat /\ MaxOffset \in Nat
      /\ io.buf \in Seq(Byte) /\ io.writing \in BOOLEAN
      /\ os \in Kernel /\ os.off \in Nat /\ Len(os.file) <= MaxOffset
      /\ Len(os.file) \in Nat
      /\ (~ io.writing => io.next = 0 /\ io.fpos = os.off)
      /\ (io.writing => io.next < io.size /\ io.fpos = os.off + io.next)
  BY <1>1, StreamFields, KernelFields, IoAssumption DEF InStep
<1>5. /\ k \in Kernel /\ Len(k.file) <= MaxOffset /\ k.off = io.fpos
      /\ Content = k.file
  BY <1>1, WroteUnwritten DEF Content
<1>6. Unwritten(io) \in Seq(Byte)
  BY <1>1, UnwrittenBytes
\* the call is over: the position and the file are as if written at once
<1>7. ASSUME InStep(os', io'), io'.fpos = io.fpos + Len(d),
             Content' = Wrote(k, d).file
      PROVE  IInv' /\ Plain!FWrite
  <2>1. Content' = Plain!Overwritten(Content, io.fpos, d)
    BY <1>5, <1>7, WroteIsOverwritten
  <2>2. last'.call = "write" /\ last'.data = d
    BY <1>1
  <2> QED BY <1>7, <2>1, <2>2 DEF IInv, Plain!FWrite
<1>8. io.fpos + Len(d) \in 0..MaxOffset
  BY <1>1, <1>3, <1>4
\* what the file is when the bytes are on disk
<1>9. LET w == Wrote(k, d) IN
      /\ w \in Kernel /\ w.off = io.fpos + Len(d) /\ Len(w.file) <= MaxOffset
  <2> HIDE DEF k
  <2>1. LET w == Wrote(k, d) IN
        /\ w \in Kernel /\ w.off = k.off + Len(d)
        /\ Len(w.file) = Len(k.file) \/ Len(w.file) = k.off + Len(d)
    BY <1>3, <1>5, WroteBytes
  <2> QED BY <1>1, <1>3, <1>4, <1>5, <2>1
<1>10. Wrote(os, Unwritten(io) \o d) = Wrote(k, d)
  BY <1>3, <1>4, <1>6, WroteTwice
<1>11. CASE Len(d) >= io.size /\ WriteThrough(io, d)
  <2> DEFINE f == Flushed(io)
  <2>1. /\ f \in Stream /\ f.size = io.size /\ f.buf = io.buf /\ f.endb = io.endb
        /\ f.fpos = io.fpos /\ f.next = 0 /\ f.reading = FALSE /\ f.writing = FALSE
    BY <1>1, FlushedFields
  <2>2. os' = Wrote(k, d) /\ io' = [f EXCEPT !.fpos = @ + Len(d)]
    BY <1>11 DEF WriteThrough
  <2> HIDE DEF f, k
  <2>3. io' \in Stream
    BY <1>8, <2>1, <2>2 DEF Stream
  <2>4. /\ io'.size = f.size /\ io'.buf = f.buf /\ io'.fpos = io.fpos + Len(d)
        /\ io'.next = 0 /\ io'.reading = FALSE /\ io'.writing = FALSE
    BY <2>1, <2>2 DEF Stream
  <2>5. InStep(os', io')
    BY <1>4, <1>9, <2>1, <2>2, <2>3, <2>4 DEF InStep
  <2>6. Content' = Wrote(k, d).file
    BY <2>2, <2>4, <2>5, ContentIsFile DEF IInv
  <2> QED BY <1>7, <2>4, <2>5, <2>6
<1>12. CASE Len(d) < io.size /\ avail > Len(d) /\ WriteBuffered(io, d)
  <2> DEFINE st == Stored(io.buf, io.next, d)
             n == io.next + Len(d)
  <2>1. n \in Nat /\ n < io.size
    BY <1>3, <1>4, <1>12
  <2>2. /\ st \in Seq(Byte) /\ Len(st) = io.size
        /\ SubSeq(st, 1, n) = Unwritten(io) \o d
    <3>1. io.next + Len(d) <= io.size
      BY <1>4, <2>1
    <3> QED BY <1>1, <1>3, <3>1, BufferAppends
  <2>3. /\ os' = os
        /\ io' = [io EXCEPT !.writing = TRUE, !.buf = st, !.next = n,
                            !.fpos = io.fpos + Len(d)]
    BY <1>12 DEF WriteBuffered
  <2> HIDE DEF st, n
  <2>4. io' \in Stream
    BY <1>4, <1>8, <2>1, <2>2, <2>3 DEF Stream
  <2>5. /\ io'.size = io.size /\ io'.buf = st /\ io'.fpos = io.fpos + Len(d)
        /\ io'.next = n /\ io'.reading = io.reading /\ io'.writing = TRUE
    BY <1>4, <2>3 DEF Stream
  <2>6. io.fpos + Len(d) = os.off + n
    BY <1>3, <1>4 DEF n
  <2>7. InStep(os', io')
    BY <1>1, <1>4, <2>1, <2>2, <2>3, <2>4, <2>5, <2>6 DEF InStep
  <2>8. Content' = Wrote(k, d).file
    BY <1>10, <2>2, <2>3, <2>5 DEF Content, Unwritten
  <2> QED BY <1>7, <2>5, <2>7, <2>8
<1>13. CASE Len(d) < io.size /\ avail <= Len(d) /\ WriteAcross(io, avail, d)
  <2>1. io.writing /\ avail = Len(d) /\ io.next + Len(d) = io.size
    <3>1. avail \in Int /\ avail <= Len(d) /\ ~ (avail < Len(d))
      BY <1>1, <1>3, <1>4, <1>13
    <3>2. avail = Len(d)
      BY <1>3, <3>1
    <3>3. io.writing
      BY <1>3, <1>4, <1>13, <3>2
    <3> QED BY <1>3, <1>4, <3>2, <3>3
  <2> DEFINE st == Stored(io.buf, io.next, d)
             n == io.next + Len(d)
             full == [io EXCEPT !.writing = TRUE, !.next = n, !.buf = st]
             empty == Flushed(full)
             st2 == Stored(st, 0, <<>>)
  <2>2. /\ st \in Seq(Byte) /\ Len(st) = io.size
        /\ SubSeq(st, 1, io.next + Len(d)) = Unwritten(io) \o d
    <3>1. io.next + Len(d) <= io.size
      BY <1>4, <2>1
    <3> QED BY <1>1, <1>3, <3>1, BufferAppends
  <2>3. /\ SubSeq(d, 1, Len(d)) = d /\ SubSeq(d, Len(d) + 1, Len(d)) = <<>>
        /\ Len(d) - Len(d) = 0
    BY <1>3, SubSeqFull, SubSeqEmpty
  <2>4. /\ os' = Wrote(os, Unwritten(full))
        /\ io' = [empty EXCEPT !.buf = Stored(@, 0, <<>>), !.next = @ + 0,
                               !.fpos = @ + Len(d)]
    BY <1>13, <2>1, <2>3 DEF WriteAcross
  <2>4a. n \in Nat
    BY <1>3, <1>4
  <2> HIDE DEF st, st2, n
  <2>5. full \in Stream
    BY <1>4, <2>2, <2>4a DEF Stream
  <2>6. /\ full.size = io.size /\ full.buf = st /\ full.fpos = io.fpos
        /\ full.next = n
        /\ full.reading = io.reading /\ full.writing = TRUE
    BY <1>4 DEF Stream
  <2>7. empty = [full EXCEPT !.next = 0, !.writing = FALSE, !.reading = FALSE]
    <3> HIDE DEF full
    <3>1. full.size # 0 /\ full.writing /\ (full.reading /\ full.writing) = FALSE
      BY <1>1, <1>3, <1>4, <1>13, <2>6
    <3> QED BY <3>1 DEF Flushed
  <2>8. os' = Wrote(k, d)
    <3> HIDE DEF full, k
    <3>1. Unwritten(full) = SubSeq(st, 1, io.next + Len(d))
      BY <2>6 DEF Unwritten, n
    <3> QED BY <1>10, <2>2, <2>4, <3>1
  <2> HIDE DEF full, empty, k
  <2>9. empty \in Stream
    BY <2>5, <2>7 DEF Stream
  <2>10. /\ empty.size = io.size /\ empty.buf = st /\ empty.fpos = io.fpos
         /\ empty.next = 0 /\ empty.reading = FALSE /\ empty.writing = FALSE
    BY <2>5, <2>6, <2>7 DEF Stream
  <2>11. st2 \in Seq(Byte) /\ Len(st2) = io.size
    <3>1. <<>> \in Seq(Byte) /\ 0 + Len(<<>>) <= Len(st)
      BY <1>4, <2>2, EmptySeq
    <3> QED BY <2>2, <3>1, StoredBytes DEF st2
  <2>12. io' = [empty EXCEPT !.buf = st2, !.next = 0, !.fpos = io.fpos + Len(d)]
    BY <2>4, <2>10 DEF st2
  <2>13. io' \in Stream
    BY <1>8, <2>9, <2>11, <2>12 DEF Stream
  <2>14. /\ io'.size = io.size /\ io'.buf = st2 /\ io'.fpos = io.fpos + Len(d)
         /\ io'.next = 0 /\ io'.reading = FALSE /\ io'.writing = FALSE
    BY <2>9, <2>10, <2>12 DEF Stream
  <2>15. InStep(os', io')
    BY <1>9, <2>8, <2>11, <2>13, <2>14 DEF InStep
  <2>16. Content' = Wrote(k, d).file
    BY <2>8, <2>14, <2>15, ContentIsFile DEF IInv
  <2> QED BY <1>7, <2>14, <2>15, <2>16
<1> QED BY <1>2, <1>11, <1>12, <1>13

\* The end of PIO_buf_seek moves the position and leaves the file alone.
LEMMA SeekToInStep ==
  ASSUME NEW k, NEW b, InStep(k, b), NEW newpos \in 0..MaxOffset,
         ~ b.reading /\ InBuf(b, newpos) => newpos = b.fpos,
         SeekTo(k, b, newpos)
  PROVE  /\ InStep(os', io') /\ io'.fpos = newpos
         /\ Content' = Wrote(k, Unwritten(b)).file
<1>1. /\ k \in Kernel /\ Len(k.file) <= MaxOffset /\ b \in Stream
      /\ Len(b.buf) = b.size
  BY DEF InStep
<1>2. /\ b.size \in Nat /\ b.next \in Nat /\ b.endb \in Int /\ b.fpos \in Nat
      /\ k.off \in Nat /\ Len(k.file) \in Nat /\ newpos \in Nat /\ MaxOffset \in Nat
  BY <1>1, StreamFields, KernelFields, IoAssumption
<1> DEFINE n == b.next + newpos - b.fpos
<1>3. CASE /\ InBuf(b, newpos) /\ os' = k
           /\ io' = [b EXCEPT !.next = n, !.fpos = newpos]
  <2>1. CASE ~ b.reading
    <3>1. newpos = b.fpos /\ n = b.next
      BY <1>2, <1>3, <2>1
    <3> HIDE DEF n
    <3>2. io' = b
      <4>1. io' = [b EXCEPT !.next = b.next, !.fpos = b.fpos]
        BY <1>3, <3>1
      <4> QED BY <1>1, <4>1 DEF Stream
    <3> QED BY <1>3, <3>1, <3>2 DEF Content
  <2>2. CASE b.reading
    <3>1. /\ b.next < b.endb /\ b.endb <= b.size
          /\ b.endb <= k.off /\ k.off <= Len(k.file)
          /\ b.fpos = k.off - b.endb + b.next
          /\ \A i \in 1..b.endb : b.buf[i] = k.file[k.off - b.endb + i]
          /\ ~ b.writing
      BY <2>2 DEF InStep, ReadAhead
    <3>2. newpos >= b.fpos - b.next /\ newpos < b.fpos + (b.endb - b.next)
      BY <1>3 DEF InBuf
    <3>3. n \in Nat /\ n < b.endb /\ newpos = k.off - b.endb + n
      <4>1. n \in Int /\ n >= 0
        BY <1>2, <3>2
      <4>2. n < b.endb
        BY <1>2, <3>2
      <4>3. newpos = k.off - b.endb + n
        BY <1>2, <3>1
      <4> QED BY <4>1, <4>2, <4>3
    <3> HIDE DEF n
    <3>4. io' \in Stream
      BY <1>1, <1>3, <3>3 DEF Stream
    <3>5. /\ io'.size = b.size /\ io'.buf = b.buf /\ io'.endb = b.endb
          /\ io'.fpos = newpos /\ io'.next = n
          /\ io'.reading = b.reading /\ io'.writing = b.writing
      BY <1>1, <1>3 DEF Stream
    <3>6. ReadAhead(k, io')
      BY <3>1, <3>3, <3>5 DEF ReadAhead
    <3>7. InStep(k, io')
      BY <1>1, <2>2, <3>1, <3>4, <3>5, <3>6 DEF InStep
    <3>8. Unwritten(io') = <<>> /\ Unwritten(b) = <<>>
      BY <3>1, <3>5 DEF Unwritten
    <3> QED BY <1>3, <3>5, <3>7, <3>8 DEF Content
  <2> QED BY <2>1, <2>2
<1>4. CASE /\ os' = [Wrote(k, Unwritten(b)) EXCEPT !.off = newpos]
           /\ io' = [Flushed(b) EXCEPT !.fpos = newpos]
  <2> DEFINE w == Wrote(k, Unwritten(b))
             f == Flushed(b)
  <2>1. w \in Kernel /\ Len(w.file) <= MaxOffset
    BY WroteUnwritten
  <2>2. /\ f \in Stream /\ f.size = b.size /\ f.buf = b.buf /\ f.endb = b.endb
        /\ f.fpos = b.fpos /\ f.next = 0 /\ f.reading = FALSE /\ f.writing = FALSE
    BY FlushedFields
  <2>3. os' = [w EXCEPT !.off = newpos] /\ io' = [f EXCEPT !.fpos = newpos]
    BY <1>4
  <2> HIDE DEF w, f
  <2>4. os' \in Kernel
    BY <1>2, <2>1, <2>3 DEF Kernel
  <2>5. os'.file = w.file /\ os'.off = newpos
    BY <2>1, <2>3 DEF Kernel
  <2>6. io' \in Stream
    BY <2>2, <2>3 DEF Stream
  <2>7. /\ io'.size = b.size /\ io'.buf = b.buf /\ io'.fpos = newpos
        /\ io'.next = 0 /\ io'.reading = FALSE /\ io'.writing = FALSE
    BY <2>2, <2>3 DEF Stream
  <2>8. InStep(os', io')
    BY <1>1, <2>1, <2>4, <2>5, <2>6, <2>7 DEF InStep
  <2>9. Content' = w.file
    BY <2>5, <2>7, <2>8, ContentIsFile DEF IInv
  <2> QED BY <2>7, <2>8, <2>9 DEF w
<1> QED BY <1>3, <1>4 DEF SeekTo

\* A seek moves the position of the file.
LEMMA SeekStep ==
  ASSUME Uses = {}, IInv, NEW newpos \in 0..MaxOffset, PIO_buf_seek(newpos)
  PROVE  IInv' /\ Plain!FSeek
<1>1. /\ ~ io.reading /\ InBuf(io, newpos) => newpos = io.fpos
      /\ SeekTo(os, io, newpos) /\ last' = [call |-> "seek", to |-> newpos]
  BY DEF PIO_buf_seek, Careful
<1>2. /\ InStep(os', io') /\ io'.fpos = newpos
      /\ Content' = Wrote(os, Unwritten(io)).file
  BY <1>1, SeekToInStep DEF IInv
<1>3. last'.call = "seek" /\ last'.to = newpos
  BY <1>1
<1> QED BY <1>2, <1>3 DEF IInv, Content, Plain!FSeek

\* A seek from the end moves the position of the file.
LEMMA EndStep ==
  ASSUME Uses = {}, IInv, NEW offset \in {-1, 0}, SeekFromEnd(offset)
  PROVE  IInv' /\ Plain!FSeek
<1> DEFINE newpos == Len(os.file) + offset
           k == [os EXCEPT !.off = newpos]
           b == [io EXCEPT !.fpos = newpos]
<1>1. /\ ~ io.reading /\ ~ io.writing /\ newpos >= 0
      /\ SeekTo(k, b, newpos) /\ last' = [call |-> "seek", to |-> newpos]
  BY DEF SeekFromEnd, Careful
<1>2. /\ os \in Kernel /\ Len(os.file) <= MaxOffset /\ io \in Stream
      /\ Len(io.buf) = io.size /\ io.next = 0
  BY <1>1 DEF IInv, InStep
<1>3. Len(os.file) \in Nat /\ MaxOffset \in Nat
  BY <1>2, KernelFields, IoAssumption
<1>4. newpos \in 0..MaxOffset /\ newpos \in Nat
  BY <1>1, <1>2, <1>3
<1> HIDE DEF newpos
<1>5. k \in Kernel
  BY <1>2, <1>4 DEF Kernel
<1>6. k.file = os.file /\ k.off = newpos
  BY <1>2 DEF Kernel
<1>7. b \in Stream
  BY <1>2, <1>4 DEF Stream
<1>8. /\ b.size = io.size /\ b.buf = io.buf /\ b.next = io.next /\ b.fpos = newpos
      /\ b.reading = io.reading /\ b.writing = io.writing
  BY <1>2 DEF Stream
<1> HIDE DEF k, b
<1>9. InStep(k, b)
  BY <1>1, <1>2, <1>5, <1>6, <1>7, <1>8 DEF InStep
<1>10. /\ InStep(os', io') /\ io'.fpos = newpos
       /\ Content' = Wrote(k, Unwritten(b)).file
  BY <1>1, <1>4, <1>8, <1>9, SeekToInStep
<1>11. Content' = Content
  <2>1. Wrote(k, Unwritten(b)) = k
    BY <1>1, <1>8, <1>9, WroteUnwritten
  <2> QED BY <1>1, <1>6, <1>10, <2>1, ContentIsFile
<1>12. last'.call = "seek" /\ last'.to = newpos
  BY <1>1
<1> QED BY <1>10, <1>11, <1>12 DEF IInv, Plain!FSeek

\* A flush changes nothing that the program can see.
LEMMA FlushStep ==
  ASSUME Uses = {}, IInv, PIO_buf_flush
  PROVE  IInv' /\ Unseen
<1>1. /\ ~ io.reading /\ last' = last
      /\ os' = Wrote(os, Unwritten(io)) /\ io' = Flushed(io)
  BY DEF PIO_buf_flush, Careful
<1>2. IInv'
  BY <1>1, FlushInStep DEF IInv
<1>3. io'.fpos = io.fpos /\ ~ io'.writing
  BY <1>1, FlushedFields DEF IInv
<1>4. Content' = Content
  BY <1>1, <1>2, <1>3, ContentIsFile DEF Content
<1> QED BY <1>1, <1>2, <1>3, <1>4 DEF Unseen

\* Another buffer, or none, changes nothing that the program can see.
LEMMA SetbufStep ==
  ASSUME Uses = {}, IInv, NEW size \in {0, BufSize}, PIO_buf_setbuf(size)
  PROVE  IInv' /\ Unseen
<1> DEFINE w == Wrote(os, Unwritten(io))
           f == Flushed(io)
           new == [i \in 1..size |-> Hole]
<1>1. /\ ~ io.reading /\ last' = last /\ os' = w
      /\ io' = [f EXCEPT !.size = size, !.buf = new, !.next = 0, !.endb = NoEnd]
  BY DEF PIO_buf_setbuf, Careful
<1>2. w \in Kernel /\ Len(w.file) <= MaxOffset /\ w.off = io.fpos /\ Content = w.file
  BY <1>1, WroteUnwritten DEF IInv, Content
<1>3. /\ f \in Stream /\ f.fpos = io.fpos /\ f.reading = FALSE /\ f.writing = FALSE
  BY FlushedFields DEF IInv
<1>4. new \in Seq(Byte) /\ Len(new) = size
  <2>1. size \in Nat /\ new \in [1..size -> Byte]
    BY IoAssumption DEF Byte
  <2> HIDE DEF new
  <2> QED BY <2>1, FunctionIsSeq
<1> HIDE DEF w, f, new
<1>5. io' \in Stream
  BY <1>1, <1>3, <1>4 DEF Stream
<1>6. /\ io'.size = size /\ io'.buf = new /\ io'.fpos = io.fpos
      /\ io'.next = 0 /\ io'.reading = FALSE /\ io'.writing = FALSE
  BY <1>1, <1>3 DEF Stream
<1>7. InStep(os', io')
  BY <1>1, <1>2, <1>4, <1>5, <1>6 DEF InStep
<1>8. Content' = Content
  BY <1>1, <1>2, <1>6, <1>7, ContentIsFile DEF IInv
<1> QED BY <1>1, <1>6, <1>7, <1>8 DEF IInv, Unseen

----------------------------------------------------------------------------
(* The theorems.                                                            *)

\* The stream that was just opened.
LEMMA InitInStep == Init => IInv
<1> SUFFICES ASSUME Init PROVE IInv
  OBVIOUS
<1> DEFINE new == [i \in 1..BufSize |-> Hole]
<1>1. new \in Seq(Byte) /\ Len(new) = BufSize
  <2>1. BufSize \in Nat /\ new \in [1..BufSize -> Byte]
    BY IoAssumption DEF Byte
  <2> HIDE DEF new
  <2> QED BY <2>1, FunctionIsSeq
<1>2. os = [file |-> File, off |-> 0]
  BY DEF Init
<1>3. io = [size |-> BufSize, buf |-> new, next |-> 0, endb |-> NoEnd,
            reading |-> FALSE, writing |-> FALSE, fpos |-> 0]
  BY DEF Init
<1> HIDE DEF new
<1>4. os \in Kernel /\ os.off = 0 /\ Len(os.file) <= MaxOffset
  BY <1>2, FileAssumption DEF Kernel
<1>5. io \in Stream
  BY <1>1, <1>3, IoAssumption DEF Stream
<1>6. /\ io.size = BufSize /\ io.buf = new /\ io.fpos = 0
      /\ io.next = 0 /\ io.reading = FALSE /\ io.writing = FALSE
  BY <1>3
<1> QED BY <1>1, <1>4, <1>5, <1>6 DEF IInv, InStep

\* Every call keeps the invariant, and is a call on the plain file or
\* invisible.
LEMMA NextStep ==
  ASSUME Uses = {}, IInv, [Next]_vars
  PROVE  IInv' /\ [Plain!FNext]_(Plain!fvars)
<1>1. ASSUME Unseen PROVE UNCHANGED Plain!fvars
  BY <1>1 DEF Unseen, Plain!fvars
<1>2. CASE UNCHANGED vars
  BY <1>2 DEF vars, IInv, Content, Plain!fvars
<1>3. ASSUME NEW len \in ReadLens, PIO_buf_read(len)
      PROVE  IInv' /\ Plain!FNext
  BY <1>3, ReadStep DEF Plain!FNext
<1>4. ASSUME PIO_buf_peek PROVE IInv' /\ Plain!FNext
  BY <1>4, PeekStep DEF Plain!FNext
<1>5. ASSUME NEW d \in Writes, PIO_buf_write(d)
      PROVE  IInv' /\ Plain!FNext
  BY <1>5, WriteStep DEF Plain!FNext
<1>6. ASSUME NEW p \in 0..MaxOffset, PIO_buf_seek(p)
      PROVE  IInv' /\ Plain!FNext
  BY <1>6, SeekStep DEF Plain!FNext
<1>7. ASSUME NEW o \in {-1, 0}, SeekFromEnd(o)
      PROVE  IInv' /\ Plain!FNext
  BY <1>7, EndStep DEF Plain!FNext
<1>8. ASSUME NEW size \in {0, BufSize}, PIO_buf_setbuf(size)
      PROVE  IInv' /\ Unseen
  BY <1>8, SetbufStep
<1>9. ASSUME PIO_buf_flush PROVE IInv' /\ Unseen
  BY <1>9, FlushStep
<1> QED BY <1>1, <1>2, <1>3, <1>4, <1>5, <1>6, <1>7, <1>8, <1>9 DEF Next

\* For careful programs the stream and the kernel stay in step.
THEOREM Invariance ==
  ASSUME Uses = {}
  PROVE  Spec => []IInv
<1>1. IInv /\ [Next]_vars => IInv'
  BY NextStep
<1> QED BY <1>1, InitInStep, PTL DEF Spec

\* The fields of the stream and of the descriptor keep their types: next
\* never points behind the buffer, no position goes beyond the bound.
THEOREM TypeCorrect ==
  ASSUME Uses = {}
  PROVE  Spec => []TypeOK
<1>1. ASSUME IInv PROVE TypeOK
  <2>1. /\ os \in Kernel /\ Len(os.file) <= MaxOffset /\ io \in Stream
        /\ Len(io.buf) = io.size
        /\ io.writing => io.next < io.size /\ io.fpos = os.off + io.next
        /\ io.reading => /\ io.next < io.endb /\ io.endb <= io.size
                         /\ os.off <= Len(os.file)
        /\ ~ io.writing /\ ~ io.reading => io.next = 0 /\ io.fpos = os.off
    BY <1>1 DEF IInv, InStep, ReadAhead
  <2>2. /\ os.file \in Seq(Byte) /\ os.off \in Nat /\ Len(os.file) \in Nat
        /\ MaxOffset \in Nat /\ BufSize \in Nat
    BY <2>1, KernelFields, IoAssumption
  <2>3. /\ io.size \in {0, BufSize} /\ io.size \in Nat /\ io.next \in Nat
        /\ io.endb \in {NoEnd} \cup (1..BufSize) /\ io.endb \in Int
        /\ io.reading \in BOOLEAN /\ io.writing \in BOOLEAN
        /\ io.fpos \in 0..MaxOffset
    BY <2>1, StreamFields DEF Stream
  <2>4. os.off \in 0..(MaxOffset + BufSize) /\ io.next \in 0..io.size
    <3>1. CASE io.writing
      BY <2>1, <2>2, <2>3, <3>1
    <3>2. CASE io.reading
      BY <2>1, <2>2, <2>3, <3>2
    <3>3. CASE ~ io.writing /\ ~ io.reading
      BY <2>1, <2>2, <2>3, <3>3
    <3> QED BY <3>1, <3>2, <3>3
  <2> QED BY <2>1, <2>2, <2>3, <2>4 DEF TypeOK
<1> QED BY <1>1, Invariance, PTL

\* The stream's position, the buffer's pointers and the descriptor's offset
\* agree after every sequence of reads, peeks, writes, seeks, flushes and
\* new buffers, and a read buffer holds the bytes of the file.
THEOREM StaysInSync ==
  ASSUME Uses = {}
  PROVE  Spec => []InSync
<1>1. ASSUME IInv PROVE InSync
  <2>1. CASE io.writing
    BY <1>1, <2>1 DEF IInv, InStep, InSync
  <2>2. CASE io.reading
    <3> DEFINE e == io.endb
               p == os.off - io.endb
               l == SubSeq(io.buf, 0 + 1, 0 + e)
               r == SubSeq(os.file, p + 1, p + e)
    <3>1. /\ ~ io.writing /\ io.next < io.endb /\ io.endb <= io.size
          /\ io.endb <= os.off /\ os.off <= Len(os.file)
          /\ io.fpos = os.off - io.endb + io.next
          /\ \A i \in 1..io.endb : io.buf[i] = os.file[os.off - io.endb + i]
          /\ os \in Kernel /\ io \in Stream /\ Len(io.buf) = io.size
      BY <1>1, <2>2 DEF IInv, InStep, ReadAhead
    <3>2. /\ os.file \in Seq(Byte) /\ os.off \in Nat /\ Len(os.file) \in Nat
          /\ io.buf \in Seq(Byte) /\ io.next \in Nat /\ io.endb \in Int
          /\ io.size \in Nat
      BY <3>1, KernelFields, StreamFields
    <3>3. /\ e \in Nat /\ p \in Nat /\ 0 + e <= Len(io.buf) /\ p + e <= Len(os.file)
          /\ p + e = os.off /\ 0 + 1 = 1 /\ 0 + e = e
          /\ \A i \in 1..e : 0 + i = i
      BY <3>1, <3>2
    <3>4. \A i \in 1..e : io.buf[i] = os.file[p + i]
      BY <3>1
    <3> HIDE DEF e, p
    <3>5. l \in Seq(Byte) /\ Len(l) = e /\ \A i \in 1..e : l[i] = io.buf[0 + i]
      BY <3>2, <3>3, SubSeqBytes
    <3>6. r \in Seq(Byte) /\ Len(r) = e /\ \A i \in 1..e : r[i] = os.file[p + i]
      BY <3>2, <3>3, SubSeqBytes
    <3> HIDE DEF l, r
    <3>7. \A i \in 1..e : l[i] = r[i]
      BY <3>3, <3>4, <3>5, <3>6
    <3>8. l = r
      BY <3>5, <3>6, <3>7, SeqEqual
    <3>9. SubSeq(io.buf, 1, io.endb) = SubSeq(os.file, os.off - io.endb + 1, os.off)
      BY <3>3, <3>8 DEF l, r, e, p
    <3> QED BY <2>2, <3>1, <3>9 DEF InSync
  <2>3. CASE ~ io.writing /\ ~ io.reading
    BY <1>1, <2>3 DEF IInv, InStep, InSync
  <2> QED BY <2>1, <2>2, <2>3
<1> QED BY <1>1, Invariance, PTL

\* The buffered stream implements the plain file: no byte is lost, repeated
\* or put elsewhere, whatever the sizes of the buffer, the reads and the
\* writes.
THEOREM FileRefinement ==
  ASSUME Uses = {}
  PROVE  Spec => ImplementsFile
<1>1. Init => Plain!FInit
  BY DEF Init, Plain!FInit
<1>2. IInv /\ [Next]_vars => [Plain!FNext]_(Plain!fvars)
  BY NextStep
<1> QED BY <1>1, <1>2, Invariance, PTL DEF Spec, ImplementsFile, Plain!FSpec

=============================================================================
