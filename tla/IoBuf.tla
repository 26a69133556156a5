------------------------------- MODULE IoBuf --------------------------------
(* The buffering layer of Parrot's IO system, io/io_buf.c, on top of the     *)
(* system calls of io/io_unix.c. io is the ParrotIO structure with its       *)
(* ParrotIOBuf; pointers into the buffer are offsets from startb. The kernel *)
(* keeps the file and the offset of the file descriptor.                     *)
(*                                                                           *)
(* read() may return fewer bytes than asked for; errors of the system calls, *)
(* for which the code has only FIXMEs, and line buffered reading are not     *)
(* modelled.                                                                 *)
EXTENDS Integers, Sequences, FiniteSets

CONSTANTS
  BufSize,     \* size of the buffer: the block size of the file, or setbuf's
  File,        \* the bytes of the file when it is opened
  Hole,        \* the byte a file has where nothing was written
  ReadLens,    \* lengths of reads
  Writes,      \* what is written: nonempty sequences of bytes
  MaxOffset,   \* bound: position in the file
  Uses         \* which of the situations of Careful programs get into

ASSUME IoAssumption ==
  /\ BufSize \in Nat \ {0} /\ MaxOffset \in Nat
  /\ ReadLens \subseteq Nat /\ <<>> \notin Writes
  /\ Uses \subseteq {"drop", "cross", "stale", "end"}

\* The bytes that a program can put into the file or find there.
Byte == {Hole} \cup UNION { { d[i] : i \in DOMAIN d } : d \in Writes \cup {File} }

ASSUME FileAssumption ==
  File \in Seq(Byte) /\ Writes \subseteq Seq(Byte) /\ Len(File) <= MaxOffset

VARIABLES
  os,          \* the kernel's side: [file, off], off the descriptor's offset
  io,          \* the stream: [size, buf, next, endb, reading, writing, fpos]
  last         \* the last call with its arguments and result

vars == <<os, io, last>>

\* endb is a NULL pointer: any address is far above it. Far is an address
\* above the buffer.
NoEnd == -1000
Far == 1000

Smaller(a, b) == IF a < b THEN a ELSE b

----------------------------------------------------------------------------
(* The system calls.                                                        *)

\* PIO_unix_write: the bytes d at the offset of the descriptor.
Wrote(k, d) ==
  LET end == k.off + Len(d) IN
  [file |-> [i \in 1..(IF d = <<>> \/ end < Len(k.file) THEN Len(k.file) ELSE end) |->
               CASE i \in (k.off + 1)..end -> d[i - k.off]
                 [] i \notin (k.off + 1)..end /\ i <= Len(k.file) -> k.file[i]
                 [] OTHER -> Hole],
   off |-> end]

\* PIO_unix_read: how many bytes it may return when asked for len.
Counts(k, len) ==
  IF k.off >= Len(k.file) \/ len = 0 THEN {0}
  ELSE 1..Smaller(len, Len(k.file) - k.off)

FromFile(k, n) == SubSeq(k.file, k.off + 1, k.off + n)
Skipped(k, n) == [k EXCEPT !.off = @ + n]

----------------------------------------------------------------------------
(* The buffer.                                                              *)

\* The bytes that a flush writes.
Unwritten(b) == IF b.writing THEN SubSeq(b.buf, 1, b.next) ELSE <<>>

\* The buffer with the bytes d at offset p.
Stored(buf, p, d) ==
  LET in == (p + 1)..(p + Len(d)) IN
  [i \in DOMAIN buf \cup in |-> IF i \in in THEN d[i - p] ELSE buf[i]]

\* PIO_buf_flush: a write buffer is written (Wrote) and released, a read
\* buffer is dropped.
Flushed(b) ==
  IF b.size = 0 \/ ~ (b.writing \/ b.reading) THEN b
  ELSE [b EXCEPT !.next = 0, !.writing = FALSE,
                 !.reading = b.reading /\ b.writing]

\* Mutant: the pointer stays behind the last byte that was read.
UsedUp_KeepsNext(b) ==
  IF b.next = b.endb THEN [b EXCEPT !.reading = FALSE, !.endb = NoEnd] ELSE b

\* The reset when all of a read buffer has been read.
UsedUp(b) ==
  IF b.next = b.endb
  THEN [b EXCEPT !.reading = FALSE, !.endb = NoEnd, !.next = 0]
  ELSE b

\* PIO_buf_fill_readbuf, when the kernel has returned n bytes.
Filled(k, b, n) ==
  IF n = 0 THEN b
  ELSE [b EXCEPT !.buf = Stored(@, 0, FromFile(k, n)), !.endb = n, !.next = 0,
                 !.reading = TRUE]

\* Take n bytes out of the read buffer.
Taken(b, n) == UsedUp([b EXCEPT !.next = @ + n, !.fpos = @ + n])
FromBuf(b, n) == SubSeq(b.buf, b.next + 1, b.next + n)

----------------------------------------------------------------------------
(* The operations.                                                          *)

\* The buffer does not do justice to every program. A careful one keeps out of
\* a situation (now says whether the call would get into it):
\*   "drop"   a write, a flush or a new buffer when bytes that were read ahead
\*            are still in the buffer: the descriptor is behind them
\*   "cross"  a write that fills the buffer and leaves a rest (WriteAcross)
\*   "stale"  a seek that goes by the end of a buffer that is gone
\*   "end"    a seek from the end of the file when the buffer is in use
Careful(situation, now) == now => situation \in Uses

PIO_buf_flush ==
  /\ Careful("drop", io.reading)
  /\ os' = Wrote(os, Unwritten(io)) /\ io' = Flushed(io)
  /\ UNCHANGED last

\* The rest of a read after what the buffer had, head: directly into the
\* caller's memory if it is a whole buffer or more, else through the buffer.
Refill(k, b, len, head) ==
  LET rest == len - Len(head) IN
  \/ /\ rest >= b.size
     /\ \E n \in Counts(k, rest) :
          /\ os' = Skipped(k, n)
          /\ io' = [b EXCEPT !.fpos = @ + n]
          /\ last' = [call |-> "read", len |-> len, data |-> head \o FromFile(k, n)]
  \/ /\ rest < b.size
     /\ \E n \in Counts(k, b.size) :
          LET f == Filled(k, b, n) take == Smaller(rest, n) IN
          /\ os' = Skipped(k, n)
          /\ io' = Taken(f, take)
          /\ last' = [call |-> "read", len |-> len, data |-> head \o FromBuf(f, take)]

\* A read, after the flush of a write buffer.
ReadFrom(k, b, len) ==
  LET avail == IF b.reading THEN b.endb - b.next ELSE 0
      n == Smaller(avail, len) IN
  \/ /\ b.reading /\ n = len
     /\ os' = k /\ io' = Taken(b, n)
     /\ last' = [call |-> "read", len |-> len, data |-> FromBuf(b, n)]
  \/ /\ b.reading /\ n < len
     /\ Refill(k, Taken(b, n), len, FromBuf(b, n))
  \/ /\ ~ b.reading
     /\ Refill(k, b, len, <<>>)

WriteFlushed(b) == IF b.writing THEN Flushed(b) ELSE b

PIO_buf_read(len) ==
  ReadFrom(Wrote(os, Unwritten(io)), WriteFlushed(io), len)

\* Peeking at an unbuffered stream is an exception.
PIO_buf_peek ==
  LET k == Wrote(os, Unwritten(io)) b == WriteFlushed(io) IN
  /\ io.size > 0
  /\ \/ /\ b.reading
        /\ os' = k /\ io' = b
        /\ last' = [call |-> "peek", data |-> FromBuf(b, 1)]
     \/ /\ ~ b.reading
        /\ \E n \in Counts(k, b.size) :
             LET f == Filled(k, b, n) IN
             /\ os' = Skipped(k, n) /\ io' = f
             /\ last' = [call |-> "peek", data |-> FromBuf(f, Smaller(1, n))]

\* Mutant: a large write overtakes what is in the buffer.
WriteThrough_Unflushed(b, d) ==
  /\ os' = Wrote(os, d)
  /\ io' = [b EXCEPT !.fpos = @ + Len(d)]

\* A write of a whole buffer or more.
WriteThrough(b, d) ==
  /\ os' = Wrote(Wrote(os, Unwritten(b)), d)
  /\ io' = [Flushed(b) EXCEPT !.fpos = @ + Len(d)]

\* A write that leaves room in the buffer.
WriteBuffered(b, d) ==
  /\ os' = os
  /\ io' = [b EXCEPT !.writing = TRUE, !.buf = Stored(@, b.next, d),
                     !.next = @ + Len(d), !.fpos = @ + Len(d)]

\* A write that fills the buffer: fill it, flush it, and keep the rest, which
\* is then in the buffer while the stream has no write buffer.
WriteAcross(b, avail, d) ==
  LET full == [b EXCEPT !.writing = TRUE, !.next = @ + avail,
                        !.buf = Stored(@, b.next, SubSeq(d, 1, avail))]
      empty == Flushed(full)
      diff == Len(d) - avail IN
  /\ os' = Wrote(os, Unwritten(full))
  /\ io' = [empty EXCEPT !.buf = Stored(@, 0, SubSeq(d, avail + 1, Len(d))),
                         !.next = @ + diff, !.fpos = @ + Len(d)]

\* A read buffer is dropped before a write.
Dropped(b) == IF b.reading /\ ~ b.writing THEN Flushed(b) ELSE b

PIO_buf_write(d) ==
  LET b == Dropped(io)
      avail == IF b.writing THEN b.size - b.next ELSE b.size IN
  /\ io.fpos + Len(d) <= MaxOffset
  /\ Careful("drop", io.reading)
  /\ Careful("cross", avail < Len(d) /\ Len(d) < b.size)
  /\ \/ Len(d) >= b.size /\ WriteThrough(b, d)
     \/ Len(d) < b.size /\ avail > Len(d) /\ WriteBuffered(b, d)
     \/ Len(d) < b.size /\ avail <= Len(d) /\ WriteAcross(b, avail, d)
  /\ last' = [call |-> "write", data |-> d]

\* Mutant: one byte behind the buffer counts as inside.
InBuf_OneMore(b, newpos) ==
  /\ newpos >= b.fpos - b.next
  /\ newpos <= b.fpos + (b.endb - b.next)

\* Is the new position in the buffer?
InBuf(b, newpos) ==
  /\ newpos >= b.fpos - b.next
  /\ newpos < b.fpos + (b.endb - b.next)

\* The end of PIO_buf_seek.
SeekTo(k, b, newpos) ==
  \/ /\ InBuf(b, newpos)
     /\ os' = k
     /\ io' = [b EXCEPT !.next = @ + newpos - b.fpos, !.fpos = newpos]
  \/ /\ ~ InBuf(b, newpos)
     /\ os' = [Wrote(k, Unwritten(b)) EXCEPT !.off = newpos]
     /\ io' = [Flushed(b) EXCEPT !.fpos = newpos]

\* PIO_buf_seek with SEEK_SET or SEEK_CUR, which differ in how the caller says
\* where to.
PIO_buf_seek(newpos) ==
  /\ Careful("stale", ~ io.reading /\ InBuf(io, newpos) /\ newpos # io.fpos)
  /\ SeekTo(os, io, newpos)
  /\ last' = [call |-> "seek", to |-> newpos]

\* PIO_buf_seek with SEEK_END: the kernel is asked first, which moves the
\* descriptor and, in PIO_unix_seek, the stream's position.
SeekFromEnd(offset) ==
  LET newpos == Len(os.file) + offset IN
  /\ Careful("end", io.reading \/ io.writing)
  /\ newpos >= 0
  /\ SeekTo([os EXCEPT !.off = newpos], [io EXCEPT !.fpos = newpos], newpos)
  /\ last' = [call |-> "seek", to |-> newpos]

\* PIO_buf_setbuf: flush, then another buffer or none. endb is left alone and
\* points anywhere from the new buffer's point of view.
PIO_buf_setbuf(size) ==
  /\ Careful("drop", io.reading)
  /\ Careful("stale", io.endb # NoEnd)
  /\ os' = Wrote(os, Unwritten(io))
  /\ \E e \in IF io.endb = NoEnd THEN {NoEnd} ELSE {NoEnd, Far} :
       io' = [Flushed(io) EXCEPT !.size = size, !.buf = [i \in 1..size |-> Hole],
                                 !.next = 0, !.endb = e]
  /\ UNCHANGED last

----------------------------------------------------------------------------
Init ==
  /\ os = [file |-> File, off |-> 0]
  /\ io = [size |-> BufSize, buf |-> [i \in 1..BufSize |-> Hole], next |-> 0,
           endb |-> NoEnd, reading |-> FALSE, writing |-> FALSE, fpos |-> 0]
  /\ last = [call |-> "open"]

Next ==
  \/ \E len \in ReadLens : PIO_buf_read(len)
  \/ PIO_buf_peek
  \/ \E d \in Writes : PIO_buf_write(d)
  \/ \E p \in 0..MaxOffset : PIO_buf_seek(p)
  \/ \E o \in {-1, 0} : SeekFromEnd(o)
  \/ \E size \in {0, BufSize} : PIO_buf_setbuf(size)
  \/ PIO_buf_flush

Spec == Init /\ [][Next]_vars

----------------------------------------------------------------------------
(* Properties.                                                              *)

TypeOK ==
  /\ os.file \in Seq(Byte)
  /\ os.off \in 0..(MaxOffset + BufSize)
  /\ io.size \in {0, BufSize} /\ Len(io.buf) = io.size
  /\ io.next \in 0..io.size /\ io.endb \in {NoEnd, Far} \cup (1..BufSize)
  /\ io.reading \in BOOLEAN /\ io.writing \in BOOLEAN
  /\ io.fpos \in 0..MaxOffset

\* The stream and the descriptor agree about where they are: a read buffer
\* holds the bytes before the descriptor's offset and the position is where
\* next points; a write buffer goes to the descriptor's offset; without one of
\* them the position is the offset and nothing is left in the buffer.
InSync ==
  CASE io.writing -> ~ io.reading /\ io.fpos = os.off + io.next
    [] io.reading -> /\ io.next < io.endb
                     /\ io.fpos = os.off - io.endb + io.next
                     /\ SubSeq(io.buf, 1, io.endb)
                          = SubSeq(os.file, os.off - io.endb + 1, os.off)
    [] OTHER      -> io.next = 0 /\ io.fpos = os.off

\* The file as a flush, or the flush of PIO_buf_close, would leave it.
Content == Wrote(os, Unwritten(io)).file

\* "Writes len bytes": the bytes of a write are in the file after a flush.
WriteArrives ==
  last.call = "write" =>
    LET d == last.data IN
    /\ io.fpos <= Len(Content)
    /\ SubSeq(Content, io.fpos - Len(d) + 1, io.fpos) = d

Plain == INSTANCE AbstractFile WITH content <- Content, pos <- io.fpos

\* Every read, peek, write, seek and tell on the buffered stream is what it
\* would be on the file itself: no byte is lost, repeated or put elsewhere,
\* and what was written is there after the next flush.
ImplementsFile == Plain!FSpec
=============================================================================
