---------------------------- MODULE AbstractFile ----------------------------
(* A file as the program sees it through PIO_read, PIO_peek, PIO_write,      *)
(* PIO_seek and PIO_tell of io/io.c: its bytes and one position, with no     *)
(* buffer in between. IoBuf implements this specification.                   *)
EXTENDS Naturals, Sequences

CONSTANT Hole   \* the byte a file has where nothing was written

VARIABLES content, pos,
          last    \* the last call, with its arguments and its result

fvars == <<content, pos, last>>

\* The file f with the bytes d at offset p.
Overwritten(f, p, d) ==
  LET end == p + Len(d) IN
  [i \in 1..(IF d = <<>> \/ end < Len(f) THEN Len(f) ELSE end) |->
     CASE i \in (p + 1)..end -> d[i - p]
       [] i \notin (p + 1)..end /\ i <= Len(f) -> f[i]
       [] OTHER -> Hole]

\* The n bytes of f from offset p on.
Bytes(f, p, n) == [i \in 1..n |-> f[p + i]]

FInit == pos = 0 /\ last = [call |-> "open"]

\* "Reads up to len bytes": at least one, if there is one.
FRead ==
  /\ last'.call = "read"
  /\ LET n == Len(last'.data) IN
     /\ n <= last'.len
     /\ n = 0 => last'.len = 0 \/ pos >= Len(content)
     /\ n > 0 => pos + n <= Len(content)
     /\ last'.data = Bytes(content, pos, n)
     /\ pos' = pos + n
  /\ content' = content

FPeek ==
  /\ last'.call = "peek"
  /\ last'.data = IF pos < Len(content) THEN <<content[pos + 1]>> ELSE <<>>
  /\ UNCHANGED <<content, pos>>

\* "Writes len bytes".
FWrite ==
  /\ last'.call = "write"
  /\ content' = Overwritten(content, pos, last'.data)
  /\ pos' = pos + Len(last'.data)

\* "Moves the read/write position" to where the caller says.
FSeek ==
  /\ last'.call = "seek"
  /\ pos' = last'.to
  /\ content' = content

FNext == FRead \/ FPeek \/ FWrite \/ FSeek

FSpec == FInit /\ [][FNext]_fvars
=============================================================================
