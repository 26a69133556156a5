------------------------------- MODULE MCIoBuf -------------------------------
(* Instances of IoBuf for TLC: a file of four different bytes, and writes that *)
(* are shorter than the buffer, and one as long as the buffer.                *)
EXTENDS IoBuf

MCFile == <<1, 2, 3, 4>>
MCWrites == {<<7>>, <<7, 7>>, <<8, 8, 8>>}
=============================================================================
