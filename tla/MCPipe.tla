------------------------------- MODULE MCPipe -------------------------------
(* A small instance of Pipe: a buffer of two bytes whose counters wrap at 4. *)
EXTENDS Pipe

\* A string that is longer than the buffer.
MCInputs == {<<1, 0, 1>>}
=============================================================================
