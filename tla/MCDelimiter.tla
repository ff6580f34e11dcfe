----------------------------- MODULE MCDelimiter -----------------------------
(* Values for checking Delimiter with TLC.  Clients are not interchangeable:  *)
(* Cut holds some of them.                                                    *)
EXTENDS Delimiter

\* quit; a line with a bar in it, of which the client sends no more than that; one
\* of two chunks that starts with quit, its bar alone in the second; and one whose
\* second chunk starts with quit.
SomeLines == {<<Quit>>, <<Text, Bar, Text>>, <<Quit, Text>>, <<Text, Text, Quit>>}

\* Nothing but text, so that the bar behind the buffer is read too; and an empty
\* string.
SomeJunk == {<<Text, Text, Text, Bar>>, <<Nul, Nul, Nul, Nul>>}
=============================================================================
