-------------------------- MODULE MCRequestBounds --------------------------
(* RequestBounds with a usize of 16 bits.                                   *)
EXTENDS RequestBounds

AccessLists == {<<>>, <<0>>, <<2>>, <<1, 2>>}

\* Small numbers, the lengths that fit, numbers of words that wrap to none and
\* to one, and lengths that wrap back to before where they started.
Numbers16 == {0, 1, 2, 12, 80, 84, 120, 2048, 2049, 65436, 65388, 65535}
=============================================================================
