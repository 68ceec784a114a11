--------------------------- MODULE MCCircularBuf ---------------------------
(* Small buffers over the bytes a (which is also the byte that clear()     *)
(* stores) and b.                                                          *)
EXTENDS CircularBuf

CONSTANTS a, b

MCBytes       == {a, b}
MCInputs      == {<<a>>, <<b, a, a>>, <<a, b, b, a, b>>}
MCMultiDelims == {<<b, b>>}
NoData        == {<<>>}

=============================================================================
