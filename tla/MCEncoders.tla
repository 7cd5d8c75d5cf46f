----------------------------- MODULE MCEncoders -----------------------------
\* Numbers on both sides of a signed byte's limits; slots of parameters and
\* locals; a name, and one that begins with it.
EXTENDS Frame

MCDisplacements == {0, 8, 127, 128, -128, -129}
MCImmediates == {0, 5, 127, 128, 300, -128, -129}
MCSlots == -2 .. 2
MCNames == {<<"a">>, <<"a", "b">>}
=============================================================================
