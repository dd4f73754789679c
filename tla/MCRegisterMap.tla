--------------------------- MODULE MCRegisterMap ---------------------------
(* Registers of 32 values for TLC, tried at the edges of their range.      *)
EXTENDS RegisterMap

EdgePowers == {-Half, -1, 0, Half - 1}

\* Whole kilowatts at the edges of a word and of a sign, and fractions beside them.
EdgeCommands ==
    {10 * kw + tenths : kw \in {-Base - 1, -Base, -Half - 1, -Half, -1, 0, Half - 1, Half,
                                Base - 1, Base},
                        tenths \in {-9, 0, 9}}
=============================================================================
