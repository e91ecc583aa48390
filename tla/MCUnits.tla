-------------------------------- MODULE MCUnits --------------------------------
(***************************************************************************)
(* Units for TLC: the names of two commands, arguments of cli_printf.      *)
(***************************************************************************)
EXTENDS Units

MCNames == {<<"h">>, <<"D">>}
MCIntArgs == {-128, -7, 0, 127}
MCStringLens == {-1, 0, 2}
==============================================================================
