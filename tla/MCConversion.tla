---------------------------- MODULE MCConversion ----------------------------
(* A small instance of Conversion: two calls of LibreOffice at once, and one *)
(* that tries a native application first.                                  *)
EXTENDS Conversion, TLC

CONSTANTS x, y, z

Routes == [c \in Calls |-> IF c = z THEN <<"native", "libre">> ELSE <<"libre">>]
=============================================================================
