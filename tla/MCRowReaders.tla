--------------------------- MODULE MCRowReaders ---------------------------
(* A small instance of RowReaders: every function, over documents of up to *)
(* three entries, with chunks of two rows.                                 *)
EXTENDS RowReadersInv, TLC
=============================================================================
