----------------------------- MODULE MCPageScan -----------------------------
(* Small instances of PageScan: a longer file and one of a single page.    *)
EXTENDS PageScanInv, TLC

TwoFiles == <<3, 1>>
TwoShort == <<2, 1>>
WorkerSymmetry == Permutations(Workers)
All == -1
=============================================================================
