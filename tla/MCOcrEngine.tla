---------------------------- MODULE MCOcrEngine ----------------------------
(* A small instance of OcrEngine: the requests differ in one thing each.   *)
EXTENDS OcrEngine, TLC

CONSTANTS s, t, eng, fra, plain, digits, here, near, far

Page == [kind |-> "text", external |-> FALSE, model |-> eng, settings |-> plain,
         psm |-> 3, plugin |-> None, bestEffort |-> FALSE]
Asked ==
  {Page, [Page EXCEPT !.kind = "layer", !.settings = digits, !.psm = 6],
   [Page EXCEPT !.kind = "blob", !.model = fra, !.bestEffort = TRUE],
   [Page EXCEPT !.external = TRUE, !.plugin = near],
   [Page EXCEPT !.external = TRUE, !.plugin = far, !.bestEffort = TRUE],
   [Page EXCEPT !.external = TRUE]}
Either == Permutations(Threads)
=============================================================================
