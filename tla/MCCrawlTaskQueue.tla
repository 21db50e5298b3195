------------------------- MODULE MCCrawlTaskQueue -------------------------
(* Small instances of CrawlTaskQueue for TLC.                              *)
EXTENDS CrawlTaskQueue

CONSTANTS w1, w2

\* Both workers run with --kind all.
MCServesAll == [w \in Worker |-> Task]

\* w2 is started with a filter that leaves out task 1.
MCServesFiltered == [w \in Worker |-> IF w = w1 THEN Task ELSE Task \ {1}]
=============================================================================
