---------------------------- MODULE MCIngestPool ----------------------------
(***************************************************************************)
(* A small instance of IngestPool: two calls, one of which has as many     *)
(* refused samples as workers, and more to send after them.                *)
(***************************************************************************)
EXTENDS IngestPool

CONSTANTS t1, none, c1, c2

TwoCalls == [c \in {c1, c2} |->
               IF c = c1 THEN <<t1, none, none, t1, t1>>
                         ELSE <<t1, none, t1>>]

=============================================================================
