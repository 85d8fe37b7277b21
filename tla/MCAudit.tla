------------------------------- MODULE MCAudit -------------------------------
(***************************************************************************)
(* The two ways an audit event reaches a subscriber: pushed by the stream  *)
(* as it is published, or replayed from the history by a delivery.  They   *)
(* share only the history, which both append to and never change, so each  *)
(* is checked with a history of its own: a behaviour here is a behaviour   *)
(* of one of the two, chosen at the start.                                 *)
(***************************************************************************)
EXTENDS AuditDelivery, AuditStream

VARIABLE part  \* the part that runs

partVars == <<vars, streamVars, part>>

MCInit == Init /\ StreamInit /\ part \in {"stream", "delivery"}

MCNext == /\ UNCHANGED part
          /\ \/ part = "stream" /\ StreamNext /\ UNCHANGED vars
             \/ part = "delivery" /\ Next /\ UNCHANGED streamVars

MCSpec == /\ MCInit /\ [][MCNext]_partVars
          /\ part = "stream" => StreamFair
          /\ part = "delivery" => Fair

=============================================================================
