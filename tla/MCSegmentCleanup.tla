-------------------------- MODULE MCSegmentCleanup ---------------------------
(* SegmentCleanup on a card with a candidate of each kind.                  *)
EXTENDS SegmentCleanup

MCUntrusted == {[kind |-> "reading", n |-> 1]}

\* The first candidate of each kind and the newest closed reading segment.
MCFragile == {[kind |-> "reading", n |-> 1], [kind |-> "reading", n |-> 3],
              [kind |-> "event", n |-> 1]}
=============================================================================
