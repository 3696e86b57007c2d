----------------------------- MODULE MCSegmenter -----------------------------
(* Segmenter for TLC: an event of a full fragment and a short one, with an empty
   event or with one of exactly a full fragment. *)
EXTENDS Segmenter, TLC

CONSTANTS e1, e2

MCBytes   == (e1 :> 3) @@ (e2 :> 0)
RingBytes == (e1 :> 3) @@ (e2 :> 2)
OneBytes  == (e2 :> 2)
=============================================================================
