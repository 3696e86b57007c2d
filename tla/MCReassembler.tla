---------------------------- MODULE MCReassembler ----------------------------
(* Reassembler for TLC: two events, one receive thread each, or one event alone. *)
EXTENDS Reassembler, TLC

CONSTANTS t1, t2, e1, e2

TwoThreads == (e1 :> t1) @@ (e2 :> t2)
OneEvent   == e1 :> t1

(* e1 is cut into a fragment of two bytes and one of one byte; e2 is one byte. *)
MCBytes     == (e1 :> 3) @@ (e2 :> 1)
MCFragments == {[ev |-> e1, off |-> 0, len |-> 2], [ev |-> e1, off |-> 2, len |-> 1],
                [ev |-> e2, off |-> 0, len |-> 1]}
OneBytes     == e1 :> 3
OneFragments == {f \in MCFragments : f.ev = e1}

(* e1 alone, in two fragments of the same length: one of them and its duplicate
   add up to the length of the event. *)
EvenBytes     == e1 :> 2
EvenFragments == {[ev |-> e1, off |-> 0, len |-> 1], [ev |-> e1, off |-> 1, len |-> 1]}
=============================================================================
