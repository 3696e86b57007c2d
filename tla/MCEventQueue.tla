---------------------------- MODULE MCEventQueue ----------------------------
(* EventQueue for TLC. Every constant gets model values or numbers in the cfg:
   MCEventQueue.cfg checks the queue, MCEventQueueFill.cfg shows the fill that
   the SendState thread computes out of its documented range. *)
EXTENDS EventQueue
=============================================================================
