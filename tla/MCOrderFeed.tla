---------------------------- MODULE MCOrderFeed ----------------------------
(* Two activities, one created after the other at any time, and answers with
   up to two orders. Activities and keys are interchangeable, but the runs check
   liveness, so no symmetry is declared. *)
EXTENDS OrderFeed
=============================================================================
