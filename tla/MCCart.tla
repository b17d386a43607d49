------------------------------- MODULE MCCart -------------------------------
(* Two groceries of one store, and a grocery of another store with the id of one
   of them; a quantity that reaches its limits; two or three taps. *)
EXTENDS Cart

CONSTANTS s1, s2, g1, g2

MCOffers == {[store |-> s1, grocery |-> g1], [store |-> s1, grocery |-> g2],
             [store |-> s2, grocery |-> g1]}
=============================================================================
