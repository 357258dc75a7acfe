----------------------------- MODULE MCFixLoop ------------------------------
(* Two harnesses in a workspace with a baseline iteration and one that is to *)
(* prove its fix against it, of a design that has one plane at the old        *)
(* rectangle and nothing at the new place.                                   *)
EXTENDS FixLoop, TLC

CONSTANTS i1, i2

MCDelivered == [old |-> 1, new |-> 0]

MCCommands ==
    {[iter |-> i1, edit |-> "none", base |-> None],
     [iter |-> i2, edit |-> "none", base |-> i1],
     [iter |-> i2, edit |-> "add-via", base |-> i1],
     [iter |-> i2, edit |-> "resize-plane", base |-> None]}

Symmetry == Permutations(Harnesses)
=============================================================================
