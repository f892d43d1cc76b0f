------------------------------- MODULE MCWalk -------------------------------
(***************************************************************************)
(* A relay with up to four events in two seconds, three of them in one:    *)
(* more than the smaller replies carry, so that a window may have to be    *)
(* left in the middle of a second.                                         *)
(***************************************************************************)
EXTENDS Walk

Held == { [id |-> 1, at |-> 1], [id |-> 2, at |-> 2], [id |-> 3, at |-> 2],
          [id |-> 4, at |-> 2] }
=============================================================================
