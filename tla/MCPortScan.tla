----------------------------- MODULE MCPortScan -----------------------------
(* Two workers, over trees of two categories and three ports, one of them  *)
(* listed twice, and over origins on the command line.                     *)
EXTENDS PortScan

(* The categories are 1 and 2, the ports 3 and 4.                          *)
MCNames == 1 .. 4
NoPorts == [origins |-> <<>>, entries |-> <<>>]
Whole ==
  [given |-> <<>>,
   root |-> [origins |-> <<2, 1>>, entries |-> <<>>],
   category |-> [n \in MCNames |->
     IF n = 1 THEN [origins |-> <<3>>, entries |-> <<"category">>]
     ELSE [origins |-> <<4, 3>>, entries |-> <<>>]],
   checks |-> TRUE,
   defaults |-> <<>>,
   port |-> [n \in MCNames |-> IF n = 3 THEN <<"finding">> ELSE <<"error">>]]

MCTrees ==
  { Whole,
    [Whole EXCEPT !.given = <<4, 3>>],
    [Whole EXCEPT !.checks = FALSE],
    [Whole EXCEPT !.defaults = <<"error">>],
    [Whole EXCEPT !.root = [origins |-> <<>>, entries |-> <<"error">>]],
    [Whole EXCEPT !.category[2] = [origins |-> <<>>, entries |-> <<"error">>]] }
=============================================================================
