----------------------------- MODULE MCIsrQueue -----------------------------
(* A ring of a few slots and two distinguishable data bytes, and messages  *)
(* that fit it, fill it or do not fit.                                     *)
EXTENDS TornQueue

MCMessage == {<<1>>, <<2>>, <<1, 2>>, <<2, 2>>, <<1, 2, 1>>, <<2, 1, 1, 2>>}
=============================================================================
