------------------------------ MODULE MCServer ------------------------------
(***************************************************************************)
(* Model-checking instance of Server. The cfg files give the threads, the  *)
(* data, the watches, timeouts and slots as sets of model values.          *)
(***************************************************************************)
EXTENDS Server, TLC

\* Data values are interchangeable: the server never tells them apart.
MCSymmetry == Permutations(Data)
=============================================================================
