--------------------------------- MODULE MCTrans ---------------------------------
(* The sizes the course grades, two small ones, and one that is square to the   *)
(* columns of a block only.                                                     *)
EXTENDS Trans

SomeSizes == {<<32, 32>>, <<64, 64>>, <<61, 67>>, <<5, 3>>, <<24, 9>>, <<46, 8>>}
===============================================================================
