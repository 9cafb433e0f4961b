--------------------------------- MODULE MCTiny ---------------------------------
(* Bounds of the model-checked instance of Tiny: what a client may send. *)
EXTENDS Tiny

SomeHeaders == {<<"Accept", "Host">>}
===============================================================================
