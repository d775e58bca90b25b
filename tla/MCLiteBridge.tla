---------------------------- MODULE MCLiteBridge ----------------------------
(***************************************************************************)
(* Bytes of two bits (an even number, as eight is), packets of five bytes: *)
(* two events of which noise on a start bit can make a third, and the null *)
(* event.                                                                  *)
(***************************************************************************)
EXTENDS LiteBridge

MCWords == { << <<1, 1>>, <<0, 0>>, <<1, 1>> >>, << <<1, 1>>, <<0, 1>>, <<0, 1>> >>,
             << <<0, 0>>, <<1, 1>>, <<0, 1>> >> }
=============================================================================
