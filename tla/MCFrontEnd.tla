------------------------------ MODULE MCFrontEnd ------------------------------
(* Files of two nodes and up to two couplers, in which lines may be missing,*)
(* repeated, too many or out of bounds at either end, and some options.     *)
EXTENDS FrontEnd

MCCoordinates == -1 .. 2
MCHeaders  == {<<2, 2, 1>>, <<1, 1, 0>>}
MCSettings == {<<"num_samples", 0>>, <<"card", 1>>, <<"card", -1>>}
==============================================================================
