---------------------------- MODULE MCSpiMaster -----------------------------
(* Bytes of three bits and sets of failing ioctls for model checking.      *)
EXTENDS SpiMaster
SomeBytes == {<<0, 0, 0>>, <<1, 0, 1>>, <<0, 1, 1>>, <<1, 1, 0>>}
SomeFailures ==
  {{}, {"direction"}, {"csn"}, {"sck", "direction"}, {"mosi", "read"}, {"sck", "mosi"}}
=============================================================================
