-------------------------------- MODULE MCHub --------------------------------
(***************************************************************************)
(* Instance of Hub for TLC: clients and broadcasts are model values.       *)
(***************************************************************************)
EXTENDS Hub

==============================================================================
