--------------------------------- MODULE MCChat ---------------------------------
(* One reply of up to two parts, explored down to what its documents deny.        *)
EXTENDS Chat
================================================================================
