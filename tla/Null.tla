-------------------------------- MODULE Null --------------------------------
(* The NULL of the program: no user, no password, no frame, no command *)
CONSTANT None
=============================================================================
