------------------------------ MODULE MCUacpiIo ------------------------------
(* Model-checking instance of UacpiIo: two functions of eight bytes, four of  *)
(* them within reach of the ports, and three I/O ports.                       *)
EXTENDS UacpiIo
=============================================================================
