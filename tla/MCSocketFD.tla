----------------------------- MODULE MCSocketFD -----------------------------
(* Bounded instance of SocketFD: three brackets, any of which may also     *)
(* call close; a count modulo 4 is the smallest the brackets do not wrap.  *)
EXTENDS SocketFD
=============================================================================
