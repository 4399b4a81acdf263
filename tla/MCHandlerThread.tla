--------------------------- MODULE MCHandlerThread ---------------------------
(* Instances of HandlerThread for TLC. *)
EXTENDS HandlerThread

=============================================================================
