---------------------------- MODULE MCBufferUser ----------------------------
(* Small buffers for TLC, with streams longer than the capacity. *)
EXTENDS BufferUser
=============================================================================
