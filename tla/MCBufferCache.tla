--------------------------- MODULE MCBufferCache ---------------------------
(* Two entries in front of three sectors: every miss evicts, and sectors    *)
(* are read again after their eviction.                                     *)
EXTENDS BufferCache
=============================================================================
