---------------------------- MODULE MCSlaveMirror ----------------------------
(* Instances of SlaveMirror for TLC: the bounds are in the .cfg files.     *)
EXTENDS SlaveMirror
=============================================================================
