---------------------------- MODULE MCSourceNode ----------------------------
(* Three calls reach every pair of methods with a third in between; two tuples *)
(* tell the first of a stream from a later one.                              *)
EXTENDS SourceNode
=============================================================================
