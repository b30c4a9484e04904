------------------------------ MODULE MCBQLBox ------------------------------
(* Every sampling with no limit, with limits below, at and above the number of *)
(* results of one tuple, and with LIMIT 0.                                   *)
EXTENDS BQLBox

AllOptions == [limit : {-1, 0, 1, 2, 3}, sampling : {"none", "count", "random", "time"}, n : {2}]
=============================================================================
