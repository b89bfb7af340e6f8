------------------------------ MODULE MCBinlog ------------------------------
(* Binlog for TLC; the configurations give the constants their values. *)
EXTENDS Binlog
=============================================================================
