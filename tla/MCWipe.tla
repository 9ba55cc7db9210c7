------------------------------- MODULE MCWipe -------------------------------
(***************************************************************************)
(* An instance of Wipe for TLC: a quick or a full wipe within one second   *)
(* and beside one command at most, or two commands and two seconds without *)
(* one.                                                                    *)
(***************************************************************************)
EXTENDS Wipe

Apart == wipes = 0 \/ (now = 0 /\ commands <= 1)
=============================================================================
