---------------------------- MODULE MCSnowflake ----------------------------
(* An instance of Snowflake for TLC: the sizes are given in the cfg file.   *)
EXTENDS Snowflake

CONSTANT MaxServed \* bound: how many calls are explored

Bounded == served < MaxServed
=============================================================================
