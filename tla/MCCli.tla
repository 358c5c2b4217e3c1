------------------------------- MODULE MCCli -------------------------------
(***************************************************************************)
(* Processes beside the instance of MCChain: two payments that spend one   *)
(* deposit, so that a block may be one that cannot be connected.           *)
(***************************************************************************)
EXTENDS Cli, MCChain
=============================================================================
