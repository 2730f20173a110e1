------------------------------ MODULE MCFetcher ------------------------------
(* Instances of Fetcher for TLC; the constants are set in the cfg files. *)
EXTENDS Fetcher
=============================================================================
