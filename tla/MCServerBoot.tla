---------------------------- MODULE MCServerBoot ----------------------------
(* Small values for ServerBoot: the configurations give them all. *)
EXTENDS ServerBoot

=============================================================================
