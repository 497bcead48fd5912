-------------------------- MODULE MCPassportOffice --------------------------
(* Small values for PassportOffice. *)
EXTENDS PassportOffice, TLC

=============================================================================
