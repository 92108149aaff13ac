----------------------------- MODULE MCAccounts -----------------------------
(* Accounts with two registrations and a login; "admin" is also a username   *)
(* anybody may register.                                                     *)
EXTENDS Accounts, TLC

RegistrationSymmetry == Permutations(Registrations)
=============================================================================
