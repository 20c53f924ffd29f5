----------------------------- MODULE MCAlsaPcm -----------------------------
(* Instance of AlsaPcm for TLC; every constant is a number or a Boolean,    *)
(* given in the configurations.                                             *)
EXTENDS AlsaPcm

=============================================================================
