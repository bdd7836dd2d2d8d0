------------------------------ MODULE MCVault ------------------------------
(* Model-checking instance of Vault: the default preferred backend (the   *)
(* OS keyring), four generated keys and two issued tokens.                *)
EXTENDS Vault
=============================================================================
