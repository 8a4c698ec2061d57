------------------------------ MODULE MCTokens -------------------------------
(* An instance of Tokens by itself, for what GitHub refuses. *)
EXTENDS Tokens

MCConfigured == {{}, Repo}
=============================================================================
