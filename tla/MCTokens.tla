----------------------------- MODULE MCTokens -----------------------------
(***************************************************************************)
(* A small instance of Tokens: one user who comes, changes role and goes.  *)
(***************************************************************************)
EXTENDS Tokens

CONSTANT boss

Nobody == [u \in {} |-> "GUEST"]
=============================================================================
