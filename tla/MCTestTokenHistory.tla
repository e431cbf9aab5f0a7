-------------------------- MODULE MCTestTokenHistory --------------------------
(* The registry with its history, over the inputs of MCTestToken.           *)
EXTENDS MCTestToken, TestTokenHistory

===============================================================================
