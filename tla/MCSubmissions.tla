---------------------------- MODULE MCSubmissions ----------------------------
(* Submissions and views over the inputs of MCTestToken.                     *)
EXTENDS MCTestToken, Submissions, Views
=============================================================================
