------------------------------ MODULE MCLogin ------------------------------
(* Every way to log in, one code of Twitter's. *)
EXTENDS AuthLogin
CONSTANT X
=============================================================================
