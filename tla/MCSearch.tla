------------------------------ MODULE MCSearch ------------------------------
(* One value to search for, up to two pages of rows.                       *)
EXTENDS Search
=============================================================================
