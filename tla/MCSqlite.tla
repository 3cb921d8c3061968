------------------------------ MODULE MCSqlite ------------------------------
(* A handle of the program's, a borrowed one, and a statement.             *)
EXTENDS Sqlite
=============================================================================
