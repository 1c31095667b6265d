----------------------------- MODULE MCRestClient ------------------------------
(***************************************************************************)
(* Every method of the table, with at most one of its keyword arguments,   *)
(* after every method for the same kind of thing and after get_token.      *)
(***************************************************************************)
EXTENDS RestClient

MCTopics == { {Token} \union {r.name : r \in table} : table \in Tables }
=============================================================================
