-------------------------- MODULE MCServerProtocol --------------------------
(* Small instances of ServerProtocol.                                      *)
EXTENDS ServerProtocol

First == [cmd |-> "initialize", early |-> TRUE]
Later == [cmd : {"variables", "other"}, early : BOOLEAN]

\* initialize and up to three more requests.
ShortPlans == {<<First>> \o p : p \in UNION {[1..n -> Later] : n \in 0..3}}
=============================================================================
