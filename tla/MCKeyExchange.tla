---------------------------- MODULE MCKeyExchange ----------------------------
(* KeyExchange on a small instance: the acceptor's dialogs begin with a small *)
(* or a great number, so that a later one may count from below an earlier one.*)
EXTENDS KeyExchange

SmallAndGreat == {0, 2}
=============================================================================
