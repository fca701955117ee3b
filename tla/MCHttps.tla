------------------------------- MODULE MCHttps -------------------------------
(***************************************************************************)
(* Https with two connections.                                             *)
(***************************************************************************)
EXTENDS Https, TLC

Symmetric == Permutations(Conns)

\* Data alone; data around a warning; data cut short by a fatal alert; data
\* around a request for another handshake.
MCAnswers ==
    {<<"data", "data", "data">>, <<"data", "warning", "data">>,
     <<"data", "data", "fatal">>, <<"data", "handshake", "data">>}

\* For the handshake's alert what follows it does not matter.
MCTwoRecords == {<<"data", "data">>}
=============================================================================
