--------------------------- MODULE MCTlsHandshake ---------------------------
(* The ways in which client and server are configured in the runs.          *)
EXTENDS TlsHandshake

Cred(verify, cert, key) == [verify |-> verify, cert |-> cert, key |-> key]

ServerCred ==
  [key |-> "server_key", chain |-> <<"server_key">>, verdict |-> "ok", pinned |-> TRUE,
   server_auth |-> TRUE, dh |-> TRUE, trusted |-> TRUE, ocsp |-> NULL, ocsp_multi |-> NULL]

\* A peer of another make that has no AES-256 (with which the firmware cannot
\* talk); one that has no DHE_RSA but takes anonymous clients.
NoAes256 == << <<"DHE_RSA", 2>>, <<"RSA", 2>>, <<"DHE_RSA", 1>>, <<"RSA", 1>> >>
NoAes256Anonymous ==
  << <<"RSA", 2>>, <<"RSA", 1>>, <<"DH_anon", 2>>, <<"DH_anon", 1>> >>

\* The firmware's client, which checks the server's certificate, and a server
\* of another make; DHE_RSA.
Usual ==
  [flags |-> {}, client_cred |-> Cred("ca", FALSE, FALSE), client_anonymous |-> FALSE,
   server_anonymous |-> FALSE, ticket |-> FALSE, client_cb |-> NULL, server_cb |-> NULL,
   verify_peer |-> FALSE, server_cred |-> ServerCred, fit |-> TRUE,
   client_suites |-> NULL, server_suites |-> NoAes256,
   faults |-> {"none", "input", "partial", "output", "random", "crypto"}, troubles |-> 1,
   halves |-> FALSE, rounds |-> 1, data |-> 1]

\* The firmware's server, and a client of another make.
Served == [Usual EXCEPT !.client_suites = NoAes256, !.server_suites = NULL]
Rsa == [Usual EXCEPT !.server_anonymous = TRUE, !.server_suites = NoAes256Anonymous]
Anonymous == [Rsa EXCEPT !.client_anonymous = TRUE, !.client_cred = NULL]
Mutual == [Usual EXCEPT !.verify_peer = TRUE, !.client_cred = Cred("ca", TRUE, TRUE)]
Pinned == [Usual EXCEPT !.client_cred = Cred("hash", FALSE, FALSE)]
Ticket(c, s) == [Usual EXCEPT !.ticket = TRUE, !.client_cb = c, !.server_cb = s,
                              !.fit = <<c, s>> \in {<<"yes", "yes">>, <<"yes", "no">>, <<"no", "no">>}]
Stapled(flags, single, multi, fit) ==
  [Usual EXCEPT !.flags = flags, !.server_cred.ocsp = single,
                !.server_cred.ocsp_multi = multi, !.fit = fit]

FitScenarios ==
  {Usual, Served, Rsa, Anonymous, Mutual, Pinned, Ticket("yes", "yes"), Ticket("yes", "no"),
   Ticket("no", "no"),
   Stapled({"REQUEST_OCSP", "REQUIRE_OCSP"}, <<"GOOD">>, NULL, TRUE),
   Stapled({"REQUEST_OCSP", "REQUIRE_OCSP_ALL"}, NULL, <<"GOOD", "GOOD">>, TRUE),
   Stapled({"REQUEST_OCSP"}, <<"unreadable">>, NULL, TRUE)}

Unfit(s) == [s EXCEPT !.fit = FALSE]

\* The first are two devices with this firmware.
UnfitScenarios ==
  { Unfit([Usual EXCEPT !.server_suites = NULL]),
    Unfit([Anonymous EXCEPT !.server_suites = NULL]),
    Unfit([Usual EXCEPT !.server_cred.verdict = "UNKNOWN_CA"]),
    Unfit([Usual EXCEPT !.server_cred.server_auth = FALSE]),
    Unfit([Usual EXCEPT !.server_cred.dh = FALSE]),
    Unfit([Usual EXCEPT !.client_cred = Cred("probe", FALSE, FALSE)]),
    Unfit([Pinned EXCEPT !.server_cred.pinned = FALSE]),
    Unfit([Pinned EXCEPT !.server_cred.pinned = FALSE, !.server_cred.chain = <<>>]),
    Unfit([Mutual EXCEPT !.client_cred = Cred("none", FALSE, FALSE)]),
    Unfit([Mutual EXCEPT !.client_cred = Cred("none", TRUE, FALSE)]),
    Unfit([Mutual EXCEPT !.client_cred = Cred("none", FALSE, FALSE),
                         !.server_cred.trusted = FALSE]),
    Unfit([Usual EXCEPT !.flags = {"DISABLE_TLSv1_2"}]),
    Ticket("no", "yes"), Ticket("fail", "no"), Ticket("yes", "fail"),
    Stapled({"REQUEST_OCSP"}, NULL, <<"GOOD", "REVOKED">>, FALSE),
    Stapled({"REQUEST_OCSP", "REQUIRE_OCSP"}, NULL, NULL, FALSE),
    Stapled({"REQUEST_OCSP", "REQUIRE_OCSP"}, <<"INVALID">>, NULL, FALSE) }

\* Nothing goes wrong.
Calm(s) == [s EXCEPT !.faults = {"none"}, !.troubles = 0]

\* A second handshake on the same connection, more data, and (with a ticket)
\* calls with any piece of the stream. The second handshake may fail: see the
\* README.
Long(s) == [s EXCEPT !.faults = {"none", "output"}, !.halves = TRUE, !.rounds = 2, !.data = 2]

AllScenarios ==
  FitScenarios \cup UnfitScenarios \cup { Calm(s) : s \in FitScenarios }
    \cup { Unfit(Long(Ticket("yes", "yes"))), Unfit([Long(Usual) EXCEPT !.halves = FALSE]) }
==============================================================================
