------------------------------- MODULE MCHttpd -------------------------------
(***************************************************************************)
(* Httpd with two connections.  What wifi() registers while the device     *)
(* runs: "/" again when the station loses its network, "/setup" when it    *)
(* has an address.                                                         *)
(***************************************************************************)
EXTENDS Httpd, TLC

MCLateNodes == {Node(Root, "html", "web_system"), Node(<<"/", "setup">>, "html", "web_system")}

Get(url, v) == [get |-> TRUE, url |-> url, value |-> v]

MCRequests ==
    {Get(Root, 1), Get(<<"/", "setup">>, 1), Get(<<"/", "rtc">>, 1), Get(<<"/", "reset">>, 1),
     Get(<<"/", "ssid", "?a">>, 1), Get(<<"/", "ssid", "?b">>, 2),
     Get(<<"*">>, 1), [get |-> FALSE, url |-> Root, value |-> 1]}
=============================================================================
