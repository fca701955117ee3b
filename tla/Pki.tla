-------------------------------- MODULE Pki ---------------------------------
(****************************************************************************)
(* How a client comes to believe a server: its user loads trusted           *)
(* certificates, the server sends a chain, responses about the state of the *)
(* certificates may be stapled to it. The certificates of the world are     *)
(* issued by authorities, or made by someone who has no more than an        *)
(* ordinary certificate. `Behind` and `Dedicated` say what an observer      *)
(* knows: which keys an anchor answers for, and which keys an authority     *)
(* uses for responses only.                                                 *)
(****************************************************************************)
EXTENDS TlsCred, Ocsp

CONSTANTS
  World,        \* the certificates there are
  Issuers,      \* those of them that a server sends behind the first one
  ParamSets,    \* what the user may ask for
  Responses,    \* the status responses there are
  Times,        \* what time it may be: the beginnings of these years
  GoodPaths,    \* the chains an honest server sends, with the key of their root
  Behind,       \* the keys that an anchor answers for
  Dedicated,    \* the keys that an authority uses for responses only
  MaxSets,      \* bound: how often parameters are set
  MaxChain,     \* bound: how many certificates a server sends
  MaxStatus     \* bound: how many responses it staples

VARIABLES
  cred,       \* the connection's credentials
  wanted,     \* the parameters that were accepted last, or NULL
  sets, now,
  wires,      \* the chain as it was sent
  chain,      \* and as it was read
  verdict,    \* what became of it, or NULL
  trusted_at, \* which of them a trusted certificate has issued
  status, heard    \* what is known of each of them, and the responses

vars == <<cred, wanted, sets, now, wires, chain, verdict, trusted_at, status, heard>>

Init ==
  /\ cred = NULL /\ wanted = NULL /\ sets = 0
  /\ now \in Times
  /\ wires = <<>> /\ chain = <<>> /\ verdict = NULL /\ trusted_at = 0
  /\ status = <<>> /\ heard = {}

SetParams ==
  /\ verdict = NULL /\ sets < MaxSets
  /\ \E p \in ParamSets : \E set \in {tls_connection_set_params(cred, p)} :
       /\ cred' = set.cred
       /\ wanted' = IF set.ok THEN p ELSE wanted
  /\ sets' = sets + 1
  /\ UNCHANGED <<now, wires, chain, verdict, trusted_at, status, heard>>

Chains ==
  { <<>> } \cup { <<w>> \o rest : w \in World, rest \in BoundedSeq(Issuers, MaxChain - 1) }

\* The first certificate is for a server, if it says what it is for.
ServerUse(c) ==
  "EXT_KEY_USAGE" \in c.present => c.ext_key_usage \cap {"ANY", "SERVER_AUTH"} # {}

\* A certificate that is expected, or only looked at, and what the chain shows.
VerdictOn(certs, v) ==
  LET bad == [reason |-> "BAD_CERTIFICATE", issuer_trusted |-> 0]
  IN  IF cred.server_cert_only # NULL /\ certs # <<>>
      THEN IF wires'[1] = cred.server_cert_only THEN [v EXCEPT !.reason = "OK"] ELSE bad
      ELSE IF cred.cert_probe THEN bad
      ELSE IF v.reason # "OK" THEN v
      ELSE IF certs # <<>> /\ ~ServerUse(certs[1]) THEN bad
      ELSE v

\* The device's clock counts the seconds as the program does.
os_get_time == mktime(now)

\* What the client makes of a chain that could be read: [reason, issuer_trusted].
Judge(certs) ==
  VerdictOn(certs,
            IF cred.ca_cert_verify
            THEN x509_certificate_chain_validate(cred.trusted_certs, certs, os_get_time,
                                                 wanted.no_time)
            ELSE [reason |-> "OK", issuer_trusted |-> 0])

ReceiveCertificates ==
  /\ wanted # NULL /\ verdict = NULL
  /\ \E ws \in Chains :
       /\ wires' = ws
       /\ \E certs \in {[i \in DOMAIN ws |-> x509_certificate_parse(ws[i])]} :
            \/ /\ \E i \in DOMAIN certs : ~certs[i].ok
               /\ verdict' = "BAD_CERTIFICATE"
               /\ UNCHANGED <<chain, trusted_at, status>>
            \/ /\ \A i \in DOMAIN certs : certs[i].ok
               /\ \E v \in {Judge(certs)} : verdict' = v.reason /\ trusted_at' = v.issuer_trusted
               /\ chain' = certs
               /\ status' = [i \in DOMAIN ws |-> "none"]
  /\ UNCHANGED <<cred, wanted, sets, now, heard>>

\* The chain is kept for this only if the user asks for it (REQUEST_OCSP).
ReceiveStatus ==
  /\ verdict = "OK" /\ wanted.ocsp /\ Cardinality(heard) < MaxStatus
  /\ \E resp \in Responses :
       /\ \E intact \in BOOLEAN :
            status' = tls_process_ocsp_response(cred.trusted_certs, chain, trusted_at, status,
                                                resp, os_get_time, intact).status
       /\ heard' = heard \cup {resp}
  /\ UNCHANGED <<cred, wanted, sets, now, wires, chain, verdict, trusted_at>>

Next == SetParams \/ ReceiveCertificates \/ ReceiveStatus

Spec == Init /\ [][Next]_vars

------------------------------------------------------------------------------
(****************************************************************************)
(* Properties                                                               *)
(****************************************************************************)
ByAuthority == verdict = "OK" /\ wanted.anchors # {}

SignedBy(sig, keys) == sig.by \in keys /\ sig.matches

\* Names as the authority meant them, the part behind a NUL included.
Meant(w) == [i \in DOMAIN w.subject |-> [text |-> w.subject[i].value.text, nul |-> w.subject[i].nul]]
Shown(c) == [i \in DOMAIN c.subject.attr |-> [text |-> c.subject.attr[i].value.text, nul |-> FALSE]]

\* When the user has asked for authorities and a chain is accepted, one of the
\* keys that these authorities answer for has certified the server's key under
\* the name the program shows: whatever somebody with an ordinary certificate
\* signs, wherever it is put into a chain, and whatever was wrong with the file
\* of trusted certificates.
AcceptedIsVouched ==
  ByAuthority =>
    \E w \in World, a \in wanted.anchors :
      /\ SignedBy(w.signature, Behind[a])
      /\ Meant(w) = Shown(chain[1]) /\ w.key = wires[1].key

\* The seconds since 1970 fit into 32 bits until February 2106.
LastYear == 2105

\* Is it the time between these two dates, if the first one fits?
IsTime(years) == years[1] > LastYear \/ now \in years[1] .. years[2]

\* Each certificate of an accepted chain, up to the one that a trusted one has
\* issued, is valid at the time, unless the user does not ask for it, and no
\* issuer among them has more issuers below it than it may have. (Certificates
\* that begin to be valid after 2105 do so too early.)
AcceptedMeetsLimits ==
  ByAuthority =>
    \A i \in 1 .. trusted_at :
      /\ wanted.no_time \/ IsTime(wires[i].years)
      /\ i > 1 /\ wires[i].limit # NULL => i - 2 <= wires[i].limit

\* A chain that an honest server sends is accepted while it is valid by a client
\* that trusts its root, with or without the root itself at the end, and
\* whatever else the client trusts (as long as it is of another name), if none
\* of its certificates expires after 2105.
GoodIsAccepted ==
  \A g \in GoodPaths :
    /\ verdict # NULL /\ wires = g.path /\ wanted # NULL
    /\ g.root \in wanted.anchors /\ ~wanted.shadowed
    /\ wanted.no_time \/ \A i \in DOMAIN g.path : /\ IsTime(g.path[i].years)
                                                /\ g.path[i].years[2] <= LastYear
    => verdict = "OK"

\* What the client believes of a certificate's state was said, for this moment
\* (or in a response dated after 2105), by the key that issued the certificate
\* or by one that the issuer keeps for this purpose.
StatusIsVouched ==
  \A i \in DOMAIN status :
    status[i] # "none" =>
      \E r \in heard :
        /\ SignedBy(r.signature, {wires[i].signature.by} \cup Dedicated[wires[i].signature.by])
        /\ \E s \in Range(r.responses) :
             /\ s.serial.value = wires[i].serial.value
             /\ s.issuer_key = wires[i].signature.by
             /\ s.cert_status = (IF status[i] = "GOOD" THEN 0 ELSE 1)
             /\ IsTime(s.years)
==============================================================================
