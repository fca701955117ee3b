-------------------------------- MODULE MCPki --------------------------------
(****************************************************************************)
(* Two authorities, "R" with "S" and "T" below it and "Q", and "holder",    *)
(* who has a certificate of "S" and signs others with its key.              *)
(****************************************************************************)
EXTENDS Pki

Attribute(text) ==
  [type |-> "CN", string |-> TRUE, nul |-> FALSE, 
   value |-> [text |-> text, case |-> "lower", spaces |-> 1]]
CommonName(text) == <<Attribute(text)>>

\* As RFC 5280 has it: two digits up to 2049.
Time(year) ==
  IF year < 2050 THEN [tag |-> "utc", year |-> year % 100, shape |-> TRUE, fields |-> TRUE]
  ELSE [tag |-> "generalized", year |-> year, shape |-> TRUE, fields |-> TRUE]
Generalized(year) == [tag |-> "generalized", year |-> year, shape |-> TRUE, fields |-> TRUE]
NoTime == [tag |-> "none", year |-> 0, shape |-> TRUE, fields |-> TRUE]

Sign(by) == [by |-> by, digest |-> "SHA256", params |-> "null", matches |-> TRUE, extra |-> FALSE]

Ext(oid, critical, v) == [oid |-> oid, critical |-> critical, fmt |-> "ok", v |-> v]
Constraints(ca, len) == Ext("basicConstraints", TRUE, [ca |-> ca, path_len |-> len])
Usage(v) == Ext("keyUsage", TRUE, v)
ExtUsage(v) == Ext("extKeyUsage", FALSE, v)

Valid(w, from, to) ==
  [w EXCEPT !.not_before = Time(from), !.not_after = Time(to), !.years = <<from, to>>]

Issue(serial, subject, key, issuer, by, extensions) ==
  Valid([version |-> V3, serial |-> [len |-> 1, value |-> serial], sigalg |-> "SHA256",
         issuer |-> CommonName(issuer), subject |-> CommonName(subject),
         not_before |-> NULL, not_after |-> NULL, years |-> NULL, limit |-> NULL,
         key |-> key, optional |-> "extensions", extensions |-> extensions, fmt |-> "ok",
         signature |-> Sign(by)], 1999, 2060)

IssueCa(serial, subject, key, issuer, by, len) ==
  [Valid(Issue(serial, subject, key, issuer, by,
               <<Constraints(TRUE, len), Usage({"KEY_CERT_SIGN", "CRL_SIGN"})>>), 1999, 2105)
   EXCEPT !.limit = len]

Root == IssueCa(1, "R", "kR", "R", "kR", NULL)
OldRoot == IssueCa(2, "R", "kOld", "R", "kOld", NULL)
OtherRoot == IssueCa(3, "Q", "kQ", "Q", "kQ", NULL)
Sub == IssueCa(4, "S", "kS", "R", "kR", 0)
SubFree == IssueCa(5, "S", "kS", "R", "kR", NULL)
Third == IssueCa(6, "T", "kT", "S", "kS", NULL)

Server == Issue(10, "server", "kServer", "S", "kS",
                <<Usage({"DIGITAL_SIGNATURE"}), ExtUsage({"SERVER_AUTH"})>>)
ServerOfThird == Issue(11, "server", "kServer", "T", "kT", <<Constraints(NULL, NULL)>>)
ServerOfRoot == [Issue(12, "server", "kServer", "R", "kR", <<>>) EXCEPT !.optional = "none"]
ServerOfOther == Issue(13, "other", "kOther", "Q", "kQ", <<>>)
Respelled == [Server EXCEPT !.issuer[1].value.spaces = 2]
Capitals == [Server EXCEPT !.issuer[1].value.case = "upper"]
Altered == [Server EXCEPT !.key = "kHolder", !.signature.matches = FALSE]
Weaker == [Server EXCEPT !.signature.digest = "MD5"]
UnknownExtension(critical) ==
  [Server EXCEPT !.extensions = Append(@, Ext("other", critical, {}))]
Expired == Valid(Server, 1999, 2020)
Later == Valid(Server, 2049, 2105)
Early == Valid(Server, 1960, 2060)
Lasting == Valid(Server, 1999, 2120)
FarAhead == Valid(Server, 2108, 2150)

Holder == Issue(20, "holder", "kHolder", "S", "kS", <<Constraints(FALSE, NULL)>>)
HolderPlain == Issue(21, "holder", "kHolder", "S", "kS", <<>>)
HolderNoSign == Issue(22, "holder", "kHolder", "S", "kS",
                      <<Constraints(TRUE, NULL), Usage({"CRL_SIGN"})>>)
HolderNul == [Issue(23, "server", "kHolder", "S", "kS", <<>>) EXCEPT !.subject[1].nul = TRUE]
HolderMail == Issue(24, "holder", "kHolder", "S", "kS", <<ExtUsage({"EMAIL"})>>)

Made(issuer) == Issue(30, "server", "kHolder", issuer, "kHolder", <<>>)
MadeSub == IssueCa(31, "S", "kHolder", "R", "kHolder", NULL)

Responder == Issue(40, "responder", "kResponder", "S", "kS", <<ExtUsage({"OCSP"})>>)

MCWorld ==
  {Root, Sub, SubFree, Third, Server, ServerOfThird, ServerOfRoot, ServerOfOther, Respelled,
   Altered, Weaker, UnknownExtension(TRUE), UnknownExtension(FALSE), Expired, Later,
   Capitals, Early, Lasting, FarAhead,
   Holder, HolderNul, HolderMail, Made("holder"), Made("S"), Made("R")}

MCIssuers == {Root, Sub, SubFree, Third, Holder, HolderPlain, HolderNoSign, MadeSub}

MCGoodPaths ==
  { [path |-> p, root |-> "kR"] :
    p \in {<<Server, Sub>>, <<Server, Sub, Root>>, <<Respelled, SubFree>>, <<ServerOfRoot>>,
           <<ServerOfThird, Third, SubFree>>, <<UnknownExtension(FALSE), Sub>>,
           <<Later, Sub>>, <<Early, Sub>>, <<Lasting, Sub>>} }
  \cup { [path |-> <<ServerOfOther>>, root |-> "kQ"] }

MCBehind == [a \in {"kR", "kQ", "kOld"} |->
               IF a = "kR" THEN {"kR", "kS", "kT"} ELSE {a}]
MCDedicated == [a \in {"kR", "kS", "kT", "kQ", "kHolder"} |->
                  IF a = "kS" THEN {"kResponder"} ELSE {}]

------------------------------------------------------------------------------
Tag(t) == [tag |-> t]
Data(d, base64) == [tag |-> "data", base64 |-> base64, der |-> d]
Pem(w) == <<Tag("begin cert"), Data(w, TRUE), Tag("end cert"), Tag("line end")>>
File(buf) == [kind |-> "file", buf |-> buf]

Ask(ca_cert, anchors) ==
  [ca_cert |-> ca_cert, anchors |-> anchors, client_cert |-> NULL, private_key |-> NULL,
   private_key_passwd |-> NULL, dh |-> NULL, unsupported |-> FALSE, no_time |-> FALSE,
   shadowed |-> FALSE, ocsp |-> FALSE]

Trusts == Ask(File(Pem(Root)), {"kR"})

Key(form, key) == [form |-> form, key |-> key]
Encrypted == [form |-> "encrypted", passwd |-> "secret", inner |-> Key("pkcs8", "kServer")]
PemKey(kind, d) ==
  File(<<Tag("begin " \o kind), Data(d, TRUE), Tag("end " \o kind), Tag("line end")>>)

MCParamSets ==
  {[Trusts EXCEPT !.ocsp = TRUE], [Trusts EXCEPT !.no_time = TRUE],
   Ask(File(<<Data(Root, FALSE)>>), {"kR"}),
   Ask(File(Pem(OtherRoot) \o Pem(Root)), {"kR", "kQ"}),
   [Ask(File(Pem(Root) \o Pem(OldRoot)), {"kR", "kOld"}) EXCEPT !.shadowed = TRUE],
   Ask(File(Pem(OtherRoot)), {"kQ"}),
   Ask(File(SubSeq(Pem(Root), 1, 3)), {"kR"}),
   Ask(File(Pem(Root) \o SubSeq(Pem(OtherRoot), 1, 2)), {"kR", "kQ"}),
   Ask(File(<<Tag("line end"), Tag("line end")>>), {"kR"}),
   Ask([kind |-> "missing"], {"kR"}),
   Ask([kind |-> "path"], {"kR"}),
   Ask([kind |-> "hash", valid |-> TRUE, hash |-> Server], {}),
   Ask([kind |-> "hash", valid |-> FALSE, hash |-> Server], {}),
   Ask([kind |-> "probe"], {}),
   Ask(NULL, {}),
   [Trusts EXCEPT !.unsupported = TRUE],
   [Trusts EXCEPT !.client_cert = File(Pem(Server) \o Pem(Sub)),
                  !.private_key = PemKey("rsa key", Key("pkcs1", "kServer"))],
   [Trusts EXCEPT !.private_key = PemKey("encrypted key", Encrypted),
                  !.private_key_passwd = "secret"],
   [Trusts EXCEPT !.private_key = PemKey("encrypted key", Encrypted)],
   [Trusts EXCEPT !.private_key = File(<<Data(Key("pkcs8", "kServer"), FALSE)>>),
                  !.dh = File(<<Data([p |-> "p", g |-> "g"], FALSE)>>)],
   [Trusts EXCEPT !.dh = File(<<Tag("begin dh"), Data([p |-> "p", g |-> NULL], TRUE),
                                Tag("end dh"), Tag("line end")>>)]}

------------------------------------------------------------------------------
Single(w, issuer, cert_status) ==
  [fmt |-> "ok", alg |-> "SHA1", issuer_dn |-> issuer.subject, issuer_key |-> issuer.key,
   serial |-> w.serial, cert_status |-> cert_status, this_update |-> Generalized(2020),
   next_update |-> Generalized(2030), years |-> <<2020, 2030>>]

Response(by, responses) ==
  [outer |-> "ok", status |-> 0, bytes |-> "some", type |-> "basic", fmt |-> "ok",
   version |-> FALSE, responder |-> [kind |-> "key", key |-> by],
   produced_at |-> Generalized(2020), alg |-> "SHA256", signature |-> Sign(by),
   certs |-> <<>>, responses |-> responses]

GoodAnswer == Response("kS", <<Single(Server, Sub, 0)>>)
ByName == [kind |-> "name", name |-> x509_parse_name(CommonName("S"))]

MCResponses ==
  {GoodAnswer, Response("kS", <<Single(Server, Sub, 1)>>),
   Response("kS", <<Single(Server, Sub, 2), Single(Server, Sub, 1), Single(Server, Sub, 0)>>),
   Response("kS", <<Single(Holder, Sub, 0)>>),
   Response("kR", <<Single(Sub, Root, 1)>>),
   Response("kHolder", <<Single(Server, Sub, 0)>>),
   [GoodAnswer EXCEPT !.responder = ByName],
   [GoodAnswer EXCEPT !.signature.by = "kHolder"],
   [GoodAnswer EXCEPT !.signature.matches = FALSE],
   [Response("kResponder", <<Single(Server, Sub, 0)>>) EXCEPT !.certs = <<Responder>>],
   [Response("kResponder", <<Single(Server, Sub, 0)>>) EXCEPT !.certs = <<Holder, Responder>>],
   [Response("kHolder", <<Single(Server, Sub, 0)>>) EXCEPT !.certs = <<Holder>>],
   Response("kS", << [Single(Server, Sub, 0) EXCEPT !.next_update = NoTime, !.years = <<2020, 9999>>] >>),
   Response("kS", << [Single(Server, Sub, 0) EXCEPT !.this_update = Generalized(2108),
                        !.next_update = Generalized(2150), !.years = <<2108, 2150>>] >>),
   [GoodAnswer EXCEPT !.status = 3], [GoodAnswer EXCEPT !.outer = "bad"],
   [GoodAnswer EXCEPT !.version = TRUE]}
==============================================================================
