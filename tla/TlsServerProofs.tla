-------------------------- MODULE TlsServerProofs --------------------------
(***************************************************************************)
(* The server's side of a handshake: what a server knows in each of its    *)
(* states, for every sequence of records that it may be given, and what    *)
(* each of its calls leaves. The first part is about calls in general and  *)
(* about what a connection, a record and a stream look like, and belongs   *)
(* to the client as well.                                                  *)
(***************************************************************************)
EXTENDS TlsHandshake, SequenceTheorems, WellFoundedInduction, TLAPS

(***************************************************************************)
(* Calls in general. A call handles the records it is given one after the  *)
(* other; the models say so with a fold, whose definition goes over sets   *)
(* of numbers and chooses a function. Here it becomes a sequence of        *)
(* connections.                                                            *)
(***************************************************************************)

\* A sequence, of whatever.
IsSeq(s) == \E T : s \in Seq(T)

\* What is true of 0, and of every number up to n after the one before it, is
\* true of n.
LEMMA UpTo ==
  ASSUME NEW n \in Nat, NEW T, 0 \in T, \A i \in 0 .. n - 1 : i \in T => i + 1 \in T
  PROVE  n \in T
<1> DEFINE B == {i \in 0 .. n : i \notin T}
<1> DEFINE less == {ss \in Nat \X Nat : ss[1] < ss[2]}
<1> SUFFICES ASSUME n \notin T PROVE FALSE
  OBVIOUS
<1>1. B \subseteq Nat /\ B # {}
  OBVIOUS
<1>2. IsWellFoundedOn(less, Nat)
  BY NatLessThanWellFounded DEF OpToRel
<1> HIDE DEF less
<1>3. PICK m \in B : \A y \in B : ~ (<<y, m>> \in less)
  BY <1>1, <1>2, WFMin
<1>4. m \in 1 .. n /\ m - 1 \in 0 .. n - 1
  OBVIOUS
<1>5. m - 1 \notin B
  <2>1. m \in Nat /\ m - 1 \in Nat /\ m - 1 < m
    BY <1>4
  <2>2. <<m - 1, m>> \in {ss \in Nat \X Nat : ss[1] < ss[2]}
    BY <2>1
  <2> HIDE DEF B
  <2> QED  BY <1>3, <2>2 DEF less
<1> QED  BY <1>4, <1>5

\* The functions that a call folds over the records it is given.
Step(kind, conn, r) ==
  CASE kind = "client handshake" -> C!ReceiveRecord(conn, r)
    [] kind = "client data" -> C!DecryptRecord(conn, r)
    [] kind = "server handshake" -> S!ServerReceive(conn, r)
    [] kind = "server data" -> S!ServerDecryptRecord(conn, r)

\* The greatest number of a set.
Top(s) == CHOOSE x \in s : \A y \in s : x >= y

\* The function by which the fold over the first n records is defined.
Folded(f, kind, base, seq, n) ==
  f = [s \in SUBSET (1 .. n) |->
         IF s = {} THEN base ELSE Step(kind, f[s \ {Top(s)}], seq[Top(s)])]

\* The greatest of some numbers up to n + 1, of which n + 1 is one, is n + 1.
LEMMA TopIs ==
  ASSUME NEW n \in Nat, NEW s \in SUBSET (1 .. n + 1), n + 1 \in s
  PROVE  Top(s) = n + 1
<1>1. \A y \in s : n + 1 >= y
  OBVIOUS
<1>2. \A x \in s : (\A y \in s : x >= y) => x = n + 1
  BY <1>1
<1> QED  BY <1>1, <1>2 DEF Top

\* There is such a function for every number of records, so that the CHOOSE
\* in the definition of a fold finds one.
LEMMA FoldedExists ==
  ASSUME NEW kind, NEW base, NEW seq, NEW n \in Nat
  PROVE  \E f : Folded(f, kind, base, seq, n)
<1> DEFINE T == {i \in Nat : \E f : Folded(f, kind, base, seq, i)}
<1>1. 0 \in T
  <2> DEFINE f == [s \in SUBSET (1 .. 0) |-> base]
  <2>1. \A s \in SUBSET (1 .. 0) : s = {}
    OBVIOUS
  <2>2. f = [s \in SUBSET (1 .. 0) |->
               IF s = {} THEN base ELSE Step(kind, f[s \ {Top(s)}], seq[Top(s)])]
    BY <2>1
  <2> HIDE DEF f
  <2>3. Folded(f, kind, base, seq, 0)
    BY <2>2 DEF Folded
  <2> QED  BY <2>3
<1>2. ASSUME NEW i \in 0 .. n - 1, i \in T PROVE i + 1 \in T
  <2>1. PICK f : Folded(f, kind, base, seq, i)
    BY <1>2
  <2> DEFINE g == [s \in SUBSET (1 .. i + 1) |->
                     IF i + 1 \in s THEN Step(kind, f[s \ {i + 1}], seq[i + 1])
                     ELSE f[s]]
  <2>2. ASSUME NEW s \in SUBSET (1 .. i + 1)
        PROVE  g[s] = IF s = {} THEN base ELSE Step(kind, g[s \ {Top(s)}], seq[Top(s)])
    <3>1. CASE i + 1 \in s
      <4>1. Top(s) = i + 1
        BY <3>1, TopIs
      <4>2. s \ {i + 1} \in SUBSET (1 .. i + 1) /\ i + 1 \notin s \ {i + 1}
        OBVIOUS
      <4>3. g[s \ {i + 1}] = f[s \ {i + 1}]
        BY <4>2
      <4> QED  BY <3>1, <4>1, <4>3
    <3>2. CASE i + 1 \notin s
      <4>1. s \in SUBSET (1 .. i)
        BY <3>2
      <4>2. f[s] = IF s = {} THEN base ELSE Step(kind, f[s \ {Top(s)}], seq[Top(s)])
        BY <2>1, <4>1 DEF Folded
      <4>3. i + 1 \notin s \ {Top(s)} /\ s \ {Top(s)} \in SUBSET (1 .. i + 1)
        BY <3>2, Zenon
      <4>4. g[s \ {Top(s)}] = f[s \ {Top(s)}]
        BY <4>3
      <4>5. g[s] = f[s]
        BY <3>2
      <4> HIDE DEF g
      <4> QED  BY <4>2, <4>4, <4>5
    <3> QED  BY <3>1, <3>2
  <2>3. g = [s \in SUBSET (1 .. i + 1) |-> g[s]]
    OBVIOUS
  <2> HIDE DEF g
  <2>4. Folded(g, kind, base, seq, i + 1)
    BY <2>2, <2>3 DEF Folded
  <2> QED  BY <2>4
<1> HIDE DEF T
<1>3. n \in T
  BY <1>1, <1>2, UpTo
<1> QED  BY <1>3 DEF T

\* A call goes through one connection after the other, one for each record.
Chain(h, kind, base, seq) ==
  /\ h[0] = base
  /\ \A i \in 1 .. Len(seq) : h[i] = Step(kind, h[i - 1], seq[i])

\* The values of that function on 1 .. i, one for each i, are the connections
\* that the call goes through.
LEMMA FoldedIsChain ==
  ASSUME NEW kind, NEW base, NEW seq, Len(seq) \in Nat, NEW f,
         Folded(f, kind, base, seq, Len(seq))
  PROVE  \E h : Chain(h, kind, base, seq) /\ h[Len(seq)] = f[1 .. Len(seq)]
<1> DEFINE n == Len(seq)
           h == [i \in 0 .. n |-> f[1 .. i]]
<1>1. h[0] = base
  BY DEF Folded
<1>2. ASSUME NEW i \in 1 .. n PROVE h[i] = Step(kind, h[i - 1], seq[i])
  <2>1. 1 .. i \in SUBSET (1 .. n) /\ 1 .. i # {} /\ (1 .. i) \ {i} = 1 .. i - 1
    OBVIOUS
  <2>2. Top(1 .. i) = i
    BY DEF Top
  <2>3. f[1 .. i] = Step(kind, f[(1 .. i) \ {Top(1 .. i)}], seq[Top(1 .. i)])
    BY <2>1 DEF Folded
  <2>4. h[i] = f[1 .. i] /\ h[i - 1] = f[1 .. i - 1]
    OBVIOUS
  <2> HIDE DEF h
  <2> QED  BY <2>1, <2>2, <2>3, <2>4
<1>3. h[n] = f[1 .. n]
  OBVIOUS
<1> HIDE DEF h
<1> QED  BY <1>1, <1>2, <1>3 DEF Chain

\* The records of a call of tlsv1_server_handshake() are handled one after
\* the other.
LEMMA ServerHandshakeChain ==
  ASSUME NEW base, NEW seq, IsSeq(seq)
  PROVE  \E h : Chain(h, "server handshake", base, seq) /\ h[Len(seq)] = S!FoldLeft(S!ServerReceive, base, seq)
<1>1. Len(seq) \in Nat /\ DOMAIN seq = 1 .. Len(seq)
  BY DEF IsSeq
<1>2. \A c, r : Step("server handshake", c, r) = S!ServerReceive(c, r)
  BY DEF Step
<1> DEFINE FP(f) ==  [s \in SUBSET (DOMAIN seq) |->
         IF s = {} THEN base ELSE S!ServerReceive(f[s \ {Top(s)}], seq[Top(s)])]
<1>3. S!FoldLeft(S!ServerReceive, base, seq) = (CHOOSE f : f = FP(f))[DOMAIN seq]
  BY DEF S!FoldLeft, S!MapThenFoldSet, S!Max, Top
<1>4. \A f : f = FP(f) <=> Folded(f, "server handshake", base, seq, Len(seq))
  BY <1>1, <1>2 DEF Folded
<1>5. PICK f : Folded(f, "server handshake", base, seq, Len(seq))
  BY <1>1, FoldedExists
<1> DEFINE g == CHOOSE e : e = FP(e)
<1>6. g = FP(g)
  BY <1>4, <1>5
<1> HIDE DEF g, FP
<1>7. Folded(g, "server handshake", base, seq, Len(seq))
  BY <1>4, <1>6
<1>8. S!FoldLeft(S!ServerReceive, base, seq) = g[1 .. Len(seq)]
  BY <1>1, <1>3 DEF g
<1>9. \E h : Chain(h, "server handshake", base, seq) /\ h[Len(seq)] = g[1 .. Len(seq)]
  BY <1>1, <1>7, FoldedIsChain, Zenon
<1> HIDE DEF g
<1> QED  BY <1>8, <1>9, Zenon

\* Those of a call of tlsv1_server_decrypt() too.
LEMMA ServerDataChain ==
  ASSUME NEW base, NEW seq, IsSeq(seq)
  PROVE  \E h : Chain(h, "server data", base, seq) /\ h[Len(seq)] = S!FoldLeft(S!ServerDecryptRecord, base, seq)
<1>1. Len(seq) \in Nat /\ DOMAIN seq = 1 .. Len(seq)
  BY DEF IsSeq
<1>2. \A c, r : Step("server data", c, r) = S!ServerDecryptRecord(c, r)
  BY DEF Step
<1> DEFINE FP(f) ==  [s \in SUBSET (DOMAIN seq) |->
         IF s = {} THEN base ELSE S!ServerDecryptRecord(f[s \ {Top(s)}], seq[Top(s)])]
<1>3. S!FoldLeft(S!ServerDecryptRecord, base, seq) = (CHOOSE f : f = FP(f))[DOMAIN seq]
  BY DEF S!FoldLeft, S!MapThenFoldSet, S!Max, Top
<1>4. \A f : f = FP(f) <=> Folded(f, "server data", base, seq, Len(seq))
  BY <1>1, <1>2 DEF Folded
<1>5. PICK f : Folded(f, "server data", base, seq, Len(seq))
  BY <1>1, FoldedExists
<1> DEFINE g == CHOOSE e : e = FP(e)
<1>6. g = FP(g)
  BY <1>4, <1>5
<1> HIDE DEF g, FP
<1>7. Folded(g, "server data", base, seq, Len(seq))
  BY <1>4, <1>6
<1>8. S!FoldLeft(S!ServerDecryptRecord, base, seq) = g[1 .. Len(seq)]
  BY <1>1, <1>3 DEF g
<1>9. \E h : Chain(h, "server data", base, seq) /\ h[Len(seq)] = g[1 .. Len(seq)]
  BY <1>1, <1>7, FoldedIsChain, Zenon
<1> HIDE DEF g
<1> QED  BY <1>8, <1>9, Zenon

\* Those of a call of tlsv1_client_handshake() too.
LEMMA ClientHandshakeChain ==
  ASSUME NEW base, NEW seq, IsSeq(seq)
  PROVE  \E h : Chain(h, "client handshake", base, seq) /\ h[Len(seq)] = C!FoldLeft(C!ReceiveRecord, base, seq)
<1>1. Len(seq) \in Nat /\ DOMAIN seq = 1 .. Len(seq)
  BY DEF IsSeq
<1>2. \A c, r : Step("client handshake", c, r) = C!ReceiveRecord(c, r)
  BY DEF Step
<1> DEFINE FP(f) ==  [s \in SUBSET (DOMAIN seq) |->
         IF s = {} THEN base ELSE C!ReceiveRecord(f[s \ {Top(s)}], seq[Top(s)])]
<1>3. C!FoldLeft(C!ReceiveRecord, base, seq) = (CHOOSE f : f = FP(f))[DOMAIN seq]
  BY DEF C!FoldLeft, C!MapThenFoldSet, C!Max, Top
<1>4. \A f : f = FP(f) <=> Folded(f, "client handshake", base, seq, Len(seq))
  BY <1>1, <1>2 DEF Folded
<1>5. PICK f : Folded(f, "client handshake", base, seq, Len(seq))
  BY <1>1, FoldedExists
<1> DEFINE g == CHOOSE e : e = FP(e)
<1>6. g = FP(g)
  BY <1>4, <1>5
<1> HIDE DEF g, FP
<1>7. Folded(g, "client handshake", base, seq, Len(seq))
  BY <1>4, <1>6
<1>8. C!FoldLeft(C!ReceiveRecord, base, seq) = g[1 .. Len(seq)]
  BY <1>1, <1>3 DEF g
<1>9. \E h : Chain(h, "client handshake", base, seq) /\ h[Len(seq)] = g[1 .. Len(seq)]
  BY <1>1, <1>7, FoldedIsChain, Zenon
<1> HIDE DEF g
<1> QED  BY <1>8, <1>9, Zenon

\* And those of a call of tlsv1_client_decrypt().
LEMMA ClientDataChain ==
  ASSUME NEW base, NEW seq, IsSeq(seq)
  PROVE  \E h : Chain(h, "client data", base, seq) /\ h[Len(seq)] = C!FoldLeft(C!DecryptRecord, base, seq)
<1>1. Len(seq) \in Nat /\ DOMAIN seq = 1 .. Len(seq)
  BY DEF IsSeq
<1>2. \A c, r : Step("client data", c, r) = C!DecryptRecord(c, r)
  BY DEF Step
<1> DEFINE FP(f) ==  [s \in SUBSET (DOMAIN seq) |->
         IF s = {} THEN base ELSE C!DecryptRecord(f[s \ {Top(s)}], seq[Top(s)])]
<1>3. C!FoldLeft(C!DecryptRecord, base, seq) = (CHOOSE f : f = FP(f))[DOMAIN seq]
  BY DEF C!FoldLeft, C!MapThenFoldSet, C!Max, Top
<1>4. \A f : f = FP(f) <=> Folded(f, "client data", base, seq, Len(seq))
  BY <1>1, <1>2 DEF Folded
<1>5. PICK f : Folded(f, "client data", base, seq, Len(seq))
  BY <1>1, FoldedExists
<1> DEFINE g == CHOOSE e : e = FP(e)
<1>6. g = FP(g)
  BY <1>4, <1>5
<1> HIDE DEF g, FP
<1>7. Folded(g, "client data", base, seq, Len(seq))
  BY <1>4, <1>6
<1>8. C!FoldLeft(C!DecryptRecord, base, seq) = g[1 .. Len(seq)]
  BY <1>1, <1>3 DEF g
<1>9. \E h : Chain(h, "client data", base, seq) /\ h[Len(seq)] = g[1 .. Len(seq)]
  BY <1>1, <1>7, FoldedIsChain, Zenon
<1> HIDE DEF g
<1> QED  BY <1>8, <1>9, Zenon

(***************************************************************************)
(* The shape of connections, records and streams                           *)
(***************************************************************************)

\* t begins with s.
Grown(s, t) == Len(s) <= Len(t) /\ \A i \in 1 .. Len(s) : t[i] = s[i]

\* The fields of a record layer, of one of its directions, of a server and of
\* a client: the calls change their values and never which there are.
LayerFields == {"version", "suite", "wkey", "rkey", "write", "read"}
DirectionFields == {"suite", "key", "seq"}

ServerFields ==
  {"state", "rl", "session_id", "client_random", "server_random", "master_secret",
   "alert", "ok", "fault", "out", "client_rsa_key", "verify", "cipher_suites", "cred",
   "verify_peer", "client_version", "session_ticket", "session_ticket_cb",
   "use_session_ticket", "status_request", "dh_secret", "round"}

ClientFields ==
  {"state", "rl", "session_id", "client_random", "server_random", "master_secret",
   "alert", "ok", "fault", "out", "appl_data", "flags", "certificate_requested",
   "session_resumed", "session_ticket_included", "use_session_ticket",
   "session_ticket_cb", "ocsp_resp_received", "server_rsa_key", "verify",
   "cipher_suites", "prev_cipher_suite", "dh", "cred", "partial_input", "round"}

\* The shape of a connection, as far as reading and writing its fields needs
\* it.
IsConnection(c, fields) ==
  /\ DOMAIN c = fields
  /\ DOMAIN c.rl = LayerFields
  /\ DOMAIN c.rl.write = DirectionFields
  /\ DOMAIN c.rl.read = DirectionFields
  /\ DOMAIN c.verify = {"log", "open"}
  /\ IsSeq(c.verify.log)
  /\ IsSeq(c.out)

IsServer(c) == IsConnection(c, ServerFields)
IsClient(c) == IsConnection(c, ClientFields)

(***************************************************************************)
(* What a connection knows in each state                                   *)
(***************************************************************************)

\* What the two keys are made of.
Block(c) ==
  tls_prf(c.master_secret, "key_expansion",
          <<c.client_random, c.server_random>> \o <<c.rl.suite>>)

\* The keys of a server are those of what it has agreed to: the client writes
\* with the one, the server with the other. Block(c) is what
\* tls_derive_keys() makes them of.
ServerKeyed(c) ==
  c.rl.rkey = <<"client", Block(c)>> /\ c.rl.wkey = <<"server", Block(c)>>

\* Version, suite and random number follow from the hello that came.
ServerHeard(c) ==
  /\ c.client_random = c.verify.log[1].random
  /\ c.rl.version = S!NegotiatedVersion(c.verify.log[1].version)
  /\ c.rl.suite = S!ChosenSuite(c, c.verify.log[1].cipher_suites)
  /\ c.rl.suite # NullSuite

\* They are what the hello that went out says.
ServerSaid(c) == c.verify.log[2] = S!HelloMessage(c)

\* The states in which a server has its keys, and those in which it has read
\* a hello and answered it.
ServerKnows ==
  {"CERTIFICATE_VERIFY", "CHANGE_CIPHER_SPEC", "CLIENT_FINISHED",
   "SERVER_CHANGE_CIPHER_SPEC", "ESTABLISHED"}

ServerTalks == {"CLIENT_CERTIFICATE", "CLIENT_KEY_EXCHANGE"} \cup ServerKnows

\* What a server knows in each of its states: before a hello nothing, then
\* the two hellos, after the key exchange the keys. Which key protects what
\* it writes follows from whether it took a session ticket, in which case its
\* ChangeCipherSpec is sent before the client's; and what it reads is
\* protected from the client's ChangeCipherSpec on.
ServerStates(c) ==
  /\ c.state = "CLIENT_HELLO" =>
       Len(c.verify.log) = 0 /\ c.rl.write.key = NoKey /\ ~c.use_session_ticket
  /\ c.state \in ServerTalks => Len(c.verify.log) >= 2 /\ ServerHeard(c) /\ ServerSaid(c)
  /\ c.state \in ServerKnows => ServerKeyed(c)
  /\ c.state \in {"CLIENT_CERTIFICATE", "CLIENT_KEY_EXCHANGE", "CERTIFICATE_VERIFY",
                  "SERVER_CHANGE_CIPHER_SPEC"} => ~c.use_session_ticket
  /\ c.state \in {"CLIENT_CERTIFICATE", "CLIENT_KEY_EXCHANGE", "CERTIFICATE_VERIFY",
                  "CHANGE_CIPHER_SPEC", "CLIENT_FINISHED", "SERVER_CHANGE_CIPHER_SPEC"} =>
       c.rl.write.key = IF c.use_session_ticket THEN c.rl.wkey ELSE NoKey
  /\ c.state = "ESTABLISHED" => c.rl.write.key = c.rl.wkey
  /\ c.state \in {"CLIENT_FINISHED", "SERVER_CHANGE_CIPHER_SPEC", "ESTABLISHED"} =>
       c.rl.read.suite = c.rl.suite /\ c.rl.read.key = c.rl.rkey

\* It has read the hello and not yet answered. (After an error without an alert
\* the state is the same, but nothing follows.)
ServerGreeted(c) ==
  /\ Len(c.verify.log) = 1 /\ ServerHeard(c) /\ c.rl.write.key = NoKey
  /\ ~c.use_session_ticket

\* It has sent its Finished. From now on nothing of this changes.
ServerSent(c) ==
  /\ c.state \in {"CHANGE_CIPHER_SPEC", "CLIENT_FINISHED", "ESTABLISHED", "FAILED"}
  /\ c.state \in {"CHANGE_CIPHER_SPEC", "CLIENT_FINISHED"} => c.use_session_ticket
  /\ Len(c.verify.log) >= 2 /\ ServerHeard(c) /\ ServerSaid(c) /\ ServerKeyed(c)
  /\ c.rl.write.key = c.rl.wkey

\* And the keys of a client.
ClientKeyed(c) ==
  c.rl.wkey = <<"client", Block(c)>> /\ c.rl.rkey = <<"server", Block(c)>>

\* The hello that went out.
ClientSaid(c) ==
  /\ c.verify.log[1].random = c.client_random
  /\ c.verify.log[1].version = C!tls_client_highest_ver(c.flags)
  /\ c.verify.log[1].cipher_suites = c.cipher_suites

\* The hello that came.
ClientHeard(c) ==
  /\ c.verify.log[2].version = c.rl.version
  /\ c.verify.log[2].random = c.server_random
  /\ c.verify.log[2].cipher_suite = c.rl.suite
  /\ c.rl.suite # NullSuite

\* The states in which a client waits for the server's flight or answers it,
\* and those in which it has its keys.
ClientAsks ==
  {"SERVER_CERTIFICATE", "SERVER_KEY_EXCHANGE", "SERVER_CERTIFICATE_REQUEST",
   "SERVER_HELLO_DONE", "CLIENT_KEY_EXCHANGE"}

ClientKnows ==
  {"SERVER_CHANGE_CIPHER_SPEC", "SERVER_FINISHED", "CHANGE_CIPHER_SPEC", "ACK_FINISHED",
   "ESTABLISHED"}

\* What a client knows in each of its states. A session id is the number of a
\* round, 0 for none; it is older than the round that asks for it, so that an
\* answer with the round's own number is a new session. The ChangeCipherSpec
\* of a client that goes on from a session ticket follows the server's.
ClientStates(c) ==
  /\ c.session_id \in Nat /\ c.session_id <= c.round
  /\ c.state \in {"CLIENT_HELLO", "SERVER_HELLO"} =>
       c.session_id < c.round /\ c.rl.write.key = NoKey
  /\ c.state = "CLIENT_HELLO" => Len(c.verify.log) = 0
  /\ c.state = "SERVER_HELLO" => Len(c.verify.log) = 1 /\ ClientSaid(c)
  /\ c.state \in ClientAsks => c.rl.write.key = NoKey /\ ~c.use_session_ticket
  /\ c.state \in ClientAsks \cup ClientKnows =>
       Len(c.verify.log) >= 2 /\ ClientSaid(c) /\ ClientHeard(c)
  /\ c.state \in ClientKnows => ClientKeyed(c)
  /\ c.state \in {"SERVER_CHANGE_CIPHER_SPEC", "SERVER_FINISHED"} =>
       c.rl.write.key = IF c.use_session_ticket THEN NoKey ELSE c.rl.wkey
  /\ c.state \in ClientKnows /\ ~c.use_session_ticket => Len(c.verify.log) >= 3
  /\ c.state = "CHANGE_CIPHER_SPEC" => c.rl.write.key = NoKey /\ c.use_session_ticket
  /\ c.state \in {"ACK_FINISHED", "ESTABLISHED"} => c.rl.write.key = c.rl.wkey
  /\ c.state = "ACK_FINISHED" => ~c.use_session_ticket
  /\ c.state \in {"SERVER_FINISHED", "CHANGE_CIPHER_SPEC", "ACK_FINISHED", "ESTABLISHED"} =>
       c.rl.read.suite = c.rl.suite /\ c.rl.read.key = c.rl.rkey
  /\ c.state \notin {"ESTABLISHED", "FAILED"} => ~c.session_resumed

\* It has sent its Finished. From now on nothing of this changes.
ClientSent(c) ==
  /\ c.state \in {"SERVER_CHANGE_CIPHER_SPEC", "SERVER_FINISHED", "ACK_FINISHED",
                  "ESTABLISHED", "FAILED"}
  /\ c.state \in {"SERVER_CHANGE_CIPHER_SPEC", "SERVER_FINISHED"} => ~c.use_session_ticket
  /\ Len(c.verify.log) >= 2 /\ ClientHeard(c) /\ ClientSaid(c) /\ ClientKeyed(c)
  /\ c.rl.write.key = c.rl.wkey

(***************************************************************************)
(* What the records on their way say. Those whose header has been changed  *)
(* are worth nothing. What is protected was sent after the ChangeCipherSpec *)
(* of the present handshake, with the key that is still in use.             *)
(***************************************************************************)
Headers == {"ok", "version", "overflow", "stale"}

\* The fields of a record.
RecordFields == {"hdr", "ct", "key", "seq", "m"}

\* A log that begins with the two hellos of a connection.
SameHellos(l, c) == l[1] = c.verify.log[1] /\ l[2] = c.verify.log[2]

\* The verify data of the client's Finished: over the secret and the hellos
\* of the connection.
ClientFinishes(m, c) ==
  /\ m.verify_data.secret = c.master_secret /\ m.verify_data.label = "client_finished"
  /\ SameHellos(m.verify_data.seed, c)

\* The server's. That of a server that took a ticket is over the two hellos
\* alone: the client's Finished is still to come.
ServerFinishes(m, c) ==
  /\ m.verify_data.secret = c.master_secret /\ m.verify_data.label = "server_finished"
  /\ SameHellos(m.verify_data.seed, c)
  /\ c.use_session_ticket => Len(m.verify_data.seed) = 2

\* What a client has been given: a certificate, and the private key of it.
HasCertificate(k) == k.cred # NULL /\ k.cred.cert
HasKey(k) == k.cred # NULL /\ k.cred.key

\* What can be said of a record on its way to the server, from a client k,
\* when it is readable: a certificate is the client's own, a
\* CertificateVerify is made with its key, and a record that is protected
\* comes from a client that has sent its Finished, and with it what it has
\* agreed to.
ToServerOk(r, k) ==
  /\ DOMAIN r = RecordFields /\ r.hdr \in Headers
  /\ r.hdr = "ok" =>
       /\ "type" \in DOMAIN r.m
       /\ r.m.type = "certificate" =>
            /\ "chain" \in DOMAIN r.m
            /\ r.m.chain # <<>> => HasCertificate(k) /\ r.m.chain = <<"client_key">>
       /\ r.m.type = "certificate_verify" => HasKey(k)
       /\ r.key # NoKey =>
            /\ ClientSent(k) /\ r.key = k.rl.write.key
            /\ r.m.type = "finished" => ClientFinishes(r.m, k)

\* Of one on its way to the client: a ServerHello names no session or that of
\* its round, and a protected record comes from a server that has sent its
\* Finished.
ToClientOk(r, s) ==
  /\ DOMAIN r = RecordFields /\ r.hdr \in Headers
  /\ r.hdr = "ok" =>
       /\ "type" \in DOMAIN r.m
       /\ r.m.type = "server_hello" =>
            "session_id" \in DOMAIN r.m /\ r.m.session_id \in {0, s.round}
       /\ r.key # NoKey =>
            /\ ServerSent(s) /\ r.key = s.rl.write.key
            /\ r.m.type = "finished" => ServerFinishes(r.m, s)

(***************************************************************************)
(* What the two ends know of each other                                    *)
(***************************************************************************)
Agree(k, s) ==
  /\ k.verify.log[1] = s.verify.log[1] /\ k.verify.log[2] = s.verify.log[2]
  /\ k.master_secret = s.master_secret
  /\ k.client_random = s.client_random /\ k.server_random = s.server_random
  /\ k.rl.suite = s.rl.suite /\ k.rl.version = s.rl.version

\* A server that has read a Finished agrees with a client that has sent one.
ServerAccepts(s, k) ==
  s.state \in {"SERVER_CHANGE_CIPHER_SPEC", "ESTABLISHED"} => ClientSent(k) /\ Agree(k, s)

\* A client that has read a Finished agrees with a server that has sent one,
\* and took a ticket if that server did.
ClientAccepts(k, s) ==
  k.state \in {"CHANGE_CIPHER_SPEC", "ACK_FINISHED", "ESTABLISHED"} =>
    /\ ServerSent(s) /\ Agree(k, s)
    /\ ~k.use_session_ticket => ~s.use_session_ticket

\* What a server that asks for a certificate has seen when it waits for the
\* Finished: a certificate that is the client's, and a signature made with
\* the key of it, so that the hash for CertificateVerify is closed.
ServerProof(s, k) ==
  /\ s.client_rsa_key \in {NULL, "client_key"}
  /\ s.client_rsa_key # NULL => HasCertificate(k)
  /\ s.verify_peer /\ ~s.use_session_ticket
     /\ s.state \in {"CHANGE_CIPHER_SPEC", "CLIENT_FINISHED", "SERVER_CHANGE_CIPHER_SPEC",
                     "ESTABLISHED"} =>
       s.client_rsa_key # NULL /\ HasKey(k) /\ "cert" \notin s.verify.open

\* What has one more element keeps all that it had.
LEMMA AppendFacts ==
  ASSUME NEW s, IsSeq(s), NEW e
  PROVE  /\ IsSeq(Append(s, e)) /\ Len(s) \in Nat
         /\ Len(Append(s, e)) = Len(s) + 1
         /\ \A i \in 1 .. Len(s) : Append(s, e)[i] = s[i]
         /\ Append(s, e)[Len(s) + 1] = e
         /\ DOMAIN Append(s, e) = 1 .. Len(s) + 1
<1>1. PICK T : s \in Seq(T)
  BY DEF IsSeq
<1>2. s \in Seq(T \cup {e})
  BY <1>1
<1> QED  BY <1>2 DEF IsSeq

\* A sequence begins with itself, and after an append with what it was.
LEMMA GrownFacts ==
  ASSUME NEW s, IsSeq(s), NEW e
  PROVE  Grown(s, s) /\ Grown(s, Append(s, e))
<1>1. Len(s) \in Nat
  BY AppendFacts
<1> QED  BY <1>1, AppendFacts DEF Grown

\* Beginning with something is transitive.
LEMMA GrownFurther ==
  ASSUME NEW s, NEW t, NEW u, Len(s) \in Nat, Len(t) \in Nat, Len(u) \in Nat,
         Grown(s, t), Grown(t, u)
  PROVE  Grown(s, u)
  BY DEF Grown

\* The two ends have the same word for no suite and for no key.
LEMMA SameNames ==
  /\ S!NullSuite = NullSuite /\ C!NullSuite = NullSuite
  /\ S!NoKey = NoKey /\ C!NoKey = NoKey
  BY DEF S!NullSuite, C!NullSuite, S!NoKey, C!NoKey, NullSuite, NoKey

\* An alert that is set can be told from none.
LEMMA AlertIsSet ==
  \A a : a \in Alerts => a # NULL
  BY NullAssumption

(***************************************************************************)
(* What each function of the server that reads a message leaves            *)
(***************************************************************************)

\* What the server's user configured, and the number of the handshake.
SameServer(c, d) ==
  /\ d.cred = c.cred /\ d.verify_peer = c.verify_peer
  /\ d.cipher_suites = c.cipher_suites /\ d.round = c.round

\* What a server leaves alone while it reads.
ServerReads(c, d) ==
  /\ IsServer(d) /\ SameServer(c, d)
  /\ d.out = c.out /\ d.rl.write = c.rl.write
  /\ d.session_id = c.session_id /\ d.server_random = c.server_random
  /\ d.use_session_ticket = c.use_session_ticket

\* The secrets, and what they were agreed upon for.
SameKeys(c, d) ==
  /\ d.rl.version = c.rl.version /\ d.rl.suite = c.rl.suite
  /\ d.rl.wkey = c.rl.wkey /\ d.rl.rkey = c.rl.rkey
  /\ d.master_secret = c.master_secret
  /\ d.client_random = c.client_random

\* An error that leaves the connection as it was.
ServerStays(c, d) ==
  d.state = c.state /\ SameKeys(c, d) /\ d.rl.read.key = c.rl.read.key
  /\ d.rl.read.suite = c.rl.read.suite

\* A handler that returns -1: with an alert, or with nothing changed that
\* matters to the keys.
ServerFails(c, d) ==
  /\ ~d.ok
  /\ d.alert # NULL \/ ServerStays(c, d)
  /\ d.state = c.state

USE DEF IsServer, IsConnection, ServerFields, LayerFields, DirectionFields, ServerReads, SameServer

\* Keys are good as long as nothing changes that they are made of.
LEMMA KeysMove ==
  ASSUME NEW c, NEW d, SameKeys(c, d), d.server_random = c.server_random
  PROVE  ServerKeyed(c) => ServerKeyed(d)
  BY DEF SameKeys, ServerKeyed, Block, tls_prf

\* tls_process_client_hello(): version, suite and random number are taken
\* from the hello, or the server fails.
LEMMA ReadHello ==
  ASSUME NEW c, IsServer(c), c.ok, NEW ct, NEW m, NEW d, d = S!tls_process_client_hello(c, ct, m)
  PROVE  /\ ServerReads(c, d) /\ d.verify = c.verify
         /\ d.ok => /\ d.rl.version = S!NegotiatedVersion(m.version)
                    /\ d.client_random = m.random
                    /\ d.rl.suite = S!ChosenSuite(c, m.cipher_suites) /\ d.rl.suite # NullSuite
                    /\ d.state = "SERVER_HELLO" /\ ct = "handshake"
         /\ ~d.ok => ServerFails(c, d)
<1> USE DEF S!tls_process_client_hello,
    S!FailAlert, S!tlsv1_record_set_cipher_suite, S!HelloExtensions, S!tls_process_status_request_v2
<1>1. ServerReads(c, d) /\ d.verify = c.verify
  OBVIOUS
<1>2. d.ok => /\ d.rl.version = S!NegotiatedVersion(m.version)
                    /\ d.client_random = m.random
                    /\ d.rl.suite = S!ChosenSuite(c, m.cipher_suites) /\ d.rl.suite # NullSuite
                    /\ d.state = "SERVER_HELLO"
  BY SameNames
<1>4. d.ok => ct = "handshake"
  BY AlertIsSet DEF S!HeaderAlert, Alerts
<1>3. ~d.ok => ServerFails(c, d)
  BY AlertIsSet DEF ServerFails, S!HeaderAlert, Alerts
<1> QED  BY <1>1, <1>2, <1>3, <1>4

\* tlsv1_server_derive_keys(): the keys of what has been agreed to, or an
\* alert.
ServerDerives(c, d) ==
  /\ ServerReads(c, d) /\ d.verify = c.verify /\ d.state = c.state
  /\ d.rl.version = c.rl.version /\ d.rl.suite = c.rl.suite
  /\ d.client_random = c.client_random
  /\ d.client_rsa_key = c.client_rsa_key
  /\ d.ok => ServerKeyed(d)
  /\ ~d.ok => d.alert # NULL

\* tlsv1_server_derive_keys(): the keys, or an alert.
LEMMA ReadDerive ==
  ASSUME NEW c, IsServer(c), c.ok, NEW pms
  PROVE  ServerDerives(c, S!tlsv1_server_derive_keys(c, pms))
  BY AlertIsSet DEF Alerts, ServerDerives, S!tlsv1_server_derive_keys, S!FailAlert, ServerKeyed, Block, tls_prf, S!tls_prf

\* tls_process_client_key_exchange(): the keys are there when it is over.
LEMMA ReadKeyExchange ==
  ASSUME NEW c, IsServer(c), c.ok, NEW ct, NEW m, NEW d, d = S!tls_process_client_key_exchange(c, ct, m)
  PROVE  /\ ServerReads(c, d) /\ d.verify = c.verify /\ d.client_rsa_key = c.client_rsa_key
         /\ d.rl.version = c.rl.version /\ d.rl.suite = c.rl.suite
         /\ d.client_random = c.client_random
         /\ d.ok => d.state = "CERTIFICATE_VERIFY" /\ ServerKeyed(d)
         /\ ~d.ok => ServerFails(c, d)
<1> DEFINE e == [c EXCEPT !.dh_secret = NULL]
<1>1. IsServer(e) /\ e.ok
  OBVIOUS
<1>2. ASSUME NEW f, f = S!tls_process_client_key_exchange_dh(c, m)
      PROVE ServerDerives(c, f)
  <2>1. ASSUME NEW pms PROVE ServerDerives(c, S!tlsv1_server_derive_keys(e, pms))
    <3>1. ServerDerives(e, S!tlsv1_server_derive_keys(e, pms))
      BY <1>1, ReadDerive
    <3> QED  BY <3>1 DEF ServerDerives
  <2> QED  BY <1>2, <2>1, AlertIsSet DEF Alerts, S!tls_process_client_key_exchange_dh, S!FailAlert, ServerDerives
<1>3. ASSUME NEW f, f = S!tls_process_client_key_exchange_rsa(c, m)
      PROVE ServerDerives(c, f)
  <2>1. \A pms : ServerDerives(c, S!tlsv1_server_derive_keys(c, pms))
    BY ReadDerive
  <2> QED  BY <1>3, <2>1, AlertIsSet DEF Alerts, S!tls_process_client_key_exchange_rsa, S!FailAlert, ServerDerives
<1> DEFINE Then(f) ==
      IF S!HeaderAlert(ct, m) # NULL THEN S!FailAlert(c, S!HeaderAlert(ct, m))
      ELSE IF m.type # "client_key_exchange" THEN S!FailAlert(c, "UNEXPECTED_MESSAGE")
      ELSE IF f.ok THEN [f EXCEPT !.state = "CERTIFICATE_VERIFY"] ELSE f
<1>4. PICK f : ServerDerives(c, f) /\ d = Then(f)
  BY <1>2, <1>3 DEF S!tls_process_client_key_exchange
<1>5. d.ok => d = [f EXCEPT !.state = "CERTIFICATE_VERIFY"] /\ f.ok
  BY <1>4 DEF S!FailAlert
<1>6. ~d.ok => ServerFails(c, d) /\ ServerReads(c, d) /\ d.verify = c.verify /\ d.client_rsa_key = c.client_rsa_key
         /\ d.rl.version = c.rl.version /\ d.rl.suite = c.rl.suite
         /\ d.client_random = c.client_random
  BY <1>4, AlertIsSet DEF S!FailAlert, Alerts, ServerDerives, ServerFails, S!HeaderAlert
<1>7. ASSUME d.ok PROVE d.state = "CERTIFICATE_VERIFY" /\ ServerKeyed(d)
  <2>1. SameKeys(f, d) /\ d.server_random = f.server_random /\ d.state = "CERTIFICATE_VERIFY"
    BY <1>4, <1>5, <1>7 DEF ServerDerives, SameKeys
  <2> QED  BY <1>4, <1>5, <1>7, <2>1, KeysMove DEF ServerDerives
<1> QED
  BY <1>4, <1>5, <1>6, <1>7 DEF ServerDerives

\* tls_process_certificate(): the client's key becomes known only from a
\* certificate. A server that asks for one goes on to the key exchange,
\* another one may have skipped both.
LEMMA ReadCertificate ==
  ASSUME NEW c, IsServer(c), c.ok, NEW ct, NEW m, NEW d, d = S!tls_process_certificate(c, ct, m)
  PROVE  /\ ServerReads(c, d) /\ d.verify = c.verify
         /\ d.rl.version = c.rl.version /\ d.rl.suite = c.rl.suite
         /\ d.client_random = c.client_random
         /\ d.ok => \/ d.state = "CERTIFICATE_VERIFY" /\ ServerKeyed(d) /\ ~c.verify_peer
                    \/ d.state = "CLIENT_KEY_EXCHANGE"
         /\ ~d.ok => ServerFails(c, d)
         /\ \/ d.client_rsa_key = c.client_rsa_key
            \/ m.type = "certificate" /\ m.chain # <<>>
               /\ d.client_rsa_key \in {NULL, m.chain[1]}
<1> DEFINE e == S!tls_process_client_key_exchange(c, ct, m)
<1>1. CASE m.type = "client_key_exchange" /\ ~c.verify_peer /\ S!HeaderAlert(ct, m) = NULL
  <2>1. d = e
    BY <1>1 DEF S!tls_process_certificate
  <2> QED  BY <2>1, <1>1, ReadKeyExchange
<1>2. CASE ~(m.type = "client_key_exchange" /\ ~c.verify_peer /\ S!HeaderAlert(ct, m) = NULL)
  <2>1. /\ ServerReads(c, d) /\ d.verify = c.verify
        /\ SameKeys(c, d)
    BY <1>2 DEF S!tls_process_certificate, S!FailAlert, SameKeys
  <2>2. d.ok => d.state = "CLIENT_KEY_EXCHANGE"
    BY <1>2 DEF S!tls_process_certificate, S!FailAlert
  <2>3. ~d.ok => d.state = c.state /\ d.rl = c.rl
    BY <1>2 DEF S!tls_process_certificate, S!FailAlert
  <2>4. \/ d.client_rsa_key = c.client_rsa_key
        \/ m.type = "certificate" /\ m.chain # <<>>
               /\ d.client_rsa_key \in {NULL, m.chain[1]}
    BY <1>2 DEF S!tls_process_certificate, S!FailAlert
  <2> QED  BY <2>1, <2>2, <2>3, <2>4 DEF ServerFails, ServerStays, SameKeys
<1> QED  BY <1>1, <1>2

\* tls_process_change_cipher_spec(): from now on the server reads with the
\* key that the client writes with.
LEMMA ReadChangeCipherSpec ==
  ASSUME NEW c, IsServer(c), c.ok, NEW ct, NEW m, NEW d, d = S!tls_process_change_cipher_spec(c, ct, m)
  PROVE  /\ ServerReads(c, d) /\ d.verify = c.verify /\ SameKeys(c, d)
         /\ d.client_rsa_key = c.client_rsa_key
         /\ d.ok => /\ d.state = "CLIENT_FINISHED" /\ d.rl.read.suite = d.rl.suite
                    /\ c.rl.suite # NullSuite => d.rl.read.key = d.rl.rkey
                    /\ ct = "change_cipher_spec"
         /\ ~d.ok => ServerFails(c, d)
<1> USE DEF S!tls_process_change_cipher_spec, S!FailAlert, S!tlsv1_record_change_read_cipher, S!Direction
<1>1. /\ ServerReads(c, d) /\ d.verify = c.verify /\ SameKeys(c, d)
         /\ d.client_rsa_key = c.client_rsa_key
  BY DEF SameKeys
<1>2. d.ok => /\ d.state = "CLIENT_FINISHED" /\ d.rl.read.suite = d.rl.suite
                    /\ c.rl.suite # NullSuite => d.rl.read.key = d.rl.rkey
                    /\ ct = "change_cipher_spec"
  BY SameNames
<1>3. ~d.ok => ServerFails(c, d)
  BY AlertIsSet DEF ServerFails, Alerts
<1> QED  BY <1>1, <1>2, <1>3

\* tls_process_certificate_verify(): a server that asked for a certificate
\* goes on only if it knows the client's key and the signature has been
\* checked; another one may find that a ChangeCipherSpec has come.
LEMMA ReadVerify ==
  ASSUME NEW c, IsServer(c), c.ok, NEW ct, NEW m, NEW d, d = S!tls_process_certificate_verify(c, ct, m)
  PROVE  /\ ServerReads(c, d) /\ d.verify.log = c.verify.log /\ SameKeys(c, d)
         /\ d.client_rsa_key = c.client_rsa_key
         /\ d.ok => \/ /\ d.state = "CLIENT_FINISHED" /\ d.rl.read.suite = d.rl.suite
                       /\ c.rl.suite # NullSuite => d.rl.read.key = d.rl.rkey
                       /\ ~c.verify_peer /\ ct = "change_cipher_spec"
                    \/ /\ d.state = "CHANGE_CIPHER_SPEC" /\ c.client_rsa_key # NULL
                       /\ "cert" \notin d.verify.open
                       /\ m.type = "certificate_verify"
         /\ ~d.ok => ServerFails(c, d)
<1>1. CASE ct = "change_cipher_spec" /\ ~c.verify_peer
  <2>1. d = S!tls_process_change_cipher_spec(c, ct, m)
    BY <1>1 DEF S!tls_process_certificate_verify, S!MayOmitProof
  <2> QED  BY <2>1, <1>1, ReadChangeCipherSpec
<1>2. CASE ~(ct = "change_cipher_spec" /\ ~c.verify_peer)
  <2> USE <1>2 DEF S!tls_process_certificate_verify, S!FailAlert, S!HashFinish, S!MayOmitProof, S!tls_verify_signature
  <2>1. /\ ServerReads(c, d) /\ d.verify.log = c.verify.log /\ SameKeys(c, d)
         /\ d.client_rsa_key = c.client_rsa_key
    BY DEF SameKeys
  <2>2. d.ok => d.state = "CHANGE_CIPHER_SPEC" /\ c.client_rsa_key # NULL
                       /\ "cert" \notin d.verify.open
                       /\ m.type = "certificate_verify"
    OBVIOUS
  <2>3. ~d.ok => d.state = c.state /\ d.rl = c.rl
    OBVIOUS
  <2> QED  BY <2>1, <2>2, <2>3 DEF ServerFails, ServerStays
<1> QED  BY <1>1, <1>2

\* tls_process_client_finished(): the server goes on only after a Finished
\* over what it has read and sent itself.
LEMMA ReadFinished ==
  ASSUME NEW c, IsServer(c), c.ok, NEW ct, NEW m, NEW d, d = S!tls_process_client_finished(c, ct, m)
  PROVE  /\ ServerReads(c, d) /\ d.verify.log = c.verify.log /\ SameKeys(c, d)
         /\ d.client_rsa_key = c.client_rsa_key
         /\ "cert" \notin c.verify.open => "cert" \notin d.verify.open
         /\ d.rl.read = c.rl.read
         /\ d.ok => /\ d.state = IF c.use_session_ticket THEN "ESTABLISHED"
                                 ELSE "SERVER_CHANGE_CIPHER_SPEC"
                    /\ m.type = "finished"
                    /\ m.verify_data = tls_prf(c.master_secret, "client_finished", c.verify.log)
         /\ ~d.ok => d.state = "FAILED" \/ ServerFails(c, d)
<1> USE DEF S!tls_process_client_finished, S!FailAlert, S!HashFinish, S!ClientFinishedMatches, S!Fail
<1>1. /\ ServerReads(c, d) /\ d.verify.log = c.verify.log /\ SameKeys(c, d)
         /\ d.client_rsa_key = c.client_rsa_key
         /\ d.rl.read = c.rl.read
  BY DEF SameKeys
<1>2. "cert" \notin c.verify.open => "cert" \notin d.verify.open
  OBVIOUS
<1>3. d.ok => /\ d.state = IF c.use_session_ticket THEN "ESTABLISHED"
                           ELSE "SERVER_CHANGE_CIPHER_SPEC"
              /\ m.type = "finished"
  OBVIOUS
<1>4. d.ok => m.verify_data = tls_prf(c.master_secret, "client_finished", c.verify.log)
  BY DEF S!tls_prf, tls_prf
<1>5. ~d.ok => d.state = "FAILED" \/ d.state = c.state
  OBVIOUS
<1> HIDE DEF S!tls_process_client_finished
<1>6. ~d.ok => d.state = "FAILED" \/ ServerFails(c, d)
  BY <1>1, <1>5 DEF ServerFails, ServerStays
<1> QED  BY <1>1, <1>2, <1>3, <1>4, <1>6

HIDE DEF IsServer, IsConnection, ServerFields, LayerFields, DirectionFields, ServerReads, SameServer

(***************************************************************************)
(* A message as a whole: the state it came in, and what it leaves          *)
(***************************************************************************)

\* What a message does, apart from alerts and from the hash of the handshake.
ServerStep(c, ct, m) ==
  CASE c.state = "CLIENT_HELLO" -> S!tls_process_client_hello(c, ct, m)
    [] c.state = "CLIENT_CERTIFICATE" -> S!tls_process_certificate(c, ct, m)
    [] c.state = "CLIENT_KEY_EXCHANGE" -> S!tls_process_client_key_exchange(c, ct, m)
    [] c.state = "CERTIFICATE_VERIFY" -> S!tls_process_certificate_verify(c, ct, m)
    [] c.state = "CHANGE_CIPHER_SPEC" -> S!tls_process_change_cipher_spec(c, ct, m)
    [] c.state = "CLIENT_FINISHED" -> S!tls_process_client_finished(c, ct, m)
    [] OTHER -> S!Fail(c)

\* The states in which a server waits for something.
ServerReading ==
  {"CLIENT_HELLO", "CLIENT_CERTIFICATE", "CLIENT_KEY_EXCHANGE", "CERTIFICATE_VERIFY",
   "CHANGE_CIPHER_SPEC", "CLIENT_FINISHED"}

USE DEF IsServer, IsConnection, ServerFields, LayerFields, DirectionFields, ServerReads, SameServer

\* The step in each state.
LEMMA ServerStepIs ==
  ASSUME NEW c, NEW ct, NEW m
  PROVE  /\ c.state = "CLIENT_HELLO" => ServerStep(c, ct, m) = S!tls_process_client_hello(c, ct, m)
         /\ c.state = "CLIENT_CERTIFICATE" => ServerStep(c, ct, m) = S!tls_process_certificate(c, ct, m)
         /\ c.state = "CLIENT_KEY_EXCHANGE" => ServerStep(c, ct, m) = S!tls_process_client_key_exchange(c, ct, m)
         /\ c.state = "CERTIFICATE_VERIFY" => ServerStep(c, ct, m) = S!tls_process_certificate_verify(c, ct, m)
         /\ c.state = "CHANGE_CIPHER_SPEC" => ServerStep(c, ct, m) = S!tls_process_change_cipher_spec(c, ct, m)
         /\ c.state = "CLIENT_FINISHED" => ServerStep(c, ct, m) = S!tls_process_client_finished(c, ct, m)
         /\ c.state \notin ServerReading => ServerStep(c, ct, m) = S!Fail(c)
  BY DEF ServerStep, ServerReading

\* A message is an alert, or a step whose message is added to the hash if it
\* was a handshake message that the step took.
LEMMA ServerMessageIs ==
  ASSUME NEW c, IsServer(c), c.ok, NEW ct, NEW m,
         NEW d, d = S!tlsv1_server_process_handshake(c, ct, m),
         NEW s, s = ServerStep(c, ct, m)
  PROVE  \/ ct = "alert" /\ d = S!FailAlert(c, "DECODE_ERROR")
         \/ ct = "alert" /\ d = S!Fail([c EXCEPT !.state = "FAILED"])
         \/ ct = "handshake" /\ s.ok /\ d = [s EXCEPT !.verify = S!tls_verify_hash_add(@, m)]
         \/ ~(ct = "handshake" /\ s.ok) /\ d = s
  BY DEF S!tlsv1_server_process_handshake, ServerStep

\* Every function of the server leaves this alone when it reads.
ServerMessageKeeps(c, d) ==
  /\ ServerReads(c, d) /\ Grown(c.verify.log, d.verify.log)
  /\ c.state \in ServerKnows \cup {"FAILED"} => SameKeys(c, d)

\* No step sends, adds to the hash or touches the key that the server writes
\* with; once there are keys no step changes them.
LEMMA ServerStepKeeps ==
  ASSUME NEW c, IsServer(c), c.ok, NEW ct, NEW m, NEW s, s = ServerStep(c, ct, m)
  PROVE  /\ ServerReads(c, s) /\ s.verify.log = c.verify.log
         /\ c.state \in ServerKnows \cup {"FAILED"} => SameKeys(c, s)
<1> USE ServerStepIs DEF ServerKnows
<1> HIDE DEF ServerReads, SameServer, IsServer, IsConnection
<1>1. CASE c.state = "CLIENT_HELLO"
  BY <1>1, ReadHello
<1>2. CASE c.state = "CLIENT_CERTIFICATE"
  BY <1>2, ReadCertificate
<1>3. CASE c.state = "CLIENT_KEY_EXCHANGE"
  BY <1>3, ReadKeyExchange
<1>4. CASE c.state = "CERTIFICATE_VERIFY"
  BY <1>4, ReadVerify
<1>5. CASE c.state = "CHANGE_CIPHER_SPEC"
  BY <1>5, ReadChangeCipherSpec
<1>6. CASE c.state = "CLIENT_FINISHED"
  BY <1>6, ReadFinished
<1>7. CASE c.state \notin ServerReading
  <2>1. s = S!Fail(c)
    BY <1>7
  <2> QED  BY <2>1 DEF S!Fail, SameKeys, ServerReads, SameServer, IsServer, IsConnection
<1> QED  BY <1>1, <1>2, <1>3, <1>4, <1>5, <1>6, <1>7 DEF ServerReading

\* What the step does to the state, and what must have come for it.
LEMMA ServerStepGoesOn ==
  ASSUME NEW c, IsServer(c), c.ok, ServerStates(c), NEW ct, NEW m,
         NEW s, s = ServerStep(c, ct, m), s.ok
  PROVE  \/ /\ c.state = "CLIENT_HELLO" /\ s.state = "SERVER_HELLO" /\ ct = "handshake"
            /\ s.rl.version = S!NegotiatedVersion(m.version)
            /\ s.client_random = m.random /\ s.rl.suite # NullSuite
            /\ s.rl.suite = S!ChosenSuite(c, m.cipher_suites)
         \/ /\ c.state = "CLIENT_CERTIFICATE" /\ s.state = "CLIENT_KEY_EXCHANGE"
            /\ s.rl.version = c.rl.version /\ s.rl.suite = c.rl.suite
            /\ s.client_random = c.client_random
         \/ /\ c.state \in {"CLIENT_CERTIFICATE", "CLIENT_KEY_EXCHANGE"}
            /\ s.state = "CERTIFICATE_VERIFY" /\ ServerKeyed(s)
            /\ s.rl.version = c.rl.version /\ s.rl.suite = c.rl.suite
            /\ s.client_random = c.client_random
         \/ c.state = "CERTIFICATE_VERIFY" /\ s.state = "CHANGE_CIPHER_SPEC" /\ SameKeys(c, s)
         \/ /\ c.state \in {"CERTIFICATE_VERIFY", "CHANGE_CIPHER_SPEC"}
            /\ s.state = "CLIENT_FINISHED" /\ SameKeys(c, s)
            /\ s.rl.read.suite = s.rl.suite
            /\ c.rl.suite # NullSuite => s.rl.read.key = s.rl.rkey
         \/ /\ c.state = "CLIENT_FINISHED" /\ SameKeys(c, s)
            /\ s.state = IF c.use_session_ticket THEN "ESTABLISHED" ELSE "SERVER_CHANGE_CIPHER_SPEC"
            /\ s.rl.read = c.rl.read
            /\ m.type = "finished"
            /\ m.verify_data = tls_prf(c.master_secret, "client_finished", c.verify.log)
<1> USE ServerStepIs
<1> HIDE DEF ServerReads, SameServer, IsServer, IsConnection
<1>1. CASE c.state = "CLIENT_HELLO"
  BY <1>1, ReadHello
<1>2. CASE c.state = "CLIENT_CERTIFICATE"
  BY <1>2, ReadCertificate
<1>3. CASE c.state = "CLIENT_KEY_EXCHANGE"
  BY <1>3, ReadKeyExchange
<1>4. CASE c.state = "CERTIFICATE_VERIFY"
  BY <1>4, ReadVerify
<1>5. CASE c.state = "CHANGE_CIPHER_SPEC"
  BY <1>5, ReadChangeCipherSpec
<1>6. CASE c.state = "CLIENT_FINISHED"
  BY <1>6, ReadFinished
<1>7. CASE c.state \notin ServerReading
  BY <1>7 DEF S!Fail, IsServer, IsConnection
<1> QED  BY <1>1, <1>2, <1>3, <1>4, <1>5, <1>6, <1>7 DEF ServerReading

\* A step that fails sets an alert, or leaves the connection as it was, or
\* ends it.
LEMMA ServerStepFails ==
  ASSUME NEW c, IsServer(c), c.ok, ServerStates(c), NEW ct, NEW m,
         NEW s, s = ServerStep(c, ct, m), ~s.ok
  PROVE  s.state = "FAILED" \/ ServerFails(c, s)
<1> USE ServerStepIs
<1> HIDE DEF ServerReads, SameServer, IsServer, IsConnection
<1>1. CASE c.state = "CLIENT_HELLO"
  BY <1>1, ReadHello
<1>2. CASE c.state = "CLIENT_CERTIFICATE"
  BY <1>2, ReadCertificate
<1>3. CASE c.state = "CLIENT_KEY_EXCHANGE"
  BY <1>3, ReadKeyExchange
<1>4. CASE c.state = "CERTIFICATE_VERIFY"
  BY <1>4, ReadVerify
<1>5. CASE c.state = "CHANGE_CIPHER_SPEC"
  BY <1>5, ReadChangeCipherSpec
<1>6. CASE c.state = "CLIENT_FINISHED"
  BY <1>6, ReadFinished
<1>7. CASE c.state \notin ServerReading
  BY <1>7 DEF S!Fail, IsServer, IsConnection, ServerFails, ServerStays, SameKeys
<1> QED  BY <1>1, <1>2, <1>3, <1>4, <1>5, <1>6, <1>7 DEF ServerReading

\* The choice of a suite depends on what the user configured.
LEMMA ChosenMoves ==
  ASSUME NEW c, NEW d, d.cipher_suites = c.cipher_suites
  PROVE  \A offered : S!ChosenSuite(d, offered) = S!ChosenSuite(c, offered)
  BY DEF S!ChosenSuite

\* What a connection heard and said stays true while its secrets may change.
LEMMA HellosMove ==
  ASSUME NEW c, NEW d, Len(c.verify.log) \in Nat, Grown(c.verify.log, d.verify.log),
         d.rl.version = c.rl.version, d.rl.suite = c.rl.suite,
         d.client_random = c.client_random, d.cipher_suites = c.cipher_suites
  PROVE  /\ Len(c.verify.log) >= 1 /\ ServerHeard(c) => ServerHeard(d)
         /\ Len(c.verify.log) >= 2 /\ ServerSaid(c)
            /\ d.server_random = c.server_random /\ d.session_id = c.session_id => ServerSaid(d)
<1>1. Len(c.verify.log) >= 1 => d.verify.log[1] = c.verify.log[1]
  BY DEF Grown
<1>2. Len(c.verify.log) >= 2 => d.verify.log[2] = c.verify.log[2]
  BY DEF Grown
<1>3. \A offered : S!ChosenSuite(d, offered) = S!ChosenSuite(c, offered)
  BY ChosenMoves
<1> QED  BY <1>1, <1>2, <1>3 DEF ServerHeard, ServerSaid, S!HelloMessage

\* A connection that does not move keeps what it knows.
LEMMA StatesMove ==
  ASSUME NEW c, IsServer(c), ServerStates(c), NEW d, ServerReads(c, d), SameKeys(c, d),
         Grown(c.verify.log, d.verify.log), d.state = c.state,
         d.state = "CLIENT_HELLO" => d.verify.log = c.verify.log,
         d.rl.read.key = c.rl.read.key, d.rl.read.suite = c.rl.read.suite
  PROVE  ServerStates(d)
<1>0. Len(c.verify.log) \in Nat /\ Len(d.verify.log) >= Len(c.verify.log) /\ Len(d.verify.log) \in Nat
  BY AppendFacts DEF Grown
<1>1. ServerKeyed(c) => ServerKeyed(d)
  BY KeysMove
<1>2. /\ Len(c.verify.log) >= 1 /\ ServerHeard(c) => ServerHeard(d)
      /\ Len(c.verify.log) >= 2 /\ ServerSaid(c) => ServerSaid(d)
  BY <1>0, HellosMove DEF SameKeys
<1>3. d.use_session_ticket = c.use_session_ticket /\ d.rl.write.key = c.rl.write.key
  OBVIOUS
<1>4. d.state \in ServerTalks => Len(d.verify.log) >= 2 /\ ServerHeard(d) /\ ServerSaid(d)
  BY <1>0, <1>2 DEF ServerStates
<1> HIDE DEF ServerReads, IsServer, IsConnection
<1> QED  BY <1>1, <1>3, <1>4 DEF ServerStates, SameKeys

\* What the server knows in each state stays true of the state that a message
\* leads to; a hello leaves a server that has heard and not yet answered.
LEMMA ServerMessageStates ==
  ASSUME NEW c, IsServer(c), c.ok, ServerStates(c), NEW ct, NEW m,
         NEW d, d = S!tlsv1_server_process_handshake(c, ct, m)
  PROVE  /\ ServerMessageKeeps(c, d)
         /\ d.ok \/ d.alert = NULL => ServerStates(d)
         /\ d.ok /\ d.state = "SERVER_HELLO" => ServerGreeted(d)
<1> DEFINE s == ServerStep(c, ct, m)
           t == [s EXCEPT !.verify = S!tls_verify_hash_add(@, m)]
<1>9. \/ ct = "alert" /\ d = S!FailAlert(c, "DECODE_ERROR")
      \/ ct = "alert" /\ d = S!Fail([c EXCEPT !.state = "FAILED"])
      \/ ct = "handshake" /\ s.ok /\ d = t
      \/ ~(ct = "handshake" /\ s.ok) /\ d = s
  <2> HIDE DEF s
  <2> QED  BY ServerMessageIs DEF s
<1> HIDE DEF ServerReads, IsServer, IsConnection, SameServer
<1>1. Grown(c.verify.log, c.verify.log)
  BY GrownFacts DEF IsServer, IsConnection
<1>2. /\ ServerReads(c, s) /\ s.verify.log = c.verify.log
      /\ c.state \in ServerKnows \cup {"FAILED"} => SameKeys(c, s)
  BY ServerStepKeeps
<1> HIDE DEF s
<1>3. /\ ServerReads(c, t) /\ t.verify.log = Append(c.verify.log, m)
      /\ SameKeys(s, t) /\ t.state = s.state /\ t.rl = s.rl
  <2>1. DOMAIN s = ServerFields /\ DOMAIN s.verify = {"log", "open"}
    BY <1>2 DEF ServerReads, IsServer, IsConnection
  <2>2. t.verify.log = Append(c.verify.log, m) /\ DOMAIN t.verify = {"log", "open"}
    BY <1>2, <2>1 DEF S!tls_verify_hash_add
  <2>a. IsSeq(c.verify.log)
    BY DEF IsServer, IsConnection
  <2>b. IsSeq(Append(c.verify.log, m))
    BY <2>a, AppendFacts
  <2>3. IsSeq(t.verify.log)
    BY <2>2, <2>b
  <2>4. SameKeys(s, t) /\ t.state = s.state /\ t.rl = s.rl
    BY <2>1 DEF SameKeys
  <2> QED  BY <1>2, <2>1, <2>2, <2>3, <2>4 DEF ServerReads, IsServer, IsConnection, SameServer
<1>4. Grown(c.verify.log, t.verify.log)
  <2>a. IsSeq(c.verify.log)
    BY DEF IsServer, IsConnection
  <2>b. Grown(c.verify.log, Append(c.verify.log, m))
    BY <2>a, GrownFacts
  <2> HIDE DEF t
  <2> QED  BY <1>3, <2>b
<1> HIDE DEF t
<1>5. CASE d = S!FailAlert(c, "DECODE_ERROR")
  <2>1. d.alert # NULL /\ ~d.ok
    BY <1>5, AlertIsSet DEF S!FailAlert, Alerts, IsServer, IsConnection
  <2> QED  BY <1>5, <1>1, <2>1 DEF S!FailAlert, ServerMessageKeeps, SameKeys, ServerReads, IsServer, IsConnection, SameServer
<1>6. CASE d = S!Fail([c EXCEPT !.state = "FAILED"])
  <2>1. ServerMessageKeeps(c, d) /\ d.state = "FAILED"
    BY <1>6, <1>1 DEF S!Fail, ServerMessageKeeps, SameKeys, ServerReads, IsServer, IsConnection, SameServer
  <2> QED  BY <2>1 DEF ServerStates, ServerTalks, ServerKnows
<1>7. CASE ~s.ok /\ d = s
  <2>1. s.state = "FAILED" \/ ServerFails(c, s)
    BY <1>7, ServerStepFails DEF s
  <2>2. ServerMessageKeeps(c, d)
    BY <1>1, <1>2, <1>7 DEF ServerMessageKeeps
  <2>3. CASE s.state = "FAILED"
    BY <2>2, <2>3, <1>7 DEF ServerStates, ServerTalks, ServerKnows
  <2>4. CASE ServerFails(c, s) /\ s.alert = NULL
    BY <2>2, <2>4, <1>1, <1>2, <1>7, StatesMove DEF ServerFails, ServerStays
  <2> QED  BY <2>1, <2>2, <2>3, <2>4, <1>7 DEF ServerFails
<1>8. ASSUME s.ok, d \in {s, t}, ct = "handshake" => d = t
      PROVE  /\ ServerMessageKeeps(c, d) /\ ServerStates(d)
             /\ d.state = "SERVER_HELLO" => ServerGreeted(d)
  <2>1. ServerReads(c, d) /\ Grown(c.verify.log, d.verify.log) /\ SameKeys(s, d) /\ d.state = s.state /\ d.rl = s.rl
    BY <1>1, <1>2, <1>3, <1>4, <1>8 DEF SameKeys
  <2>2. ServerMessageKeeps(c, d)
    BY <1>2, <2>1 DEF ServerMessageKeeps, SameKeys
  <2>a. Len(c.verify.log) \in Nat /\ Len(d.verify.log) \in Nat /\ Len(d.verify.log) >= Len(c.verify.log)
    BY <2>1, AppendFacts DEF Grown, ServerReads, IsServer, IsConnection
  <2>3. CASE c.state = "CLIENT_HELLO"
    <3>1. /\ s.state = "SERVER_HELLO"
            /\ s.rl.version = S!NegotiatedVersion(m.version)
            /\ s.client_random = m.random /\ s.rl.suite # NullSuite
            /\ s.rl.suite = S!ChosenSuite(c, m.cipher_suites) /\ ct = "handshake"
      BY <1>8, <2>3, ServerStepGoesOn DEF s
    <3>2. d.verify.log = Append(c.verify.log, m) /\ Len(c.verify.log) = 0
      BY <3>1, <1>8, <1>3, <2>3 DEF ServerStates
    <3>3. Len(d.verify.log) = 1 /\ d.verify.log[1] = m
      BY <3>2, AppendFacts DEF IsServer, IsConnection
    <3>4. S!ChosenSuite(d, m.cipher_suites) = S!ChosenSuite(c, m.cipher_suites)
      BY <2>1, ChosenMoves DEF ServerReads, SameServer
    <3>5. ServerHeard(d)
      BY <3>1, <3>3, <3>4, <2>1 DEF ServerHeard, SameKeys
    <3>6. d.rl.write.key = NoKey /\ ~d.use_session_ticket
      BY <2>1, <2>3 DEF ServerStates, ServerReads
    <3> QED  BY <2>1, <2>2, <3>1, <3>3, <3>5, <3>6 DEF ServerStates, ServerTalks, ServerKnows, ServerGreeted
  <2>4. ASSUME c.state \in ServerTalks PROVE ServerStates(d) /\ d.state \in ServerTalks
    <3>0. Len(c.verify.log) >= 2 /\ ServerHeard(c) /\ ServerSaid(c)
      BY <2>4 DEF ServerStates
    <3>1. /\ d.rl.version = c.rl.version /\ d.rl.suite = c.rl.suite
          /\ d.client_random = c.client_random
          /\ d.state \in ServerTalks
      BY <1>8, <2>1, <2>4, ServerStepGoesOn DEF s, SameKeys, ServerTalks, ServerKnows
    <3>2. Len(d.verify.log) >= 2 /\ ServerHeard(d) /\ ServerSaid(d)
      <4>1. d.cipher_suites = c.cipher_suites /\ d.server_random = c.server_random /\ d.session_id = c.session_id
        BY <2>1 DEF ServerReads, SameServer
      <4>2. Len(c.verify.log) >= 1 /\ Len(d.verify.log) >= 2
        BY <3>0, <2>a
      <4> QED  BY <3>0, <3>1, <4>1, <4>2, <2>1, <2>a, HellosMove
    <3>3. d.state \in ServerKnows => ServerKeyed(d)
      <4>1. d.server_random = s.server_random
        BY <1>2, <2>1 DEF ServerReads
      <4>2. ServerKeyed(s) => ServerKeyed(d)
        BY <4>1, <2>1, KeysMove
      <4>3. SameKeys(c, s) => (ServerKeyed(c) => ServerKeyed(s))
        BY <1>2, KeysMove DEF ServerReads
      <4>4. c.state \in ServerKnows => ServerKeyed(s)
        BY <1>2, <4>3 DEF ServerStates
      <4> QED  BY <1>8, <2>1, <2>4, <4>2, <4>4, ServerStepGoesOn DEF s, ServerTalks, ServerKnows
    <3>4. d.state \in {"CLIENT_FINISHED", "SERVER_CHANGE_CIPHER_SPEC", "ESTABLISHED"} =>
            d.rl.read.suite = d.rl.suite /\ d.rl.read.key = d.rl.rkey
      <4>1. c.rl.suite # NullSuite
        BY <3>0 DEF ServerHeard
      <4> QED  BY <1>8, <2>1, <2>4, <4>1, ServerStepGoesOn DEF s, SameKeys, ServerTalks, ServerKnows, ServerStates
    <3>5. d.state \in {"CLIENT_CERTIFICATE", "CLIENT_KEY_EXCHANGE", "CERTIFICATE_VERIFY",
                  "SERVER_CHANGE_CIPHER_SPEC"} => ~d.use_session_ticket
      BY <1>8, <2>1, <2>4, ServerStepGoesOn DEF s, ServerReads, ServerTalks, ServerKnows, ServerStates
    <3>6. /\ d.state \in {"CLIENT_CERTIFICATE", "CLIENT_KEY_EXCHANGE", "CERTIFICATE_VERIFY",
                  "CHANGE_CIPHER_SPEC", "CLIENT_FINISHED", "SERVER_CHANGE_CIPHER_SPEC"} =>
               d.rl.write.key = IF d.use_session_ticket THEN d.rl.wkey ELSE NoKey
          /\ d.state = "ESTABLISHED" => d.rl.write.key = d.rl.wkey
      <4>1. d.rl.write = c.rl.write /\ d.use_session_ticket = c.use_session_ticket
        BY <2>1 DEF ServerReads
      <4>2. c.state \in {"CLIENT_CERTIFICATE", "CLIENT_KEY_EXCHANGE", "CERTIFICATE_VERIFY",
                  "CHANGE_CIPHER_SPEC", "CLIENT_FINISHED"}
        BY <1>8, <2>4, ServerStepGoesOn DEF s, ServerTalks, ServerKnows
      <4>3. c.rl.write.key = IF c.use_session_ticket THEN c.rl.wkey ELSE NoKey
        BY <4>2 DEF ServerStates
      <4>4. d.state = "ESTABLISHED" => d.use_session_ticket
        BY <1>8, <2>1, <2>4, <4>1, <4>2, ServerStepGoesOn DEF s, ServerTalks, ServerKnows
      <4>5. c.state \in {"CHANGE_CIPHER_SPEC", "CLIENT_FINISHED"} => d.rl.wkey = c.rl.wkey
        BY <1>2, <2>1 DEF SameKeys, ServerKnows
      <4>6. c.state \notin {"CHANGE_CIPHER_SPEC", "CLIENT_FINISHED"} => ~c.use_session_ticket
        BY <4>2 DEF ServerStates
      <4> QED  BY <4>1, <4>3, <4>4, <4>5, <4>6
    <3> QED  BY <3>1, <3>2, <3>3, <3>4, <3>5, <3>6 DEF ServerStates, ServerTalks, ServerKnows
  <2>5. c.state = "CLIENT_HELLO" \/ c.state \in ServerTalks
    BY <1>8, ServerStepGoesOn DEF s, ServerTalks, ServerKnows
  <2> QED  BY <2>2, <2>3, <2>4, <2>5 DEF ServerTalks, ServerKnows
<1> QED  BY <1>5, <1>6, <1>7, <1>8, <1>9

(***************************************************************************)
(* What the client's messages say to the server                            *)
(***************************************************************************)

\* What the server may take a message for that it got in state c.
FromClient(c, k, m) ==
  /\ m.type = "certificate" /\ m.chain # <<>> =>
       HasCertificate(k) /\ m.chain = <<"client_key">>
  /\ m.type = "certificate_verify" => HasKey(k)
  /\ c.rl.read.suite # NullSuite /\ c.rl.read.key # NoKey /\ m.type = "finished" =>
       ClientSent(k) /\ c.rl.read.key = k.rl.write.key /\ ClientFinishes(m, k)

\* The keys of the two ends are equal only if what they were made for is.
LEMMA SameBlocks ==
  ASSUME NEW k, NEW s, Block(k) = Block(s)
  PROVE  /\ k.master_secret = s.master_secret /\ k.rl.suite = s.rl.suite
         /\ k.client_random = s.client_random /\ k.server_random = s.server_random
<1>1. Block(k).secret = Block(s).secret /\ Block(k).seed = Block(s).seed
  OBVIOUS
<1>2. k.master_secret = s.master_secret
  BY <1>1 DEF Block, tls_prf
<1>3. <<k.client_random, k.server_random>> \o <<k.rl.suite>> =
      <<s.client_random, s.server_random>> \o <<s.rl.suite>>
  BY <1>1 DEF Block, tls_prf
<1>4. ASSUME NEW x, NEW y, NEW z
      PROVE  LET t == <<x, y>> \o <<z>> IN t[1] = x /\ t[2] = y /\ t[3] = z
  <2>1. <<x, y>> \in Seq({x, y, z}) /\ <<z>> \in Seq({x, y, z})
    OBVIOUS
  <2>2. Len(<<x, y>>) = 2 /\ Len(<<z>>) = 1
    OBVIOUS
  <2> QED  BY <2>1, <2>2
<1>5. /\ k.rl.suite = s.rl.suite
      /\ k.client_random = s.client_random /\ k.server_random = s.server_random
  <2> DEFINE t == <<k.client_random, k.server_random>> \o <<k.rl.suite>>
             u == <<s.client_random, s.server_random>> \o <<s.rl.suite>>
  <2>1. t[1] = k.client_random /\ t[2] = k.server_random /\ t[3] = k.rl.suite
    BY <1>4
  <2>2. u[1] = s.client_random /\ u[2] = s.server_random /\ u[3] = s.rl.suite
    BY <1>4
  <2>3. t = u
    BY <1>3
  <2> HIDE DEF t, u
  <2> QED  BY <2>1, <2>2, <2>3
<1> QED  BY <1>2, <1>5

\* A key says which end writes with it; no key is none.
LEMMA KeysDiffer ==
  \A b, d : /\ <<"client", b>> # NoKey /\ <<"server", b>> # NoKey
            /\ <<"client", b>> = <<"client", d>> => b = d
            /\ <<"server", b>> = <<"server", d>> => b = d
  BY DEF NoKey

\* A Finished that the server takes means that the client is with it.
LEMMA FinishedAgrees ==
  ASSUME NEW c, NEW k, NEW m, IsSeq(c.verify.log), Len(c.verify.log) >= 2,
         ServerHeard(c), ServerSaid(c), ServerKeyed(c),
         ClientSent(k), c.rl.rkey = k.rl.write.key, ClientFinishes(m, k),
         m.verify_data = tls_prf(c.master_secret, "client_finished", c.verify.log)
  PROVE  Agree(k, c)
<1>1. Block(k) = Block(c)
  BY KeysDiffer DEF ServerKeyed, ClientSent, ClientKeyed
<1>2. /\ k.master_secret = c.master_secret /\ k.rl.suite = c.rl.suite
      /\ k.client_random = c.client_random /\ k.server_random = c.server_random
  BY <1>1, SameBlocks
<1>3. c.verify.log[1] = k.verify.log[1] /\ c.verify.log[2] = k.verify.log[2]
  BY DEF ClientFinishes, SameHellos, tls_prf
<1>4. c.verify.log[2].version = c.rl.version
  BY DEF ServerSaid, S!HelloMessage
<1>5. k.verify.log[2].version = k.rl.version
  BY DEF ClientSent, ClientHeard
<1> QED  BY <1>2, <1>3, <1>4, <1>5 DEF Agree

\* Two ends that agree still do when the server has moved on.
LEMMA AgreeMoves ==
  ASSUME NEW k, NEW c, NEW d, Len(c.verify.log) \in Nat, Len(c.verify.log) >= 2,
         Grown(c.verify.log, d.verify.log), SameKeys(c, d), d.server_random = c.server_random,
         Agree(k, c)
  PROVE  Agree(k, d)
  BY DEF Agree, SameKeys, Grown

\* A server that has sent its Finished still has when it has moved on.
LEMMA SentMoves ==
  ASSUME NEW c, NEW d, Len(c.verify.log) \in Nat, Grown(c.verify.log, d.verify.log), SameKeys(c, d),
         Len(d.verify.log) \in Nat,
         d.server_random = c.server_random, d.session_id = c.session_id,
         d.cipher_suites = c.cipher_suites, d.use_session_ticket = c.use_session_ticket,
         d.rl.write.key = c.rl.write.key, ServerSent(c),
         d.state \in {"CHANGE_CIPHER_SPEC", "CLIENT_FINISHED", "ESTABLISHED", "FAILED"},
         d.state \in {"CHANGE_CIPHER_SPEC", "CLIENT_FINISHED"} =>
           c.state \in {"CHANGE_CIPHER_SPEC", "CLIENT_FINISHED"}
  PROVE  ServerSent(d)
<1>1. /\ Len(c.verify.log) >= 1 /\ ServerHeard(c) => ServerHeard(d)
      /\ Len(c.verify.log) >= 2 /\ ServerSaid(c) => ServerSaid(d)
  BY HellosMove DEF SameKeys
<1>2. ServerKeyed(c) => ServerKeyed(d)
  BY KeysMove
<1>3. Len(c.verify.log) >= 2 => Len(d.verify.log) >= 2 /\ Len(c.verify.log) >= 1
  BY DEF Grown
<1> QED  BY <1>1, <1>2, <1>3 DEF ServerSent, SameKeys

(***************************************************************************)
(* What the server knows of the client's key                               *)
(***************************************************************************)

\* The states of a server that has the client's CertificateVerify behind it.
Proven == {"CHANGE_CIPHER_SPEC", "CLIENT_FINISHED", "SERVER_CHANGE_CIPHER_SPEC", "ESTABLISHED"}

\* What a message does to what the server knows of the client's key.
KeyMoves(c, m, d) ==
  /\ \/ d.client_rsa_key = c.client_rsa_key
     \/ /\ c.state \notin Proven /\ m.type = "certificate" /\ m.chain # <<>>
        /\ d.client_rsa_key \in {NULL, m.chain[1]} /\ d.state \notin Proven
  /\ c.state \in Proven /\ "cert" \notin c.verify.open => "cert" \notin d.verify.open
  /\ c.state \notin Proven /\ d.state \in Proven /\ d.verify_peer =>
       d.client_rsa_key # NULL /\ "cert" \notin d.verify.open /\ m.type = "certificate_verify"

\* A step learns of the client's key only from a certificate, and leaves the
\* states in which the client is not yet known only by a CertificateVerify.
LEMMA ServerStepProves ==
  ASSUME NEW c, IsServer(c), c.ok, NEW ct, NEW m, NEW s, s = ServerStep(c, ct, m)
  PROVE  KeyMoves(c, m, s)
<1> USE ServerStepIs
<1> HIDE DEF ServerReads, SameServer, IsServer, IsConnection
<1>1. CASE c.state = "CLIENT_HELLO"
  <2>1. s.client_rsa_key = c.client_rsa_key /\ s.state \notin Proven
    <3> HIDE ServerStepIs
    <3>1. s = S!tls_process_client_hello(c, ct, m)
      BY <1>1, ServerStepIs
    <3> QED  BY <1>1, <3>1 DEF S!tls_process_client_hello,
    S!FailAlert, S!tlsv1_record_set_cipher_suite, S!HelloExtensions, S!tls_process_status_request_v2,
    IsServer, IsConnection, Proven
  <2> QED  BY <1>1, <2>1 DEF KeyMoves, Proven
<1>2. CASE c.state = "CLIENT_CERTIFICATE"
  <2>1. s.state \notin Proven
    BY <1>2, ReadCertificate DEF ServerFails, Proven
  <2> QED  BY <1>2, <2>1, ReadCertificate DEF KeyMoves, Proven
<1>3. CASE c.state = "CLIENT_KEY_EXCHANGE"
  <2>1. s.state \notin Proven
    BY <1>3, ReadKeyExchange DEF ServerFails, Proven
  <2> QED  BY <1>3, <2>1, ReadKeyExchange DEF KeyMoves, Proven
<1>4. CASE c.state = "CERTIFICATE_VERIFY"
  <2>1. s.verify_peer = c.verify_peer
    BY <1>4, ReadVerify DEF ServerReads, SameServer
  <2>2. ~s.ok => s.state \notin Proven
    BY <1>4, ReadVerify DEF ServerFails, Proven
  <2> QED  BY <1>4, <2>1, <2>2, ReadVerify DEF KeyMoves, Proven
<1>5. CASE c.state = "CHANGE_CIPHER_SPEC"
  BY <1>5, ReadChangeCipherSpec DEF KeyMoves, Proven
<1>6. CASE c.state = "CLIENT_FINISHED"
  BY <1>6, ReadFinished DEF KeyMoves, Proven
<1>7. CASE c.state \notin ServerReading
  <2>1. s = S!Fail(c)
    BY <1>7
  <2> QED  BY <2>1 DEF S!Fail, IsServer, IsConnection, KeyMoves
<1> QED  BY <1>1, <1>2, <1>3, <1>4, <1>5, <1>6, <1>7 DEF ServerReading

\* A message as a whole: the state that it leads to.
LEMMA ServerMessageMoves ==
  ASSUME NEW c, IsServer(c), c.ok, ServerStates(c), NEW ct, NEW m,
         NEW d, d = S!tlsv1_server_process_handshake(c, ct, m),
         NEW s, s = ServerStep(c, ct, m)
  PROVE  \/ d.state \in {c.state, "FAILED"}
         \/ s.ok /\ d.state = s.state
<1>1. \/ ct = "alert" /\ d = S!FailAlert(c, "DECODE_ERROR")
      \/ ct = "alert" /\ d = S!Fail([c EXCEPT !.state = "FAILED"])
      \/ ct = "handshake" /\ s.ok /\ d = [s EXCEPT !.verify = S!tls_verify_hash_add(@, m)]
      \/ ~(ct = "handshake" /\ s.ok) /\ d = s
  BY ServerMessageIs
<1>2. ServerReads(c, s)
  BY ServerStepKeeps
<1>3. ~s.ok => s.state \in {c.state, "FAILED"}
  BY ServerStepFails DEF ServerFails
<1>4. CASE d = S!FailAlert(c, "DECODE_ERROR")
  BY <1>4 DEF S!FailAlert
<1>5. CASE d = S!Fail([c EXCEPT !.state = "FAILED"])
  BY <1>5 DEF S!Fail
<1>6. CASE s.ok /\ d = [s EXCEPT !.verify = S!tls_verify_hash_add(@, m)]
  BY <1>6, <1>2
<1> QED  BY <1>1, <1>3, <1>4, <1>5, <1>6

\* So does a message as a whole.
LEMMA ServerMessageProves ==
  ASSUME NEW c, IsServer(c), c.ok, NEW ct, NEW m,
         NEW d, d = S!tlsv1_server_process_handshake(c, ct, m)
  PROVE  KeyMoves(c, m, d)
<1> DEFINE s == ServerStep(c, ct, m)
<1> HIDE DEF s
<1>1. \/ ct = "alert" /\ d = S!FailAlert(c, "DECODE_ERROR")
      \/ ct = "alert" /\ d = S!Fail([c EXCEPT !.state = "FAILED"])
      \/ ct = "handshake" /\ s.ok /\ d = [s EXCEPT !.verify = S!tls_verify_hash_add(@, m)]
      \/ ~(ct = "handshake" /\ s.ok) /\ d = s
  BY ServerMessageIs DEF s
<1>2. ServerReads(c, s)
  BY ServerStepKeeps DEF s
<1>3. KeyMoves(c, m, s)
  BY ServerStepProves DEF s
<1>4. CASE d = S!FailAlert(c, "DECODE_ERROR")
  BY <1>4 DEF S!FailAlert, KeyMoves
<1>5. CASE d = S!Fail([c EXCEPT !.state = "FAILED"])
  BY <1>5 DEF S!Fail, KeyMoves, Proven
<1>6. CASE d = [s EXCEPT !.verify = S!tls_verify_hash_add(@, m)]
  <2>1. /\ d.state = s.state /\ d.client_rsa_key = s.client_rsa_key
        /\ d.verify_peer = s.verify_peer /\ d.verify.open = s.verify.open
    BY <1>6, <1>2 DEF S!tls_verify_hash_add
  <2> QED  BY <2>1, <1>3 DEF KeyMoves
<1> QED  BY <1>1, <1>3, <1>4, <1>5, <1>6

\* A message that says no more than the client may have meant keeps the two
\* ends in agreement, and what the server knows of the client true.
LEMMA ServerMessageAccepts ==
  ASSUME NEW c, IsServer(c), c.ok, ServerStates(c), NEW k, NEW ct, NEW m, FromClient(c, k, m),
         NEW d, d = S!tlsv1_server_process_handshake(c, ct, m)
  PROVE  /\ ServerSent(c) => ServerSent(d) /\ SameKeys(c, d)
         /\ ServerAccepts(c, k) => ServerAccepts(d, k)
         /\ ServerProof(c, k) => ServerProof(d, k)
<1> DEFINE s == ServerStep(c, ct, m)
<1> HIDE DEF s
<1>1. ServerMessageKeeps(c, d)
  BY ServerMessageStates
<1>2. d.state \in {c.state, "FAILED"} \/ (s.ok /\ d.state = s.state)
  BY ServerMessageMoves DEF s
<1>3. Len(c.verify.log) \in Nat /\ Len(d.verify.log) \in Nat
  BY <1>1, AppendFacts DEF ServerMessageKeeps
<1>4. /\ d.server_random = c.server_random /\ d.session_id = c.session_id
      /\ d.cipher_suites = c.cipher_suites /\ d.use_session_ticket = c.use_session_ticket
      /\ d.rl.write.key = c.rl.write.key /\ d.verify_peer = c.verify_peer
      /\ Grown(c.verify.log, d.verify.log)
      /\ c.state \in ServerKnows \cup {"FAILED"} => SameKeys(c, d)
  BY <1>1 DEF ServerMessageKeeps
<1> HIDE DEF IsServer, IsConnection
<1>a. s.ok => \/ c.state = "CLIENT_HELLO" /\ s.state = "SERVER_HELLO"
              \/ c.state \in {"CLIENT_CERTIFICATE", "CLIENT_KEY_EXCHANGE"}
                 /\ s.state \in {"CLIENT_KEY_EXCHANGE", "CERTIFICATE_VERIFY"}
              \/ c.state = "CERTIFICATE_VERIFY" /\ s.state \in {"CHANGE_CIPHER_SPEC", "CLIENT_FINISHED"}
              \/ c.state = "CHANGE_CIPHER_SPEC" /\ s.state = "CLIENT_FINISHED"
              \/ /\ c.state = "CLIENT_FINISHED"
                 /\ s.state = IF c.use_session_ticket THEN "ESTABLISHED" ELSE "SERVER_CHANGE_CIPHER_SPEC"
                 /\ m.type = "finished"
                 /\ m.verify_data = tls_prf(c.master_secret, "client_finished", c.verify.log)
  BY ServerStepGoesOn DEF s
<1>5. ServerSent(c) => ServerSent(d) /\ SameKeys(c, d)
  <2>1. SUFFICES ASSUME ServerSent(c) PROVE ServerSent(d) /\ SameKeys(c, d)
    OBVIOUS
  <2>2. SameKeys(c, d)
    BY <2>1, <1>4 DEF ServerSent, ServerKnows
  <2>3. /\ d.state \in {"CHANGE_CIPHER_SPEC", "CLIENT_FINISHED", "ESTABLISHED", "FAILED"}
        /\ d.state \in {"CHANGE_CIPHER_SPEC", "CLIENT_FINISHED"} =>
             c.state \in {"CHANGE_CIPHER_SPEC", "CLIENT_FINISHED"}
    BY <2>1, <1>2, <1>a DEF ServerSent
  <2> QED  BY <2>1, <2>2, <2>3, <1>3, <1>4, SentMoves
<1>6. ServerAccepts(c, k) => ServerAccepts(d, k)
  <2>1. SUFFICES ASSUME ServerAccepts(c, k), d.state \in {"SERVER_CHANGE_CIPHER_SPEC", "ESTABLISHED"}
                 PROVE ClientSent(k) /\ Agree(k, d)
    BY DEF ServerAccepts
  <2>2. CASE d.state = c.state
    <3>1. ClientSent(k) /\ Agree(k, c) /\ c.state \in ServerKnows
      BY <2>1, <2>2 DEF ServerAccepts, ServerKnows
    <3>2. Len(c.verify.log) >= 2
      BY <3>1 DEF ServerStates, ServerTalks
    <3> QED  BY <3>1, <3>2, <1>3, <1>4, AgreeMoves
  <2>3. CASE d.state # c.state
    <3>1. /\ c.state = "CLIENT_FINISHED" /\ m.type = "finished"
          /\ m.verify_data = tls_prf(c.master_secret, "client_finished", c.verify.log)
      BY <2>1, <2>3, <1>2, <1>a
    <3>2. /\ Len(c.verify.log) >= 2 /\ ServerHeard(c) /\ ServerSaid(c) /\ ServerKeyed(c)
          /\ c.rl.read.suite = c.rl.suite /\ c.rl.read.key = c.rl.rkey
      BY <3>1 DEF ServerStates, ServerTalks, ServerKnows
    <3>3. c.rl.read.suite # NullSuite /\ c.rl.read.key # NoKey
      BY <3>2, KeysDiffer DEF ServerHeard, ServerKeyed
    <3>4. ClientSent(k) /\ c.rl.rkey = k.rl.write.key /\ ClientFinishes(m, k)
      BY <3>1, <3>2, <3>3 DEF FromClient
    <3>5. IsSeq(c.verify.log)
      BY DEF IsServer, IsConnection
    <3>6. Agree(k, c)
      BY <3>1, <3>2, <3>4, <3>5, FinishedAgrees
    <3> QED  BY <3>1, <3>2, <3>4, <3>6, <1>3, <1>4, AgreeMoves DEF ServerKnows
  <2> QED  BY <2>2, <2>3
<1>7. ServerProof(c, k) => ServerProof(d, k)
  <2>1. KeyMoves(c, m, d)
    BY ServerMessageProves
  <2>2. SUFFICES ASSUME ServerProof(c, k) PROVE ServerProof(d, k)
    OBVIOUS
  <2>3. d.client_rsa_key \in {NULL, "client_key"} /\ (d.client_rsa_key # NULL => HasCertificate(k))
    BY <2>1, <2>2 DEF KeyMoves, ServerProof, FromClient
  <2>4. d.verify_peer /\ ~d.use_session_ticket /\ d.state \in Proven =>
         d.client_rsa_key # NULL /\ HasKey(k) /\ "cert" \notin d.verify.open
    BY <2>1, <2>2, <1>4 DEF KeyMoves, ServerProof, FromClient, Proven
  <2> QED  BY <2>3, <2>4 DEF ServerProof, Proven
<1> QED  BY <1>5, <1>6, <1>7

(***************************************************************************)
(* A call that reads: any number of records                                *)
(***************************************************************************)

\* Where a call is after `i` records, if it began in c0.
ServerStage(c0, k, c, i) ==
  /\ ServerReads(c0, c) /\ Grown(c0.verify.log, c.verify.log)
  /\ c.ok \/ c.alert = NULL => ServerStates(c)
  /\ i # 0 /\ c.ok /\ c.state = "SERVER_HELLO" => ServerGreeted(c)
  /\ ServerSent(c0) => ServerSent(c) /\ SameKeys(c0, c)
  /\ ServerAccepts(c, k) /\ ServerProof(c, k)

\* A record that is not refused.
LEMMA RecordReceived ==
  ASSUME NEW rl, NEW r, NEW k, ToServerOk(r, k), NEW c, c.rl.read.key = rl.read.key,
         c.rl.read.suite = rl.read.suite,
         S!tlsv1_record_receive(rl, r).alert = NULL
  PROVE  FromClient(c, k, S!tlsv1_record_receive(rl, r).m)
<1> DEFINE g == S!tlsv1_record_receive(rl, r)
<1>1. /\ r.hdr = "ok" /\ g.m = (IF r.key = rl.read.key THEN r.m ELSE S!Noise)
      /\ rl.read.suite # NullSuite => r.key = rl.read.key
  <2>1. \A a \in Alerts : a # NULL
    BY NullAssumption
  <2> QED  BY <2>1, SameNames DEF S!tlsv1_record_receive, ToServerOk, Headers, S!Authentic, Alerts
<1>2. S!Noise.type = "noise"
  BY DEF S!Noise
<1> HIDE DEF g
<1>3. CASE r.key = rl.read.key
  BY <1>1, <1>3 DEF FromClient, ToServerOk, g
<1>4. CASE r.key # rl.read.key
  BY <1>1, <1>2, <1>4 DEF FromClient, g
<1> QED  BY <1>3, <1>4

\* Reading a record only counts it.
LEMMA CountedServer ==
  ASSUME NEW c, IsServer(c), NEW e, e = [c EXCEPT !.rl = S!RecordRead(@)]
  PROVE  /\ ServerReads(c, e) /\ e.verify = c.verify /\ e.state = c.state /\ SameKeys(c, e)
         /\ e.ok = c.ok /\ e.alert = c.alert /\ e.client_rsa_key = c.client_rsa_key
         /\ e.rl.read.key = c.rl.read.key /\ e.rl.read.suite = c.rl.read.suite
  BY DEF S!RecordRead, SameKeys

\* A server that has only counted a record knows what it knew.
LEMMA CountedServerStates ==
  ASSUME NEW c, IsServer(c), NEW e, NEW k, ServerStates(c),
         ServerReads(c, e), e.verify = c.verify, e.state = c.state, SameKeys(c, e),
         e.client_rsa_key = c.client_rsa_key,
         e.rl.read.key = c.rl.read.key, e.rl.read.suite = c.rl.read.suite
  PROVE  /\ ServerStates(e)
         /\ ServerSent(c) => ServerSent(e)
         /\ ServerAccepts(c, k) => ServerAccepts(e, k)
         /\ ServerProof(c, k) => ServerProof(e, k)
<1>0. IsSeq(c.verify.log)
  OBVIOUS
<1>1. Grown(c.verify.log, e.verify.log) /\ Len(c.verify.log) \in Nat /\ e.verify.log = c.verify.log
  BY <1>0, GrownFacts, AppendFacts
<1>2. ServerStates(e)
  BY <1>1, StatesMove
<1>3. ServerSent(c) => ServerSent(e)
  <2>1. /\ e.server_random = c.server_random /\ e.session_id = c.session_id
        /\ e.cipher_suites = c.cipher_suites /\ e.use_session_ticket = c.use_session_ticket
        /\ e.rl.write.key = c.rl.write.key
    OBVIOUS
  <2> HIDE DEF ServerReads, IsServer, IsConnection
  <2>2. ServerSent(c) => c.state \in {"CHANGE_CIPHER_SPEC", "CLIENT_FINISHED", "ESTABLISHED", "FAILED"}
    BY DEF ServerSent
  <2> QED  BY <1>1, <2>1, <2>2, SentMoves
<1>4. e.server_random = c.server_random /\ e.verify_peer = c.verify_peer
      /\ e.use_session_ticket = c.use_session_ticket
  OBVIOUS
<1> HIDE DEF ServerReads, IsServer, IsConnection
<1>5. ServerAccepts(c, k) => ServerAccepts(e, k)
  BY <1>1, <1>4 DEF ServerAccepts, Agree, SameKeys
<1>6. ServerProof(c, k) => ServerProof(e, k)
  BY <1>4 DEF ServerProof
<1> QED  BY <1>2, <1>3, <1>5, <1>6

\* Three steps of reading are one.
LEMMA ReadsFurther ==
  ASSUME NEW c, NEW e, NEW d, NEW f, ServerReads(c, e), ServerReads(e, d), ServerReads(d, f)
  PROVE  ServerReads(c, f)
<1> HIDE DEF IsServer
<1> QED  OBVIOUS

\* Another record takes a call one stage further.
LEMMA ServerStageStep ==
  ASSUME NEW c0, IsServer(c0), NEW k, NEW c, NEW i \in Nat, ServerStage(c0, k, c, i), NEW r, ToServerOk(r, k)
  PROVE  ServerStage(c0, k, S!ServerReceive(c, r), i + 1)
<1> DEFINE g == S!tlsv1_record_receive(c.rl, r)
           e == [c EXCEPT !.rl = S!RecordRead(@)]
           d == S!tlsv1_server_process_handshake(e, r.ct, g.m)
<1>0. IsServer(c) /\ IsServer(c0)
  BY DEF ServerStage
<1>1. CASE ~c.ok
  <2>1. S!ServerReceive(c, r) = c
    BY <1>1 DEF S!ServerReceive
  <2> QED  BY <1>1, <2>1 DEF ServerStage
<1>2. CASE c.ok /\ g.alert # NULL
  <2> DEFINE f == S!FailAlert(c, g.alert)
  <2>1. S!ServerReceive(c, r) = f
    BY <1>2 DEF S!ServerReceive
  <2>2. /\ ServerReads(c, f) /\ f.verify = c.verify /\ f.state = c.state /\ SameKeys(c, f)
        /\ ~f.ok /\ f.alert # NULL /\ f.client_rsa_key = c.client_rsa_key
        /\ f.rl.read.key = c.rl.read.key /\ f.rl.read.suite = c.rl.read.suite
    <3> HIDE DEF g
    <3> QED  BY <1>0, <1>2 DEF S!FailAlert, SameKeys
  <2> HIDE DEF f, g, ServerReads, IsServer, IsConnection, SameServer
  <2>3. /\ ServerSent(c) => ServerSent(f)
        /\ ServerAccepts(c, k) => ServerAccepts(f, k)
        /\ ServerProof(c, k) => ServerProof(f, k)
    BY <1>0, <1>2, <2>2, CountedServerStates DEF ServerStage
  <2>4. ServerReads(c0, f) /\ (ServerSent(c0) => SameKeys(c0, f))
    BY <2>2 DEF ServerStage, ServerReads, SameKeys, SameServer
  <2> QED  BY <2>1, <2>2, <2>3, <2>4 DEF ServerStage
<1>3. CASE c.ok /\ g.alert = NULL
  <2>1. S!ServerReceive(c, r) = d
    BY <1>3 DEF S!ServerReceive
  <2>2. /\ ServerReads(c, e) /\ e.verify = c.verify /\ e.state = c.state /\ SameKeys(c, e)
        /\ e.ok = c.ok /\ e.alert = c.alert /\ e.client_rsa_key = c.client_rsa_key
        /\ e.rl.read.key = c.rl.read.key /\ e.rl.read.suite = c.rl.read.suite
    <3> HIDE DEF ServerReads, IsServer, IsConnection, SameServer
    <3> QED  BY <1>0, CountedServer
  <2>3. FromClient(e, k, g.m)
    BY <1>3, <2>2, RecordReceived
  <2> HIDE DEF e, g
  <2>a. PICK m : m = g.m
    OBVIOUS
  <2>b. PICK ct : ct = r.ct
    OBVIOUS
  <2>4. IsServer(e) /\ e.ok
    BY <1>3, <2>2
  <2> HIDE DEF d, ServerReads, IsServer, IsConnection, SameServer
  <2>5. /\ ServerStates(e)
        /\ ServerSent(c) => ServerSent(e)
        /\ ServerAccepts(c, k) => ServerAccepts(e, k)
        /\ ServerProof(c, k) => ServerProof(e, k)
    BY <1>0, <1>3, <2>2, CountedServerStates DEF ServerStage
  <2>6. d = S!tlsv1_server_process_handshake(e, ct, m)
    BY <2>a, <2>b DEF d
  <2>7. /\ ServerMessageKeeps(e, d)
        /\ d.ok \/ d.alert = NULL => ServerStates(d)
        /\ d.ok /\ d.state = "SERVER_HELLO" => ServerGreeted(d)
    BY <2>4, <2>5, <2>6, ServerMessageStates
  <2>8. /\ ServerSent(e) => ServerSent(d) /\ SameKeys(e, d)
        /\ ServerAccepts(e, k) => ServerAccepts(d, k)
        /\ ServerProof(e, k) => ServerProof(d, k)
    BY <2>3, <2>4, <2>5, <2>6, <2>a, ServerMessageAccepts
  <2>9. ServerReads(c0, d)
    <3>1. ServerReads(c0, c) /\ ServerReads(c, e) /\ ServerReads(e, d)
      BY <2>2, <2>7 DEF ServerStage, ServerMessageKeeps
    <3> QED  BY <3>1, ReadsFurther
  <2>10. Grown(c0.verify.log, d.verify.log)
    <3>1. /\ Len(c0.verify.log) \in Nat /\ Len(c.verify.log) \in Nat /\ Len(d.verify.log) \in Nat
      BY <1>0, <2>9, AppendFacts DEF ServerReads, IsServer, IsConnection
    <3>2. Grown(c0.verify.log, c.verify.log) /\ Grown(c.verify.log, d.verify.log)
      BY <2>2, <2>7 DEF ServerStage, ServerMessageKeeps
    <3> QED  BY <3>1, <3>2, GrownFurther
  <2>11. ServerSent(c0) => ServerSent(d) /\ SameKeys(c0, d)
    BY <2>2, <2>5, <2>8 DEF ServerStage, SameKeys
  <2> QED  BY <2>1, <2>5, <2>7, <2>8, <2>9, <2>10, <2>11 DEF ServerStage
<1> QED  BY <1>1, <1>2, <1>3

(***************************************************************************)
(* A call that writes. The messages before the ChangeCipherSpec            *)
(***************************************************************************)

\* What a server leaves alone while it writes.
ServerWrites(c, d) ==
  /\ IsServer(d) /\ SameServer(c, d) /\ Grown(c.verify.log, d.verify.log)
  /\ d.state = c.state /\ d.client_rsa_key = c.client_rsa_key
  /\ d.rl.read = c.rl.read /\ d.rl.version = c.rl.version /\ d.rl.suite = c.rl.suite
  /\ d.client_random = c.client_random
  /\ "cert" \notin c.verify.open => "cert" \notin d.verify.open
  /\ d.fault = c.fault

\* Nor does it touch what it has said, and its keys, once the hello is written.
ServerWritesOn(c, d) ==
  /\ ServerWrites(c, d) /\ SameKeys(c, d)
  /\ d.server_random = c.server_random /\ d.session_id = c.session_id
  /\ d.use_session_ticket = c.use_session_ticket

\* Records without protection, that is all messages but the Finished.
PlainRecord(r, round) ==
  /\ DOMAIN r = RecordFields /\ r.hdr = "ok" /\ r.key = NoKey
  /\ "type" \in DOMAIN r.m
  /\ r.m.type = "server_hello" => "session_id" \in DOMAIN r.m /\ r.m.session_id = round

\* A server that has not turned on its key yet writes records without
\* protection.
ServerPlain(c) ==
  c.rl.write.key = NoKey /\ \A i \in DOMAIN c.out : PlainRecord(c.out[i], c.round)

\* A function that writes one message or none.
WritesPlainly(c, d) ==
  /\ ServerWritesOn(c, d)
  /\ ServerPlain(c) /\ d.ok => ServerPlain(d)
  /\ d.ok => c.ok

\* Two functions that write are one.
LEMMA WritesOnFurther ==
  ASSUME NEW c, IsServer(c), NEW d, NEW e, ServerWritesOn(c, d), ServerWritesOn(d, e)
  PROVE  ServerWritesOn(c, e)
<1>1. /\ Len(c.verify.log) \in Nat /\ Len(d.verify.log) \in Nat /\ Len(e.verify.log) \in Nat
  BY AppendFacts DEF ServerWritesOn, ServerWrites
<1>2. Grown(c.verify.log, e.verify.log)
  BY <1>1, GrownFurther DEF ServerWritesOn, ServerWrites
<1> HIDE DEF IsServer, IsConnection
<1> QED  BY <1>2 DEF ServerWritesOn, ServerWrites, SameKeys, SameServer

\* Two that write in the clear too.
LEMMA WritesFurther ==
  ASSUME NEW c, IsServer(c), NEW d, NEW e, WritesPlainly(c, d), WritesPlainly(d, e)
  PROVE  WritesPlainly(c, e)
  BY WritesOnFurther DEF WritesPlainly

\* A function that writes nothing.
LEMMA WritesNothing ==
  ASSUME NEW c, IsServer(c)
  PROVE  WritesPlainly(c, c)
  BY GrownFacts DEF WritesPlainly, ServerWritesOn, ServerWrites, SameKeys

\* A message that is sent is appended to the hash and, in a record, to the
\* output.
LEMMA SendIs ==
  ASSUME NEW c, IsServer(c), NEW m, NEW d, d = S!ServerSend(c, m)
  PROVE  /\ ServerWritesOn(c, d) /\ d.ok = c.ok /\ d.alert = c.alert
         /\ d.verify.log = Append(c.verify.log, m)
         /\ d.out = Append(c.out, S!Record(c.rl, "handshake", m))
         /\ d.rl.write.key = c.rl.write.key /\ d.rl.write.suite = c.rl.write.suite
<1> DEFINE r == S!Record(c.rl, "handshake", m)
<1>1. /\ IsSeq(Append(c.out, r)) /\ IsSeq(Append(c.verify.log, m))
      /\ Grown(c.verify.log, Append(c.verify.log, m))
  BY AppendFacts, GrownFacts
<1> HIDE DEF r
<1>2. /\ d.verify.log = Append(c.verify.log, m) /\ d.out = Append(c.out, r)
      /\ d.verify.open = c.verify.open
      /\ DOMAIN d.verify = {"log", "open"} /\ DOMAIN d = ServerFields
  BY DEF r, S!ServerSend, S!tlsv1_record_send, S!tls_verify_hash_add
<1>3. /\ DOMAIN d.rl = LayerFields /\ DOMAIN d.rl.write = DirectionFields
      /\ DOMAIN d.rl.read = DirectionFields /\ SameServer(c, d) /\ SameKeys(c, d)
      /\ d.state = c.state /\ d.client_rsa_key = c.client_rsa_key /\ d.rl.read = c.rl.read
      /\ d.server_random = c.server_random /\ d.session_id = c.session_id
      /\ d.use_session_ticket = c.use_session_ticket /\ d.fault = c.fault
      /\ d.ok = c.ok /\ d.alert = c.alert
      /\ d.rl.write.key = c.rl.write.key /\ d.rl.write.suite = c.rl.write.suite
  BY DEF S!ServerSend, S!tlsv1_record_send, S!tls_verify_hash_add, SameKeys
<1> QED  BY <1>1, <1>2, <1>3 DEF ServerWritesOn, ServerWrites, SameKeys, r

\* Output in the clear and another record in the clear.
LEMMA PlainAppended ==
  ASSUME NEW c, IsServer(c), NEW d, NEW r, ServerPlain(c), PlainRecord(r, c.round),
         d.round = c.round, d.rl.write.key = c.rl.write.key, d.out = Append(c.out, r)
  PROVE  ServerPlain(d)
<1>1. IsSeq(c.out)
  OBVIOUS
<1>2. PICK T : c.out \in Seq(T)
  BY <1>1 DEF IsSeq
<1>3. Append(c.out, r) \in Seq(T \cup {r}) /\ DOMAIN c.out = 1 .. Len(c.out) /\ Len(c.out) \in Nat
  BY <1>2
<1>4. ASSUME NEW i \in DOMAIN d.out PROVE PlainRecord(d.out[i], c.round)
  <2>1. i \in 1 .. Len(c.out) + 1
    BY <1>1, AppendFacts
  <2>2. CASE i = Len(c.out) + 1
    BY <2>2, <1>1, AppendFacts
  <2>3. CASE i \in 1 .. Len(c.out)
    BY <2>3, <1>1, <1>3, AppendFacts DEF ServerPlain
  <2> QED  BY <2>1, <2>2, <2>3, <1>3
<1> QED  BY <1>4 DEF ServerPlain

\* A message in the clear that is not the hello.
LEMMA SendPlainly ==
  ASSUME NEW c, IsServer(c), c.ok, NEW m, "type" \in DOMAIN m, m.type # "server_hello"
  PROVE  WritesPlainly(c, S!ServerSend(c, m))
<1> DEFINE d == S!ServerSend(c, m)
           r == S!Record(c.rl, "handshake", m)
<1>1. /\ ServerWritesOn(c, d) /\ d.out = Append(c.out, r) /\ d.rl.write.key = c.rl.write.key
  BY SendIs
<1>2. r = [hdr |-> "ok", ct |-> "handshake", key |-> c.rl.write.key, seq |-> c.rl.write.seq, m |-> m]
  BY DEF S!Record
<1> HIDE DEF d, r
<1>3. ServerPlain(c) => PlainRecord(r, c.round)
  BY <1>2 DEF ServerPlain, PlainRecord, RecordFields
<1>4. ServerPlain(c) => ServerPlain(d)
  BY <1>1, <1>3, PlainAppended DEF ServerWritesOn, ServerWrites
<1> QED  BY <1>1, <1>4 DEF WritesPlainly, d

\* An error instead of a message.
LEMMA FailPlainly ==
  ASSUME NEW c, IsServer(c), NEW a
  PROVE  WritesPlainly(c, S!FailAlert(c, a)) /\ WritesPlainly(c, S!Fail(c))
  BY GrownFacts DEF WritesPlainly, ServerWritesOn, ServerWrites, SameKeys, S!FailAlert, S!Fail

\* tls_write_server_certificate().
LEMMA WriteCertificate ==
  ASSUME NEW c, IsServer(c)
  PROVE  WritesPlainly(c, S!tls_write_server_certificate(c))
<1> HIDE DEF IsServer
<1> QED  BY WritesNothing, SendPlainly DEF S!tls_write_server_certificate

\* tls_write_server_certificate_status().
LEMMA WriteStatus ==
  ASSUME NEW c, IsServer(c), NEW kind, NEW response
  PROVE  WritesPlainly(c, S!tls_write_server_certificate_status(c, kind, response))
<1> HIDE DEF IsServer
<1> QED  BY WritesNothing, SendPlainly DEF S!tls_write_server_certificate_status

\* tls_write_server_certificate_request().
LEMMA WriteRequest ==
  ASSUME NEW c, IsServer(c)
  PROVE  WritesPlainly(c, S!tls_write_server_certificate_request(c))
<1> HIDE DEF IsServer
<1> QED  BY WritesNothing, SendPlainly DEF S!tls_write_server_certificate_request

\* tls_write_server_hello_done().
LEMMA WriteDone ==
  ASSUME NEW c, IsServer(c)
  PROVE  WritesPlainly(c, S!tls_write_server_hello_done(c))
<1> HIDE DEF IsServer
<1> QED  BY WritesNothing, SendPlainly DEF S!tls_write_server_hello_done

\* tls_write_server_key_exchange(), if there is one.
LEMMA WriteExchange ==
  ASSUME NEW c, IsServer(c)
  PROVE  WritesPlainly(c, S!tls_write_server_key_exchange(c))
<1> DEFINE e == [c EXCEPT !.dh_secret = <<"server_dh", c.round>>]
<1>1. IsServer(e) /\ WritesPlainly(c, e) /\ e.ok = c.ok
  BY GrownFacts DEF WritesPlainly, ServerWritesOn, ServerWrites, SameKeys, ServerPlain
<1>2. WritesPlainly(c, S!FailAlert(e, "INTERNAL_ERROR"))
  BY <1>1, FailPlainly, WritesFurther
<1>3. ASSUME NEW m, "type" \in DOMAIN m, m.type # "server_hello", c.ok
      PROVE WritesPlainly(c, S!ServerSend(e, m))
  <2> HIDE DEF IsServer, e
  <2>1. WritesPlainly(e, S!ServerSend(e, m))
    BY <1>1, <1>3, SendPlainly
  <2> QED  BY <1>1, <2>1, WritesFurther
<1> HIDE DEF IsServer
<1>4. WritesPlainly(c, c) /\ WritesPlainly(c, S!Fail(c))
  BY FailPlainly, WritesNothing
<1> QED  BY <1>2, <1>3, <1>4 DEF S!tls_write_server_key_exchange

(***************************************************************************)
(* ChangeCipherSpec and Finished                                           *)
(***************************************************************************)

\* tls_write_server_change_cipher_spec(): the record itself goes in the
\* clear, what follows is written with the new key.
LEMMA WriteChange ==
  ASSUME NEW c, IsServer(c), c.ok, c.rl.suite # NullSuite, ServerPlain(c),
         NEW d, d = S!tls_write_server_change_cipher_spec(c)
  PROVE  /\ ServerWritesOn(c, d) /\ d.verify = c.verify
         /\ ~d.ok => d.alert # NULL
         /\ d.ok => /\ d.rl.write.key = d.rl.wkey
                    /\ \A i \in DOMAIN d.out : PlainRecord(d.out[i], c.round)
<1> DEFINE m == [type |-> "change_cipher_spec", fmt |-> "ok"]
           r == S!Record(c.rl, "change_cipher_spec", m)
           e == S!tlsv1_record_send(c, "change_cipher_spec", m)
<1>1. r = [hdr |-> "ok", ct |-> "change_cipher_spec", key |-> c.rl.write.key, seq |-> c.rl.write.seq, m |-> m]
  BY DEF S!Record
<1>2. "type" \in DOMAIN m /\ m.type # "server_hello"
  OBVIOUS
<1> HIDE DEF r, m
<1>3. PlainRecord(r, c.round)
  BY <1>1, <1>2 DEF ServerPlain, PlainRecord, RecordFields
<1>4. IsSeq(Append(c.out, r)) /\ Grown(c.verify.log, c.verify.log)
  BY AppendFacts, GrownFacts
<1>5. /\ e.out = Append(c.out, r) /\ e.verify = c.verify /\ e.rl.write.key = c.rl.write.key
      /\ e.round = c.round /\ e.rl.suite = c.rl.suite /\ e.rl.wkey = c.rl.wkey /\ e.ok = c.ok
    BY DEF S!tlsv1_record_send, r
<1>6. ServerPlain(e)
  BY <1>3, <1>5, PlainAppended
<1>7. /\ DOMAIN e = ServerFields /\ DOMAIN e.rl = LayerFields /\ DOMAIN e.rl.read = DirectionFields
      /\ DOMAIN e.rl.write = DirectionFields
      /\ SameServer(c, e) /\ SameKeys(c, e) /\ e.state = c.state /\ e.client_rsa_key = c.client_rsa_key
      /\ e.rl.read = c.rl.read
      /\ e.server_random = c.server_random /\ e.session_id = c.session_id
      /\ e.use_session_ticket = c.use_session_ticket /\ e.fault = c.fault
  BY DEF S!tlsv1_record_send, SameKeys
<1> HIDE DEF e
<1> DEFINE f == [e EXCEPT !.rl = S!tlsv1_record_change_write_cipher(@)]
<1>8. /\ ServerWritesOn(c, f) /\ f.verify = c.verify /\ f.out = e.out /\ f.ok = c.ok
      /\ f.rl.write.key = f.rl.wkey
  <2>1. IsServer(f)
    BY <1>4, <1>5, <1>7 DEF S!tlsv1_record_change_write_cipher, S!Direction
  <2>2. f.rl.write.key = f.rl.wkey
    BY <1>5, <1>7, SameNames DEF S!tlsv1_record_change_write_cipher, S!Direction
  <2>3. /\ SameServer(c, f) /\ SameKeys(c, f) /\ f.state = c.state /\ f.client_rsa_key = c.client_rsa_key
        /\ f.rl.read = c.rl.read
        /\ f.server_random = c.server_random /\ f.session_id = c.session_id
        /\ f.use_session_ticket = c.use_session_ticket /\ f.fault = c.fault
        /\ f.verify = c.verify /\ f.out = e.out /\ f.ok = c.ok
    BY <1>5, <1>7 DEF S!tlsv1_record_change_write_cipher, SameKeys
  <2> HIDE DEF f, IsServer, IsConnection
  <2> QED  BY <1>4, <2>1, <2>2, <2>3 DEF ServerWritesOn, ServerWrites, SameKeys
<1> HIDE DEF f
<1>9. CASE d = f
  BY <1>5, <1>6, <1>8, <1>9 DEF ServerPlain
<1>10. CASE d = S!FailAlert(f, "INTERNAL_ERROR")
  <2>1. ServerWritesOn(f, d)
    BY <1>8, <1>10, FailPlainly DEF WritesPlainly, ServerWritesOn, ServerWrites
  <2>2. ~d.ok /\ d.alert # NULL /\ d.verify = f.verify
    BY <1>8, <1>10, AlertIsSet DEF S!FailAlert, Alerts, ServerWritesOn, ServerWrites
  <2> QED  BY <1>8, <2>1, <2>2, WritesOnFurther
<1> QED  BY <1>9, <1>10 DEF S!tls_write_server_change_cipher_spec, e, f, m

\* tls_write_server_finished(): its contents are computed from the secret and
\* the hash as they are before it.
LEMMA WriteFinished ==
  ASSUME NEW c, IsServer(c), c.ok, NEW d, d = S!tls_write_server_finished(c)
  PROVE  /\ ServerWritesOn(c, d) /\ d.rl.write.key = c.rl.write.key
         /\ ~d.ok => d.alert # NULL
         /\ d.ok => \E r : /\ d.out = Append(c.out, r)
                           /\ DOMAIN r = RecordFields /\ r.hdr = "ok" /\ "type" \in DOMAIN r.m
                           /\ r.key = c.rl.write.key /\ r.m.type = "finished"
                           /\ r.m.verify_data = tls_prf(c.master_secret, "server_finished", c.verify.log)
<1> DEFINE e == [c EXCEPT !.verify = S!HashFinish(@, "server")]
           m == [type |-> "finished", fmt |-> "ok",
                 verify_data |-> S!tls_prf(c.master_secret, "server_finished", c.verify.log)]
           r == S!Record(e.rl, "handshake", m)
<1>1. /\ IsServer(e) /\ ServerWritesOn(c, e) /\ e.rl = c.rl /\ e.out = c.out /\ e.ok
  BY GrownFacts DEF ServerWritesOn, ServerWrites, SameKeys, S!HashFinish
<1>2. /\ DOMAIN r = RecordFields /\ r.hdr = "ok" /\ "type" \in DOMAIN r.m
      /\ r.key = c.rl.write.key /\ r.m.type = "finished"
      /\ r.m.verify_data = tls_prf(c.master_secret, "server_finished", c.verify.log)
  BY <1>1 DEF S!Record, RecordFields, tls_prf, S!tls_prf
<1> HIDE DEF e, m, r
<1>3. CASE d = S!ServerSend(e, m)
  <2>1. /\ ServerWritesOn(e, d) /\ d.rl.write.key = e.rl.write.key
        /\ d.out = Append(e.out, r)
    <3> HIDE DEF IsServer
    <3>1. IsServer(e)
      BY <1>1
    <3> QED  BY <3>1, <1>3, SendIs DEF r
  <2>2. ServerWritesOn(c, d)
    BY <1>1, <2>1, WritesOnFurther
  <2> HIDE DEF IsServer, IsConnection
  <2>3. d.ok
    <3>1. IsServer(e) /\ e.ok
      BY <1>1
    <3>2. d.ok = e.ok
      BY <3>1, <1>3, SendIs
    <3> QED  BY <3>1, <3>2
  <2> QED  BY <1>1, <1>2, <2>1, <2>2, <2>3
<1>4. CASE d = S!FailAlert(e, "INTERNAL_ERROR")
  <2>1. ServerWritesOn(e, d)
    BY <1>1, <1>4, FailPlainly DEF WritesPlainly
  <2>2. ~d.ok /\ d.alert # NULL /\ d.rl.write.key = e.rl.write.key
    BY <1>1, <1>4, AlertIsSet DEF S!FailAlert, Alerts
  <2>3. ServerWritesOn(c, d)
    BY <1>1, <2>1, WritesOnFurther
  <2> HIDE DEF IsServer, IsConnection
  <2> QED  BY <1>1, <2>2, <2>3
<1> QED  BY <1>3, <1>4 DEF S!tls_write_server_finished, e, m

\* A protected Finished of the server.
FinishedRecord(r, d) ==
  /\ DOMAIN r = RecordFields /\ r.hdr = "ok" /\ "type" \in DOMAIN r.m
  /\ r.key = d.rl.write.key /\ r.m.type = "finished" /\ ServerFinishes(r.m, d)

\* ChangeCipherSpec and Finished.
LEMMA WriteEnd ==
  ASSUME NEW c, IsServer(c), c.ok, c.rl.suite # NullSuite, ServerPlain(c), Len(c.verify.log) >= 2,
         c.use_session_ticket => Len(c.verify.log) = 2,
         NEW d, d = S!tls_write_server_finished(S!tls_write_server_change_cipher_spec(c))
  PROVE  /\ ServerWritesOn(c, d)
         /\ ~d.ok => d.alert # NULL
         /\ d.ok => /\ d.rl.write.key = d.rl.wkey
                    /\ \A i \in DOMAIN d.out : PlainRecord(d.out[i], d.round) \/ FinishedRecord(d.out[i], d)
<1> DEFINE e == S!tls_write_server_change_cipher_spec(c)
<1>1. /\ ServerWritesOn(c, e) /\ e.verify = c.verify
      /\ ~e.ok => e.alert # NULL
      /\ e.ok => /\ e.rl.write.key = e.rl.wkey
                 /\ \A i \in DOMAIN e.out : PlainRecord(e.out[i], c.round)
  BY WriteChange
<1> HIDE DEF e
<1>2. CASE ~e.ok
  <2>1. d = e
    BY <1>2 DEF S!tls_write_server_finished, e
  <2> QED  BY <1>1, <1>2, <2>1
<1>3. CASE e.ok
  <2>0. IsServer(e)
    BY <1>1 DEF ServerWritesOn, ServerWrites
  <2>1. /\ ServerWritesOn(e, d) /\ d.rl.write.key = e.rl.write.key
        /\ ~d.ok => d.alert # NULL
        /\ d.ok => \E r : /\ d.out = Append(e.out, r)
                           /\ DOMAIN r = RecordFields /\ r.hdr = "ok" /\ "type" \in DOMAIN r.m
                           /\ r.key = e.rl.write.key /\ r.m.type = "finished"
                           /\ r.m.verify_data = tls_prf(e.master_secret, "server_finished", e.verify.log)
    <3> HIDE DEF IsServer
    <3> QED  BY <1>3, <2>0, WriteFinished DEF e
  <2>2. ServerWritesOn(c, d)
    BY <1>1, <2>1, WritesOnFurther
  <2>3. ASSUME d.ok
        PROVE /\ d.rl.write.key = d.rl.wkey
              /\ \A i \in DOMAIN d.out : PlainRecord(d.out[i], d.round) \/ FinishedRecord(d.out[i], d)
    <3>1. PICK r : /\ d.out = Append(e.out, r)
                   /\ DOMAIN r = RecordFields /\ r.hdr = "ok" /\ "type" \in DOMAIN r.m
                   /\ r.key = e.rl.write.key /\ r.m.type = "finished"
                   /\ r.m.verify_data = tls_prf(e.master_secret, "server_finished", e.verify.log)
      BY <2>1, <2>3
    <3>2. d.rl.wkey = e.rl.wkey /\ d.master_secret = e.master_secret /\ d.round = c.round
          /\ d.use_session_ticket = c.use_session_ticket
          /\ Grown(c.verify.log, d.verify.log)
      BY <1>1, <2>1, <2>2 DEF ServerWritesOn, ServerWrites, SameKeys
    <3>3. d.verify.log[1] = e.verify.log[1] /\ d.verify.log[2] = e.verify.log[2]
      <4>1. IsSeq(c.verify.log)
        OBVIOUS
      <4>2. Len(c.verify.log) \in Nat
        BY <4>1, AppendFacts
      <4> QED  BY <1>1, <3>2, <4>2 DEF Grown
    <3>4. r.m.verify_data.secret = e.master_secret /\ r.m.verify_data.label = "server_finished"
          /\ r.m.verify_data.seed = e.verify.log
      BY <3>1 DEF tls_prf
    <3>5. ServerFinishes(r.m, d)
      BY <1>1, <3>2, <3>3, <3>4 DEF ServerFinishes, SameHellos
    <3>6. FinishedRecord(r, d)
      BY <2>1, <3>1, <3>5 DEF FinishedRecord
    <3>7. ASSUME NEW i \in DOMAIN d.out PROVE PlainRecord(d.out[i], d.round) \/ FinishedRecord(d.out[i], d)
      <4>1. IsSeq(e.out)
        BY <2>0
      <4>2. /\ Len(e.out) \in Nat /\ DOMAIN d.out = 1 .. Len(e.out) + 1
            /\ \A j \in 1 .. Len(e.out) : d.out[j] = e.out[j]
            /\ d.out[Len(e.out) + 1] = r
        BY <3>1, <4>1, AppendFacts
      <4>3. DOMAIN e.out = 1 .. Len(e.out)
        BY <4>1 DEF IsSeq
      <4>4. \A j \in DOMAIN e.out : PlainRecord(e.out[j], d.round)
        BY <1>1, <1>3, <3>2
      <4>5. CASE i = Len(e.out) + 1
        BY <3>6, <4>2, <4>5
      <4>6. CASE i # Len(e.out) + 1
        <5>1. i \in DOMAIN e.out /\ d.out[i] = e.out[i]
          BY <4>2, <4>3, <4>6
        <5> QED  BY <4>4, <5>1
      <4> QED  BY <4>5, <4>6
    <3>8. d.rl.write.key = d.rl.wkey
      <4> HIDE DEF IsServer, IsConnection
      <4> QED  BY <1>1, <1>3, <2>1, <3>2
    <3> QED  BY <3>7, <3>8
  <2> QED  BY <2>1, <2>2, <2>3
<1> QED  BY <1>2, <1>3

(***************************************************************************)
(* The hello                                                               *)
(***************************************************************************)

\* The keys, if the client's ticket is taken.
LEMMA TicketIs ==
  ASSUME NEW c, IsServer(c), c.ok, NEW d, d = S!TicketKeys(c)
  PROVE  /\ ServerWrites(c, d) /\ d.verify = c.verify /\ d.out = c.out
         /\ d.rl.write = c.rl.write /\ d.server_random = c.server_random
         /\ d.session_id = c.session_id
         /\ ~d.ok => d.alert # NULL
         /\ d.ok /\ ~c.use_session_ticket /\ d.use_session_ticket => ServerKeyed(d)
<1> DEFINE e == [c EXCEPT !.use_session_ticket = TRUE,
                      !.master_secret = S!tls_prf(NULL, "ticket", <<>>)]
           f == S!tlsv1_server_derive_keys(e, NULL)
<1>0. Grown(c.verify.log, c.verify.log)
  BY GrownFacts
<1>1. CASE d = c
  BY <1>0, <1>1 DEF ServerWrites
<1>2. CASE d = S!FailAlert(c, "HANDSHAKE_FAILURE")
  BY <1>0, <1>2, AlertIsSet DEF ServerWrites, S!FailAlert, Alerts
<1>3. CASE d = f
  <2>1. /\ IsServer(e) /\ e.ok /\ ServerWrites(c, e) /\ e.verify = c.verify /\ e.out = c.out
        /\ e.rl = c.rl /\ e.server_random = c.server_random
        /\ e.session_id = c.session_id
    BY <1>0 DEF ServerWrites
  <2> HIDE DEF e
  <2>2. ServerDerives(e, f)
    BY <2>1, ReadDerive
  <2>3. f.rl.read = e.rl.read /\ f.fault = e.fault
    BY <2>1 DEF S!tlsv1_server_derive_keys, S!FailAlert
  <2> HIDE DEF f
  <2> QED  BY <1>3, <2>1, <2>2, <2>3 DEF ServerDerives, ServerWrites
<1>4. CASE d = [c EXCEPT !.use_session_ticket = FALSE]
  BY <1>0, <1>4 DEF ServerWrites
<1> QED  BY <1>1, <1>2, <1>3, <1>4 DEF S!TicketKeys

\* tls_write_server_hello(): the server says what it has heard; with a ticket
\* the keys are made of the ticket's secret.
LEMMA WriteHello ==
  ASSUME NEW c, IsServer(c), c.ok, ServerGreeted(c), ServerPlain(c), NEW d, d = S!tls_write_server_hello(c)
  PROVE  /\ ServerWrites(c, d) /\ d.rl.write.key = NoKey
         /\ ~d.ok => d.alert # NULL \/ d = S!Fail(c)
         /\ d.ok => /\ Len(d.verify.log) = 2 /\ ServerHeard(d) /\ ServerSaid(d) /\ ServerPlain(d)
                    /\ d.use_session_ticket => ServerKeyed(d)
<1> DEFINE e == [c EXCEPT !.server_random = <<"server", c.round>>, !.session_id = c.round]
           f == S!TicketKeys(e)
           m == S!HelloMessage(f)
           r == S!Record(f.rl, "handshake", m)
<1>1. /\ IsServer(e) /\ e.ok /\ ServerWrites(c, e) /\ e.verify = c.verify /\ e.out = c.out
      /\ e.rl = c.rl /\ e.session_id = c.round /\ e.use_session_ticket = c.use_session_ticket
  BY GrownFacts DEF ServerWrites
<1> HIDE DEF e
<1>2. /\ ServerWrites(e, f) /\ f.verify = e.verify /\ f.out = e.out
      /\ f.rl.write = e.rl.write /\ f.session_id = e.session_id
      /\ ~f.ok => f.alert # NULL
      /\ f.ok /\ ~e.use_session_ticket /\ f.use_session_ticket => ServerKeyed(f)
  <2> HIDE DEF IsServer
  <2> QED  BY <1>1, TicketIs
<1> HIDE DEF f
<1>3. IsServer(f)
  BY <1>2 DEF ServerWrites
<1>4. ServerWrites(c, f)
  BY <1>1, <1>2 DEF ServerWrites
<1>5. CASE c.fault = "random"
  BY <1>5, GrownFacts DEF S!tls_write_server_hello, S!Fail, ServerWrites, ServerGreeted
<1>6. CASE c.fault # "random" /\ ~f.ok
  <2>1. d = f
    BY <1>6 DEF S!tls_write_server_hello, f, e
  <2> HIDE DEF IsServer, IsConnection
  <2> QED  BY <1>1, <1>2, <1>4, <1>6, <2>1 DEF ServerGreeted
<1>7. CASE c.fault # "random" /\ f.ok
  <2>1. d = S!ServerSend(f, m)
    BY <1>7 DEF S!tls_write_server_hello, f, e
  <2> HIDE DEF m, r
  <2>2. /\ ServerWritesOn(f, d) /\ d.ok = f.ok
        /\ d.verify.log = Append(f.verify.log, m)
        /\ d.out = Append(f.out, r)
        /\ d.rl.write.key = f.rl.write.key
    <3> HIDE DEF IsServer
    <3> QED  BY <1>3, <2>1, SendIs DEF r
  <2>3. ServerWrites(c, d)
    BY <1>4, <2>2, <1>1, <1>2 DEF ServerWritesOn, ServerWrites
  <2>4. m = [type |-> "server_hello", fmt |-> "ok", version |-> f.rl.version,
             random |-> f.server_random, session_id |-> f.session_id,
             cipher_suite |-> f.rl.suite, compression |-> FALSE]
    BY DEF m, S!HelloMessage
  <2>5. PlainRecord(r, c.round) /\ ServerPlain(f)
    <3>1. r = [hdr |-> "ok", ct |-> "handshake", key |-> f.rl.write.key, seq |-> f.rl.write.seq, m |-> m]
      BY DEF r, S!Record
    <3>2. f.rl.write.key = NoKey /\ f.session_id = c.round /\ f.out = c.out /\ f.round = c.round
      BY <1>1, <1>2, <1>4 DEF ServerPlain, ServerWrites
    <3>3. ServerPlain(f)
      BY <3>2 DEF ServerPlain
    <3> QED  BY <2>4, <3>1, <3>2, <3>3 DEF PlainRecord, RecordFields
  <2>6. ServerPlain(d)
    <3>1. d.round = f.round /\ f.round = c.round
      BY <1>4, <2>2 DEF ServerWritesOn, ServerWrites
    <3> QED  BY <1>3, <2>2, <2>5, <3>1, PlainAppended
  <2>7. IsSeq(f.verify.log) /\ IsSeq(c.verify.log) /\ Len(f.verify.log) = 1 /\ f.verify = c.verify
    BY <1>1, <1>2, <1>3 DEF ServerGreeted
  <2>8. Len(d.verify.log) = 2 /\ d.verify.log[1] = c.verify.log[1] /\ d.verify.log[2] = m
    BY <2>2, <2>7, AppendFacts
  <2>9. ServerHeard(d)
    <3>1. /\ d.client_random = c.client_random /\ d.rl.version = c.rl.version
          /\ d.rl.suite = c.rl.suite /\ d.cipher_suites = c.cipher_suites
      BY <2>3 DEF ServerWrites
    <3>2. \A offered : S!ChosenSuite(d, offered) = S!ChosenSuite(c, offered)
      BY <3>1, ChosenMoves
    <3> QED  BY <2>8, <3>1, <3>2 DEF ServerGreeted, ServerHeard
  <2>10. ServerSaid(d)
    <3>1. /\ d.rl.version = f.rl.version /\ d.rl.suite = f.rl.suite
          /\ d.server_random = f.server_random /\ d.session_id = f.session_id
      BY <2>2 DEF ServerWritesOn, ServerWrites
    <3> QED  BY <2>8, <3>1 DEF ServerSaid, m, S!HelloMessage
  <2>11. d.use_session_ticket => ServerKeyed(d)
    <3>1. SameKeys(f, d) /\ d.server_random = f.server_random /\ d.use_session_ticket = f.use_session_ticket
      BY <2>2 DEF ServerWritesOn
    <3>2. f.use_session_ticket => ServerKeyed(f)
      BY <1>1, <1>2, <1>7 DEF ServerGreeted
    <3> QED  BY <3>1, <3>2, KeysMove
  <2>12. d.rl.write.key = NoKey
    BY <2>6 DEF ServerPlain
  <2>13. d.ok
    BY <1>7, <2>2
  <2> HIDE DEF IsServer, IsConnection
  <2> QED  BY <2>3, <2>6, <2>8, <2>9, <2>10, <2>11, <2>12, <2>13
<1> QED  BY <1>5, <1>6, <1>7

(***************************************************************************)
(* The two flights of the server                                           *)
(***************************************************************************)

\* What a call that writes leaves, before its end.
ServerFlies(c, k, d) ==
  /\ IsServer(d) /\ SameServer(c, d) /\ Grown(c.verify.log, d.verify.log)
  /\ d.alert = NULL =>
       /\ ServerStates(d)
       /\ ServerAccepts(d, k)
       /\ \A i \in DOMAIN d.out : ToClientOk(d.out[i], d)
  /\ ServerProof(d, k)

\* A record in the clear promises nothing about the server.
LEMMA PlainIsOk ==
  ASSUME NEW r, NEW d, PlainRecord(r, d.round)
  PROVE  ToClientOk(r, d)
  BY DEF PlainRecord, ToClientOk, Headers

\* A Finished of a server that has sent it.
LEMMA FinishedIsOk ==
  ASSUME NEW r, NEW d, FinishedRecord(r, d), ServerSent(d)
  PROVE  ToClientOk(r, d)
  BY DEF FinishedRecord, ToClientOk, Headers

\* What the server knows of the client's key stays true outside the states
\* that say more.
LEMMA ProofStays ==
  ASSUME NEW c, NEW k, NEW d, ServerProof(c, k), d.client_rsa_key = c.client_rsa_key,
         d.verify_peer = c.verify_peer,
         "cert" \notin c.verify.open => "cert" \notin d.verify.open,
         \/ d.state = c.state /\ d.use_session_ticket = c.use_session_ticket
         \/ d.state \notin Proven \/ d.use_session_ticket
         \/ c.state = "SERVER_CHANGE_CIPHER_SPEC" /\ ~c.use_session_ticket
  PROVE  ServerProof(d, k)
  BY DEF ServerProof, Proven

\* An error that tells the peer nothing.
LEMMA FlyWithError ==
  ASSUME NEW c, IsServer(c), NEW k, ServerStates(c), ServerAccepts(c, k), ServerProof(c, k),
         c.state # "CLIENT_HELLO",
         c.out = <<>>
  PROVE  ServerFlies(c, k, S!Fail(c))
<1> DEFINE d == S!Fail(c)
<1>1. /\ ServerReads(c, d) /\ d.verify = c.verify /\ d.state = c.state /\ SameKeys(c, d)
         /\ d.client_rsa_key = c.client_rsa_key /\ d.alert = c.alert /\ d.out = <<>>
         /\ d.rl.read.key = c.rl.read.key /\ d.rl.read.suite = c.rl.read.suite
  BY DEF S!Fail, SameKeys
<1> HIDE DEF d
<1>2. Grown(c.verify.log, d.verify.log)
  BY <1>1, GrownFacts
<1> HIDE DEF IsServer, IsConnection, ServerReads
<1>3. ServerStates(d) /\ ServerAccepts(d, k) /\ ServerProof(d, k)
  BY <1>1, CountedServerStates
<1>4. \A i \in DOMAIN d.out : ToClientOk(d.out[i], d)
  BY <1>1
<1>5. IsServer(d) /\ SameServer(c, d)
  BY <1>1 DEF ServerReads
<1> QED  BY <1>2, <1>3, <1>4, <1>5 DEF ServerFlies, d

\* tls_send_server_hello(): with a ticket it sends its Finished here, and has
\* sent it when the call is over.
LEMMA SendHello ==
  ASSUME NEW c, IsServer(c), NEW k, c.ok, ServerStates(c), ServerAccepts(c, k), ServerProof(c, k),
         c.state = "SERVER_HELLO", ServerGreeted(c), c.out = <<>>
  PROVE  ServerFlies(c, k, S!tls_send_server_hello(c))
<1> DEFINE hello == S!tls_write_server_hello(c)
           short == S!tls_write_server_finished(S!tls_write_server_change_cipher_spec(hello))
           certificate == S!tls_write_server_certificate(hello)
           kind == S!StatusKind(c)
           response == S!StatusResponse(c)
           status == S!tls_write_server_certificate_status(certificate, kind, response)
           exchange == S!tls_write_server_key_exchange(status)
           request == S!tls_write_server_certificate_request(exchange)
           full == S!tls_write_server_hello_done(request)
           done == IF hello.use_session_ticket THEN short ELSE full
           d == S!tls_send_server_hello(c)
<1>1. d = IF c.fault = "output" THEN S!Fail(c)
          ELSE IF ~done.ok THEN [done EXCEPT !.out = <<>>]
          ELSE [done EXCEPT !.state = IF hello.use_session_ticket THEN "CHANGE_CIPHER_SPEC"
                                  ELSE "CLIENT_CERTIFICATE"]
  BY DEF S!tls_send_server_hello
<1>2. ServerPlain(c)
  BY DEF ServerPlain, ServerGreeted
<1>3. /\ ServerWrites(c, hello) /\ hello.rl.write.key = NoKey
      /\ ~hello.ok => hello.alert # NULL \/ hello = S!Fail(c)
      /\ hello.ok => /\ Len(hello.verify.log) = 2 /\ ServerHeard(hello) /\ ServerSaid(hello)
                     /\ ServerPlain(hello)
                     /\ hello.use_session_ticket => ServerKeyed(hello)
  <2> HIDE DEF IsServer
  <2> QED  BY <1>2, WriteHello
<1> HIDE DEF hello, kind, response
<1>4. IsServer(hello)
  BY <1>3 DEF ServerWrites
<1> HIDE DEF IsServer, IsConnection
<1>5. WritesPlainly(hello, full)
  <2>1. WritesPlainly(hello, certificate) /\ IsServer(certificate)
    BY <1>4, WriteCertificate DEF WritesPlainly, ServerWritesOn, ServerWrites
  <2> HIDE DEF certificate
  <2>2. WritesPlainly(certificate, status) /\ IsServer(status)
    BY <2>1, WriteStatus DEF WritesPlainly, ServerWritesOn, ServerWrites
  <2> HIDE DEF status
  <2>3. WritesPlainly(status, exchange) /\ IsServer(exchange)
    BY <2>2, WriteExchange DEF WritesPlainly, ServerWritesOn, ServerWrites
  <2> HIDE DEF exchange
  <2>4. WritesPlainly(exchange, request) /\ IsServer(request)
    BY <2>3, WriteRequest DEF WritesPlainly, ServerWritesOn, ServerWrites
  <2> HIDE DEF request
  <2>5. WritesPlainly(request, full)
    BY <2>4, WriteDone
  <2> HIDE DEF full
  <2>6. WritesPlainly(hello, status)
    BY <1>4, <2>1, <2>2, WritesFurther
  <2>7. WritesPlainly(hello, exchange)
    BY <1>4, <2>6, <2>3, WritesFurther
  <2>8. WritesPlainly(hello, request)
    BY <1>4, <2>7, <2>4, WritesFurther
  <2> QED  BY <1>4, <2>8, <2>5, WritesFurther
<1>6. /\ ~hello.ok => short = hello
      /\ hello.ok => /\ ServerWritesOn(hello, short)
                     /\ ~short.ok => short.alert # NULL
                     /\ short.ok => /\ short.rl.write.key = short.rl.wkey
                                    /\ \A i \in DOMAIN short.out :
                                         PlainRecord(short.out[i], short.round) \/ FinishedRecord(short.out[i], short)
  <2>1. ~hello.ok => short = hello
    <3>1. ~hello.ok => S!tls_write_server_change_cipher_spec(hello) = hello
      BY DEF S!tls_write_server_change_cipher_spec
    <3>2. ~hello.ok => S!tls_write_server_finished(hello) = hello
      BY DEF S!tls_write_server_finished
    <3> QED  BY <3>1, <3>2
  <2>2. hello.ok => Len(hello.verify.log) >= 2 /\ (hello.use_session_ticket => Len(hello.verify.log) = 2)
                    /\ hello.rl.suite # NullSuite
    <3>1. \A n : n = 2 => n >= 2
      OBVIOUS
    <3>2. hello.ok => Len(hello.verify.log) = 2 /\ ServerHeard(hello)
      BY <1>3, Zenon
    <3>3. ServerHeard(hello) => hello.rl.suite # NullSuite
      BY DEF ServerHeard
    <3> QED  BY <3>1, <3>2, <3>3, Zenon
  <2> QED  BY <1>3, <1>4, <2>1, <2>2, WriteEnd
<1> HIDE DEF short, full
<1>7. /\ ServerWrites(c, done)
      /\ ~done.ok => done.state = "SERVER_HELLO"
      /\ done.ok => ServerWritesOn(hello, done) /\ hello.ok
  <2>1. CASE hello.use_session_ticket /\ ~hello.ok
    BY <2>1, <1>3, <1>6 DEF ServerWrites
  <2>2. CASE hello.use_session_ticket => hello.ok
    <3>1. ServerWritesOn(hello, done)
      BY <2>2, <1>5, <1>6 DEF WritesPlainly
    <3>2. ServerWrites(c, done)
      <4>1. Len(c.verify.log) \in Nat /\ Len(hello.verify.log) \in Nat /\ Len(done.verify.log) \in Nat
        BY <1>4, <3>1, AppendFacts DEF ServerWritesOn, ServerWrites, IsServer, IsConnection
      <4>2. Grown(c.verify.log, done.verify.log)
        BY <4>1, <3>1, <1>3, GrownFurther DEF ServerWritesOn, ServerWrites
      <4> HIDE DEF done
      <4> QED  BY <4>2, <3>1, <1>3 DEF ServerWritesOn, ServerWrites, SameServer
    <3>3. done.ok => hello.ok
      BY <2>2, <1>5 DEF WritesPlainly
    <3> QED  BY <3>1, <3>2, <3>3 DEF ServerWrites
  <2> QED  BY <2>1, <2>2
<1>8. CASE c.fault = "output"
  BY <1>1, <1>8, FlyWithError
<1>9. CASE c.fault # "output" /\ ~done.ok
  <2> HIDE DEF done, d
  <2>1. d = [done EXCEPT !.out = <<>>]
    BY <1>1, <1>9
  <2>2. /\ IsServer(d) /\ SameServer(c, d) /\ Grown(c.verify.log, d.verify.log)
        /\ d.out = <<>> /\ d.state = "SERVER_HELLO" /\ d.client_rsa_key = c.client_rsa_key
        /\ "cert" \notin c.verify.open => "cert" \notin d.verify.open
    <3>1. IsSeq(<<>>)
      BY DEF IsSeq
    <3> QED  BY <1>7, <1>9, <2>1, <3>1 DEF ServerWrites, IsServer, IsConnection
  <2>3. ServerStates(d) /\ ServerAccepts(d, k)
    BY <2>2 DEF ServerStates, ServerAccepts, ServerTalks, ServerKnows
  <2>4. ServerProof(d, k)
    BY <2>2, ProofStays DEF Proven, SameServer
  <2> QED  BY <2>2, <2>3, <2>4 DEF ServerFlies, d
<1>10. CASE c.fault # "output" /\ done.ok /\ hello.use_session_ticket
  <2>0. done = short /\ short.ok /\ hello.ok
    BY <1>7, <1>10
  <2>a. d = [short EXCEPT !.state = "CHANGE_CIPHER_SPEC"]
    BY <1>1, <1>10, <2>0
  <2> HIDE DEF done, d
  <2>1. ServerWrites(c, short) /\ ServerWritesOn(hello, short) /\ IsServer(short)
    BY <1>7, <2>0 DEF ServerWrites
  <2>2. /\ IsServer(d) /\ SameServer(c, d) /\ Grown(c.verify.log, d.verify.log)
        /\ d.out = short.out /\ d.state = "CHANGE_CIPHER_SPEC" /\ d.client_rsa_key = c.client_rsa_key
        /\ "cert" \notin c.verify.open => "cert" \notin d.verify.open
        /\ d.use_session_ticket
        /\ SameKeys(short, d) /\ d.verify = short.verify /\ d.server_random = short.server_random
        /\ d.session_id = short.session_id /\ d.rl = short.rl /\ d.round = short.round
        /\ d.cipher_suites = short.cipher_suites
    BY <1>10, <2>a, <2>1 DEF ServerWrites, IsServer, IsConnection, SameKeys, SameServer, ServerWritesOn
  <2>3. Len(hello.verify.log) \in Nat /\ Len(d.verify.log) \in Nat /\ Grown(hello.verify.log, d.verify.log)
    BY <1>4, <2>1, <2>2, AppendFacts DEF ServerWritesOn, ServerWrites, IsServer, IsConnection
  <2>4. SameKeys(hello, d) /\ d.server_random = hello.server_random /\ d.session_id = hello.session_id
        /\ d.cipher_suites = hello.cipher_suites
    BY <2>1, <2>2 DEF ServerWritesOn, ServerWrites, SameKeys, SameServer
  <2>5. ServerHeard(d) /\ ServerSaid(d) /\ ServerKeyed(d) /\ Len(d.verify.log) >= 2
    <3>1. ServerKeyed(hello) /\ Len(hello.verify.log) = 2
      BY <1>3, <1>10, <2>0
    <3>2. Len(d.verify.log) >= 2
      BY <2>3, <3>1 DEF Grown
    <3>3. ServerKeyed(d)
      BY <3>1, <2>4, KeysMove
    <3>4. Len(hello.verify.log) >= 1 /\ Len(hello.verify.log) >= 2
      BY <2>3, <3>1
    <3>5. ServerHeard(hello) /\ ServerSaid(hello)
      BY <1>3, <2>0, Zenon
    <3>6. /\ d.rl.version = hello.rl.version /\ d.rl.suite = hello.rl.suite
          /\ d.client_random = hello.client_random
      BY <2>4 DEF SameKeys
    <3>7. ServerHeard(d) /\ ServerSaid(d)
      BY <2>3, <2>4, <3>4, <3>5, <3>6, HellosMove
    <3> QED  BY <3>3, <3>2, <3>7
  <2>6. d.rl.write.key = d.rl.wkey
    BY <1>6, <2>0, <2>2
  <2>7. ServerSent(d)
    BY <2>2, <2>5, <2>6 DEF ServerSent
  <2>8. ServerStates(d) /\ ServerAccepts(d, k)
    BY <2>2, <2>5, <2>6 DEF ServerStates, ServerAccepts, ServerTalks, ServerKnows
  <2>9. ServerProof(d, k)
    BY <2>2, ProofStays DEF SameServer
  <2>10. ASSUME NEW i \in DOMAIN d.out PROVE ToClientOk(d.out[i], d)
    <3>1. PlainRecord(d.out[i], short.round) \/ FinishedRecord(d.out[i], short)
      BY <1>6, <2>0, <2>2
    <3>2. CASE PlainRecord(d.out[i], short.round)
      BY <3>2, <2>2, PlainIsOk
    <3>3. CASE FinishedRecord(d.out[i], short)
      <4>1. d.use_session_ticket /\ short.use_session_ticket /\ d.master_secret = short.master_secret
        BY <1>10, <2>1, <2>2 DEF ServerWritesOn, SameKeys
      <4>2. FinishedRecord(d.out[i], d)
        BY <3>3, <2>2, <4>1 DEF FinishedRecord, ServerFinishes, SameHellos
      <4> QED  BY <4>2, <2>7, FinishedIsOk
    <3> QED  BY <3>1, <3>2, <3>3
  <2> QED  BY <2>2, <2>8, <2>9, <2>10 DEF ServerFlies, d
<1>11. CASE c.fault # "output" /\ done.ok /\ ~hello.use_session_ticket
  <2>0. done = full /\ full.ok /\ hello.ok
    BY <1>7, <1>11
  <2>a. d = [full EXCEPT !.state = "CLIENT_CERTIFICATE"]
    BY <1>1, <1>11, <2>0
  <2> HIDE DEF done, d
  <2>1. ServerWrites(c, full) /\ ServerWritesOn(hello, full) /\ IsServer(full)
    BY <1>7, <2>0 DEF ServerWrites
  <2>2. /\ IsServer(d) /\ SameServer(c, d) /\ Grown(c.verify.log, d.verify.log)
        /\ d.out = full.out /\ d.state = "CLIENT_CERTIFICATE" /\ d.client_rsa_key = c.client_rsa_key
        /\ "cert" \notin c.verify.open => "cert" \notin d.verify.open
        /\ ~d.use_session_ticket
        /\ SameKeys(full, d) /\ d.verify = full.verify /\ d.server_random = full.server_random
        /\ d.session_id = full.session_id /\ d.rl = full.rl /\ d.round = full.round
        /\ d.cipher_suites = full.cipher_suites
    BY <1>11, <2>a, <2>1 DEF ServerWrites, IsServer, IsConnection, SameKeys, SameServer, ServerWritesOn
  <2>3. Len(hello.verify.log) \in Nat /\ Len(d.verify.log) \in Nat /\ Grown(hello.verify.log, d.verify.log)
    BY <1>4, <2>1, <2>2, AppendFacts DEF ServerWritesOn, ServerWrites, IsServer, IsConnection
  <2>4. SameKeys(hello, d) /\ d.server_random = hello.server_random /\ d.session_id = hello.session_id
        /\ d.cipher_suites = hello.cipher_suites
    BY <2>1, <2>2 DEF ServerWritesOn, ServerWrites, SameKeys, SameServer
  <2>5. ServerHeard(d) /\ ServerSaid(d) /\ Len(d.verify.log) >= 2
    <3>1. Len(hello.verify.log) = 2
      BY <1>3, <2>0
    <3>2. Len(d.verify.log) >= 2
      BY <2>3, <3>1 DEF Grown
    <3>3. Len(hello.verify.log) >= 1 /\ Len(hello.verify.log) >= 2
      BY <2>3, <3>1
    <3>4. ServerHeard(hello) /\ ServerSaid(hello)
      BY <1>3, <2>0, Zenon
    <3>5. /\ d.rl.version = hello.rl.version /\ d.rl.suite = hello.rl.suite
          /\ d.client_random = hello.client_random
      BY <2>4 DEF SameKeys
    <3>6. ServerHeard(d) /\ ServerSaid(d)
      BY <2>3, <2>4, <3>3, <3>4, <3>5, HellosMove
    <3> QED  BY <3>2, <3>6
  <2>6. d.rl.write.key = NoKey
    BY <1>3, <1>5, <2>0, <2>2 DEF WritesPlainly, ServerPlain
  <2>8. ServerStates(d) /\ ServerAccepts(d, k)
    BY <2>2, <2>5, <2>6 DEF ServerStates, ServerAccepts, ServerTalks, ServerKnows
  <2>9. ServerProof(d, k)
    BY <2>2, ProofStays DEF SameServer, Proven
  <2>10. ASSUME NEW i \in DOMAIN d.out PROVE ToClientOk(d.out[i], d)
    <3>1. ServerPlain(full)
      BY <1>3, <1>5, <2>0 DEF WritesPlainly
    <3> QED  BY <2>2, <3>1, PlainIsOk DEF ServerPlain
  <2> QED  BY <2>2, <2>8, <2>9, <2>10 DEF ServerFlies, d
<1> QED  BY <1>8, <1>9, <1>10, <1>11 DEF done

\* tls_send_change_cipher_spec(): its answer to the client's Finished.
LEMMA SendEnd ==
  ASSUME NEW c, IsServer(c), NEW k, c.ok, ServerStates(c), ServerAccepts(c, k), ServerProof(c, k),
         c.state = "SERVER_CHANGE_CIPHER_SPEC", c.out = <<>>
  PROVE  ServerFlies(c, k, S!tls_send_change_cipher_spec(c))
<1> DEFINE done == S!tls_write_server_finished(S!tls_write_server_change_cipher_spec(c))
           d == S!tls_send_change_cipher_spec(c)
<1>1. d = IF c.fault = "output" THEN S!Fail(c)
          ELSE IF ~done.ok THEN [done EXCEPT !.out = <<>>]
          ELSE [done EXCEPT !.state = "ESTABLISHED"]
  BY DEF S!tls_send_change_cipher_spec
<1>2. ServerPlain(c) /\ c.rl.suite # NullSuite /\ Len(c.verify.log) >= 2 /\ ~c.use_session_ticket
      /\ ServerHeard(c) /\ ServerSaid(c) /\ ServerKeyed(c) /\ ClientSent(k) /\ Agree(k, c)
      /\ c.rl.read.suite = c.rl.suite /\ c.rl.read.key = c.rl.rkey
  BY DEF ServerPlain, ServerHeard, ServerStates, ServerTalks, ServerKnows, ServerAccepts
<1> HIDE DEF IsServer, IsConnection
<1>3. /\ ServerWritesOn(c, done)
      /\ ~done.ok => done.alert # NULL
      /\ done.ok => /\ done.rl.write.key = done.rl.wkey
                    /\ \A i \in DOMAIN done.out :
                         PlainRecord(done.out[i], done.round) \/ FinishedRecord(done.out[i], done)
  BY <1>2, WriteEnd
<1> HIDE DEF done, d
<1>4. CASE c.fault = "output"
  BY <1>1, <1>4, FlyWithError DEF d
<1>5. CASE c.fault # "output" /\ ~done.ok
  <2>1. d = [done EXCEPT !.out = <<>>]
    BY <1>1, <1>5
  <2>2. /\ IsServer(d) /\ SameServer(c, d) /\ Grown(c.verify.log, d.verify.log)
        /\ d.alert # NULL /\ d.state = c.state /\ d.client_rsa_key = c.client_rsa_key
        /\ d.use_session_ticket = c.use_session_ticket
        /\ "cert" \notin c.verify.open => "cert" \notin d.verify.open
    <3>1. IsSeq(<<>>)
      BY DEF IsSeq
    <3> QED  BY <1>3, <1>5, <2>1, <3>1 DEF ServerWritesOn, ServerWrites, IsServer, IsConnection
  <2>3. ServerProof(d, k)
    BY <2>2, ProofStays DEF SameServer
  <2> QED  BY <2>2, <2>3 DEF ServerFlies, d
<1>6. CASE c.fault # "output" /\ done.ok
  <2>1. d = [done EXCEPT !.state = "ESTABLISHED"]
    BY <1>1, <1>6
  <2>2. /\ IsServer(d) /\ SameServer(c, d) /\ Grown(c.verify.log, d.verify.log)
        /\ d.out = done.out /\ d.state = "ESTABLISHED" /\ d.client_rsa_key = c.client_rsa_key
        /\ d.use_session_ticket = c.use_session_ticket
        /\ "cert" \notin c.verify.open => "cert" \notin d.verify.open
        /\ SameKeys(c, d) /\ d.verify = done.verify /\ d.server_random = c.server_random
        /\ d.session_id = c.session_id /\ d.rl = done.rl /\ d.round = done.round
        /\ d.cipher_suites = c.cipher_suites /\ d.master_secret = done.master_secret
        /\ d.rl.read = c.rl.read
    BY <1>3, <2>1 DEF ServerWritesOn, ServerWrites, IsServer, IsConnection, SameKeys, SameServer
  <2>3. Len(c.verify.log) \in Nat /\ Len(d.verify.log) \in Nat
    BY <2>2, AppendFacts DEF IsServer, IsConnection
  <2>4. ServerKeyed(d) /\ Agree(k, d) /\ ServerHeard(d) /\ ServerSaid(d) /\ Len(d.verify.log) >= 2
    <3>1. Len(d.verify.log) >= 2 /\ Len(c.verify.log) >= 1
      BY <1>2, <2>2, <2>3 DEF Grown
    <3>2. ServerKeyed(d)
      BY <1>2, <2>2, KeysMove
    <3>3. Agree(k, d)
      BY <1>2, <2>2, <2>3, AgreeMoves
    <3> QED  BY <1>2, <2>2, <2>3, <3>1, <3>2, <3>3, HellosMove DEF SameKeys
  <2>5. d.rl.write.key = d.rl.wkey
    BY <1>3, <1>6, <2>2
  <2>6. d.rl.read.suite = d.rl.suite /\ d.rl.read.key = d.rl.rkey
    BY <1>2, <2>2 DEF SameKeys
  <2>7. ServerSent(d)
    BY <2>2, <2>4, <2>5 DEF ServerSent
  <2>8. ServerStates(d) /\ ServerAccepts(d, k)
    BY <1>2, <2>2, <2>4, <2>5, <2>6 DEF ServerStates, ServerAccepts, ServerTalks, ServerKnows
  <2>9. ServerProof(d, k)
    BY <1>2, <2>2, ProofStays DEF SameServer
  <2>10. ASSUME NEW i \in DOMAIN d.out PROVE ToClientOk(d.out[i], d)
    <3>1. PlainRecord(d.out[i], done.round) \/ FinishedRecord(d.out[i], done)
      BY <1>3, <1>6, <2>2
    <3>2. CASE PlainRecord(d.out[i], done.round)
      BY <3>2, <2>2, PlainIsOk
    <3>3. CASE FinishedRecord(d.out[i], done)
      <4>1. FinishedRecord(d.out[i], d)
        BY <3>3, <2>2, <1>2 DEF FinishedRecord, ServerFinishes, SameHellos
      <4> QED  BY <4>1, <2>7, FinishedIsOk
    <3> QED  BY <3>1, <3>2, <3>3
  <2> QED  BY <2>2, <2>8, <2>9, <2>10 DEF ServerFlies, d
<1> QED  BY <1>4, <1>5, <1>6

(***************************************************************************)
(* A call of tlsv1_server_handshake() as a whole                           *)
(***************************************************************************)

\* What nobody changes once the server has sent its Finished.
ServerFrozen(c, d) ==
  ServerSent(c) =>
    /\ ServerSent(d) /\ SameKeys(c, d) /\ Grown(c.verify.log, d.verify.log)
    /\ d.server_random = c.server_random /\ d.rl.write.key = c.rl.write.key
    /\ d.use_session_ticket = c.use_session_ticket

\* A call, before its end.
ServerCalled(c, k, d) ==
  /\ IsServer(d) /\ SameServer(c, d) /\ ServerFrozen(c, d)
  /\ d.alert = NULL =>
       /\ ServerStates(d)
       /\ ServerAccepts(d, k)
       /\ \A i \in DOMAIN d.out : ToClientOk(d.out[i], d)
  /\ ServerProof(d, k)

\* A call as a whole.
ServerLeaves(c, k, d) ==
  /\ IsServer(d) /\ SameServer(c, d) /\ ServerFrozen(c, d)
  /\ ServerStates(d) /\ ServerAccepts(d, k) /\ ServerProof(d, k)
  /\ \A i \in DOMAIN d.out : ToClientOk(d.out[i], d)

\* An error changes nothing of this.
LEMMA FrozenFails ==
  ASSUME NEW c, NEW d, IsServer(c), IsServer(d), SameServer(c, d), SameKeys(c, d),
         d.verify = c.verify, d.server_random = c.server_random, d.session_id = c.session_id,
         d.rl.write.key = c.rl.write.key, d.use_session_ticket = c.use_session_ticket,
         d.state \in {c.state, "FAILED"}
  PROVE  ServerFrozen(c, d)
<1>1. Grown(c.verify.log, d.verify.log) /\ Len(c.verify.log) \in Nat /\ Len(d.verify.log) \in Nat
  BY GrownFacts, AppendFacts
<1>2. d.cipher_suites = c.cipher_suites
  OBVIOUS
<1> HIDE DEF IsServer, IsConnection, SameServer
<1>3. ASSUME ServerSent(c) PROVE ServerSent(d)
  <2>1. c.state \in {"CHANGE_CIPHER_SPEC", "CLIENT_FINISHED", "ESTABLISHED", "FAILED"}
    BY <1>3 DEF ServerSent
  <2> QED  BY <1>1, <1>2, <1>3, <2>1, SentMoves
<1> QED  BY <1>1, <1>3 DEF ServerFrozen

\* Nor do two steps that change nothing of it.
LEMMA FrozenFurther ==
  ASSUME NEW c, NEW d, NEW e, IsServer(c), IsServer(d), IsServer(e),
         ServerFrozen(c, d), ServerFrozen(d, e)
  PROVE  ServerFrozen(c, e)
<1>1. Len(c.verify.log) \in Nat /\ Len(d.verify.log) \in Nat /\ Len(e.verify.log) \in Nat
  BY AppendFacts
<1>2. Grown(c.verify.log, d.verify.log) /\ Grown(d.verify.log, e.verify.log) =>
        Grown(c.verify.log, e.verify.log)
  BY <1>1, GrownFurther
<1> HIDE DEF IsServer, IsConnection
<1> QED  BY <1>2 DEF ServerFrozen, SameKeys

\* The end of a call: an alert that is set replaces what would have been
\* sent, and ends the connection.
LEMMA ServerEnds ==
  ASSUME NEW c, IsServer(c), NEW k, NEW d, ServerCalled(c, k, d)
  PROVE  ServerLeaves(c, k, S!ServerFinishCall(d))
<1> DEFINE silent == [[d EXCEPT !.state = "FAILED"] EXCEPT !.out = <<>>]
           r == [hdr |-> "ok", ct |-> "alert", key |-> S!NoKey, seq |-> 0,
                 m |-> [type |-> "fatal", fmt |-> "ok", alert |-> d.alert]]
           e == S!ServerFinishCall(d)
<1>0. IsServer(d)
  BY DEF ServerCalled
<1>1. CASE d.alert = NULL
  <2>1. e = d
    BY <1>1 DEF S!ServerFinishCall
  <2> QED  BY <1>1, <2>1 DEF ServerCalled, ServerLeaves
<1>2. CASE d.alert # NULL
  <2>1. \/ d.state = "FAILED" /\ e = [d EXCEPT !.out = <<>>]
        \/ e = [[d EXCEPT !.state = "FAILED"] EXCEPT !.out = <<r>>]
    BY <1>0, <1>2 DEF S!ServerFinishCall, S!tlsv1_server_send_alert
  <2> HIDE DEF e
  <2>2. IsSeq(<<>>) /\ IsSeq(<<r>>)
    <3>1. <<>> \in Seq({}) /\ <<r>> \in Seq({r})
      OBVIOUS
    <3> QED  BY <3>1 DEF IsSeq
  <2>3. ToClientOk(r, e)
    <3>1. DOMAIN r = RecordFields /\ r.hdr \in Headers /\ r.key = NoKey
          /\ "type" \in DOMAIN r.m /\ r.m.type = "fatal"
      BY SameNames DEF RecordFields, Headers
    <3> HIDE DEF r
    <3> QED  BY <3>1 DEF ToClientOk
  <2> HIDE DEF r
  <2>4. /\ IsServer(e) /\ SameServer(d, e) /\ SameKeys(d, e)
        /\ e.verify = d.verify /\ e.server_random = d.server_random /\ e.session_id = d.session_id
        /\ e.rl.write.key = d.rl.write.key /\ e.use_session_ticket = d.use_session_ticket
        /\ e.state = "FAILED" /\ e.client_rsa_key = d.client_rsa_key
        /\ e.out = <<>> \/ e.out = <<r>>
    <3>1. CASE d.state = "FAILED" /\ e = [d EXCEPT !.out = <<>>]
      BY <1>0, <2>2, <3>1 DEF SameKeys
    <3>2. CASE e = [[d EXCEPT !.state = "FAILED"] EXCEPT !.out = <<r>>]
      BY <1>0, <2>2, <3>2 DEF SameKeys
    <3> QED  BY <2>1, <3>1, <3>2
  <2>5. \A i \in DOMAIN e.out : e.out[i] = r
    BY <2>4
  <2> HIDE DEF IsServer, IsConnection
  <2>6. SameServer(c, e)
    BY <2>4 DEF ServerCalled
  <2>7. ServerFrozen(c, e)
    <3>1. ServerFrozen(d, e)
      BY <1>0, <2>4, FrozenFails
    <3>2. ServerFrozen(c, d)
      BY DEF ServerCalled
    <3>3. IsServer(c) /\ IsServer(d) /\ IsServer(e)
      BY <1>0, <2>4
    <3> HIDE DEF ServerCalled
    <3> QED  BY <3>1, <3>2, <3>3, FrozenFurther
  <2>8. ServerStates(e) /\ ServerAccepts(e, k)
    BY <2>4 DEF ServerStates, ServerAccepts, ServerTalks, ServerKnows
  <2>9. ServerProof(e, k)
    <3>1. ServerProof(d, k) /\ e.state \notin Proven
      BY <2>4 DEF ServerCalled, Proven
    <3> QED  BY <2>4, <3>1, ProofStays
  <2> QED  BY <2>3, <2>4, <2>5, <2>6, <2>7, <2>8, <2>9 DEF ServerLeaves, e
<1> QED  BY <1>1, <1>2

\* The two writes of the server come after what is still open.
LEMMA FliesIsCalled ==
  ASSUME NEW c0, IsServer(c0), NEW c, IsServer(c), NEW k, NEW d, SameServer(c0, c), ServerFrozen(c0, c),
         c.state \in {"SERVER_HELLO", "SERVER_CHANGE_CIPHER_SPEC"}, ServerFlies(c, k, d)
  PROVE  ServerCalled(c0, k, d)
<1>1. ~ServerSent(c)
  BY DEF ServerSent
<1>2. ServerFrozen(c0, d)
  BY <1>1 DEF ServerFrozen
<1> HIDE DEF IsServer, IsConnection
<1>3. SameServer(c0, d)
  BY DEF ServerFlies
<1> QED  BY <1>2, <1>3 DEF ServerFlies, ServerCalled

\* Reading any number of records changes nothing of this.
LEMMA StageIsFrozen ==
  ASSUME NEW c, IsServer(c), NEW k, NEW d, NEW i, ServerStage(c, k, d, i)
  PROVE  ServerFrozen(c, d) /\ IsServer(d) /\ SameServer(c, d) /\ d.out = c.out
  BY DEF ServerStage, ServerFrozen

\* The records are read one after the other.
LEMMA ServerStages ==
  ASSUME NEW c, IsServer(c), NEW k, ServerStage(c, k, c, 0), NEW seq, IsSeq(seq),
         \A i \in DOMAIN seq : ToServerOk(seq[i], k)
  PROVE  ServerStage(c, k, S!FoldLeft(S!ServerReceive, c, seq), Len(seq))
<1>0. Len(seq) \in Nat /\ DOMAIN seq = 1 .. Len(seq)
  BY DEF IsSeq
<1>1. PICK h : Chain(h, "server handshake", c, seq) /\ h[Len(seq)] = S!FoldLeft(S!ServerReceive, c, seq)
  BY ServerHandshakeChain
<1> DEFINE T == {i \in 0 .. Len(seq) : ServerStage(c, k, h[i], i)}
<1> HIDE DEF IsServer, IsConnection
<1>2. 0 \in T
  <2>1. h[0] = c
    BY <1>1 DEF Chain
  <2>2. ServerStage(c, k, h[0], 0)
    BY <2>1, Zenon
  <2>3. 0 \in 0 .. Len(seq)
    BY <1>0
  <2> QED  BY <2>2, <2>3, Zenon
<1>3. ASSUME NEW i \in 0 .. Len(seq) - 1, i \in T PROVE i + 1 \in T
  <2>1. i + 1 \in 1 .. Len(seq) /\ i + 1 - 1 = i /\ i \in Nat
    BY <1>0
  <2>2. h[i + 1] = S!ServerReceive(h[i], seq[i + 1])
    BY <1>1, <2>1 DEF Chain, Step
  <2>3. ServerStage(c, k, h[i], i)
    BY <1>3
  <2>4. ToServerOk(seq[i + 1], k)
    BY <1>0, <2>1
  <2>5. ServerStage(c, k, S!ServerReceive(h[i], seq[i + 1]), i + 1)
    BY <2>1, <2>3, <2>4, ServerStageStep
  <2> QED  BY <1>0, <2>1, <2>2, <2>5
<1> HIDE DEF T
<1>4. Len(seq) \in T
  BY <1>0, <1>2, <1>3, UpTo
<1> QED  BY <1>1, <1>4 DEF T

\* A call as it goes: start is the connection as the call finds it, read what
\* it is after the records. It then ends, with or without an alert, or
\* writes.
ServerCallIs(c, k, n, start, read, d) ==
  /\ \/ d = start
     \/ ~read.ok /\ d = S!ServerFinishCall(read)
     \/ read.ok /\ d = S!ServerFinishCall(S!FailAlert(read, "INTERNAL_ERROR"))
     \/ /\ n # 0 /\ n % 2 # 1 /\ read.ok
        /\ d = S!ServerFinishCall(S!tlsv1_server_handshake_write(read))
  /\ ServerLeaves(c, k, start) /\ start.out = <<>>
  /\ ServerStage(start, k, read, n \div 2)
  /\ IsServer(read) /\ SameServer(c, read) /\ ServerFrozen(c, read) /\ read.out = <<>>
  /\ ServerProof(read, k) /\ ServerAccepts(read, k)
  /\ read.ok \/ read.alert = NULL => ServerStates(read)

\* A call of tlsv1_server_handshake() is one that reads, and then ends or
\* writes.
LEMMA ServerCallReads ==
  ASSUME NEW c, IsServer(c), NEW k, ServerStates(c), ServerAccepts(c, k), ServerProof(c, k),
         c.out = <<>>, NEW fault, NEW stream, IsSeq(stream),
         \A i \in DOMAIN stream : ToServerOk(stream[i], k),
         NEW n \in 0 .. 2 * Len(stream),
         NEW d, d = S!tlsv1_server_handshake(c, fault, stream, n)
  PROVE  \E start, read : ServerCallIs(c, k, n, start, read, d)
<1> DEFINE start == [c EXCEPT !.fault = fault, !.ok = TRUE, !.out = <<>>]
           seq == SubSeq(stream, 1, n \div 2)
           read == S!FoldLeft(S!ServerReceive, start, seq)
<1>1. \/ d = start
      \/ ~read.ok /\ d = S!ServerFinishCall(read)
      \/ read.ok /\ d = S!ServerFinishCall(S!FailAlert(read, "INTERNAL_ERROR"))
      \/ n # 0 /\ n % 2 # 1 /\ read.ok /\ d = S!ServerFinishCall(S!tlsv1_server_handshake_write(read))
  <2> HIDE DEF start, read
  <2> QED  BY DEF S!tlsv1_server_handshake, start, read, seq
<1>2. /\ Len(stream) \in Nat /\ DOMAIN stream = 1 .. Len(stream)
      /\ n \div 2 \in 0 .. Len(stream)
  BY DEF IsSeq
<1>3. /\ IsSeq(seq) /\ Len(seq) = n \div 2
      /\ \A i \in DOMAIN seq : ToServerOk(seq[i], k)
  <2>1. PICK T : stream \in Seq(T)
    BY DEF IsSeq
  <2>2. seq \in Seq(T) /\ Len(seq) = n \div 2 /\ DOMAIN seq = 1 .. n \div 2
        /\ \A i \in 1 .. n \div 2 : seq[i] = stream[i]
    BY <1>2, <2>1
  <2>3. IsSeq(seq) /\ Len(seq) = n \div 2
    BY <2>2 DEF IsSeq
  <2> HIDE DEF seq
  <2>4. \A i \in DOMAIN seq : seq[i] = stream[i] /\ i \in DOMAIN stream
    BY <1>2, <2>2
  <2> QED  BY <2>3, <2>4
<1> HIDE DEF seq
<1>4. /\ IsServer(start) /\ SameServer(c, start) /\ SameKeys(c, start) /\ ServerReads(c, start)
      /\ start.verify = c.verify /\ start.server_random = c.server_random /\ start.session_id = c.session_id
      /\ start.rl.write.key = c.rl.write.key /\ start.use_session_ticket = c.use_session_ticket
      /\ start.state = c.state /\ start.client_rsa_key = c.client_rsa_key
      /\ start.rl.read.key = c.rl.read.key /\ start.rl.read.suite = c.rl.read.suite
      /\ start.out = <<>> /\ start.ok
  <2>1. IsSeq(<<>>)
    <3>1. <<>> \in Seq({})
      OBVIOUS
    <3> QED  BY <3>1 DEF IsSeq
  <2> QED  BY <2>1 DEF SameKeys
<1> HIDE DEF start
<1>5. ServerStates(start) /\ ServerAccepts(start, k) /\ ServerProof(start, k) /\ ServerFrozen(c, start)
  <2> HIDE DEF IsServer, IsConnection, ServerReads, SameServer
  <2>1. ServerFrozen(c, start)
    BY <1>4, FrozenFails
  <2> QED  BY <1>4, <2>1, CountedServerStates
<1>6. ServerStage(start, k, start, 0)
  <2>1. ServerReads(start, start) /\ Grown(start.verify.log, start.verify.log) /\ SameKeys(start, start)
    BY <1>4, GrownFacts DEF SameKeys
  <2> HIDE DEF ServerReads
  <2> QED  BY <1>5, <2>1 DEF ServerStage
<1> HIDE DEF IsServer, IsConnection, ServerReads, SameServer
<1>7. ServerStage(start, k, read, n \div 2)
  BY <1>3, <1>4, <1>6, ServerStages
<1> HIDE DEF read
<1>8. /\ IsServer(read) /\ SameServer(c, read) /\ ServerFrozen(c, read) /\ read.out = <<>>
      /\ ServerProof(read, k) /\ ServerAccepts(read, k)
      /\ read.ok \/ read.alert = NULL => ServerStates(read)
  <2>1. /\ ServerFrozen(start, read) /\ IsServer(read) /\ SameServer(start, read) /\ read.out = start.out
    BY <1>4, <1>7, StageIsFrozen
  <2>2. SameServer(c, read)
    BY <1>4, <2>1 DEF SameServer
  <2>3. ServerFrozen(c, read)
    BY <1>4, <1>5, <2>1, FrozenFurther
  <2> QED  BY <1>4, <1>7, <2>1, <2>2, <2>3 DEF ServerStage
<1>9. ServerLeaves(c, k, start)
  BY <1>4, <1>5 DEF ServerLeaves
<1>10. ServerCallIs(c, k, n, start, read, d)
  BY <1>1, <1>4, <1>7, <1>8, <1>9 DEF ServerCallIs
<1> QED  BY <1>10

\* One call of tlsv1_server_handshake(), whatever part of the stream it gets
\* and whatever fails: the server knows what its state says, agrees with the
\* client where its state says so, and sends only records that say what is
\* true of it.
LEMMA ServerCall ==
  ASSUME NEW c, IsServer(c), NEW k, ServerStates(c), ServerAccepts(c, k), ServerProof(c, k),
         c.out = <<>>, NEW fault, NEW stream, IsSeq(stream),
         \A i \in DOMAIN stream : ToServerOk(stream[i], k),
         NEW n \in 0 .. 2 * Len(stream)
  PROVE  ServerLeaves(c, k, S!tlsv1_server_handshake(c, fault, stream, n))
<1> DEFINE d == S!tlsv1_server_handshake(c, fault, stream, n)
<1> HIDE DEF d, IsServer, IsConnection, ServerReads, SameServer
<1> SUFFICES ServerLeaves(c, k, d)
  BY DEF d
<1>1. PICK start, read : ServerCallIs(c, k, n, start, read, d)
  <2>1. d = S!tlsv1_server_handshake(c, fault, stream, n)
    BY DEF d
  <2> QED  BY <2>1, ServerCallReads
<1>2. /\ \/ d = start
         \/ ~read.ok /\ d = S!ServerFinishCall(read)
         \/ read.ok /\ d = S!ServerFinishCall(S!FailAlert(read, "INTERNAL_ERROR"))
         \/ n # 0 /\ n % 2 # 1 /\ read.ok /\ d = S!ServerFinishCall(S!tlsv1_server_handshake_write(read))
      /\ ServerLeaves(c, k, start)
  BY <1>1 DEF ServerCallIs
<1>3. ServerStage(start, k, read, n \div 2)
  BY <1>1 DEF ServerCallIs
<1>4. /\ IsServer(read) /\ SameServer(c, read) /\ ServerFrozen(c, read) /\ read.out = <<>>
      /\ ServerProof(read, k) /\ ServerAccepts(read, k)
      /\ read.ok \/ read.alert = NULL => ServerStates(read)
  BY <1>1 DEF ServerCallIs
<1>5. ServerCalled(c, k, read)
  BY <1>4 DEF ServerCalled
<1>6. CASE d = start
  BY <1>2, <1>6
<1>7. CASE d = S!ServerFinishCall(read)
  BY <1>5, <1>7, ServerEnds
<1>8. CASE d = S!ServerFinishCall(S!FailAlert(read, "INTERNAL_ERROR"))
  <2> DEFINE e == S!FailAlert(read, "INTERNAL_ERROR")
  <2>1. /\ IsServer(e) /\ SameServer(read, e) /\ SameKeys(read, e) /\ e.verify = read.verify
        /\ e.server_random = read.server_random /\ e.session_id = read.session_id
        /\ e.rl.write.key = read.rl.write.key /\ e.use_session_ticket = read.use_session_ticket
        /\ e.state = read.state /\ e.client_rsa_key = read.client_rsa_key
        /\ e.alert # NULL
    BY <1>4, AlertIsSet DEF S!FailAlert, SameKeys, Alerts, IsServer, IsConnection, SameServer
  <2> HIDE DEF e
  <2>2. ServerFrozen(c, e)
    BY <1>4, <2>1, FrozenFails, FrozenFurther
  <2>3. ServerProof(e, k)
    BY <1>4, <2>1, ProofStays DEF SameServer
  <2>4. SameServer(c, e)
    BY <1>4, <2>1 DEF SameServer
  <2>5. ServerCalled(c, k, e)
    BY <2>1, <2>2, <2>3, <2>4 DEF ServerCalled
  <2> QED  BY <1>8, <2>5, ServerEnds DEF e
<1>9. CASE n # 0 /\ n % 2 # 1 /\ read.ok /\ d = S!ServerFinishCall(S!tlsv1_server_handshake_write(read))
  <2> DEFINE w == S!tlsv1_server_handshake_write(read)
  <2>1. ServerStates(read) /\ (read.state = "SERVER_HELLO" => ServerGreeted(read))
    <3>1. n \div 2 # 0
      BY <1>9
    <3> QED  BY <1>9, <1>3, <3>1 DEF ServerStage
  <2>2. CASE read.state = "SERVER_HELLO"
    <3>1. w = S!tls_send_server_hello(read)
      BY <2>2 DEF S!tlsv1_server_handshake_write
    <3>2. ServerFlies(read, k, w)
      BY <1>4, <1>9, <2>1, <2>2, <3>1, SendHello
    <3>3. ServerCalled(c, k, w)
      BY <1>4, <2>2, <3>2, FliesIsCalled
    <3> HIDE DEF w
    <3> QED  BY <1>9, <3>3, ServerEnds DEF w
  <2>3. CASE read.state = "SERVER_CHANGE_CIPHER_SPEC"
    <3>1. w = S!tls_send_change_cipher_spec(read)
      BY <2>3 DEF S!tlsv1_server_handshake_write
    <3>2. ServerFlies(read, k, w)
      BY <1>4, <1>9, <2>1, <2>3, <3>1, SendEnd
    <3>3. ServerCalled(c, k, w)
      BY <1>4, <2>3, <3>2, FliesIsCalled
    <3> HIDE DEF w
    <3> QED  BY <1>9, <3>3, ServerEnds DEF w
  <2>4. CASE read.state \notin {"SERVER_HELLO", "SERVER_CHANGE_CIPHER_SPEC"}
    <3>1. w = read
      BY <2>4 DEF S!tlsv1_server_handshake_write
    <3> HIDE DEF w
    <3> QED  BY <1>5, <1>9, <3>1, ServerEnds DEF w
  <2> QED  BY <2>2, <2>3, <2>4
<1> QED  BY <1>2, <1>6, <1>7, <1>8, <1>9

(***************************************************************************)
(* Application data, and the beginning                                     *)
(***************************************************************************)

\* A server that believes the handshake is over has sent its Finished.
LEMMA EstablishedHasSent ==
  ASSUME NEW c, ServerStates(c), c.state = "ESTABLISHED"
  PROVE  ServerSent(c)
  BY DEF ServerStates, ServerSent, ServerTalks, ServerKnows

\* What application data leaves as it was.
ServerCounts(c, d) ==
  /\ IsServer(d) /\ SameServer(c, d) /\ SameKeys(c, d)
  /\ d.rl.write.key = c.rl.write.key
  /\ d.session_id = c.session_id /\ d.server_random = c.server_random
  /\ d.use_session_ticket = c.use_session_ticket
  /\ d.verify = c.verify /\ d.state = c.state /\ d.client_rsa_key = c.client_rsa_key
  /\ d.rl.read.key = c.rl.read.key /\ d.rl.read.suite = c.rl.read.suite

\* Application data changes nothing of what the server knows.
LEMMA CountsStates ==
  ASSUME NEW c, IsServer(c), NEW d, NEW k, ServerStates(c), ServerAccepts(c, k), ServerProof(c, k),
         ServerCounts(c, d)
  PROVE  ServerStates(d) /\ ServerAccepts(d, k) /\ ServerProof(d, k) /\ ServerFrozen(c, d)
<1>1. ServerFrozen(c, d)
  <2> HIDE DEF IsServer, IsConnection, SameServer
  <2> QED  BY FrozenFails DEF ServerCounts
<1>2. /\ Grown(c.verify.log, d.verify.log) /\ Len(c.verify.log) \in Nat /\ d.verify.log = c.verify.log
  BY GrownFacts, AppendFacts DEF ServerCounts
<1>3. d.cipher_suites = c.cipher_suites /\ d.verify_peer = c.verify_peer
  BY DEF ServerCounts
<1> HIDE DEF IsServer, IsConnection, SameServer
<1>4. ServerKeyed(c) => ServerKeyed(d)
  BY KeysMove DEF ServerCounts
<1>5. /\ Len(c.verify.log) >= 1 /\ ServerHeard(c) => ServerHeard(d)
      /\ Len(c.verify.log) >= 2 /\ ServerSaid(c) => ServerSaid(d)
  BY <1>2, <1>3, HellosMove DEF SameKeys, ServerCounts
<1>6. Len(c.verify.log) >= 2 => Len(c.verify.log) >= 1
  BY <1>2
<1>7. ServerStates(d)
  BY <1>2, <1>4, <1>5, <1>6 DEF ServerStates, ServerCounts, SameKeys
<1>8. ServerAccepts(d, k)
  BY <1>2 DEF ServerAccepts, ServerCounts, SameKeys, Agree
<1>9. ServerProof(d, k)
  BY <1>3 DEF ServerProof, ServerCounts
<1> QED  BY <1>1, <1>7, <1>8, <1>9

\* One call of tlsv1_server_encrypt().
LEMMA ServerEncryptLeaves ==
  ASSUME NEW c, IsServer(c), NEW k, ServerStates(c), ServerAccepts(c, k), ServerProof(c, k),
         c.state = "ESTABLISHED", NEW data,
         NEW d, d = S!tlsv1_server_encrypt(c, Data(data))
  PROVE  ServerLeaves(c, k, d)
<1> DEFINE r == S!Record(c.rl, "application_data", Data(data))
<1>1. /\ IsServer(d) /\ ServerCounts(c, d) /\ d.out = <<r>>
  <2>1. <<r>> \in Seq({r}) /\ Append(<<>>, r) = <<r>>
    OBVIOUS
  <2>2. IsSeq(<<r>>)
    BY <2>1 DEF IsSeq
  <2>3. /\ d.out = Append(<<>>, S!Record(c.rl, "application_data", Data(data)))
    BY DEF S!tlsv1_server_encrypt, S!tlsv1_record_send
  <2> HIDE DEF r
  <2>4. d.out = <<r>>
    BY <2>1, <2>3 DEF r
  <2> QED  BY <2>2, <2>4 DEF S!tlsv1_server_encrypt, S!tlsv1_record_send, ServerCounts, SameKeys
<1>2. /\ DOMAIN r = RecordFields /\ r.hdr = "ok" /\ "type" \in DOMAIN r.m /\ r.m.type = "data"
      /\ r.key = c.rl.write.key
  BY DEF S!Record, Data, RecordFields
<1> HIDE DEF r, IsServer, IsConnection, SameServer
<1>3. ServerStates(d) /\ ServerAccepts(d, k) /\ ServerProof(d, k) /\ ServerFrozen(c, d)
  BY <1>1, CountsStates
<1>4. ToClientOk(r, d)
  <2>1. ServerSent(d) /\ d.rl.write.key = c.rl.write.key
    BY <1>3, EstablishedHasSent DEF ServerFrozen
  <2> QED  BY <1>2, <2>1 DEF ToClientOk, Headers
<1>5. \A i \in DOMAIN d.out : d.out[i] = r
  BY <1>1
<1> QED  BY <1>1, <1>3, <1>4, <1>5 DEF ServerLeaves, ServerCounts

\* A record of application data changes the numbers of the records, the alert
\* and the output, and nothing else.
LEMMA DecryptCounts ==
  ASSUME NEW c, IsServer(c), NEW r
  PROVE  ServerCounts(c, S!ServerDecryptRecord(c, r))
<1> DEFINE g == S!tlsv1_record_receive(c.rl, r)
           e == [c EXCEPT !.rl = S!RecordRead(@)]
           d == S!ServerDecryptRecord(c, r)
<1>1. \/ d = c
      \/ d = S!FailAlert(c, g.alert)
      \/ \E a : d = S!FailAlert(e, a)
      \/ d = e
      \/ d = [e EXCEPT !.out = Append(@, g.m)]
  <2> HIDE DEF e, g
  <2> QED  BY DEF S!ServerDecryptRecord, e, g
<1>2. IsServer(e) /\ ServerCounts(c, e) /\ e.out = c.out
  <2>1. IsServer(e)
    BY DEF S!RecordRead
  <2> QED  BY <2>1 DEF S!RecordRead, ServerCounts, SameKeys
<1>3. IsSeq(Append(c.out, g.m))
  BY AppendFacts
<1> SUFFICES ServerCounts(c, d)
  OBVIOUS
<1> HIDE DEF g, d
<1>4. CASE d = c
  BY <1>4 DEF ServerCounts, SameKeys
<1>5. CASE d = S!FailAlert(c, g.alert)
  BY <1>5 DEF S!FailAlert, ServerCounts, SameKeys
<1> HIDE DEF e
<1>6. ASSUME NEW a, d = S!FailAlert(e, a) PROVE ServerCounts(c, d)
  BY <1>2, <1>6 DEF S!FailAlert, ServerCounts, SameKeys
<1>7. CASE d = [e EXCEPT !.out = Append(@, g.m)]
  BY <1>2, <1>3, <1>7 DEF ServerCounts, SameKeys
<1> QED  BY <1>1, <1>2, <1>4, <1>5, <1>6, <1>7

\* One call of tlsv1_server_decrypt(), with whatever the alert holds if none
\* was set.
LEMMA ServerDecryptLeaves ==
  ASSUME NEW c, IsServer(c), NEW stream, IsSeq(stream), NEW n \in 0 .. 2 * Len(stream), NEW u,
         NEW d, d = [S!tlsv1_server_decrypt(c, stream, n, u) EXCEPT !.out = <<>>]
  PROVE  ServerCounts(c, d) /\ d.out = <<>>
<1> DEFINE seq == SubSeq(stream, 1, n \div 2)
           start == [c EXCEPT !.ok = TRUE, !.out = <<>>]
           read == S!FoldLeft(S!ServerDecryptRecord, start, seq)
<1>1. \E e : /\ e \in {read, S!FailAlert(read, u)}
             /\ d \in {[e EXCEPT !.out = <<>>], [[e EXCEPT !.out = <<>>] EXCEPT !.out = <<>>]}
  <2> HIDE DEF start, read
  <2> QED  BY DEF S!tlsv1_server_decrypt, start, read, seq
<1>2. IsSeq(<<>>)
  <2>1. <<>> \in Seq({})
    OBVIOUS
  <2> QED  BY <2>1 DEF IsSeq
<1>3. IsSeq(seq)
  <2>1. PICK T : stream \in Seq(T)
    BY DEF IsSeq
  <2>2. n \div 2 \in 0 .. Len(stream)
    BY <2>1
  <2>3. seq \in Seq(T)
    BY <2>1, <2>2
  <2> QED  BY <2>3 DEF IsSeq
<1> HIDE DEF seq
<1>4. ServerCounts(c, start)
  BY <1>2 DEF ServerCounts, SameKeys
<1> HIDE DEF start
<1>5. Len(seq) \in Nat /\ DOMAIN seq = 1 .. Len(seq)
  BY <1>3 DEF IsSeq
<1>6. PICK h : Chain(h, "server data", start, seq) /\ h[Len(seq)] = read
  BY <1>3, ServerDataChain
<1> HIDE DEF read
<1> DEFINE T == {i \in 0 .. Len(seq) : ServerCounts(c, h[i])}
<1>7. 0 \in T
  <2>1. h[0] = start
    BY <1>6 DEF Chain
  <2>2. ServerCounts(c, h[0])
    BY <1>4, <2>1, Zenon
  <2> QED  BY <1>5, <2>2
<1> HIDE DEF IsServer, IsConnection, SameServer
<1>8. ASSUME NEW i \in 0 .. Len(seq) - 1, i \in T PROVE i + 1 \in T
  <2>1. i + 1 \in 1 .. Len(seq) /\ i + 1 - 1 = i
    BY <1>5
  <2>2. h[i + 1] = S!ServerDecryptRecord(h[i], seq[i + 1])
    BY <1>6, <2>1 DEF Chain, Step
  <2>3. ServerCounts(c, h[i])
    BY <1>8
  <2>4. IsServer(h[i])
    BY <2>3 DEF ServerCounts
  <2>5. ServerCounts(h[i], h[i + 1])
    BY <2>2, <2>4, DecryptCounts
  <2>6. ServerCounts(c, h[i + 1])
    BY <2>3, <2>5 DEF ServerCounts, SameKeys, SameServer
  <2>7. i + 1 \in 0 .. Len(seq)
    BY <2>1
  <2> QED  BY <2>6, <2>7
<1> HIDE DEF T
<1>9. Len(seq) \in T
  BY <1>5, <1>7, <1>8, UpTo
<1>10. ServerCounts(c, read)
  BY <1>6, <1>9 DEF T
<1>11. ServerCounts(c, S!FailAlert(read, u))
  BY <1>10 DEF S!FailAlert, ServerCounts, SameKeys, SameServer, IsServer, IsConnection
<1>12. PICK e : /\ e \in {read, S!FailAlert(read, u)}
                /\ d \in {[e EXCEPT !.out = <<>>], [[e EXCEPT !.out = <<>>] EXCEPT !.out = <<>>]}
  BY <1>1
<1>13. ServerCounts(c, e)
  BY <1>10, <1>11, <1>12
<1>14. d.out = <<>> /\ d = [e EXCEPT !.out = <<>>]
  BY <1>12, <1>13 DEF ServerCounts, IsServer, IsConnection
<1> QED  BY <1>2, <1>13, <1>14 DEF ServerCounts, SameKeys, SameServer, IsServer, IsConnection

\* A server that has not begun.
ServerFresh(d, round) ==
  /\ IsServer(d) /\ ServerStates(d) /\ d.state = "CLIENT_HELLO" /\ d.client_rsa_key = NULL
  /\ d.round = round /\ d.out = <<>>

\* A new server, as the user configures it, has not begun.
LEMMA ServerOfIsFresh ==
  ASSUME NEW s, NEW round
  PROVE  ServerFresh(ServerOf(s, round), round)
<1> DEFINE c == S!tlsv1_server_init(s.server_cred)
           d == ServerOf(s, round)
<1>1. IsSeq(<<>>) /\ Len(<<>>) = 0
  <2>1. <<>> \in Seq({})
    OBVIOUS
  <2> QED  BY <2>1 DEF IsSeq
<1>2. /\ IsServer(c) /\ c.state = "CLIENT_HELLO" /\ c.client_rsa_key = NULL /\ c.out = <<>>
      /\ c.verify.log = <<>> /\ c.rl.write.key = NoKey /\ ~c.use_session_ticket
  BY <1>1, SameNames DEF S!tlsv1_server_init, S!tls_verify_hash_init, S!NewRecordLayer, S!Plain
<1> HIDE DEF c
<1> DEFINE c2 == OfAnotherMake(S!tlsv1_server_set_cipher_list(c, s.server_anonymous), s.server_suites)
<1>3. /\ IsServer(c2) /\ c2.state = "CLIENT_HELLO" /\ c2.client_rsa_key = NULL /\ c2.out = <<>>
      /\ c2.verify.log = <<>> /\ c2.rl.write.key = NoKey /\ ~c2.use_session_ticket
  BY <1>2 DEF S!tlsv1_server_set_cipher_list, OfAnotherMake
<1> HIDE DEF c2
<1> DEFINE c3 == S!tlsv1_server_set_session_ticket_cb(S!tlsv1_server_set_verify(c2, s.verify_peer), s.server_cb)
<1>4. /\ IsServer(c3) /\ c3.state = "CLIENT_HELLO" /\ c3.client_rsa_key = NULL /\ c3.out = <<>>
      /\ c3.verify.log = <<>> /\ c3.rl.write.key = NoKey /\ ~c3.use_session_ticket
  BY <1>3 DEF S!tlsv1_server_set_session_ticket_cb, S!tlsv1_server_set_verify
<1>5. d = [c3 EXCEPT !.round = round]
  BY DEF ServerOf, c, c2
<1> HIDE DEF c3, d
<1>6. /\ IsServer(d) /\ d.state = "CLIENT_HELLO" /\ d.client_rsa_key = NULL /\ d.out = <<>>
      /\ d.verify.log = <<>> /\ d.rl.write.key = NoKey /\ ~d.use_session_ticket /\ d.round = round
  BY <1>4, <1>5
<1> HIDE DEF IsServer, IsConnection
<1>7. ServerStates(d)
  BY <1>1, <1>6 DEF ServerStates, ServerTalks, ServerKnows
<1> QED  BY <1>6, <1>7 DEF ServerFresh, d

\* Nor has one after tlsv1_server_shutdown().
LEMMA ServerShutdownIsFresh ==
  ASSUME NEW c, IsServer(c), c.out = <<>>
  PROVE  ServerFresh(S!tlsv1_server_shutdown(c), c.round + 1)
<1> DEFINE d == S!tlsv1_server_shutdown(c)
<1>1. IsSeq(<<>>) /\ Len(<<>>) = 0
  <2>1. <<>> \in Seq({})
    OBVIOUS
  <2> QED  BY <2>1 DEF IsSeq
<1> DEFINE e == [c EXCEPT !.state = "CLIENT_HELLO", !.verify = S!tls_verify_hash_init, !.round = @ + 1]
<1>2. /\ IsServer(e) /\ e.state = "CLIENT_HELLO" /\ e.out = <<>> /\ e.verify.log = <<>>
      /\ e.round = c.round + 1
  BY <1>1 DEF S!tls_verify_hash_init
<1>3. d = S!tlsv1_server_clear_data(e)
  BY DEF S!tlsv1_server_shutdown
<1> HIDE DEF d, e
<1> DEFINE rl == S!tlsv1_record_change_read_cipher(
                     S!tlsv1_record_change_write_cipher(
                        S!tlsv1_record_set_cipher_suite(e.rl, S!NullSuite)))
<1>4. /\ DOMAIN rl = LayerFields /\ DOMAIN rl.write = DirectionFields /\ DOMAIN rl.read = DirectionFields
      /\ rl.write.key = NoKey
  BY <1>2, SameNames DEF S!tlsv1_record_change_read_cipher, S!tlsv1_record_change_write_cipher,
     S!tlsv1_record_set_cipher_suite, S!Direction
<1>5. d = [e EXCEPT !.rl = rl, !.verify.open = {}, !.client_rsa_key = NULL,
                   !.session_ticket = FALSE, !.use_session_ticket = FALSE,
                   !.dh_secret = NULL]
  BY <1>3 DEF S!tlsv1_server_clear_data
<1> HIDE DEF rl
<1>6. /\ IsServer(d) /\ d.state = "CLIENT_HELLO" /\ d.client_rsa_key = NULL /\ d.out = <<>>
      /\ d.verify.log = <<>> /\ d.rl.write.key = NoKey /\ ~d.use_session_ticket /\ d.round = c.round + 1
  BY <1>2, <1>4, <1>5
<1> HIDE DEF IsServer, IsConnection
<1>7. ServerStates(d)
  BY <1>1, <1>6 DEF ServerStates, ServerTalks, ServerKnows
<1> QED  BY <1>6, <1>7 DEF ServerFresh, d

HIDE DEF IsServer, IsConnection, ServerFields, LayerFields, DirectionFields, ServerReads, SameServer
=============================================================================
