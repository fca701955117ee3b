----------------------------- MODULE HttpsProofs -----------------------------
(***************************************************************************)
(* The HTTPS client keeps the library up, passes on a gapless beginning of *)
(* the answer, and all of it while memory suffices and the server sends    *)
(* data: for any number of connections, any answers, records of any length *)
(* and segments of any size.                                               *)
(***************************************************************************)
EXTENDS Https, FiniteSetTheorems, TLAPS

\* Cells up to a record's beginning and a part of that record.
LEMMA RecordOf ==
    ASSUME NEW q \in Nat, NEW r \in Nat, r < L
    PROVE  (q * L + r) \div L = q /\ (q * L + r) % L = r
  BY HttpsAssumption, Z3

LEMMA Division ==
    ASSUME NEW n \in Nat
    PROVE  /\ n \div L \in Nat /\ n % L \in Nat
           /\ n = (n \div L) * L + (n % L)
           /\ n % L < L
  BY HttpsAssumption, Z3

LEMMA Distribute ==
    ASSUME NEW p \in Nat, NEW q \in Nat
    PROVE  (p + q) * L = p * L + q * L /\ p * L \in Nat
  BY HttpsAssumption, Z3

\* What the TLS client returns while it shakes hands.
LEMMA HandshakeFacts ==
    ASSUME NEW s \in Handshaking, NEW input \in BOOLEAN,
           NEW r \in tlsv1_client_handshake(s, input)
    PROVE  /\ r.state \in Handshaking
           /\ r.out \in {"NULL", "empty", "flight", "alert"}
           /\ r.more \in BOOLEAN
           /\ s = "CLIENT_HELLO" => ~ tls_connection_established(r.state)
<1> DEFINE outs == {"NULL", "empty", "flight", "alert"}
           Is(x) == x.state \in Handshaking /\ x.out \in outs /\ x.more \in BOOLEAN
<1>1. ASSUME NEW t \in Handshaking, NEW o \in outs, NEW m \in BOOLEAN
      PROVE  Is(Return(t, o, m))
  BY <1>1 DEF Return
<1>2. {"CLIENT_HELLO", "SERVER_HELLO", "SERVER_FINISHED", "ESTABLISHED", "FAILED"} = Handshaking
  BY DEF Handshaking
<1> HIDE DEF Is
<1>3. CASE s = "CLIENT_HELLO"
  <2>1. r \in {Return("SERVER_HELLO", "flight", FALSE), Return(s, "NULL", FALSE)}
    BY <1>3 DEF tlsv1_client_handshake
  <2>2. r.state # "ESTABLISHED"
    BY <1>3, <2>1 DEF Return
  <2>3. Is(r)
    BY <1>1, <1>2, <2>1
  <2> QED  BY <2>2, <2>3 DEF Is, tls_connection_established
<1>4. CASE s \in {"SERVER_HELLO", "SERVER_FINISHED"}
  <2>1. r \in {Return(s, "NULL", TRUE), Return(s, "NULL", FALSE), Return(s, "empty", FALSE),
               Return(Flown(s), Reply(s), FALSE), Return(Flown(s), "NULL", FALSE),
               Return("FAILED", "alert", FALSE), Return("FAILED", "NULL", FALSE),
               Return("FAILED", "empty", FALSE)}
    <3>1. ~ (s = "CLIENT_HELLO")
      BY <1>4
    <3> QED  BY <1>4, <3>1 DEF tlsv1_client_handshake
  <2>2. Flown(s) \in Handshaking /\ Reply(s) \in outs
    BY <1>2 DEF Flown, Reply
  <2>3. Is(r)
    BY <1>1, <1>2, <2>1, <2>2
  <2> QED  BY <1>4, <2>3 DEF Is
<1>5. CASE s \in {"ESTABLISHED", "FAILED"}
  <2>1. r \in {Return(s, "NULL", TRUE), Return(s, "NULL", FALSE), Return(s, "empty", FALSE),
               Return("FAILED", "alert", FALSE)}
    BY <1>5 DEF tlsv1_client_handshake
  <2>2. Is(r)
    BY <1>1, <1>2, <2>1
  <2> QED  BY <1>5, <2>2 DEF Is
<1> QED  BY <1>3, <1>4, <1>5 DEF Handshaking

-----------------------------------------------------------------------------
IInv == TypeOK /\ HttpsInv

\* The connections that have a TLS context.
Up == {c \in Conns : tls[c] # "none"}

LEMMA LibraryUp ==
    /\ LibraryStaysUp <=> Cardinality(Up) <= refs
    /\ LibraryStaysUp' <=> Cardinality(Up') <= refs'
  BY DEF LibraryStaysUp, Up

\* When one connection's context comes or goes, their number changes by one.
LEMMA UpFacts ==
    /\ IsFiniteSet(Up) /\ Cardinality(Up) \in Nat
    /\ IsFiniteSet(Up') /\ Cardinality(Up') \in Nat
    /\ \A c \in Conns : (\A d \in Conns \ {c} : tls'[d] = tls[d]) =>
          /\ Cardinality(Up') <= Cardinality(Up) + 1
          /\ tls[c] # "none" => Cardinality(Up') <= Cardinality(Up)
          /\ tls[c] # "none" /\ tls'[c] = "none" => Cardinality(Up') = Cardinality(Up) - 1
<1>1. Up \subseteq Conns /\ Up' \subseteq Conns /\ IsFiniteSet(Conns)
  BY HttpsAssumption DEF Up
<1>2. IsFiniteSet(Up) /\ Cardinality(Up) \in Nat /\ IsFiniteSet(Up') /\ Cardinality(Up') \in Nat
  BY <1>1, FS_Subset, FS_CardinalityType
<1>3. ASSUME NEW c \in Conns, \A d \in Conns \ {c} : tls'[d] = tls[d]
      PROVE  /\ Cardinality(Up') <= Cardinality(Up) + 1
             /\ tls[c] # "none" => Cardinality(Up') <= Cardinality(Up)
             /\ tls[c] # "none" /\ tls'[c] = "none" => Cardinality(Up') = Cardinality(Up) - 1
  <2>1. Up' \subseteq Up \cup {c} /\ Up \subseteq Up' \cup {c}
    BY <1>3 DEF Up
  <2>2. CASE c \in Up
    <3>1. Up' = Up \/ Up' = Up \ {c}
      BY <2>1, <2>2
    <3>2. Cardinality(Up \ {c}) = Cardinality(Up) - 1
      BY <1>2, <2>2, FS_RemoveElement
    <3>3. tls[c] # "none" /\ (tls'[c] = "none" => c \notin Up')
      BY <2>2 DEF Up
    <3> QED  BY <1>2, <2>2, <3>1, <3>2, <3>3
  <2>3. CASE c \notin Up
    <3>1. Up' = Up \/ Up' = Up \cup {c}
      BY <2>1, <2>3
    <3>2. Cardinality(Up \cup {c}) = Cardinality(Up) + 1
      BY <1>2, <2>3, FS_AddElement
    <3>3. tls[c] = "none"
      BY <2>3, <1>3 DEF Up
    <3>4. CASE Up' = Up
      BY <1>2, <3>3, <3>4
    <3>5. CASE Up' = Up \cup {c}
      BY <1>2, <3>2, <3>3, <3>5
    <3> QED  BY <3>1, <3>4, <3>5
  <2> QED  BY <2>2, <2>3
<1> QED  BY <1>2, <1>3

LEMMA InitInv == Init => IInv
<1> SUFFICES ASSUME Init PROVE IInv
  OBVIOUS
<1> USE DEF Init
<1>1. TypeOK
  BY DEF TypeOK, Handshaking
<1>2. Up = {}
  BY DEF Up
<1>3. LibraryStaysUp
  <2>1. Cardinality(Up) = 0
    BY <1>2, FS_EmptySet
  <2> QED  BY <2>1 DEF LibraryStaysUp, Up
<1>4. StreamInv
  <2> SUFFICES ASSUME NEW c \in Conns
               PROVE  /\ Start(c) = 0 /\ 0 * L = 0 /\ 0 < L /\ Len(<< >>) = 0
                      /\ 0 <= Len(answer[c]) * L
                      /\ << >> = [k \in 1 .. 0 |-> k]
    BY DEF StreamInv
  <2>1. answer[c] \in Seq(Kinds)
    BY HttpsAssumption
  <2>2. Len(answer[c]) * L \in Nat
    BY <2>1, Distribute
  <2> QED  BY <2>2, HttpsAssumption DEF Start
<1> QED  BY <1>1, <1>3, <1>4 DEF IInv, HttpsInv, ContextInv, RequestInv

\* What leaves the stream alone keeps its invariant.
LEMMA StreamUnchanged ==
    ASSUME StreamInv, UNCHANGED stream
    PROVE  StreamInv'
  BY DEF StreamInv, stream, Start, KeepsToData

\* The library is released, if it was taken.
LEMMA Released ==
    ASSUME IInv, NEW c \in Conns, Release(c)
    PROVE  LibraryStaysUp' /\ refs' \in Nat
<1>1. /\ refs' = (IF tls[c] # "none" THEN refs - 1 ELSE refs)
      /\ tls'[c] = "none" /\ \A d \in Conns \ {c} : tls'[d] = tls[d]
  BY DEF Release, IInv, TypeOK
<1>2. refs \in Nat /\ Cardinality(Up) <= refs
  BY DEF IInv, TypeOK, HttpsInv, LibraryStaysUp, Up
<1>3. CASE tls[c] # "none"
  <2>1. Cardinality(Up') = Cardinality(Up) - 1 /\ Cardinality(Up') \in Nat /\ Cardinality(Up) \in Nat
    BY <1>1, <1>3, UpFacts
  <2> QED  BY <1>1, <1>2, <1>3, <2>1 DEF LibraryStaysUp, Up
<1>4. CASE tls[c] = "none"
  <2>1. Up' = Up
    BY <1>1, <1>4 DEF Up
  <2> QED  BY <1>1, <1>2, <1>4, <2>1 DEF LibraryStaysUp, Up
<1> QED  BY <1>3, <1>4

LEMMA LibraryUnchanged ==
    ASSUME LibraryStaysUp, UNCHANGED <<tls, refs>>
    PROVE  LibraryStaysUp'
  BY DEF LibraryStaysUp

\* The steps that only move a connection on.
LEMMA MoveStep ==
    ASSUME IInv, NEW c \in Conns,
           https_connect(c) \/ LookupIsCached(c) \/ PeerCloses(c) \/ Aborted(c)
    PROVE  IInv'
<1> USE DEF IInv, HttpsInv
<1>1. /\ UNCHANGED <<tls, alert, recvcb, refs, asked, stream>>
      /\ \E t \in {"dns", "left", "lost"} :
            st' = [st EXCEPT ![c] = t] /\ (t = "dns" => st[c] = "none")
  BY DEF https_connect, LookupIsCached, PeerCloses, Aborted
<1>2. TypeOK'
  BY <1>1 DEF TypeOK, stream
<1>3. \A d \in Conns : /\ st'[d] = "open" => st[d] = "open"
                       /\ st'[d] = "connecting" => st[d] = "connecting"
                       /\ st'[d] \in {"none", "dns"} => st[d] \in {"none", "dns"}
  BY <1>1 DEF TypeOK
<1>4. ContextInv' /\ RequestInv'
  BY <1>1, <1>3 DEF ContextInv, RequestInv, stream
<1> QED  BY <1>1, <1>2, <1>4, StreamUnchanged, LibraryUnchanged

LEMMA DisconStep ==
    ASSUME IInv, NEW c \in Conns, https_discon(c)
    PROVE  IInv'
<1> USE DEF IInv, HttpsInv
<1>1. /\ Release(c) /\ UNCHANGED <<alert, recvcb, asked, stream>>
      /\ st' = [st EXCEPT ![c] = "freed"] /\ tls' = [tls EXCEPT ![c] = "none"]
  BY DEF https_discon, Release
<1>2. TypeOK'
  BY <1>1, Released DEF TypeOK, stream
<1>3. ContextInv' /\ RequestInv'
  BY <1>1 DEF ContextInv, RequestInv, stream, TypeOK
<1> QED  BY <1>1, <1>2, <1>3, StreamUnchanged, Released

LEMMA DnsStep ==
    ASSUME IInv, NEW c \in Conns, https_dns_found(c)
    PROVE  IInv'
<1> USE DEF IInv, HttpsInv
<1>1. st[c] = "dns" /\ UNCHANGED <<alert, asked, stream>>
  BY DEF https_dns_found
<1>2. CASE Release(c) /\ UNCHANGED recvcb
  <2>1. st' = [st EXCEPT ![c] = "freed"] /\ tls' = [tls EXCEPT ![c] = "none"]
    BY <1>2 DEF Release
  <2>2. TypeOK'
    BY <1>1, <1>2, <2>1, Released DEF TypeOK, stream
  <2>3. ContextInv' /\ RequestInv'
    BY <1>1, <1>2, <2>1 DEF ContextInv, RequestInv, stream, TypeOK
  <2> QED  BY <1>1, <1>2, <2>2, <2>3, StreamUnchanged, Released
<1>3. CASE /\ st' = [st EXCEPT ![c] = "connecting"]
           /\ recvcb' = [recvcb EXCEPT ![c] = "https_tls_recv"]
           /\ UNCHANGED <<tls, refs>>
  <2>1. TypeOK'
    BY <1>1, <1>3 DEF TypeOK, stream
  <2>2. ContextInv' /\ RequestInv'
    BY <1>1, <1>3 DEF ContextInv, RequestInv, stream, TypeOK
  <2> QED  BY <1>1, <1>3, <2>1, <2>2, StreamUnchanged, LibraryUnchanged
<1> QED  BY <1>2, <1>3 DEF https_dns_found

-----------------------------------------------------------------------------
\* https_tls_recv, called by the event or by https_tls_connect.
LEMMA HandleFacts ==
    ASSUME TypeOK, ContextInv, RequestInv, NEW c \in Conns, recvcb[c] = "https_tls_recv",
           NEW s \in Handshaking, NEW input \in BOOLEAN,
           NEW r \in tlsv1_client_handshake(s, input), Handle(c, r),
           tls' = [tls EXCEPT ![c] = r.state], UNCHANGED stream
    PROVE  /\ ContextInv' /\ RequestInv'
           /\ refs' \in Nat => TypeOK'
<1> USE DEF TypeOK
<1>1. r.state \in Handshaking
  BY HandshakeFacts
<1>2. /\ st' = [st EXCEPT ![c] = IF HangsUp(r) THEN "closing" ELSE "open"]
      /\ alert' = [alert EXCEPT ![c] = @ \/ r.out = "alert"]
      /\ Ask(c) \/ UNCHANGED <<recvcb, asked>>
  BY DEF Handle
<1>3. asked[c] = 0 /\ passed[c] = << >>
  BY DEF RequestInv
<1>4. ContextInv'
  BY <1>1, <1>2 DEF ContextInv
<1>5. CASE Ask(c)
  <2>1. /\ asked' = [asked EXCEPT ![c] = @ + 1]
        /\ recvcb' = [recvcb EXCEPT ![c] = "https_recv"]
    BY <1>5 DEF Ask
  <2>2. RequestInv'
    BY <1>2, <1>3, <2>1 DEF RequestInv, stream
  <2>3. refs' \in Nat => TypeOK'
    BY <1>1, <1>2, <2>1 DEF stream
  <2> QED  BY <1>4, <2>2, <2>3
<1>6. CASE UNCHANGED <<recvcb, asked>>
  <2>1. RequestInv'
    BY <1>2, <1>3, <1>6 DEF RequestInv, stream
  <2>2. refs' \in Nat => TypeOK'
    BY <1>1, <1>2, <1>6 DEF stream
  <2> QED  BY <1>4, <2>1, <2>2
<1> QED  BY <1>2, <1>5, <1>6

LEMMA TlsConnectStep ==
    ASSUME IInv, NEW c \in Conns, https_tls_connect(c)
    PROVE  IInv'
<1> USE DEF IInv, HttpsInv
<1>1. st[c] = "connecting" /\ refs' = refs + 1 /\ UNCHANGED stream
  BY DEF https_tls_connect
<1>2. recvcb[c] = "https_tls_recv"
  BY <1>1 DEF RequestInv
<1>3. \A d \in Conns \ {c} : tls'[d] = tls[d]
  BY DEF https_tls_connect, TypeOK
<1>4. LibraryStaysUp'
  <2>1. /\ Cardinality(Up) \in Nat /\ Cardinality(Up') \in Nat
        /\ Cardinality(Up') <= Cardinality(Up) + 1
    BY <1>3, UpFacts
  <2>2. refs \in Nat /\ Cardinality(Up) <= refs
    BY LibraryUp DEF TypeOK
  <2> QED  BY <1>1, <2>1, <2>2, LibraryUp
<1>5. CASE /\ tls' \in {[tls EXCEPT ![c] = "none"], [tls EXCEPT ![c] = "global"]}
           /\ st' = [st EXCEPT ![c] = "closing"]
           /\ UNCHANGED <<alert, recvcb, asked>>
  <2>1. TypeOK'
    <3>1. tls' \in [Conns -> {"none", "global"} \cup Handshaking]
      BY <1>5 DEF TypeOK
    <3> QED  BY <1>1, <1>5, <3>1 DEF TypeOK, stream
  <2>2. ContextInv' /\ RequestInv'
    BY <1>1, <1>5 DEF ContextInv, RequestInv, stream, TypeOK
  <2> QED  BY <1>1, <1>4, <2>1, <2>2, StreamUnchanged
<1>6. ASSUME NEW r \in tlsv1_client_handshake("CLIENT_HELLO", FALSE),
             tls' = [tls EXCEPT ![c] = r.state], Handle(c, r)
      PROVE  IInv'
  <2>1. TypeOK' /\ ContextInv' /\ RequestInv'
    <3>1. "CLIENT_HELLO" \in Handshaking
      BY DEF Handshaking
    <3>2. /\ ContextInv' /\ RequestInv'
          /\ refs' \in Nat => TypeOK'
      <4>1. TypeOK /\ ContextInv /\ RequestInv /\ UNCHANGED stream /\ FALSE \in BOOLEAN
        BY <1>1
      <4> QED  BY <1>2, <1>6, <3>1, <4>1, HandleFacts, Zenon
    <3>3. refs' \in Nat
      BY <1>1 DEF TypeOK
    <3> QED  BY <3>2, <3>3
  <2> QED  BY <1>1, <1>4, <2>1, StreamUnchanged
<1> QED  BY <1>5, <1>6 DEF https_tls_connect

LEMMA TlsRecvStep ==
    ASSUME IInv, NEW c \in Conns, https_tls_recv(c)
    PROVE  IInv'
<1> USE DEF IInv, HttpsInv
<1>1. /\ st[c] = "open" /\ recvcb[c] = "https_tls_recv" /\ UNCHANGED <<refs, stream>>
      /\ tls[c] \in Handshaking
  BY DEF https_tls_recv, ContextInv
<1>2. PICK r \in tlsv1_client_handshake(tls[c], TRUE) :
          tls' = [tls EXCEPT ![c] = r.state] /\ Handle(c, r)
  BY DEF https_tls_recv
<1>3. TypeOK' /\ ContextInv' /\ RequestInv'
  BY <1>1, <1>2, HandleFacts DEF TypeOK
<1>4. tls[c] # "none" /\ \A d \in Conns \ {c} : tls'[d] = tls[d]
  BY <1>1, <1>2 DEF TypeOK, Handshaking
<1>5. LibraryStaysUp'
  <2>1. /\ Cardinality(Up) \in Nat /\ Cardinality(Up') \in Nat
        /\ Cardinality(Up') <= Cardinality(Up) + 0
    BY <1>4, UpFacts
  <2>2. refs \in Nat /\ Cardinality(Up) <= refs
    BY LibraryUp DEF TypeOK
  <2> QED  BY <1>1, <2>1, <2>2, LibraryUp
<1> QED  BY <1>1, <1>3, <1>5, StreamUnchanged

-----------------------------------------------------------------------------
\* The invariant of one connection's stream, of the values of its variables: n are
\* the cells there are, k says that the server keeps to data.
Ordered(p, q) ==
    /\ \A i, j \in DOMAIN p : i < j => p[i] < p[j]
    /\ \A i \in DOMAIN p : p[i] <= q

StreamOf(h, g, n, p, q, s, f, k) ==
    /\ h <= g /\ g <= n
    /\ Ordered(p, q)
    /\ k \/ ~ f => p = [i \in 1 .. Len(p) |-> i]
    /\ g - h >= q * L
    /\ s => g - h > q * L
    /\ g - h = q * L => h < L
    /\ ~ s /\ ~ f => g - h = q * L /\ Len(p) = q
    /\ f /\ k => g = n

LEMMA StreamIs ==
    /\ StreamInv <=> \A c \in Conns :
          StreamOf(held[c], got[c], Len(answer[c]) * L, passed[c], seq[c],
                   starved[c], refused[c], KeepsToData(c))
    /\ StreamInv' <=> \A c \in Conns :
          StreamOf(held'[c], got'[c], Len(answer'[c]) * L, passed'[c], seq'[c],
                   starved'[c], refused'[c], KeepsToData(c)')
  BY DEF StreamInv, StreamOf, Ordered, Start

\* What is accepted is the record expected, so nothing was thrown away before it
\* but whole records.
LEMMA Accepted ==
    ASSUME TypeOK, StreamInv, NEW c \in Conns
    PROVE  tlsv1_record_receive(c) <=> got[c] - held[c] = seq[c] * L
<1> DEFINE s == Start(c)
<1>1. held[c] \in Nat /\ got[c] \in Nat /\ seq[c] \in Nat /\ held[c] <= got[c]
  BY DEF TypeOK, StreamInv
<1>2. s \in Nat /\ s = got[c] - held[c]
  BY <1>1 DEF Start
<1>3. tlsv1_record_receive(c) <=> s % L = 0 /\ s \div L = seq[c]
  BY DEF tlsv1_record_receive
<1> HIDE DEF s
<1>4. s % L = 0 /\ s \div L = seq[c] => s = seq[c] * L
  <2>1. s = (s \div L) * L + (s % L)
    BY <1>2, Division
  <2>2. seq[c] * L \in Nat
    BY <1>1, Distribute
  <2> QED  BY <2>1, <2>2
<1>5. s = seq[c] * L => s % L = 0 /\ s \div L = seq[c]
  <2>1. seq[c] * L = seq[c] * L + 0 /\ 0 < L
    BY <1>1, Distribute, HttpsAssumption
  <2>2. (seq[c] * L) % L = 0 /\ (seq[c] * L) \div L = seq[c]
    BY <1>1, <2>1, RecordOf
  <2> QED  BY <2>2
<1> QED  BY <1>2, <1>3, <1>4, <1>5

\* What is kept of h + m, of g received, when n records of it are decrypted.
Kept(h, g, m, n, r, q) == (g + m) - r = (q + n) * L /\ r <= g + m

LEMMA KeptFacts ==
    ASSUME NEW h \in Nat, NEW g \in Nat, NEW m \in Nat, NEW n \in Nat, NEW r \in Nat,
           NEW q \in Nat, h + m = n * L + r, g - h = q * L, h <= g
    PROVE  Kept(h, g, m, n, r, q)
<1> DEFINE x == q * L
           y == n * L
           z == (q + n) * L
<1>1. /\ z = x + y /\ x \in Nat /\ y \in Nat /\ h + m = y + r /\ g - h = x
  BY Distribute
<1> HIDE DEF x, y, z
<1>2. (g + m) - r = z /\ r <= g + m
  BY <1>1
<1> QED  BY <1>2 DEF z, Kept

\* The numbers of n records after the q-th, and all numbers from the first.
Numbers(q, n) == [i \in 1 .. n |-> q + i]
AllOf(p, q) == Len(p) = q /\ p = [i \in 1 .. Len(p) |-> i]

LEMMA Joined ==
    ASSUME NEW p \in Seq(Nat), NEW q \in Nat, NEW n \in Nat,
           NEW d \in Seq(Nat), d = Numbers(q, n), Ordered(p, q)
    PROVE  /\ p \o d \in Seq(Nat) /\ Ordered(p \o d, q + n)
           /\ AllOf(p, q) => AllOf(p \o d, q + n)
<1> DEFINE e == p \o d
           l == Len(p)
<1>1. Len(d) = n /\ \A i \in 1 .. n : d[i] = q + i
  BY DEF Numbers
<1>2. /\ l \in Nat /\ DOMAIN p = 1 .. l /\ \A i \in 1 .. l : p[i] \in Nat
  OBVIOUS
<1>3. /\ e \in Seq(Nat) /\ Len(e) = l + n /\ DOMAIN e = 1 .. (l + n)
      /\ \A i \in 1 .. (l + n) : e[i] = IF i <= l THEN p[i] ELSE d[i - l]
  BY <1>1
<1> HIDE DEF e, l
<1>4. \A i \in 1 .. (l + n) : e[i] = IF i <= l THEN p[i] ELSE q + (i - l)
  <2> SUFFICES ASSUME NEW i \in 1 .. (l + n), i > l PROVE e[i] = q + (i - l)
    BY <1>2, <1>3
  <2>1. e[i] = d[i - l] /\ i - l \in 1 .. n
    BY <1>2, <1>3
  <2> QED  BY <1>1, <2>1
<1>5. /\ \A i, j \in 1 .. l : i < j => p[i] < p[j]
      /\ \A i \in 1 .. l : p[i] <= q
  BY <1>2 DEF Ordered
<1>6. \A i \in 1 .. (l + n) : e[i] <= q + n
  BY <1>2, <1>4, <1>5
<1>7. ASSUME NEW i \in 1 .. (l + n), NEW j \in 1 .. (l + n), i < j
      PROVE  e[i] < e[j]
  <2>1. CASE j <= l
    BY <1>2, <1>4, <1>5, <1>7, <2>1
  <2>2. CASE j > l /\ i > l
    BY <1>2, <1>4, <1>7, <2>2
  <2>3. CASE j > l /\ i <= l
    <3>1. e[i] = p[i] /\ e[j] = q + (j - l) /\ p[i] <= q /\ p[i] \in Nat
      BY <1>2, <1>4, <1>5, <2>3
    <3> QED  BY <1>2, <2>3, <3>1
  <2> QED  BY <1>2, <2>1, <2>2, <2>3
<1>8. ASSUME l = q, p = [i \in 1 .. l |-> i]
      PROVE  Len(e) = q + n /\ e = [i \in 1 .. Len(e) |-> i]
  <2>1. \A i \in 1 .. (l + n) : e[i] = i
    BY <1>2, <1>4, <1>8
  <2> QED  BY <1>3, <1>8, <2>1
<1> QED  BY <1>3, <1>6, <1>7, <1>8 DEF Ordered, AllOf, e, l

\* A segment of data, however it is taken.
LEMMA RecvStep ==
    ASSUME IInv, NEW c \in Conns, NEW m \in 1 .. MaxSeg, https_recv(c, m)
    PROVE  IInv'
<1> USE DEF IInv, HttpsInv
<1> DEFINE t == Len(answer[c]) * L
           k == KeepsToData(c)
<1>1. /\ st[c] = "open" /\ recvcb[c] = "https_recv"
      /\ UNCHANGED <<tls, alert, recvcb, refs, answer, asked>>
      /\ got[c] + m <= t
      /\ got' = [got EXCEPT ![c] = @ + m]
      /\ st' = st \/ st' = [st EXCEPT ![c] = "closing"]
  BY DEF https_recv
<1>2. /\ m \in Nat \ {0} /\ held[c] \in Nat /\ got[c] \in Nat /\ seq[c] \in Nat
      /\ passed[c] \in Seq(Nat) /\ starved[c] \in BOOLEAN /\ refused[c] \in BOOLEAN
      /\ k \in BOOLEAN
      /\ StreamOf(held[c], got[c], t, passed[c], seq[c], starved[c], refused[c], k)
  <2>1. StreamOf(held[c], got[c], t, passed[c], seq[c], starved[c], refused[c], k)
    BY StreamIs, Zenon
  <2>2. k \in BOOLEAN
    BY Zenon DEF KeepsToData
  <2> HIDE DEF t, k
  <2> QED  BY <2>1, <2>2, HttpsAssumption DEF TypeOK
<1>3. answer[c] \in Seq(Kinds) /\ t \in Nat
  <2>1. answer[c] \in Seq(Kinds)
    BY HttpsAssumption DEF TypeOK
  <2>2. Len(answer[c]) \in Nat
    BY <2>1
  <2> QED  BY <2>1, <2>2, Distribute
<1>4. tlsv1_record_receive(c) <=> got[c] - held[c] = seq[c] * L
  BY Accepted
<1>5. seq[c] * L \in Nat
  BY <1>2, Distribute
<1>6. tlsv1_record_receive(c) => Start(c) \div L = seq[c]
  BY DEF tlsv1_record_receive
<1>7. k' = k
  BY <1>1 DEF KeepsToData
<1> HIDE DEF t
<1>8. /\ seq' \in [Conns -> Nat] /\ held' \in [Conns -> Nat]
      /\ passed' \in [Conns -> Seq(Nat)]
      /\ starved' \in [Conns -> BOOLEAN] /\ refused' \in [Conns -> BOOLEAN]
      /\ \A d \in Conns \ {c} : /\ seq'[d] = seq[d] /\ held'[d] = held[d]
                                /\ passed'[d] = passed[d] /\ starved'[d] = starved[d]
                                /\ refused'[d] = refused[d]
      /\ StreamOf(held'[c], got[c] + m, t, passed'[c], seq'[c], starved'[c], refused'[c], k)
  <2>1. CASE /\ tlsv1_record_receive(c)
             /\ DecryptAll(c, m)
             /\ passed' = [passed EXCEPT ![c] = @ \o Decrypted(c, m)]
    <3> DEFINE n == (held[c] + m) \div L
               r == (held[c] + m) % L
               d == [i \in 1 .. n |-> seq[c] + i]
               p == passed[c] \o d
    <3>1. /\ seq' = [seq EXCEPT ![c] = seq[c] + n] /\ UNCHANGED <<starved, refused>>
          /\ held' = [held EXCEPT ![c] = r] /\ passed' = [passed EXCEPT ![c] = p]
      BY <1>6, <2>1 DEF DecryptAll, Decrypted, Complete
    <3>2. n \in Nat /\ r \in Nat /\ held[c] + m = n * L + r /\ r < L
      <4>1. held[c] + m \in Nat
        BY <1>2
      <4> QED  BY <4>1, Division
    <3>3. d \in Seq(Nat) /\ d = Numbers(seq[c], n)
      BY <1>2, <3>2 DEF Numbers
    <3> HIDE DEF n, r, d, k
    <3>4. /\ StreamOf(r, got[c] + m, t, p, seq[c] + n, starved[c], refused[c], k)
          /\ p \in Seq(Nat)
      <4> DEFINE y == got[c] + m
                 z == (seq[c] + n) * L
      <4>1. /\ got[c] - held[c] = seq[c] * L /\ y <= t /\ held[c] <= got[c]
            /\ Ordered(passed[c], seq[c]) /\ ~ starved[c] /\ (k => ~ refused[c])
            /\ ~ refused[c] => AllOf(passed[c], seq[c])
        BY <1>1, <1>2, <1>3, <1>4, <1>5, <2>1 DEF StreamOf, AllOf
      <4>2. /\ p \in Seq(Nat) /\ Ordered(p, seq[c] + n)
            /\ AllOf(passed[c], seq[c]) => AllOf(p, seq[c] + n)
            /\ y - r = z /\ r <= y
        <5>1. m \in Nat /\ held[c] \in Nat /\ got[c] \in Nat /\ seq[c] \in Nat
              /\ passed[c] \in Seq(Nat)
          BY <1>2
        <5>2. Ordered(passed[c], seq[c]) /\ d = Numbers(seq[c], n)
          BY <3>3, <4>1
        <5>3. p \in Seq(Nat) /\ Ordered(p, seq[c] + n)
          BY <3>2, <3>3, <5>1, <5>2, Joined
        <5>4. AllOf(passed[c], seq[c]) => AllOf(p, seq[c] + n)
          BY <3>2, <3>3, <5>1, <5>2, Joined
        <5>5. Kept(held[c], got[c], m, n, r, seq[c])
          BY <3>2, <4>1, <5>1, KeptFacts
        <5> QED  BY <5>3, <5>4, <5>5 DEF Kept
      <4>3. y \in Nat /\ z \in Nat
        <5>1. seq[c] + n \in Nat
          BY <1>2, <3>2
        <5>2. (seq[c] + n) * L \in Nat
          BY <5>1, Distribute
        <5> QED  BY <1>2, <5>2
      <4> HIDE DEF p, y, z
      <4>4. (/\ r <= y /\ y <= t /\ y - r >= z /\ y - r = z /\ r < L) =>
               StreamOf(r, y, t, p, seq[c] + n, starved[c], refused[c], k)
        BY <4>1, <4>2 DEF StreamOf, AllOf, z
      <4>5. r <= y /\ y <= t /\ y - r >= z /\ y - r = z /\ r < L
        BY <3>2, <4>1, <4>2, <4>3
      <4> QED  BY <4>2, <4>4, <4>5, Zenon DEF y
    <3> HIDE DEF p
    <3>5. seq[c] + n \in Nat
      BY <1>2, <3>2
    <3> QED  BY <3>1, <3>2, <3>4, <3>5 DEF TypeOK
  <2>2. CASE tlsv1_record_receive(c) /\ DecryptStarved(c, m) /\ UNCHANGED passed
    <3>1. PICK j \in {0} \cup Complete(c, m) :
              j * L < held[c] + m /\ seq' = [seq EXCEPT ![c] = @ + j]
      BY <2>2 DEF DecryptStarved
    <3>2. /\ held' = [held EXCEPT ![c] = 0] /\ starved' = [starved EXCEPT ![c] = TRUE]
          /\ UNCHANGED refused
      BY <2>2 DEF DecryptStarved
    <3>3. j \in Nat
      BY DEF Complete
    <3>4. (seq[c] + j) * L = seq[c] * L + j * L /\ j * L \in Nat
      BY <1>2, <3>3, Distribute
    <3>5. got[c] + m > (seq[c] + j) * L
      BY <1>2, <1>4, <1>5, <2>2, <3>1, <3>4
    <3>6. StreamOf(0, got[c] + m, t, passed[c], seq[c] + j, TRUE, refused[c], k)
      <4>1. Ordered(passed[c], seq[c] + j)
        BY <1>2, <3>3 DEF StreamOf, Ordered
      <4>2. ~ (refused[c] /\ k)
        BY <1>1, <1>2, <1>3 DEF StreamOf
      <4>3. k \/ ~ refused[c] => passed[c] = [i \in 1 .. Len(passed[c]) |-> i]
        BY <1>2 DEF StreamOf
      <4> HIDE DEF k
      <4> DEFINE z == (seq[c] + j) * L
      <4>4. z \in Nat /\ got[c] + m > z /\ got[c] + m <= t
        BY <1>1, <1>5, <3>4, <3>5
      <4> DEFINE y == got[c] + m
      <4>5. (/\ 0 <= got[c] + m /\ got[c] + m <= t
             /\ (got[c] + m) - 0 >= z /\ (got[c] + m) - 0 > z /\ (got[c] + m) - 0 # z) =>
               StreamOf(0, got[c] + m, t, passed[c], seq[c] + j, TRUE, refused[c], k)
        BY <4>1, <4>2, <4>3 DEF StreamOf
      <4>6. y \in Nat /\ y > z /\ y <= t /\ z \in Nat
        BY <1>2, <4>4
      <4> HIDE DEF z, y
      <4>7. 0 <= y /\ y <= t /\ y - 0 >= z /\ y - 0 > z /\ y - 0 # z
        BY <4>6
      <4> QED  BY <4>5, <4>7, Zenon DEF y
    <3>7. /\ seq' = [seq EXCEPT ![c] = seq[c] + j] /\ seq[c] + j \in Nat
          /\ UNCHANGED passed
      BY <1>2, <2>2, <3>1, <3>3
    <3> HIDE DEF k
    <3> QED  BY <3>2, <3>6, <3>7 DEF TypeOK
  <2>3. CASE tlsv1_record_receive(c) /\ DecryptEnded(c, m) /\ UNCHANGED passed
    <3>1. PICK j \in Complete(c, m) :
              ~ GoesOn(c, j) /\ seq' = [seq EXCEPT ![c] = @ + j]
      BY <2>3 DEF DecryptEnded
    <3>2. /\ held' = [held EXCEPT ![c] = 0] /\ refused' = [refused EXCEPT ![c] = TRUE]
          /\ UNCHANGED starved
      BY <2>3 DEF DecryptEnded
    <3> DEFINE n == (held[c] + m) \div L
               r == (held[c] + m) % L
    <3>3. /\ n \in Nat /\ r \in Nat /\ held[c] + m = n * L + r
          /\ j \in Nat /\ j >= 1 /\ j <= n
      <4>1. held[c] + m \in Nat
        BY <1>2
      <4>2. n \in Nat /\ r \in Nat /\ held[c] + m = n * L + r
        BY <4>1, Division
      <4>3. j \in 1 .. n
        BY DEF Complete
      <4> HIDE DEF n
      <4> QED  BY <4>2, <4>3
    <3> HIDE DEF n, r
    <3>4. /\ (seq[c] + j) * L = seq[c] * L + j * L /\ j * L \in Nat
          /\ n * L = j * L + (n - j) * L /\ (n - j) * L \in Nat
      <4>1. n - j \in Nat /\ n = j + (n - j)
        BY <3>3
      <4>2. (j + (n - j)) * L = j * L + (n - j) * L /\ (n - j) * L \in Nat
        BY <3>3, <4>1, Distribute
      <4> QED  BY <1>2, <3>3, <4>1, <4>2, Distribute
    <3>5. got[c] + m >= (seq[c] + j) * L
      <4> DEFINE x == seq[c] * L
                 y == n * L
                 v == (n - j) * L
                 w == j * L
                 z == (seq[c] + j) * L
      <4>1. /\ got[c] - held[c] = x /\ held[c] + m = y + r /\ y = w + v /\ z = x + w
            /\ x \in Nat /\ v \in Nat /\ w \in Nat /\ r \in Nat
        BY <1>4, <1>5, <2>3, <3>3, <3>4
      <4>2. held[c] \in Nat /\ got[c] \in Nat /\ m \in Nat
        BY <1>2
      <4> HIDE DEF x, y, v, w, z
      <4>3. got[c] + m >= z
        BY <4>1, <4>2
      <4> QED  BY <4>3 DEF z
    <3>6. ~ starved[c]
      BY <1>2, <1>4, <1>5, <2>3 DEF StreamOf
    <3>7. ~ refused[c] \/ ~ k
      BY <1>1, <1>2, <1>3 DEF StreamOf
    <3>8. k => got[c] + m = t
      <4> SUFFICES ASSUME k PROVE got[c] + m = t
        OBVIOUS
      <4> DEFINE i == seq[c] + j
                 a == answer[c]
      <4>1. i \in Nat /\ i >= 1 /\ i * L <= got[c] + m
        BY <1>2, <3>3, <3>5
      <4>2. Len(a) \in Nat /\ \A x \in 1 .. Len(a) : a[x] \in Kinds
        BY <1>3
      <4>3. i <= Len(a)
        <5> SUFFICES ASSUME i > Len(a) PROVE FALSE
          BY <4>1, <4>2
        <5>1. i - Len(a) \in Nat /\ i = Len(a) + (i - Len(a)) /\ i - Len(a) >= 1
          BY <4>1, <4>2
        <5>2. /\ (Len(a) + (i - Len(a))) * L = t + (i - Len(a)) * L
              /\ (i - Len(a)) * L \in Nat
          BY <4>2, <5>1, Distribute DEF t
        <5>3. (i - Len(a)) * L > 0
          <6> DEFINE v == i - Len(a)
          <6>2. v \in Nat /\ v >= 1
            BY <5>1
          <6> HIDE DEF v
          <6>3. v * L > 0
            BY <6>2, HttpsAssumption, Z3
          <6> QED  BY <6>3 DEF v
        <5> QED  BY <1>1, <1>2, <1>3, <4>1, <5>1, <5>2, <5>3
      <4>4. Kind(c, j) = a[i] /\ i \in 1 .. Len(a)
        BY <1>6, <2>3, <4>1, <4>2, <4>3 DEF Kind
      <4>5. a[i] = "fatal"
        <5>1. a[i] \in Kinds /\ a[i] # "handshake" /\ a[i] \notin {"data", "warning"}
          BY <3>1, <4>2, <4>4 DEF KeepsToData, GoesOn
        <5> QED  BY <5>1 DEF Kinds
      <4>6. i = Len(a)
        <5>1. a \in Answers
          BY DEF TypeOK
        <5> QED  BY <4>4, <4>5, <5>1, FatalAssumption DEF FatalEnds
      <4>7. t <= got[c] + m
        BY <4>1, <4>6 DEF t
      <4>8. got[c] + m <= t /\ got[c] + m \in Nat /\ t \in Nat
        BY <1>1, <1>2, <1>3
      <4> HIDE DEF i, a, k
      <4> QED  BY <4>7, <4>8
    <3>9. StreamOf(0, got[c] + m, t, passed[c], seq[c] + j, starved[c], TRUE, k)
      <4>1. Ordered(passed[c], seq[c] + j)
        BY <1>2, <3>3 DEF StreamOf, Ordered
      <4>2. k => passed[c] = [i \in 1 .. Len(passed[c]) |-> i]
        BY <1>2 DEF StreamOf
      <4> HIDE DEF k
      <4> DEFINE z == (seq[c] + j) * L
      <4>3. z \in Nat /\ got[c] + m >= z /\ got[c] + m <= t /\ 0 < L
        BY <1>1, <1>5, <3>4, <3>5, HttpsAssumption
      <4>4. (/\ 0 <= got[c] + m /\ got[c] + m <= t /\ 0 < L
             /\ (got[c] + m) - 0 >= z) =>
               StreamOf(0, got[c] + m, t, passed[c], seq[c] + j, starved[c], TRUE, k)
        BY <3>6, <3>8, <4>1, <4>2 DEF StreamOf
      <4> DEFINE y == got[c] + m
      <4>5. y \in Nat /\ y >= z /\ y <= t /\ z \in Nat /\ 0 < L
        BY <1>2, <4>3
      <4> HIDE DEF z, y
      <4>6. 0 <= y /\ y <= t /\ 0 < L /\ y - 0 >= z
        BY <4>5
      <4> QED  BY <4>4, <4>6, Zenon DEF y
    <3>10. /\ seq' = [seq EXCEPT ![c] = seq[c] + j] /\ seq[c] + j \in Nat
           /\ UNCHANGED passed
      BY <1>2, <2>3, <3>1, <3>3
    <3> HIDE DEF k
    <3> QED  BY <3>2, <3>9, <3>10 DEF TypeOK
  <2>4. CASE ~ tlsv1_record_receive(c) /\ DecryptRefused(c, m) /\ UNCHANGED passed
    <3>1. PICK h \in {0, held[c] + m} : held' = [held EXCEPT ![c] = h]
      BY <2>4 DEF DecryptRefused
    <3>2. UNCHANGED <<seq, starved, refused>>
      BY <2>4 DEF DecryptRefused
    <3> DEFINE z == seq[c] * L
    <3>3. got[c] - held[c] > z /\ held[c] <= got[c] /\ z \in Nat
      BY <1>2, <1>4, <1>5, <2>4 DEF StreamOf
    <3> HIDE DEF k
    <3>4. /\ h \in Nat /\ h <= got[c] + m
          /\ (got[c] + m) - h > z
      <4> HIDE DEF z
      <4> QED  BY <1>2, <3>1, <3>3
    <3>5. /\ Ordered(passed[c], seq[c]) /\ (starved[c] \/ refused[c])
          /\ k \/ ~ refused[c] => passed[c] = [i \in 1 .. Len(passed[c]) |-> i]
          /\ ~ (refused[c] /\ k)
      BY <1>1, <1>2, <1>3, <1>4, <2>4 DEF StreamOf
    <3>6. StreamOf(h, got[c] + m, t, passed[c], seq[c], starved[c], refused[c], k)
      <4>1. (/\ h <= got[c] + m /\ got[c] + m <= t
             /\ (got[c] + m) - h >= z /\ (got[c] + m) - h > z /\ (got[c] + m) - h # z) =>
               StreamOf(h, got[c] + m, t, passed[c], seq[c], starved[c], refused[c], k)
        BY <3>5 DEF StreamOf
      <4> HIDE DEF z
      <4> QED  BY <1>1, <1>2, <3>3, <3>4, <4>1
    <3> QED  BY <1>2, <2>4, <3>1, <3>2, <3>4, <3>6 DEF TypeOK
  <2> QED  BY <2>1, <2>2, <2>3, <2>4 DEF https_recv
<1>9. TypeOK'
  <2>1. got' \in [Conns -> Nat]
    BY <1>1, <1>2 DEF TypeOK
  <2>2. st' \in [Conns -> {"none", "dns", "connecting", "open", "left", "closing",
                          "freed", "lost"}]
    BY <1>1 DEF TypeOK
  <2> QED  BY <1>1, <1>8, <2>1, <2>2 DEF TypeOK
<1>10. StreamInv'
  <2> SUFFICES ASSUME NEW d \in Conns
               PROVE  StreamOf(held'[d], got'[d], Len(answer'[d]) * L, passed'[d], seq'[d],
                               starved'[d], refused'[d], KeepsToData(d)')
    BY StreamIs
  <2>1. CASE d = c
    <3>1. got'[c] = got[c] + m
      BY <1>1 DEF TypeOK
    <3> QED  BY <1>1, <1>7, <1>8, <2>1, <3>1 DEF t
  <2>2. CASE d # c
    <3>1. got'[d] = got[d] /\ KeepsToData(d)' = KeepsToData(d)
      BY <1>1, <2>2 DEF TypeOK, KeepsToData
    <3>2. StreamOf(held[d], got[d], Len(answer[d]) * L, passed[d], seq[d],
                   starved[d], refused[d], KeepsToData(d))
      BY StreamIs
    <3> QED  BY <1>1, <1>8, <2>2, <3>1, <3>2
  <2> QED  BY <2>1, <2>2
<1>11. ContextInv' /\ RequestInv'
  <2>1. \A d \in Conns : st'[d] \in {"open", "connecting", "none", "dns"} => st'[d] = st[d]
    BY <1>1 DEF TypeOK
  <2>2. ContextInv'
    BY <1>1, <2>1 DEF ContextInv
  <2>3. RequestInv'
    BY <1>1, <1>8, <2>1 DEF RequestInv
  <2> QED  BY <2>2, <2>3
<1> QED  BY <1>1, <1>9, <1>10, <1>11, LibraryUnchanged

-----------------------------------------------------------------------------
\* Connections, the library's count and the stream fit together at every moment.
THEOREM InvCorrect == Spec => [](TypeOK /\ HttpsInv)
<1>1. Init => IInv
  BY InitInv
<1>2. IInv /\ [Next]_vars => IInv'
  <2> SUFFICES ASSUME IInv, [Next]_vars PROVE IInv'
    OBVIOUS
  <2>1. CASE UNCHANGED vars
    BY <2>1 DEF vars, IInv, TypeOK, HttpsInv, LibraryStaysUp, ContextInv, RequestInv,
                StreamInv, Start, KeepsToData
  <2>2. ASSUME NEW c \in Conns,
               https_connect(c) \/ LookupIsCached(c) \/ PeerCloses(c) \/ Aborted(c)
        PROVE  IInv'
    BY <2>2, MoveStep
  <2>3. ASSUME NEW c \in Conns, https_dns_found(c)
        PROVE  IInv'
    BY <2>3, DnsStep
  <2>4. ASSUME NEW c \in Conns, https_tls_connect(c)
        PROVE  IInv'
    BY <2>4, TlsConnectStep
  <2>5. ASSUME NEW c \in Conns, https_tls_recv(c)
        PROVE  IInv'
    BY <2>5, TlsRecvStep
  <2>6. ASSUME NEW c \in Conns, NEW m \in 1 .. MaxSeg, https_recv(c, m)
        PROVE  IInv'
    BY <2>6, RecvStep
  <2>7. ASSUME NEW c \in Conns, https_discon(c)
        PROVE  IInv'
    BY <2>7, DisconStep
  <2> QED  BY <2>1, <2>2, <2>3, <2>4, <2>5, <2>6, <2>7 DEF Next
<1> QED  BY <1>1, <1>2, PTL DEF Spec, IInv

\* No connection's end shuts the library down under another.
THEOREM LibraryCorrect == Spec => []LibraryStaysUp
<1>1. HttpsInv => LibraryStaysUp
  BY DEF HttpsInv
<1> QED  BY <1>1, InvCorrect, PTL

\* What the application is given is a beginning of the answer to its request, and
\* in order even if the server asks for another handshake.
THEOREM PrefixCorrect == Spec => []AppSeesPrefix
<1>1. TypeOK /\ HttpsInv => AppSeesPrefix
  <2> SUFFICES ASSUME HttpsInv, NEW c \in Conns
               PROVE  /\ \A i, j \in DOMAIN passed[c] : i < j => passed[c][i] < passed[c][j]
                      /\ KeepsToData(c) => passed[c] = [k \in 1 .. Len(passed[c]) |-> k]
                      /\ passed[c] # << >> => asked[c] = 1
    BY DEF AppSeesPrefix
  <2>1. passed[c] # << >> => asked[c] = 1
    BY DEF HttpsInv, RequestInv
  <2> QED  BY <2>1 DEF HttpsInv, StreamInv
<1> QED  BY <1>1, InvCorrect, PTL

\* While memory suffices, and the server sends neither a fatal alert nor another
\* type of record, the application has every complete record.
THEOREM NothingLostCorrect == Spec => []NothingIsLost
<1>1. TypeOK /\ HttpsInv => NothingIsLost
  <2> SUFFICES ASSUME TypeOK, HttpsInv, NEW c \in Conns, ~ starved[c], ~ refused[c]
               PROVE  Len(passed[c]) = got[c] \div L
    BY DEF NothingIsLost
  <2>1. /\ seq[c] \in Nat /\ held[c] \in Nat /\ got[c] \in Nat
        /\ got[c] - held[c] = seq[c] * L /\ held[c] < L /\ Len(passed[c]) = seq[c]
    BY DEF TypeOK, HttpsInv, StreamInv, Start
  <2>2. seq[c] * L \in Nat
    BY <2>1, Distribute
  <2>3. got[c] = seq[c] * L + held[c]
    BY <2>1, <2>2
  <2> QED  BY <2>1, <2>3, RecordOf
<1> QED  BY <1>1, InvCorrect, PTL
=============================================================================
