----------------------------- MODULE HttpdProofs -----------------------------
(***************************************************************************)
(* The HTTP server picks the handler of the longest URL, puts the chunks   *)
(* of a page on the wire in order, hangs up after the last one and saves a *)
(* form once: for any number of connections, any room in espconn's queue,  *)
(* pages of any length and any number of requests.                         *)
(***************************************************************************)
EXTENDS Httpd, SequenceTheorems, WellFoundedInduction, TLAPS

IInv == TypeOK /\ HttpdInv

-----------------------------------------------------------------------------
(***************************************************************************)
(* The list of handlers.                                                   *)
(***************************************************************************)

\* A set of positions has a first.
LEMMA FirstOf ==
    ASSUME NEW T, T \subseteq Nat, T # {}
    PROVE  \E m \in T : \A y \in T : m <= y
<1> DEFINE less == {ss \in Nat \X Nat : ss[1] < ss[2]}
<1>1. IsWellFoundedOn(less, Nat)
  BY NatLessThanWellFounded DEF OpToRel
<1> HIDE DEF less
<1>2. PICK m \in T : \A y \in T : ~ (<<y, m>> \in less)
  BY <1>1, WFMin
<1>3. \A y \in T : m <= y
  <2> SUFFICES ASSUME NEW y \in T PROVE m <= y
    OBVIOUS
  <2>1. y \in Nat /\ m \in Nat
    OBVIOUS
  <2>2. ~ (y < m)
    BY <1>2, <2>1 DEF less
  <2> QED  BY <2>1, <2>2
<1> QED  BY <1>3

\* A prefix, position by position.
LEMMA PrefixPointwise ==
    ASSUME NEW s \in Seq(Parts), NEW t \in Seq(Parts)
    PROVE  IsPrefix(s, t) <=>
               Len(s) <= Len(t) /\ \A i \in 1 .. Len(s) : s[i] = t[i]
<1> DEFINE n == Len(s)
<1>1. n \in Nat /\ Len(t) \in Nat /\ (\A i \in 1 .. n : s[i] \in Parts)
      /\ (\A i \in 1 .. Len(t) : t[i] \in Parts)
  BY ElementOfSeq, LenProperties
<1>2. /\ SubSeq(s, 1, n) \in Seq(Parts) /\ Len(SubSeq(s, 1, n)) = n
      /\ \A i \in 1 .. n : SubSeq(s, 1, n)[i] = s[i]
  <2>1. 1 \in Int /\ n \in Int
    BY <1>1
  <2>2. /\ SubSeq(s, 1, n) \in Seq(Parts)
        /\ Len(SubSeq(s, 1, n)) = IF 1 <= n THEN n - 1 + 1 ELSE 0
        /\ \A i \in 1 .. n - 1 + 1 : SubSeq(s, 1, n)[i] = s[1 + i - 1]
    BY <1>1, <2>1, SubSeqProperties
  <2> QED  BY <1>1, <2>2
<1>3. ASSUME n <= Len(t)
      PROVE  /\ SubSeq(t, 1, n) \in Seq(Parts) /\ Len(SubSeq(t, 1, n)) = n
             /\ \A i \in 1 .. n : SubSeq(t, 1, n)[i] = t[i]
  <2>1. 1 \in Int /\ n \in Int /\ \A i \in 1 .. n : t[i] \in Parts
    BY <1>1, <1>3
  <2>2. /\ SubSeq(t, 1, n) \in Seq(Parts)
        /\ Len(SubSeq(t, 1, n)) = IF 1 <= n THEN n - 1 + 1 ELSE 0
        /\ \A i \in 1 .. n - 1 + 1 : SubSeq(t, 1, n)[i] = t[1 + i - 1]
    BY <2>1, SubSeqProperties
  <2> QED  BY <1>1, <2>2
<1>4. CASE n <= Len(t)
  <2>1. SubSeq(s, 1, n) = SubSeq(t, 1, n) <=> \A i \in 1 .. n : s[i] = t[i]
    <3>1. ASSUME \A i \in 1 .. n : s[i] = t[i]
          PROVE  SubSeq(s, 1, n) = SubSeq(t, 1, n)
      BY <1>2, <1>3, <1>4, <3>1, SeqEqual
    <3>2. ASSUME SubSeq(s, 1, n) = SubSeq(t, 1, n), NEW i \in 1 .. n
          PROVE  s[i] = t[i]
      BY <1>2, <1>3, <1>4, <3>2
    <3> QED  BY <3>1, <3>2
  <2> QED  BY <1>4, <2>1 DEF IsPrefix
<1>5. CASE ~ (n <= Len(t))
  BY <1>5 DEF IsPrefix
<1> QED  BY <1>4, <1>5

\* Of two prefixes of a URL the shorter is a prefix of the longer.
LEMMA PrefixesNest ==
    ASSUME NEW a \in Seq(Parts), NEW b \in Seq(Parts), NEW u \in Seq(Parts),
           IsPrefix(a, u), IsPrefix(b, u), Len(a) <= Len(b)
    PROVE  IsPrefix(a, b)
<1>1. Len(a) \in Nat /\ Len(b) \in Nat
  BY LenProperties
<1>2. \A i \in 1 .. Len(a) : a[i] = u[i]
  BY PrefixPointwise
<1>3. \A i \in 1 .. Len(b) : b[i] = u[i]
  BY PrefixPointwise
<1>4. \A i \in 1 .. Len(a) : a[i] = b[i]
  BY <1>1, <1>2, <1>3
<1> QED  BY <1>4, PrefixPointwise

LEMMA NodeFacts ==
    ASSUME NEW n \in Nodes
    PROVE  n.url \in Seq(Parts) /\ n.handler \in Handlers
           /\ (n.type # "none" <=> n.handler \in Typed)
  BY DEF Nodes

\* The list after httpd_regist: as before, or with one more in front.
LEMMA RegistShape ==
    ASSUME NEW list \in Seq(Nodes), NEW n \in Nodes
    PROVE  /\ Regist(list, n) \in Seq(Nodes)
           /\ \/ /\ \E p \in 1 .. Len(list) : list[p].url = n.url
                 /\ Len(Regist(list, n)) = Len(list)
                 /\ \A p \in 1 .. Len(list) : Regist(list, n)[p].url = list[p].url
              \/ /\ ~ \E p \in 1 .. Len(list) : list[p].url = n.url
                 /\ Len(Regist(list, n)) = Len(list) + 1
                 /\ Regist(list, n)[1] = n
                 /\ \A p \in 1 .. Len(list) : Regist(list, n)[p + 1] = list[p]
<1> DEFINE found == \E p \in 1 .. Len(list) : list[p].url = n.url
           new == [p \in 1 .. Len(list) |-> IF list[p].url = n.url THEN n ELSE list[p]]
<1>0. Len(list) \in Nat /\ \A p \in 1 .. Len(list) : list[p] \in Nodes
  BY LenProperties, ElementOfSeq
<1>1. CASE found
  <2>1. Regist(list, n) = new
    BY <1>1 DEF Regist
  <2>2. new \in [1 .. Len(list) -> Nodes]
    BY <1>0
  <2>3. new \in Seq(Nodes) /\ DOMAIN new = 1 .. Len(list)
    BY <1>0, <2>2, SeqDef
  <2>4. Len(new) = Len(list)
    BY <1>0, <2>3, LenProperties
  <2>5. \A p \in 1 .. Len(list) : new[p].url = list[p].url
    OBVIOUS
  <2> HIDE DEF new
  <2> QED  BY <1>1, <2>1, <2>3, <2>4, <2>5
<1>2. CASE ~ found
  <2>1. Regist(list, n) = <<n>> \o list
    BY <1>2 DEF Regist
  <2>2. <<n>> \in Seq(Nodes) /\ Len(<<n>>) = 1 /\ <<n>>[1] = n
    OBVIOUS
  <2>3. /\ <<n>> \o list \in Seq(Nodes)
        /\ Len(<<n>> \o list) = 1 + Len(list)
        /\ \A i \in 1 .. 1 + Len(list) :
              (<<n>> \o list)[i] = IF i <= 1 THEN <<n>>[i] ELSE list[i - 1]
    BY <2>2, ConcatProperties
  <2>4. (<<n>> \o list)[1] = n /\ \A p \in 1 .. Len(list) : (<<n>> \o list)[p + 1] = list[p]
    BY <1>0, <2>2, <2>3
  <2> QED  BY <1>0, <1>2, <2>1, <2>3, <2>4
<1> QED  BY <1>1, <1>2

\* httpd_regist hides nothing, if the new URL is no prefix of another.
LEMMA RegistHidesNothing ==
    ASSUME NEW list \in Seq(Nodes), NEW n \in Nodes, NothingHidden(list),
           n.url \in SetupUrls \cup LateUrls,
           \/ \E p \in 1 .. Len(list) : list[p].url = n.url
           \/ \A p \in 1 .. Len(list) : ~ IsPrefix(n.url, list[p].url)
    PROVE  /\ NothingHidden(Regist(list, n))
           /\ {Regist(list, n)[p].url : p \in 1 .. Len(Regist(list, n))} =
                  {list[p].url : p \in 1 .. Len(list)} \cup {n.url}
<1> DEFINE new == Regist(list, n)
           found == \E p \in 1 .. Len(list) : list[p].url = n.url
<1>0. Len(list) \in Nat
  BY LenProperties
<1>1. CASE found
  <2>1. Len(new) = Len(list) /\ \A p \in 1 .. Len(list) : new[p].url = list[p].url
    BY <1>1, RegistShape
  <2> HIDE DEF new
  <2>2. NothingHidden(new)
    BY <2>1 DEF NothingHidden
  <2>3. {new[p].url : p \in 1 .. Len(new)} = {list[p].url : p \in 1 .. Len(list)}
    BY <2>1
  <2> QED  BY <1>1, <2>2, <2>3 DEF new
<1>2. CASE ~ found
  <2>1. /\ Len(new) = Len(list) + 1 /\ new[1] = n
        /\ \A p \in 1 .. Len(list) : new[p + 1] = list[p]
    BY <1>2, RegistShape
  <2> HIDE DEF new
  <2>2. \A p \in 1 .. Len(new) : p = 1 \/ (p - 1 \in 1 .. Len(list) /\ new[p] = list[p - 1])
    <3> SUFFICES ASSUME NEW p \in 1 .. Len(new), p # 1
                 PROVE  p - 1 \in 1 .. Len(list) /\ new[p] = list[p - 1]
      OBVIOUS
    <3>1. p - 1 \in 1 .. Len(list) /\ (p - 1) + 1 = p
      BY <1>0, <2>1
    <3> QED  BY <2>1, <3>1
  <2>3. ASSUME NEW p \in 1 .. Len(new), NEW q \in 1 .. Len(new), p < q
        PROVE  ~ IsPrefix(new[p].url, new[q].url)
    <3>1. q # 1 /\ q - 1 \in 1 .. Len(list) /\ new[q] = list[q - 1]
      BY <1>0, <2>1, <2>2, <2>3
    <3>2. CASE p = 1
      BY <1>2, <2>1, <3>1, <3>2
    <3>3. CASE p # 1
      <4>1. p - 1 \in 1 .. Len(list) /\ new[p] = list[p - 1]
        BY <2>2, <3>3
      <4>2. p - 1 < q - 1
        BY <1>0, <2>1, <2>3
      <4> QED  BY <3>1, <4>1, <4>2 DEF NothingHidden
    <3> QED  BY <3>2, <3>3
  <2>4. \A p \in 1 .. Len(new) : new[p].url \in SetupUrls \cup LateUrls
    BY <2>1, <2>2 DEF NothingHidden
  <2>5. {new[p].url : p \in 1 .. Len(new)} = {list[p].url : p \in 1 .. Len(list)} \cup {n.url}
    <3>1. \A p \in 1 .. Len(new) :
              new[p].url \in {list[k].url : k \in 1 .. Len(list)} \cup {n.url}
      BY <2>1, <2>2
    <3>2. \A p \in 1 .. Len(list) : p + 1 \in 1 .. Len(new) /\ new[p + 1].url = list[p].url
      BY <1>0, <2>1
    <3>3. 1 \in 1 .. Len(new) /\ new[1].url = n.url
      BY <1>0, <2>1
    <3>4. {new[p].url : p \in 1 .. Len(new)} \subseteq
              {list[p].url : p \in 1 .. Len(list)} \cup {n.url}
      BY <3>1
    <3>5. {list[p].url : p \in 1 .. Len(list)} \subseteq {new[p].url : p \in 1 .. Len(new)}
      <4> SUFFICES ASSUME NEW p \in 1 .. Len(list)
                   PROVE  list[p].url \in {new[k].url : k \in 1 .. Len(new)}
        OBVIOUS
      <4>1. p + 1 \in 1 .. Len(new) /\ new[p + 1].url = list[p].url
        BY <3>2
      <4>2. PICK k \in 1 .. Len(new) : new[k].url = list[p].url
        BY <4>1
      <4> QED  BY <4>2
    <3>6. n.url \in {new[p].url : p \in 1 .. Len(new)}
      BY <3>3
    <3> QED  BY <3>4, <3>5, <3>6
  <2>6. NothingHidden(new)
    BY <2>3, <2>4 DEF NothingHidden
  <2> QED  BY <2>5, <2>6 DEF new
<1> QED  BY <1>1, <1>2

LEMMA TupleFacts ==
    ASSUME NEW S, NEW v \in S, NEW w \in S
    PROVE  /\ <<v>> \in Seq(S) /\ Len(<<v>>) = 1 /\ <<v>>[1] = v
           /\ <<v, w>> \in Seq(S) /\ Len(<<v, w>>) = 2
           /\ <<v, w>>[1] = v /\ <<v, w>>[2] = w
  OBVIOUS

\* After setup().
LEMMA SetupList ==
    /\ AtSetup \in Seq(Nodes)
    /\ NothingHidden(AtSetup)
    /\ SetupUrls \subseteq {AtSetup[p].url : p \in 1 .. Len(AtSetup)}
<1> DEFINE n1 == SetupNodes[1]
           n2 == SetupNodes[2]
           n3 == SetupNodes[3]
           n4 == SetupNodes[4]
           Urls(list) == {list[p].url : p \in 1 .. Len(list)}
           Good(list) == list \in Seq(Nodes) /\ NothingHidden(list)
<1>0. "/" \in Parts /\ "ssid" \in Parts /\ "reset" \in Parts /\ "rtc" \in Parts
  BY HttpdAssumption
<1>1. /\ n1 = [url |-> <<"/">>, type |-> "html", handler |-> "web_system"]
      /\ n2 = [url |-> <<"/", "ssid">>, type |-> "none", handler |-> "web_ssid"]
      /\ n3 = [url |-> <<"/", "reset">>, type |-> "none", handler |-> "web_reset"]
      /\ n4 = [url |-> <<"/", "rtc">>, type |-> "plain", handler |-> "web_rtc"]
      /\ Len(SetupNodes) = 4
  BY DEF SetupNodes, Node, Root
<1>2. n1 \in Nodes /\ n2 \in Nodes /\ n3 \in Nodes /\ n4 \in Nodes
  <2>1. /\ <<"/">> \in Seq(Parts) /\ <<"/", "ssid">> \in Seq(Parts)
        /\ <<"/", "reset">> \in Seq(Parts) /\ <<"/", "rtc">> \in Seq(Parts)
    BY <1>0, TupleFacts
  <2>2. ASSUME NEW u \in Seq(Parts), NEW t \in {"html", "plain", "none"}, NEW h \in Handlers,
               t # "none" <=> h \in Typed
        PROVE  [url |-> u, type |-> t, handler |-> h] \in Nodes
    BY <2>2 DEF Nodes
  <2>3. "web_system" \in Handlers /\ "web_system" \in Typed
        /\ "web_rtc" \in Handlers /\ "web_rtc" \in Typed
        /\ "web_ssid" \in Handlers /\ "web_ssid" \notin Typed
        /\ "web_reset" \in Handlers /\ "web_reset" \notin Typed
    BY DEF Handlers, Typed
  <2> HIDE DEF n1, n2, n3, n4
  <2>4. n1 \in Nodes
    BY <1>1, <2>1, <2>2, <2>3
  <2>5. n2 \in Nodes
    BY <1>1, <2>1, <2>2, <2>3
  <2>6. n3 \in Nodes
    BY <1>1, <2>1, <2>2, <2>3
  <2>7. n4 \in Nodes
    BY <1>1, <2>1, <2>2, <2>3
  <2> QED  BY <2>4, <2>5, <2>6, <2>7
<1>3. SetupUrls = {n1.url, n2.url, n3.url, n4.url}
  <2>1. 1 .. Len(SetupNodes) = {1, 2, 3, 4}
    BY <1>1
  <2> QED  BY <2>1 DEF SetupUrls
<1>4. /\ n1.url \in Seq(Parts) /\ Len(n1.url) = 1
      /\ n2.url \in Seq(Parts) /\ Len(n2.url) = 2 /\ n2.url[2] = "ssid"
      /\ n3.url \in Seq(Parts) /\ Len(n3.url) = 2 /\ n3.url[2] = "reset"
      /\ n4.url \in Seq(Parts) /\ Len(n4.url) = 2 /\ n4.url[2] = "rtc"
  <2> HIDE DEF n1, n2, n3, n4
  <2>3. n1.url = <<"/">> /\ n2.url = <<"/", "ssid">>
        /\ n3.url = <<"/", "reset">> /\ n4.url = <<"/", "rtc">>
    BY <1>1
  <2> QED  BY <1>0, <2>3, TupleFacts
<1> HIDE DEF n1, n2, n3, n4
<1>5. /\ ~ IsPrefix(n2.url, n1.url)
      /\ ~ IsPrefix(n3.url, n1.url) /\ ~ IsPrefix(n3.url, n2.url)
      /\ ~ IsPrefix(n4.url, n1.url) /\ ~ IsPrefix(n4.url, n2.url) /\ ~ IsPrefix(n4.url, n3.url)
  <2>1. 2 \in 1 .. 2 /\ "ssid" # "reset" /\ "ssid" # "rtc" /\ "reset" # "rtc"
    OBVIOUS
  <2>2. ~ IsPrefix(n2.url, n1.url) /\ ~ IsPrefix(n3.url, n1.url) /\ ~ IsPrefix(n4.url, n1.url)
    BY <1>4, PrefixPointwise
  <2>a. ASSUME NEW u \in Seq(Parts), NEW w \in Seq(Parts), Len(u) = 2, u[2] # w[2]
        PROVE  ~ IsPrefix(u, w)
    BY <2>1, <2>a, PrefixPointwise
  <2>3. ~ IsPrefix(n3.url, n2.url)
    BY <1>4, <2>1, <2>a
  <2>4. ~ IsPrefix(n4.url, n2.url)
    BY <1>4, <2>1, <2>a
  <2>5. ~ IsPrefix(n4.url, n3.url)
    BY <1>4, <2>1, <2>a
  <2> QED  BY <2>2, <2>3, <2>4, <2>5
<1>6. ASSUME NEW list, Good(list), NEW n \in Nodes, n.url \in SetupUrls,
             \A u \in Urls(list) : ~ IsPrefix(n.url, u)
      PROVE  Good(Regist(list, n)) /\ Urls(Regist(list, n)) = Urls(list) \cup {n.url}
  <2>1. ASSUME NEW p \in 1 .. Len(list)
        PROVE  ~ IsPrefix(n.url, list[p].url)
    <3>1. list[p].url \in Urls(list)
      OBVIOUS
    <3> HIDE DEF Urls, Good
    <3> QED  BY <1>6, <3>1
  <2>2. list \in Seq(Nodes) /\ NothingHidden(list)
    BY <1>6
  <2>3. Regist(list, n) \in Seq(Nodes)
    BY <1>6, <2>2, RegistShape
  <2>4. NothingHidden(Regist(list, n)) /\ Urls(Regist(list, n)) = Urls(list) \cup {n.url}
    <3>1. n.url \in SetupUrls \cup LateUrls
      BY <1>6
    <3> HIDE DEF SetupUrls
    <3> QED  BY <1>6, <2>1, <2>2, <3>1, RegistHidesNothing
  <2> QED  BY <2>3, <2>4
<1>7. Good(<< >>) /\ Urls(<< >>) = {}
  <2>1. Len(<< >>) = 0 /\ << >> \in Seq(Nodes) /\ 1 .. 0 = {}
    OBVIOUS
  <2> QED  BY <2>1 DEF NothingHidden
<1> HIDE DEF Good, Urls
<1>8. PICK l1 : l1 = Regist(<< >>, n1)
  OBVIOUS
<1>9. Good(l1) /\ Urls(l1) = {n1.url}
  BY <1>2, <1>3, <1>6, <1>7, <1>8
<1>10. PICK l2 : l2 = Regist(l1, n2)
  OBVIOUS
<1>11. Good(l2) /\ Urls(l2) = {n1.url, n2.url}
  BY <1>2, <1>3, <1>5, <1>6, <1>9, <1>10
<1>12. PICK l3 : l3 = Regist(l2, n3)
  OBVIOUS
<1>13. Good(l3) /\ Urls(l3) = {n1.url, n2.url, n3.url}
  BY <1>2, <1>3, <1>5, <1>6, <1>11, <1>12
<1>14. AtSetup = Regist(l3, n4)
  BY <1>8, <1>10, <1>12 DEF AtSetup, n1, n2, n3, n4
<1>15. Good(AtSetup) /\ Urls(AtSetup) = {n1.url, n2.url, n3.url, n4.url}
  BY <1>2, <1>3, <1>5, <1>6, <1>13, <1>14
<1> QED  BY <1>3, <1>15 DEF Good, Urls

\* The first match is the longest.
LEMMA FirstIsLongest ==
    ASSUME IInv
    PROVE  LongestPrefixWins
<1> SUFFICES ASSUME NEW r \in Requests, Matches(r.url) # {}, NEW p \in Matches(r.url)
             PROVE  Len(handlers[p].url) <= Len(Dispatch(r.url).url)
  BY DEF LongestPrefixWins
<1> DEFINE u == r.url
           M == Matches(u)
           d == CHOOSE k \in M : \A q \in M : k <= q
<1>1. u \in Seq(Parts)
  BY HttpdAssumption
<1>2. handlers \in Seq(Nodes) /\ NothingHidden(handlers)
  BY DEF IInv, TypeOK, HttpdInv, HandlersInv
<1>3. Len(handlers) \in Nat /\ \A k \in 1 .. Len(handlers) : handlers[k] \in Nodes
  BY <1>2, LenProperties, ElementOfSeq
<1>4. M \subseteq 1 .. Len(handlers) /\ \A k \in M : IsPrefix(handlers[k].url, u)
  BY DEF Matches
<1>5. d \in M /\ d <= p
  <2>1. M \subseteq Nat
    BY <1>3, <1>4
  <2>2. \E k \in M : \A q \in M : k <= q
    BY <2>1, FirstOf
  <2> QED  BY <2>2
<1>6. Dispatch(u) = handlers[d]
  BY DEF Dispatch
<1> HIDE DEF d, M, u
<1>7. /\ handlers[d].url \in Seq(Parts) /\ handlers[p].url \in Seq(Parts)
      /\ Len(handlers[d].url) \in Nat /\ Len(handlers[p].url) \in Nat
  <2>1. p \in M
    BY DEF M, u
  <2> QED  BY <1>3, <1>4, <1>5, <2>1, NodeFacts, LenProperties
<1>8. ASSUME ~ (Len(handlers[p].url) <= Len(handlers[d].url))
      PROVE  FALSE
  <2>1. p \in M
    BY DEF M, u
  <2>2. IsPrefix(handlers[d].url, handlers[p].url)
    BY <1>1, <1>4, <1>5, <1>7, <1>8, <2>1, PrefixesNest
  <2>3. d # p
    BY <1>7, <1>8
  <2>4. d < p /\ d \in 1 .. Len(handlers) /\ p \in 1 .. Len(handlers)
    BY <1>3, <1>4, <1>5, <2>1, <2>3
  <2> QED  BY <1>2, <2>2, <2>4 DEF NothingHidden
<1> QED  BY <1>6, <1>8 DEF u

-----------------------------------------------------------------------------
(***************************************************************************)
(* A run of a handler.                                                     *)
(***************************************************************************)

LEMMA PageFacts ==
    ASSUME NEW h \in Typed
    PROVE  Lines(h) \in Nat \ {0} /\ h \in Handlers
  BY HttpdAssumption DEF Lines, Typed, Handlers

\* Chunks one after the other.
Chunks(line, n) == [k \in 1 .. n |-> Chunk(line + k)]

LEMMA ChunkFacts ==
    ASSUME NEW line \in Nat, NEW n \in Nat
    PROVE  /\ Chunks(line, n) \in Seq(Items)
           /\ Len(Chunks(line, n)) = n
           /\ \A j \in 1 .. n : Chunks(line, n)[j] = Chunk(line + j)
<1>1. \A k \in Nat : Chunk(k) \in Items
  BY DEF Chunk, Items
<1>2. \A k \in 1 .. n : line + k \in Nat
  OBVIOUS
<1>3. Chunks(line, n) \in [1 .. n -> Items]
  BY <1>1, <1>2 DEF Chunks
<1>4. Chunks(line, n) \in Seq(Items) /\ DOMAIN Chunks(line, n) = 1 .. n
  BY <1>3, SeqDef
<1>5. Len(Chunks(line, n)) = n
  BY <1>4, LenProperties
<1> QED  BY <1>4, <1>5 DEF Chunks

LEMMA FewChunks ==
    ASSUME NEW line \in Nat
    PROVE  Chunks(line, 0) = << >> /\ Chunks(line, 1) = <<Chunk(line + 1)>>
<1>1. 0 \in Nat /\ 1 \in Nat
  OBVIOUS
<1>2. Chunks(line, 0) \in Seq(Items) /\ Len(Chunks(line, 0)) = 0
  BY <1>1, ChunkFacts
<1>3. Chunks(line, 1) \in Seq(Items) /\ Len(Chunks(line, 1)) = 1
  BY <1>1, ChunkFacts
<1>4. Chunks(line, 1)[1] = Chunk(line + 1)
  BY DEF Chunks
<1>5. Chunk(line + 1) \in Items
  BY DEF Chunk, Items
<1>6. PICK s : s = <<Chunk(line + 1)>>
  OBVIOUS
<1>7. s \in Seq(Items) /\ Len(s) = 1 /\ s[1] = Chunk(line + 1)
  BY <1>5, <1>6, TupleFacts
<1>8. \A i \in 1 .. 1 : i = 1
  OBVIOUS
<1>9. Chunks(line, 1) = s
  BY <1>3, <1>4, <1>7, <1>8, SeqEqual
<1>10. Chunks(line, 0) = << >>
  BY <1>2, EmptySeq
<1> QED  BY <1>6, <1>9, <1>10

\* A page: some chunks, and the line of the last; the end only at the page's.
PageResult(x, room, r) ==
    /\ \E n \in 0 .. room : r.items = Chunks(x.line, n) /\ r.line = x.line + n
    /\ r.line <= Lines(x.handler)
    /\ r.more \in BOOLEAN
    /\ ~ r.more => r.line = Lines(x.handler)
    /\ r.file = file /\ r.armed = armed

LEMMA PageCall ==
    ASSUME NEW x \in Contexts, x.handler \in Typed, x.line <= Lines(x.handler),
           NEW room \in Nat, NEW opened \in BOOLEAN
    PROVE  PageResult(x, room, Call(x, room, opened))
<1>0. x.line \in Nat /\ Lines(x.handler) \in Nat
  BY PageFacts DEF Contexts
<1>r. PICK r : r = Call(x, room, opened)
  OBVIOUS
<1>1. CASE x.handler = "web_system"
  <2> DEFINE n == IF PageLines - x.line < room THEN PageLines - x.line ELSE room
  <2>1. r = web_system(x.line, room) /\ Lines(x.handler) = PageLines
    BY <1>1, <1>r DEF Call, Lines
  <2>2. n \in 0 .. room /\ x.line + n <= PageLines
    BY <1>0, <2>1
  <2>3. /\ r.items = Chunks(x.line, n)
        /\ r.line = x.line + n
        /\ r.file = file /\ r.armed = armed
    BY <2>1 DEF web_system, Result, Chunks
  <2>a. r.more <=> x.line + n < PageLines
    BY <2>1 DEF web_system, Result
  <2>b. r.more \in BOOLEAN
    BY <2>1 DEF web_system, Result
  <2> HIDE DEF n
  <2>4. CASE x.line + n < PageLines
    <3>1. r.more
      BY <2>a, <2>4
    <3> QED  BY <1>r, <2>b, <2>1, <2>2, <2>3, <3>1 DEF PageResult
  <2>5. CASE ~ (x.line + n < PageLines)
    <3>1. ~ r.more
      BY <2>a, <2>5
    <3>2. r.line = Lines(x.handler)
      BY <1>0, <2>1, <2>2, <2>3, <2>5
    <3> QED  BY <1>0, <1>r, <2>b, <2>2, <2>3, <3>1, <3>2 DEF PageResult
  <2> QED  BY <2>4, <2>5
<1>2. CASE x.handler = "web_rtc"
  <2>1. r = web_rtc(x.line, room) /\ Lines(x.handler) = RtcLines
    BY <1>2, <1>r DEF Call, Lines
  <2>2. Chunks(x.line, 0) = << >> /\ Chunks(x.line, 1) = <<Chunk(x.line + 1)>>
    BY <1>0, FewChunks
  <2>3. CASE x.line >= RtcLines
    <3>1. /\ r.items = Chunks(x.line, 0) /\ r.line = x.line /\ r.more = FALSE
          /\ r.file = file /\ r.armed = armed
      BY <2>1, <2>2, <2>3 DEF web_rtc, Result
    <3>2. 0 \in 0 .. room /\ x.line = x.line + 0
      BY <1>0
    <3>3. r.line = Lines(x.handler)
      BY <1>0, <2>1, <2>3, <3>1
    <3> QED  BY <1>0, <1>r, <3>1, <3>2, <3>3 DEF PageResult
  <2>4. CASE ~ (x.line >= RtcLines) /\ room = 0
    <3>1. /\ r.items = Chunks(x.line, 0) /\ r.line = x.line /\ r.more = TRUE
          /\ r.file = file /\ r.armed = armed
      BY <2>1, <2>2, <2>4 DEF web_rtc, Result
    <3>2. 0 \in 0 .. room /\ x.line = x.line + 0
      BY <1>0
    <3> QED  BY <1>0, <1>r, <3>1, <3>2 DEF PageResult
  <2>5. CASE ~ (x.line >= RtcLines) /\ room # 0
    <3>1. /\ r.items = Chunks(x.line, 1) /\ r.line = x.line + 1 /\ r.more = TRUE
          /\ r.file = file /\ r.armed = armed
      BY <2>1, <2>2, <2>5 DEF web_rtc, Result
    <3>2. 1 \in 0 .. room
      BY <2>5
    <3>3. r.line <= Lines(x.handler)
      BY <1>0, <2>1, <2>5, <3>1
    <3> QED  BY <1>r, <3>1, <3>2, <3>3 DEF PageResult
  <2> QED  BY <2>3, <2>4, <2>5
<1> QED  BY <1>1, <1>2 DEF Typed

\* A form or the restart: at most the redirect, and it hangs up.
FormResult(x, room, opened, r) ==
    /\ r.items \in Seq(Items) /\ Len(r.items) <= room
    /\ \A k \in 1 .. Len(r.items) : r.items[k] = Redirect
    /\ r.line = x.line
    /\ r.more = FALSE
    /\ r.file = IF x.handler = "web_ssid" /\ opened THEN <<x.value>> ELSE file
    /\ r.armed \in BOOLEAN

LEMMA RedirectFacts ==
    ASSUME NEW room \in Nat
    PROVE  /\ httpd_redirect(room) \in Seq(Items) /\ Len(httpd_redirect(room)) <= room
           /\ \A k \in 1 .. Len(httpd_redirect(room)) : httpd_redirect(room)[k] = Redirect
<1>1. PICK s : s = httpd_redirect(room)
  OBVIOUS
<1>2. CASE room = 0
  <2>1. s = << >>
    BY <1>1, <1>2 DEF httpd_redirect
  <2>2. s \in Seq(Items) /\ Len(s) = 0
    BY <2>1
  <2>3. 1 .. Len(s) = {}
    BY <2>2
  <2> QED  BY <1>1, <1>2, <2>2, <2>3
<1>3. CASE room # 0
  <2>1. s = <<Redirect>>
    BY <1>1, <1>3 DEF httpd_redirect
  <2>2. Redirect \in Items
    BY DEF Redirect, Items
  <2>3. s \in Seq(Items) /\ Len(s) = 1 /\ s[1] = Redirect
    BY <2>1, <2>2, TupleFacts
  <2>4. Len(s) <= room /\ \A k \in 1 .. Len(s) : s[k] = Redirect
    BY <1>3, <2>3
  <2> QED  BY <1>1, <2>3, <2>4
<1> QED  BY <1>2, <1>3

LEMMA FormCall ==
    ASSUME NEW x \in Contexts, x.handler \notin Typed, armed \in BOOLEAN,
           NEW room \in Nat, NEW opened \in BOOLEAN
    PROVE  FormResult(x, room, opened, Call(x, room, opened))
<1>1. x.handler \in {"web_ssid", "web_reset"}
  BY DEF Contexts, Handlers
<1>2. PICK r : r = Call(x, room, opened)
  OBVIOUS
<1>3. CASE x.handler = "web_ssid"
  <2>1. r = web_ssid(x.value, x.line, room, opened)
    BY <1>2, <1>3 DEF Call
  <2>2. /\ r.items = httpd_redirect(room) /\ r.line = x.line /\ r.more = FALSE
        /\ r.file = (IF opened THEN <<x.value>> ELSE file) /\ r.armed = armed
    BY <2>1 DEF web_ssid, Result
  <2> QED  BY <1>2, <1>3, <2>2, RedirectFacts DEF FormResult
<1>4. CASE x.handler = "web_reset"
  <2>1. r = web_reset(x.line, room)
    BY <1>2, <1>4 DEF Call
  <2>2. /\ r.items = httpd_redirect(room) /\ r.line = x.line /\ r.more = FALSE
        /\ r.file = file /\ r.armed = TRUE
    BY <2>1 DEF web_reset, Result
  <2> QED  BY <1>2, <1>4, <2>2, RedirectFacts DEF FormResult
<1> QED  BY <1>1, <1>3, <1>4

\* What a run on connection c does.
Ran(c, x, o, items, line, more) ==
    /\ Len(items) <= (IF st[c] = "open" THEN Cap - o ELSE 0)
    /\ ctx' = [ctx EXCEPT ![c] = [x EXCEPT !.line = line]]
    /\ wire' = [wire EXCEPT ![c] = @ \o items]
    /\ out' = [out EXCEPT ![c] = o + Len(items)]
    /\ st' = [st EXCEPT ![c] = IF more THEN @ ELSE "closing"]
    /\ armed' \in BOOLEAN
    /\ x.handler \in Typed =>
           /\ line = x.line + Len(items) /\ line <= Lines(x.handler)
           /\ ~ more => line = Lines(x.handler)
           /\ \A k \in 1 .. Len(items) : items[k] = Chunk(x.line + k)
    /\ x.handler \notin Typed =>
           /\ line = x.line /\ more = FALSE
           /\ \A k \in 1 .. Len(items) : items[k] = Redirect
    /\ \/ file' = file /\ saver' = saver
       \/ x.handler = "web_ssid" /\ file' = <<x.value>> /\ saver' = c

LEMMA RunFacts ==
    ASSUME TypeOK, NEW c \in Conns, NEW x \in Contexts, NEW o \in 0 .. Cap,
           x.handler \in Typed => x.line <= Lines(x.handler),
           Run(c, x, o)
    PROVE  \E items \in Seq(Items), line \in Nat, more \in BOOLEAN :
               Ran(c, x, o, items, line, more)
<1> DEFINE room == IF st[c] = "open" THEN Cap - o ELSE 0
<1>0. room \in Nat /\ x.line \in Nat
  BY HttpdAssumption DEF Contexts
<1>1. PICK opened \in BOOLEAN :
          /\ ctx' = [ctx EXCEPT ![c] = [x EXCEPT !.line = Call(x, room, opened).line]]
          /\ wire' = [wire EXCEPT ![c] = @ \o Call(x, room, opened).items]
          /\ out' = [out EXCEPT ![c] = o + Len(Call(x, room, opened).items)]
          /\ st' = [st EXCEPT ![c] = IF Call(x, room, opened).more THEN @ ELSE "closing"]
          /\ file' = Call(x, room, opened).file
          /\ armed' = Call(x, room, opened).armed
          /\ saver' = IF x.handler = "web_ssid" /\ opened THEN c ELSE saver
  BY DEF Run
<1>2. PICK r : r = Call(x, room, opened)
  OBVIOUS
<1>3. /\ ctx' = [ctx EXCEPT ![c] = [x EXCEPT !.line = r.line]]
      /\ wire' = [wire EXCEPT ![c] = @ \o r.items]
      /\ out' = [out EXCEPT ![c] = o + Len(r.items)]
      /\ st' = [st EXCEPT ![c] = IF r.more THEN @ ELSE "closing"]
      /\ file' = r.file
      /\ armed' = r.armed
      /\ saver' = IF x.handler = "web_ssid" /\ opened THEN c ELSE saver
  BY <1>1, <1>2
<1> HIDE DEF room
<1>4. CASE x.handler \in Typed
  <2>0. PageResult(x, room, r)
    BY <1>0, <1>2, <1>4, PageCall
  <2>1. PICK n \in 0 .. room : r.items = Chunks(x.line, n) /\ r.line = x.line + n
    BY <2>0 DEF PageResult
  <2>2. /\ r.line <= Lines(x.handler) /\ r.more \in BOOLEAN
        /\ ~ r.more => r.line = Lines(x.handler)
        /\ r.file = file /\ r.armed = armed
    BY <2>0 DEF PageResult
  <2>3. /\ r.items \in Seq(Items) /\ Len(r.items) = n
        /\ \A k \in 1 .. n : r.items[k] = Chunk(x.line + k)
    <3>1. n \in Nat /\ x.line \in Nat
      BY <1>0
    <3>2. /\ Chunks(x.line, n) \in Seq(Items) /\ Len(Chunks(x.line, n)) = n
          /\ \A k \in 1 .. n : Chunks(x.line, n)[k] = Chunk(x.line + k)
      BY <3>1, ChunkFacts
    <3> QED  BY <2>1, <3>2
  <2>4. x.handler # "web_ssid"
    BY <1>4 DEF Typed
  <2>5. n <= room /\ r.line \in Nat
    BY <1>0, <2>1
  <2>6. Ran(c, x, o, r.items, r.line, r.more)
    BY <1>3, <1>4, <2>1, <2>2, <2>3, <2>4, <2>5 DEF Ran, TypeOK, room
  <2> QED  BY <2>2, <2>3, <2>5, <2>6
<1>5. CASE x.handler \notin Typed
  <2>1. /\ r.items \in Seq(Items) /\ Len(r.items) <= room
        /\ \A k \in 1 .. Len(r.items) : r.items[k] = Redirect
        /\ r.line = x.line
        /\ r.more = FALSE
        /\ r.file = IF x.handler = "web_ssid" /\ opened THEN <<x.value>> ELSE file
        /\ r.armed \in BOOLEAN
    <3>1. armed \in BOOLEAN
      BY DEF TypeOK
    <3>2. FormResult(x, room, opened, r)
      BY <1>0, <1>2, <1>5, <3>1, FormCall
    <3> QED  BY <3>2 DEF FormResult
  <2>2. Ran(c, x, o, r.items, r.line, r.more)
    BY <1>3, <1>5, <2>1 DEF Ran, room
  <2> QED  BY <1>0, <2>1, <2>2
<1> QED  BY <1>4, <1>5

-----------------------------------------------------------------------------
(***************************************************************************)
(* The steps.                                                              *)
(***************************************************************************)

LEMMA KindFacts ==
    /\ NoCtx.handler = "none" /\ "none" \notin Handlers
    /\ Typed \subseteq Handlers
    /\ "web_ssid" \in Handlers \ Typed
    /\ \A x \in Contexts : x.handler \in Handlers /\ x # NoCtx
  BY DEF NoCtx, Handlers, Typed, Contexts

\* Kept while one connection changes and the list does not.
LEMMA HandlersKept ==
    ASSUME IInv, UNCHANGED handlers
    PROVE  HandlersInv'
  BY DEF IInv, HttpdInv, HandlersInv, NothingHidden

\* Is ChunksInOrder true of connection c?
InOrder(w, n) ==
    \A p \in 1 .. Len(w) :
        /\ w[p][1] = "chunk" /\ w[p][2] > 1 => p > 1 /\ w[p - 1] = Chunk(w[p][2] - 1)
        /\ w[p] = Chunk(1) /\ n = 1 => p = 2 /\ w[1] = Header

LEMMA OrderOf == ChunksInOrder <=> \A c \in Conns : InOrder(wire[c], reqs[c])
  BY DEF ChunksInOrder, InOrder

LEMMA ItemFacts ==
    /\ Header \in Items /\ Redirect \in Items /\ \A k \in Nat : Chunk(k) \in Items
    /\ Header[1] # "chunk" /\ Redirect[1] # "chunk"
    /\ \A k \in Nat : Chunk(k)[1] = "chunk" /\ Chunk(k)[2] = k
    /\ \A k \in Nat : Header # Chunk(k) /\ Redirect # Chunk(k)
  BY DEF Header, Redirect, Chunk, Items

\* Items that are no chunks, behind a wire in order.
LEMMA OthersKeepOrder ==
    ASSUME NEW w \in Seq(Items), NEW v \in Seq(Items), NEW n \in Nat, InOrder(w, n),
           \A k \in 1 .. Len(v) : v[k] \in {Header, Redirect}
    PROVE  InOrder(w \o v, n)
<1> DEFINE u == w \o v
<1>1. Len(w) \in Nat /\ Len(v) \in Nat
  BY LenProperties
<1>2. /\ Len(u) = Len(w) + Len(v)
      /\ \A i \in 1 .. Len(w) + Len(v) : u[i] = IF i <= Len(w) THEN w[i] ELSE v[i - Len(w)]
  BY ConcatProperties
<1> HIDE DEF u
<1>3. SUFFICES ASSUME NEW p \in 1 .. Len(u)
               PROVE  /\ u[p][1] = "chunk" /\ u[p][2] > 1 =>
                             p > 1 /\ u[p - 1] = Chunk(u[p][2] - 1)
                      /\ u[p] = Chunk(1) /\ n = 1 => p = 2 /\ u[1] = Header
  BY DEF InOrder, u
<1>4. CASE p <= Len(w)
  <2>1. p \in 1 .. Len(w) /\ u[p] = w[p] /\ u[1] = w[1]
    BY <1>1, <1>2, <1>4
  <2>2. p > 1 => u[p - 1] = w[p - 1]
    BY <1>1, <1>2, <1>4
  <2> QED  BY <2>1, <2>2 DEF InOrder
<1>5. CASE ~ (p <= Len(w))
  <2>1. p - Len(w) \in 1 .. Len(v) /\ u[p] = v[p - Len(w)]
    BY <1>1, <1>2, <1>5
  <2>2. u[p] \in {Header, Redirect}
    BY <2>1
  <2>3. 1 \in Nat
    OBVIOUS
  <2> QED  BY <2>2, <2>3, ItemFacts
<1> QED  BY <1>4, <1>5

\* The next chunks behind the one they follow.
LEMMA ChunksKeepOrder ==
    ASSUME NEW w \in Seq(Items), NEW v \in Seq(Items), NEW n \in Nat, NEW line \in Nat,
           InOrder(w, n),
           line > 0 => w # << >> /\ Last(w) = Chunk(line),
           line = 0 /\ n = 1 => w = <<Header>>,
           \A k \in 1 .. Len(v) : v[k] = Chunk(line + k)
    PROVE  InOrder(w \o v, n)
<1> DEFINE u == w \o v
<1>1. Len(w) \in Nat /\ Len(v) \in Nat
  BY LenProperties
<1>2. /\ Len(u) = Len(w) + Len(v)
      /\ \A i \in 1 .. Len(w) + Len(v) : u[i] = IF i <= Len(w) THEN w[i] ELSE v[i - Len(w)]
  BY ConcatProperties
<1> HIDE DEF u
<1>3. SUFFICES ASSUME NEW p \in 1 .. Len(u)
               PROVE  /\ u[p][1] = "chunk" /\ u[p][2] > 1 =>
                             p > 1 /\ u[p - 1] = Chunk(u[p][2] - 1)
                      /\ u[p] = Chunk(1) /\ n = 1 => p = 2 /\ u[1] = Header
  BY DEF InOrder, u
<1>4. CASE p <= Len(w)
  <2>1. p \in 1 .. Len(w) /\ u[p] = w[p] /\ u[1] = w[1]
    BY <1>1, <1>2, <1>4
  <2>2. p > 1 => u[p - 1] = w[p - 1]
    BY <1>1, <1>2, <1>4
  <2> QED  BY <2>1, <2>2 DEF InOrder
<1>5. CASE ~ (p <= Len(w))
  <2> DEFINE k == p - Len(w)
  <2>1. k \in 1 .. Len(v) /\ u[p] = v[k] /\ p = Len(w) + k
    <3>1. p \in 1 .. Len(w) + Len(v) /\ p > Len(w)
      BY <1>1, <1>2, <1>5
    <3>2. k \in 1 .. Len(v) /\ p = Len(w) + k
      BY <1>1, <3>1
    <3> QED  BY <1>2, <1>5, <3>1, <3>2
  <2> HIDE DEF k
  <2>2. k \in Nat /\ k >= 1 /\ line + k \in Nat
    BY <2>1
  <2>3. u[p] = Chunk(line + k)
    BY <2>1
  <2>4. u[p][2] = line + k
    BY <2>2, <2>3, ItemFacts
  <2>5. ASSUME line + k > 1
        PROVE  p > 1 /\ u[p - 1] = Chunk(line + k - 1)
    <3>1. CASE k = 1
      <4>1. line > 0 /\ w # << >> /\ w[Len(w)] = Chunk(line)
        <5>1. line > 0
          BY <2>5, <3>1
        <5> QED  BY <5>1 DEF Last
      <4>2. Len(w) > 0
        BY <1>1, <4>1, EmptySeq
      <4>3. p > 1 /\ p - 1 = Len(w) /\ u[p - 1] = w[Len(w)]
        BY <1>1, <1>2, <2>1, <3>1, <4>2
      <4>4. line + k - 1 = line
        BY <3>1
      <4> QED  BY <4>1, <4>3, <4>4
    <3>2. CASE k # 1
      <4>1. k - 1 \in 1 .. Len(v) /\ p > 1 /\ p - 1 \in 1 .. Len(w) + Len(v)
            /\ ~ (p - 1 <= Len(w)) /\ (p - 1) - Len(w) = k - 1
        BY <1>1, <2>1, <2>2, <3>2
      <4>2. u[p - 1] = v[k - 1]
        BY <1>2, <4>1
      <4>3. v[k - 1] = Chunk(line + (k - 1)) /\ line + (k - 1) = line + k - 1
        BY <2>2, <4>1
      <4> QED  BY <4>1, <4>2, <4>3
    <3> QED  BY <3>1, <3>2
  <2>6. ASSUME u[p] = Chunk(1), n = 1
        PROVE  p = 2 /\ u[1] = Header
    <3>1. Chunk(1)[2] = 1
      BY ItemFacts
    <3>2. line = 0 /\ k = 1
      BY <2>2, <2>4, <2>6, <3>1
    <3>3. w = <<Header>>
      BY <2>6, <3>2
    <3>4. Len(w) = 1 /\ w[1] = Header
      BY <3>3
    <3> QED  BY <1>1, <1>2, <2>1, <3>2, <3>4
  <2>7. u[p][2] > 1 => p > 1 /\ u[p - 1] = Chunk(u[p][2] - 1)
    <3>1. PICK j : j = u[p][2]
      OBVIOUS
    <3>2. j = line + k
      BY <2>4, <3>1
    <3>3. j - 1 = line + k - 1
      BY <2>2, <3>2
    <3>4. j > 1 => p > 1 /\ u[p - 1] = Chunk(line + k - 1)
      BY <2>5, <3>2
    <3>5. j > 1 => p > 1 /\ u[p - 1] = Chunk(j - 1)
      BY <3>3, <3>4
    <3> QED  BY <3>1, <3>5
  <2> QED  BY <2>6, <2>7
<1> QED  BY <1>4, <1>5

\* A wire is kept while only the number of requests grows beyond the first.
LEMMA MoreRequests ==
    ASSUME NEW w, NEW n \in Nat, InOrder(w, n), n > 0 \/ w = << >>
    PROVE  InOrder(w, n + 1)
<1>1. CASE n > 0
  BY <1>1 DEF InOrder
<1>2. CASE w = << >>
  <2>1. Len(w) = 0
    BY <1>2
  <2> QED  BY <2>1 DEF InOrder
<1> QED  BY <1>1, <1>2

LEMMA LastOf ==
    ASSUME NEW w \in Seq(Items), NEW v \in Seq(Items), Len(v) > 0
    PROVE  w \o v # << >> /\ Last(w \o v) = v[Len(v)]
<1>1. Len(w) \in Nat /\ Len(v) \in Nat
  BY LenProperties
<1>2. /\ Len(w \o v) = Len(w) + Len(v)
      /\ \A i \in 1 .. Len(w) + Len(v) :
            (w \o v)[i] = IF i <= Len(w) THEN w[i] ELSE v[i - Len(w)]
  BY ConcatProperties
<1>3. PICK u : u = w \o v
  OBVIOUS
<1>4. PICK n : n = Len(w) + Len(v)
  OBVIOUS
<1>5. n \in 1 .. Len(w) + Len(v) /\ ~ (n <= Len(w)) /\ n - Len(w) = Len(v) /\ n > 0
  BY <1>1, <1>4
<1>6. Len(u) = n /\ u[n] = v[n - Len(w)]
  BY <1>2, <1>3, <1>4, <1>5
<1>7. u # << >>
  BY <1>5, <1>6
<1>8. u[Len(u)] = v[Len(v)]
  BY <1>5, <1>6
<1> QED  BY <1>3, <1>7, <1>8 DEF Last

(***************************************************************************)
(* A handler runs: again after an acknowledgement, or the handler of a     *)
(* form for a new request.                                                 *)
(***************************************************************************)
LEMMA RunKeeps ==
    ASSUME IInv, NEW c \in Conns, NEW x \in Contexts, NEW o \in 0 .. Cap, NEW m \in Nat,
           UNCHANGED <<handlers, cut>>,
           reqs' = [reqs EXCEPT ![c] = m],
           \/ m = reqs[c] /\ x = ctx[c] /\ st[c] \in {"open", "closing"}
           \/ m = reqs[c] + 1 /\ x.handler \notin Typed /\ st[c] = "open",
           Run(c, x, o)
    PROVE  IInv'
<1>1. /\ ctx \in [Conns -> Contexts \cup {NoCtx}] /\ wire \in [Conns -> Seq(Items)]
      /\ out \in [Conns -> 0 .. Cap] /\ reqs \in [Conns -> Nat]
      /\ st \in [Conns -> {"closed", "open", "closing", "left"}]
      /\ file \in Seq(Values) /\ saver \in Conns \cup {NoConn}
      /\ handlers \in Seq(Nodes) /\ cut \in [Conns -> BOOLEAN]
      /\ Cap \in Nat
  BY HttpdAssumption DEF IInv, TypeOK
<1>2. x.handler \in Handlers /\ x.value \in Values /\ x.line \in Nat
  BY DEF Contexts
<1>3. ContextInv /\ PageInv /\ ChunksInOrder /\ SaverInv
  BY DEF IInv, HttpdInv
<1>4. x.handler \in Typed =>
          x = ctx[c] /\ m = reqs[c] /\ x.line <= Lines(x.handler)
  BY <1>3 DEF PageInv
<1>5. PICK items \in Seq(Items), line \in Nat, more \in BOOLEAN :
          Ran(c, x, o, items, line, more)
  BY <1>4, RunFacts DEF IInv
<1>6. PICK y : y = [x EXCEPT !.line = line]
  OBVIOUS
<1>7. y \in Contexts /\ y.handler = x.handler /\ y.value = x.value /\ y.line = line
  BY <1>6 DEF Contexts
<1>8. Len(items) \in Nat /\ o + Len(items) \in 0 .. Cap
  <2>1. Len(items) \in Nat
    BY LenProperties
  <2>2. Len(items) <= (IF st[c] = "open" THEN Cap - o ELSE 0)
    BY <1>5 DEF Ran
  <2> QED  BY <1>1, <2>1, <2>2
<1>9. /\ ctx' = [ctx EXCEPT ![c] = y]
      /\ wire' = [wire EXCEPT ![c] = @ \o items]
      /\ out' = [out EXCEPT ![c] = o + Len(items)]
      /\ st' = [st EXCEPT ![c] = IF more THEN @ ELSE "closing"]
      /\ armed' \in BOOLEAN
  BY <1>5, <1>6 DEF Ran
<1>10. /\ ctx'[c] = y /\ wire'[c] = wire[c] \o items /\ out'[c] = o + Len(items)
       /\ reqs'[c] = m /\ cut'[c] = cut[c]
       /\ more => st'[c] = st[c]
       /\ ~ more => st'[c] = "closing"
  BY <1>1, <1>9
<1>11. \A d \in Conns : d # c =>
           /\ ctx'[d] = ctx[d] /\ wire'[d] = wire[d] /\ out'[d] = out[d]
           /\ reqs'[d] = reqs[d] /\ cut'[d] = cut[d] /\ st'[d] = st[d]
  BY <1>1, <1>9
<1>12. wire[c] \in Seq(Items) /\ wire[c] \o items \in Seq(Items)
  BY <1>1, ConcatProperties
<1>13. \/ file' = file /\ saver' = saver
       \/ x.handler = "web_ssid" /\ file' = <<x.value>> /\ saver' = c
  BY <1>5 DEF Ran
<1>14. reqs[c] > 0 \/ wire[c] = << >>
  BY <1>1, <1>3 DEF ContextInv
<1>15. m > 0
  <2>1. CASE m = reqs[c] /\ x = ctx[c]
    <3>1. ctx[c] # NoCtx
      BY <2>1, KindFacts
    <3> QED  BY <1>1, <1>3, <2>1, <3>1 DEF ContextInv
  <2>2. CASE m = reqs[c] + 1
    BY <1>1, <2>2
  <2> QED  BY <2>1, <2>2
<1>16. x.handler \notin Typed => ~ more /\ \A k \in 1 .. Len(items) : items[k] = Redirect
  BY <1>5 DEF Ran
<1>17. x.handler \in Typed =>
           /\ line = x.line + Len(items) /\ line <= Lines(x.handler)
           /\ ~ more => line = Lines(x.handler)
           /\ \A k \in 1 .. Len(items) : items[k] = Chunk(x.line + k)
  BY <1>5 DEF Ran
<1>20. TypeOK'
  <2>1. ctx' \in [Conns -> Contexts \cup {NoCtx}]
    BY <1>1, <1>7, <1>9
  <2>2. wire' \in [Conns -> Seq(Items)]
    BY <1>1, <1>9, <1>12
  <2>3. out' \in [Conns -> 0 .. Cap]
    BY <1>1, <1>8, <1>9
  <2>4. st' \in [Conns -> {"closed", "open", "closing", "left"}]
    BY <1>1, <1>9
  <2>5. reqs' \in [Conns -> Nat] /\ cut' \in [Conns -> BOOLEAN] /\ handlers' \in Seq(Nodes)
    BY <1>1
  <2>6. file' \in Seq(Values) /\ saver' \in Conns \cup {NoConn}
    <3>1. <<x.value>> \in Seq(Values)
      BY <1>2, TupleFacts
    <3> QED  BY <1>1, <1>13, <3>1
  <2> QED  BY <1>9, <2>1, <2>2, <2>3, <2>4, <2>5, <2>6 DEF TypeOK
<1>21. HandlersInv'
  BY HandlersKept
<1>22. ContextInv'
  <2> SUFFICES ASSUME NEW d \in Conns
               PROVE  /\ st'[d] = "closed" => reqs'[d] = 0
                      /\ reqs'[d] = 0 => ctx'[d] = NoCtx /\ wire'[d] = << >> /\ out'[d] = 0
                      /\ out'[d] > 0 => ctx'[d] # NoCtx
                      /\ ctx'[d].handler \in Handlers \ Typed => st'[d] = "closing"
    BY DEF ContextInv
  <2>1. CASE d # c
    BY <1>3, <1>11, <2>1 DEF ContextInv
  <2>2. CASE d = c
    <3>1. st'[c] # "closed"
      BY <1>10
    <3>2. reqs'[c] # 0
      BY <1>10, <1>15
    <3>3. ctx'[c] # NoCtx
      BY <1>7, <1>10, KindFacts
    <3>4. ctx'[c].handler \in Handlers \ Typed => st'[c] = "closing"
      BY <1>7, <1>10, <1>16
    <3> QED  BY <2>2, <3>1, <3>2, <3>3, <3>4
  <2> QED  BY <2>1, <2>2
<1>23. PageInv'
  <2> SUFFICES ASSUME NEW d \in Conns, ctx'[d].handler \in Typed
               PROVE  /\ ctx'[d].line <= Lines(ctx'[d].handler)
                      /\ ctx'[d].line > 0 =>
                             wire'[d] # << >> /\ Last(wire'[d]) = Chunk(ctx'[d].line)
                      /\ ctx'[d].line = 0 /\ reqs'[d] = 1 => wire'[d] = <<Header>>
                      /\ st'[d] = "closing" /\ ~ cut'[d] =>
                             ctx'[d].line = Lines(ctx'[d].handler)
    BY DEF PageInv, Lines, Last, Chunk, Header
  <2>1. CASE d # c
    BY <1>3, <1>11, <2>1 DEF PageInv
  <2>2. CASE d = c
    <3>0. x.handler \in Typed /\ ctx'[c].handler = x.handler /\ ctx'[c].line = line
      BY <1>7, <1>10, <2>2
    <3>1. /\ x = ctx[c] /\ m = reqs[c]
          /\ line = x.line + Len(items) /\ line <= Lines(x.handler)
          /\ ~ more => line = Lines(x.handler)
          /\ \A k \in 1 .. Len(items) : items[k] = Chunk(x.line + k)
      BY <1>4, <1>17, <3>0
    <3>2. /\ x.line > 0 => wire[c] # << >> /\ Last(wire[c]) = Chunk(x.line)
          /\ x.line = 0 /\ reqs[c] = 1 => wire[c] = <<Header>>
          /\ st[c] = "closing" /\ ~ cut[c] => x.line = Lines(x.handler)
      BY <1>3, <3>0, <3>1 DEF PageInv
    <3>3. CASE Len(items) = 0
      <4>1. items = << >> /\ wire'[c] = wire[c] /\ line = x.line
        <5>1. items = << >>
          BY <3>3, EmptySeq
        <5> QED  BY <1>2, <1>10, <1>12, <3>1, <3>3, <5>1, ConcatEmptySeq
      <4> QED  BY <1>10, <2>2, <3>0, <3>1, <3>2, <4>1
    <3>4. CASE Len(items) # 0
      <4>1. Len(items) > 0 /\ line > 0
        BY <1>2, <1>8, <3>1, <3>4
      <4>2. wire'[c] # << >> /\ Last(wire'[c]) = Chunk(line)
        <5>1. wire'[c] # << >> /\ Last(wire'[c]) = items[Len(items)]
          BY <1>10, <1>12, <4>1, LastOf
        <5>2. items[Len(items)] = Chunk(x.line + Len(items))
          BY <1>8, <3>1, <4>1
        <5> QED  BY <3>1, <5>1, <5>2
      <4>3. st[c] = "closing" => FALSE
        BY <1>5, <1>8, <4>1 DEF Ran
      <4>4. st'[c] = "closing" => line = Lines(x.handler)
        BY <1>10, <3>1, <4>3
      <4> QED  BY <2>2, <3>0, <3>1, <4>1, <4>2, <4>4
    <3> QED  BY <3>3, <3>4
  <2> QED  BY <2>1, <2>2
<1>24. ChunksInOrder'
  <2>1. InOrder(wire[c], m)
    <3>1. InOrder(wire[c], reqs[c])
      BY <1>3, OrderOf
    <3>2. reqs[c] \in Nat /\ (m = reqs[c] \/ m = reqs[c] + 1)
      BY <1>1
    <3>3. InOrder(wire[c], reqs[c] + 1)
      BY <1>14, <3>1, <3>2, MoreRequests, Zenon
    <3> QED  BY <3>1, <3>2, <3>3, Zenon
  <2>2. InOrder(wire[c] \o items, m)
    <3>1. CASE x.handler \in Typed
      <4>1. /\ x = ctx[c] /\ m = reqs[c]
            /\ \A k \in 1 .. Len(items) : items[k] = Chunk(x.line + k)
        BY <1>4, <1>17, <3>1
      <4>2. /\ x.line > 0 => wire[c] # << >> /\ Last(wire[c]) = Chunk(x.line)
            /\ x.line = 0 /\ m = 1 => wire[c] = <<Header>>
        BY <1>3, <3>1, <4>1 DEF PageInv
      <4>3. PICK l \in Nat : l = x.line
        BY <1>2
      <4>4. /\ l > 0 => wire[c] # << >> /\ Last(wire[c]) = Chunk(l)
            /\ l = 0 /\ m = 1 => wire[c] = <<Header>>
            /\ \A k \in 1 .. Len(items) : items[k] = Chunk(l + k)
        BY <4>1, <4>2, <4>3
      <4>5. PICK w \in Seq(Items) : w = wire[c]
        BY <1>12
      <4>6. InOrder(w \o items, m)
        BY <2>1, <4>4, <4>5, ChunksKeepOrder
      <4> QED  BY <4>5, <4>6
    <3>2. CASE x.handler \notin Typed
      <4>1. \A k \in 1 .. Len(items) : items[k] \in {Header, Redirect}
        BY <1>16, <3>2
      <4> QED  BY <1>12, <2>1, <4>1, OthersKeepOrder
    <3> QED  BY <3>1, <3>2
  <2>3. \A d \in Conns : InOrder(wire[d], reqs[d])
    BY <1>3, OrderOf
  <2>4. ASSUME NEW d \in Conns
        PROVE  InOrder(wire'[d], reqs'[d])
    <3>1. CASE d = c
      BY <1>10, <2>2, <3>1, Zenon
    <3>2. CASE d # c
      BY <1>11, <2>3, <3>2, Zenon
    <3> QED  BY <3>1, <3>2
  <2> QED  BY <2>4 DEF ChunksInOrder, InOrder, Chunk, Header
<1>25. SaverInv'
  <2> SUFFICES ASSUME NEW d \in Conns, saver' = d
               PROVE  /\ st'[d] = "closing" /\ ctx'[d].handler = "web_ssid"
                      /\ file' = <<ctx'[d].value>>
    BY DEF SaverInv
  <2>1. CASE file' = file /\ saver' = saver
    <3>1. st[d] = "closing" /\ ctx[d].handler = "web_ssid" /\ file = <<ctx[d].value>>
      BY <1>3, <2>1 DEF SaverInv
    <3>2. CASE d # c
      BY <1>11, <2>1, <3>1, <3>2
    <3>3. CASE d = c
      <4>1. x = ctx[c]
        BY <3>1, <3>3
      <4>2. x.handler \notin Typed
        BY <3>1, <3>3, <4>1, KindFacts
      <4> QED  BY <1>7, <1>10, <1>16, <2>1, <3>1, <3>3, <4>1, <4>2
    <3> QED  BY <3>2, <3>3
  <2>2. CASE x.handler = "web_ssid" /\ file' = <<x.value>> /\ saver' = c
    <3>1. d = c /\ x.handler \notin Typed
      BY <2>2, KindFacts
    <3> QED  BY <1>7, <1>10, <1>16, <2>2, <3>1
  <2> QED  BY <1>13, <2>1, <2>2
<1> QED  BY <1>20, <1>21, <1>22, <1>23, <1>24, <1>25 DEF IInv, HttpdInv

\* The header of a page: the page begins anew, whatever was sent before.
LEMMA HeaderKeeps ==
    ASSUME IInv, NEW c \in Conns, NEW x \in Contexts, x.handler \in Typed, x.line = 0,
           UNCHANGED <<handlers, cut>>,
           reqs' = [reqs EXCEPT ![c] = @ + 1], st[c] = "open",
           SendHeader(c, x)
    PROVE  IInv'
<1>1. /\ ctx \in [Conns -> Contexts \cup {NoCtx}] /\ wire \in [Conns -> Seq(Items)]
      /\ out \in [Conns -> 0 .. Cap] /\ reqs \in [Conns -> Nat]
      /\ st \in [Conns -> {"closed", "open", "closing", "left"}]
      /\ Cap \in Nat \ {0}
  BY HttpdAssumption DEF IInv, TypeOK
<1>2. ContextInv /\ PageInv /\ ChunksInOrder /\ SaverInv
  BY DEF IInv, HttpdInv
<1> DEFINE sent == out[c] < Cap
           items == IF sent THEN <<Header>> ELSE << >>
<1>3. /\ items \in Seq(Items) /\ \A k \in 1 .. Len(items) : items[k] \in {Header, Redirect}
  <2>1. <<Header>> \in Seq(Items) /\ Len(<<Header>>) = 1 /\ <<Header>>[1] = Header
    BY ItemFacts, TupleFacts
  <2>2. CASE sent
    <3>1. items = <<Header>>
      BY <2>2
    <3>2. \A k \in 1 .. 1 : k = 1
      OBVIOUS
    <3> HIDE DEF items
    <3> QED  BY <2>1, <3>1, <3>2
  <2>3. CASE ~ sent
    <3>1. items = << >>
      BY <2>3
    <3> HIDE DEF items
    <3>2. items \in Seq(Items) /\ Len(items) = 0
      BY <3>1
    <3>3. 1 .. Len(items) = {}
      BY <3>2
    <3> QED  BY <3>2, <3>3
  <2> QED  BY <2>2, <2>3
<1>4. wire[c] \in Seq(Items) /\ reqs[c] \in Nat /\ out[c] \in 0 .. Cap
  BY <1>1
<1>5. wire' = [wire EXCEPT ![c] = @ \o items]
  <2>1. Append(wire[c], Header) = wire[c] \o <<Header>> /\ wire[c] \o << >> = wire[c]
    <3>1. PICK w \in Seq(Items) : w = wire[c]
      BY <1>4
    <3>2. PICK h \in Items : h = Header
      BY ItemFacts
    <3>3. Append(w, h) = w \o <<h>>
      BY AppendIsConcat
    <3>4. w \o << >> = w
      BY ConcatEmptySeq
    <3> QED  BY <3>1, <3>2, <3>3, <3>4
  <2>2. wire' = [wire EXCEPT ![c] = IF sent THEN Append(@, Header) ELSE @]
    BY DEF SendHeader
  <2> QED  BY <1>1, <2>1, <2>2
<1>6. /\ ctx' = [ctx EXCEPT ![c] = x]
      /\ out' = [out EXCEPT ![c] = IF sent THEN @ + 1 ELSE @]
      /\ UNCHANGED <<st, file, armed, saver, handlers, cut>>
  BY DEF SendHeader
<1>7. /\ ctx'[c] = x /\ wire'[c] = wire[c] \o items /\ reqs'[c] = reqs[c] + 1
      /\ st'[c] = "open" /\ out'[c] \in 0 .. Cap
  BY <1>1, <1>5, <1>6
<1>8. \A d \in Conns : d # c =>
          /\ ctx'[d] = ctx[d] /\ wire'[d] = wire[d] /\ out'[d] = out[d]
          /\ reqs'[d] = reqs[d] /\ cut'[d] = cut[d] /\ st'[d] = st[d]
  BY <1>1, <1>5, <1>6
<1>9. wire[c] \o items \in Seq(Items)
  BY <1>3, <1>4, ConcatProperties
<1>20. TypeOK'
  <2>1. ctx' \in [Conns -> Contexts \cup {NoCtx}]
    BY <1>1, <1>6
  <2>2. wire' \in [Conns -> Seq(Items)]
    BY <1>1, <1>5, <1>9
  <2>3. out' \in [Conns -> 0 .. Cap]
    BY <1>1, <1>6
  <2>4. reqs' \in [Conns -> Nat]
    BY <1>1
  <2> QED  BY <1>6, <2>1, <2>2, <2>3, <2>4 DEF TypeOK, IInv
<1>21. HandlersInv'
  BY HandlersKept
<1>22. ContextInv'
  <2> SUFFICES ASSUME NEW d \in Conns
               PROVE  /\ st'[d] = "closed" => reqs'[d] = 0
                      /\ reqs'[d] = 0 => ctx'[d] = NoCtx /\ wire'[d] = << >> /\ out'[d] = 0
                      /\ out'[d] > 0 => ctx'[d] # NoCtx
                      /\ ctx'[d].handler \in Handlers \ Typed => st'[d] = "closing"
    BY DEF ContextInv
  <2>1. CASE d # c
    BY <1>2, <1>8, <2>1 DEF ContextInv
  <2>2. CASE d = c
    <3>1. reqs'[c] # 0 /\ ctx'[c] # NoCtx
      BY <1>4, <1>7, KindFacts
    <3> QED  BY <1>7, <2>2, <3>1
  <2> QED  BY <2>1, <2>2
<1>23. PageInv'
  <2> SUFFICES ASSUME NEW d \in Conns, ctx'[d].handler \in Typed
               PROVE  /\ ctx'[d].line <= Lines(ctx'[d].handler)
                      /\ ctx'[d].line > 0 =>
                             wire'[d] # << >> /\ Last(wire'[d]) = Chunk(ctx'[d].line)
                      /\ ctx'[d].line = 0 /\ reqs'[d] = 1 => wire'[d] = <<Header>>
                      /\ st'[d] = "closing" /\ ~ cut'[d] =>
                             ctx'[d].line = Lines(ctx'[d].handler)
    BY DEF PageInv, Lines, Last, Chunk, Header
  <2>1. CASE d # c
    BY <1>2, <1>8, <2>1 DEF PageInv
  <2>2. CASE d = c
    <3>1. ctx'[c].line = 0 /\ 0 <= Lines(x.handler)
      BY <1>7, PageFacts
    <3>2. ASSUME reqs'[c] = 1
          PROVE  wire'[c] = <<Header>>
      <4>1. reqs[c] = 0
        BY <1>4, <1>7, <3>2
      <4>2. wire[c] = << >> /\ out[c] = 0
        BY <1>2, <4>1 DEF ContextInv
      <4>3. items = <<Header>>
        BY <1>1, <4>2
      <4> QED  BY <1>7, <4>2, <4>3
    <3>3. ~ (ctx'[d].line > 0) /\ ctx'[d].line = 0 /\ ~ (st'[d] = "closing")
      BY <1>7, <2>2, <3>1
    <3>4. ctx'[d].handler = x.handler
      BY <1>7, <2>2
    <3>5. ctx'[d].line <= Lines(ctx'[d].handler)
      BY <3>1, <3>3, <3>4
    <3>6. reqs'[d] = 1 => wire'[d] = <<Header>>
      BY <2>2, <3>2
    <3> QED  BY <3>3, <3>5, <3>6
  <2> QED  BY <2>1, <2>2
<1>24. ChunksInOrder'
  <2> HIDE DEF items
  <2>1. InOrder(wire[c], reqs[c] + 1)
    <3>1. InOrder(wire[c], reqs[c])
      BY <1>2, OrderOf
    <3>2. reqs[c] > 0 \/ wire[c] = << >>
      BY <1>2, <1>4 DEF ContextInv
    <3> QED  BY <1>4, <3>1, <3>2, MoreRequests
  <2>2. reqs[c] + 1 \in Nat
    BY <1>4
  <2>3. InOrder(wire[c] \o items, reqs[c] + 1)
    BY <1>3, <1>4, <2>1, <2>2, OthersKeepOrder
  <2>4. \A d \in Conns : InOrder(wire[d], reqs[d])
    BY <1>2, OrderOf
  <2>5. \A d \in Conns : InOrder(wire'[d], reqs'[d])
    BY <1>7, <1>8, <2>3, <2>4
  <2> QED  BY <2>5 DEF ChunksInOrder, InOrder, Chunk, Header
<1>25. SaverInv'
  <2> SUFFICES ASSUME NEW d \in Conns, saver' = d
               PROVE  /\ st'[d] = "closing" /\ ctx'[d].handler = "web_ssid"
                      /\ file' = <<ctx'[d].value>>
    BY DEF SaverInv
  <2>1. st[d] = "closing" /\ ctx[d].handler = "web_ssid" /\ file = <<ctx[d].value>>
    BY <1>2, <1>6 DEF SaverInv
  <2> QED  BY <1>6, <1>8, <2>1
<1> QED  BY <1>20, <1>21, <1>22, <1>23, <1>24, <1>25 DEF IInv, HttpdInv

\* Connections are closed; the list is as it was or as after setup().
LEMMA CloseKeeps ==
    ASSUME IInv, NEW cs \in SUBSET Conns, Close(cs), UNCHANGED file, armed' \in BOOLEAN,
           handlers' \in Seq(Nodes), HandlersInv'
    PROVE  IInv'
<1>1. /\ ctx \in [Conns -> Contexts \cup {NoCtx}] /\ wire \in [Conns -> Seq(Items)]
      /\ out \in [Conns -> 0 .. Cap] /\ reqs \in [Conns -> Nat]
      /\ st \in [Conns -> {"closed", "open", "closing", "left"}]
      /\ cut \in [Conns -> BOOLEAN] /\ saver \in Conns \cup {NoConn}
      /\ Cap \in Nat \ {0}
  BY HttpdAssumption DEF IInv, TypeOK
<1>2. ContextInv /\ PageInv /\ ChunksInOrder /\ SaverInv
  BY DEF IInv, HttpdInv
<1>3. \A d \in cs : /\ st'[d] = "closed" /\ ctx'[d] = NoCtx /\ out'[d] = 0
                    /\ wire'[d] = << >> /\ reqs'[d] = 0
  BY DEF Close
<1>4. \A d \in Conns \ cs :
          /\ ctx'[d] = ctx[d] /\ wire'[d] = wire[d] /\ out'[d] = out[d]
          /\ reqs'[d] = reqs[d] /\ cut'[d] = cut[d] /\ st'[d] = st[d]
  BY DEF Close
<1>20. TypeOK'
  <2>1. << >> \in Seq(Items)
    OBVIOUS
  <2>2. /\ st' \in [Conns -> {"closed", "open", "closing", "left"}]
        /\ ctx' \in [Conns -> Contexts \cup {NoCtx}]
        /\ out' \in [Conns -> 0 .. Cap]
    BY <1>1 DEF Close
  <2>3. /\ wire' \in [Conns -> Seq(Items)]
        /\ reqs' \in [Conns -> Nat] /\ cut' \in [Conns -> BOOLEAN]
        /\ saver' \in Conns \cup {NoConn}
    BY <1>1, <2>1 DEF Close
  <2> QED  BY <2>2, <2>3 DEF TypeOK, IInv
<1>22. ContextInv'
  <2> SUFFICES ASSUME NEW d \in Conns
               PROVE  /\ st'[d] = "closed" => reqs'[d] = 0
                      /\ reqs'[d] = 0 => ctx'[d] = NoCtx /\ wire'[d] = << >> /\ out'[d] = 0
                      /\ out'[d] > 0 => ctx'[d] # NoCtx
                      /\ ctx'[d].handler \in Handlers \ Typed => st'[d] = "closing"
    BY DEF ContextInv
  <2>1. CASE d \notin cs
    BY <1>2, <1>4, <2>1 DEF ContextInv
  <2>2. CASE d \in cs
    BY <1>3, <2>2, KindFacts
  <2> QED  BY <2>1, <2>2
<1>23. PageInv'
  <2> SUFFICES ASSUME NEW d \in Conns, ctx'[d].handler \in Typed
               PROVE  /\ ctx'[d].line <= Lines(ctx'[d].handler)
                      /\ ctx'[d].line > 0 =>
                             wire'[d] # << >> /\ Last(wire'[d]) = Chunk(ctx'[d].line)
                      /\ ctx'[d].line = 0 /\ reqs'[d] = 1 => wire'[d] = <<Header>>
                      /\ st'[d] = "closing" /\ ~ cut'[d] =>
                             ctx'[d].line = Lines(ctx'[d].handler)
    BY DEF PageInv, Lines, Last, Chunk, Header
  <2>1. d \notin cs
    BY <1>3, KindFacts
  <2> QED  BY <1>2, <1>4, <2>1 DEF PageInv
<1>24. ChunksInOrder'
  <2>1. \A d \in Conns : InOrder(wire[d], reqs[d])
    BY <1>2, OrderOf
  <2>2. InOrder(<< >>, 0)
    <3>1. 1 .. Len(<< >>) = {}
      OBVIOUS
    <3> QED  BY <3>1 DEF InOrder
  <2>3. \A d \in Conns : InOrder(wire'[d], reqs'[d])
    BY <1>3, <1>4, <2>1, <2>2
  <2> QED  BY <2>3 DEF ChunksInOrder, InOrder, Chunk, Header
<1>25. SaverInv'
  <2> SUFFICES ASSUME NEW d \in Conns, saver' = d
               PROVE  /\ st'[d] = "closing" /\ ctx'[d].handler = "web_ssid"
                      /\ file' = <<ctx'[d].value>>
    BY DEF SaverInv
  <2>1. saver \notin cs /\ saver = d
    BY HttpdAssumption DEF Close
  <2>2. st[d] = "closing" /\ ctx[d].handler = "web_ssid" /\ file = <<ctx[d].value>>
    BY <1>2, <2>1 DEF SaverInv
  <2> QED  BY <1>4, <2>1, <2>2
<1> QED  BY <1>20, <1>22, <1>23, <1>24, <1>25 DEF IInv, HttpdInv

\* A client connects or leaves, or a segment is not understood.
LEMMA StatusKeeps ==
    ASSUME IInv, NEW c \in Conns, NEW s \in {"open", "left", "closing"},
           st[c] \in {"closed", "open"},
           st' = [st EXCEPT ![c] = s],
           UNCHANGED <<handlers, ctx, out, file, armed, wire, saver>>,
           \/ UNCHANGED <<reqs, cut>> /\ s # "closing"
           \/ /\ reqs' = [reqs EXCEPT ![c] = @ + 1]
              /\ cut' = [cut EXCEPT ![c] = TRUE]
    PROVE  IInv'
<1>1. /\ ctx \in [Conns -> Contexts \cup {NoCtx}] /\ wire \in [Conns -> Seq(Items)]
      /\ out \in [Conns -> 0 .. Cap] /\ reqs \in [Conns -> Nat]
      /\ st \in [Conns -> {"closed", "open", "closing", "left"}]
      /\ cut \in [Conns -> BOOLEAN]
  BY DEF IInv, TypeOK
<1>2. ContextInv /\ PageInv /\ ChunksInOrder /\ SaverInv
  BY DEF IInv, HttpdInv
<1>3. /\ st'[c] = s /\ reqs[c] \in Nat
      /\ reqs'[c] = reqs[c] \/ reqs'[c] = reqs[c] + 1
      /\ s = "closing" => cut'[c]
  BY <1>1
<1>4. \A d \in Conns : d # c =>
          reqs'[d] = reqs[d] /\ cut'[d] = cut[d] /\ st'[d] = st[d]
  BY <1>1
<1>5. ctx[c].handler \notin Handlers \ Typed
  BY <1>2 DEF ContextInv
<1>6. reqs[c] = 0 => ctx[c] = NoCtx /\ wire[c] = << >> /\ out[c] = 0
  BY <1>2 DEF ContextInv
<1>20. TypeOK'
  <2>1. st' \in [Conns -> {"closed", "open", "closing", "left"}]
    BY <1>1
  <2>2. reqs' \in [Conns -> Nat]
    <3>1. CASE reqs' = reqs
      BY <1>1, <3>1
    <3>2. CASE reqs' = [reqs EXCEPT ![c] = @ + 1]
      <4>1. reqs[c] + 1 \in Nat
        BY <1>3
      <4> QED  BY <1>1, <3>2, <4>1
    <3> QED  BY <3>1, <3>2
  <2>3. cut' \in [Conns -> BOOLEAN]
    <3>1. CASE cut' = cut
      BY <1>1, <3>1
    <3>2. CASE cut' = [cut EXCEPT ![c] = TRUE]
      BY <1>1, <3>2
    <3> QED  BY <3>1, <3>2
  <2> QED  BY <2>1, <2>2, <2>3 DEF TypeOK, IInv
<1>21. HandlersInv'
  BY HandlersKept
<1>22. ContextInv'
  <2> SUFFICES ASSUME NEW d \in Conns
               PROVE  /\ st'[d] = "closed" => reqs'[d] = 0
                      /\ reqs'[d] = 0 => ctx'[d] = NoCtx /\ wire'[d] = << >> /\ out'[d] = 0
                      /\ out'[d] > 0 => ctx'[d] # NoCtx
                      /\ ctx'[d].handler \in Handlers \ Typed => st'[d] = "closing"
    BY DEF ContextInv
  <2>1. CASE d # c
    BY <1>2, <1>4, <2>1 DEF ContextInv
  <2>2. CASE d = c
    <3>1. reqs'[c] = 0 => reqs[c] = 0
      BY <1>3
    <3>2. out[c] > 0 => ctx[c] # NoCtx
      BY <1>2 DEF ContextInv
    <3> QED  BY <1>3, <1>5, <1>6, <2>2, <3>1, <3>2
  <2> QED  BY <2>1, <2>2
<1>23. PageInv'
  <2> SUFFICES ASSUME NEW d \in Conns, ctx'[d].handler \in Typed
               PROVE  /\ ctx'[d].line <= Lines(ctx'[d].handler)
                      /\ ctx'[d].line > 0 =>
                             wire'[d] # << >> /\ Last(wire'[d]) = Chunk(ctx'[d].line)
                      /\ ctx'[d].line = 0 /\ reqs'[d] = 1 => wire'[d] = <<Header>>
                      /\ st'[d] = "closing" /\ ~ cut'[d] =>
                             ctx'[d].line = Lines(ctx'[d].handler)
    BY DEF PageInv, Lines, Last, Chunk, Header
  <2>0. /\ ctx[d].handler \in Typed
        /\ ctx[d].line <= Lines(ctx[d].handler)
        /\ ctx[d].line > 0 => wire[d] # << >> /\ Last(wire[d]) = Chunk(ctx[d].line)
        /\ ctx[d].line = 0 /\ reqs[d] = 1 => wire[d] = <<Header>>
        /\ st[d] = "closing" /\ ~ cut[d] => ctx[d].line = Lines(ctx[d].handler)
    BY <1>2 DEF PageInv
  <2>1. CASE d # c
    BY <1>4, <2>0, <2>1
  <2>2. CASE d = c
    <3>1. reqs[c] # 0
      BY <1>6, <2>0, <2>2, KindFacts
    <3>2. reqs'[c] = 1 => reqs[c] = 1
      BY <1>3, <3>1
    <3>3. ~ (st'[c] = "closing" /\ ~ cut'[c])
      BY <1>3
    <3> QED  BY <2>0, <2>2, <3>2, <3>3
  <2> QED  BY <2>1, <2>2
<1>24. ChunksInOrder'
  <2>1. \A d \in Conns : InOrder(wire[d], reqs[d])
    BY <1>2, OrderOf
  <2>2. InOrder(wire[c], reqs'[c])
    <3>1. reqs[c] > 0 \/ wire[c] = << >>
      BY <1>3, <1>6
    <3>2. InOrder(wire[c], reqs[c] + 1)
      BY <1>3, <2>1, <3>1, MoreRequests
    <3> QED  BY <1>3, <2>1, <3>2
  <2>3. \A d \in Conns : InOrder(wire'[d], reqs'[d])
    BY <1>4, <2>1, <2>2
  <2> QED  BY <2>3 DEF ChunksInOrder, InOrder, Chunk, Header
<1>25. SaverInv'
  <2> SUFFICES ASSUME NEW d \in Conns, saver' = d
               PROVE  /\ st'[d] = "closing" /\ ctx'[d].handler = "web_ssid"
                      /\ file' = <<ctx'[d].value>>
    BY DEF SaverInv
  <2>1. st[d] = "closing" /\ ctx[d].handler = "web_ssid" /\ file = <<ctx[d].value>>
    BY <1>2 DEF SaverInv
  <2> QED  BY <1>4, <2>1
<1> QED  BY <1>20, <1>21, <1>22, <1>23, <1>24, <1>25 DEF IInv, HttpdInv

\* The acknowledged packet was sent by a handler.
LEMMA SentFacts ==
    ASSUME IInv, NEW c \in Conns, httpd_server_sent(c)
    PROVE  ctx[c] \in Contexts /\ out[c] - 1 \in 0 .. Cap
<1>1. ctx[c] \in Contexts \cup {NoCtx} /\ out[c] \in 0 .. Cap
  BY DEF IInv, TypeOK
<1>2. out[c] > 0
  BY DEF httpd_server_sent
<1>3. ctx[c] # NoCtx
  BY <1>2 DEF IInv, HttpdInv, ContextInv
<1>4. out[c] - 1 \in 0 .. Cap
  BY <1>1, <1>2, HttpdAssumption
<1>5. ctx[c] \in Contexts
  BY <1>1, <1>3
<1> QED  BY <1>4, <1>5

LEMMA SentKeeps ==
    ASSUME IInv, NEW c \in Conns, httpd_server_sent(c)
    PROVE  IInv'
<1>1. PICK x \in Contexts : x = ctx[c]
  BY SentFacts
<1>2. PICK o \in 0 .. Cap : o = out[c] - 1
  BY SentFacts
<1>3. PICK m \in Nat : m = reqs[c]
  BY DEF IInv, TypeOK
<1>4. /\ st[c] \in {"open", "closing"} /\ Run(c, x, o)
      /\ UNCHANGED <<handlers, cut>> /\ UNCHANGED reqs
  BY <1>1, <1>2 DEF httpd_server_sent
<1>5. reqs' = [reqs EXCEPT ![c] = m]
  BY <1>3, <1>4 DEF IInv, TypeOK
<1> QED  BY <1>1, <1>3, <1>4, <1>5, RunKeeps

LEMMA RecvKeeps ==
    ASSUME IInv, NEW c \in Conns, NEW r \in Requests, httpd_server_recv(c, r)
    PROVE  IInv'
<1>1. /\ st[c] = "open" /\ UNCHANGED handlers
      /\ reqs' = [reqs EXCEPT ![c] = @ + 1]
  BY DEF httpd_server_recv
<1>2. CASE r.get /\ Matches(r.url) # {}
  <2> DEFINE M == Matches(r.url)
             node == Dispatch(r.url)
             x == [handler |-> node.handler, value |-> r.value, line |-> 0]
  <2>1. /\ IF node.type # "none" THEN SendHeader(c, x) ELSE Run(c, x, out[c])
        /\ UNCHANGED cut
    BY <1>2 DEF httpd_server_recv
  <2>2. node \in Nodes
    <3>1. Len(handlers) \in Nat /\ \A k \in 1 .. Len(handlers) : handlers[k] \in Nodes
      BY LenProperties, ElementOfSeq DEF IInv, TypeOK
    <3>2. M \subseteq 1 .. Len(handlers)
      BY DEF Matches
    <3>3. \E k \in M : \A q \in M : k <= q
      <4>1. M \subseteq Nat /\ M # {}
        BY <1>2, <3>1, <3>2
      <4> QED  BY <4>1, FirstOf
    <3>4. PICK k : k = CHOOSE p \in M : \A q \in M : p <= q
      OBVIOUS
    <3>5. k \in M
      BY <3>3, <3>4
    <3> QED  BY <3>1, <3>2, <3>4, <3>5 DEF Dispatch
  <2>3. PICK n \in Nodes : n = node
    BY <2>2
  <2>4. PICK y : y = x
    OBVIOUS
  <2>5. y \in Contexts /\ y.handler = n.handler /\ y.line = 0
    <3>1. r.value \in Values
      BY HttpdAssumption
    <3>2. n.handler \in Handlers /\ 0 \in Nat
      BY NodeFacts
    <3>3. y = [handler |-> n.handler, value |-> r.value, line |-> 0]
      BY <2>3, <2>4
    <3> HIDE DEF node, x
    <3> QED  BY <3>1, <3>2, <3>3 DEF Contexts
  <2>6. IF n.type # "none" THEN SendHeader(c, y) ELSE Run(c, y, out[c])
    BY <2>1, <2>3, <2>4
  <2>7. n.type # "none" <=> n.handler \in Typed
    BY NodeFacts
  <2> HIDE DEF node, x
  <2>8. CASE n.type # "none"
    BY <1>1, <2>1, <2>5, <2>6, <2>7, <2>8, HeaderKeeps
  <2>9. CASE n.type = "none"
    <3>1. PICK o \in 0 .. Cap : o = out[c]
      BY DEF IInv, TypeOK
    <3>2. PICK m \in Nat : m = reqs[c] + 1
      BY DEF IInv, TypeOK
    <3>3. reqs' = [reqs EXCEPT ![c] = m] /\ UNCHANGED <<handlers, cut>>
      BY <1>1, <2>1, <3>2
    <3>4. Run(c, y, o) /\ y.handler \notin Typed
      BY <2>5, <2>6, <2>7, <2>9, <3>1
    <3> QED  BY <1>1, <2>5, <3>2, <3>3, <3>4, RunKeeps
  <2> QED  BY <2>8, <2>9
<1>3. CASE ~ (r.get /\ Matches(r.url) # {})
  <2>1. /\ st' = [st EXCEPT ![c] = "closing"]
        /\ cut' = [cut EXCEPT ![c] = TRUE]
        /\ UNCHANGED <<ctx, out, file, armed, wire, saver>>
    BY <1>3 DEF httpd_server_recv
  <2> QED  BY <1>1, <2>1, StatusKeeps
<1> QED  BY <1>2, <1>3

LEMMA RegistKeeps ==
    ASSUME IInv, NEW n \in LateNodes, httpd_regist(n)
    PROVE  IInv'
<1>1. n \in Nodes /\ n.url \in LateUrls
  BY HttpdAssumption DEF LateUrls
<1>2. handlers \in Seq(Nodes) /\ HandlersInv
  BY DEF IInv, TypeOK, HttpdInv
<1>3. /\ handlers' = Regist(handlers, n)
      /\ UNCHANGED <<st, ctx, out, file, armed, wire, reqs, cut, saver>>
  BY DEF httpd_regist
<1>4. \/ \E p \in 1 .. Len(handlers) : handlers[p].url = n.url
      \/ \A p \in 1 .. Len(handlers) : ~ IsPrefix(n.url, handlers[p].url)
  <2>1. CASE n.url \in SetupUrls
    BY <1>2, <2>1 DEF HandlersInv
  <2>2. CASE n.url \notin SetupUrls
    <3>1. \A v \in SetupUrls \cup LateUrls : IsPrefix(n.url, v) => n.url = v
      BY <1>1, <2>2, HttpdAssumption
    <3>2. \A p \in 1 .. Len(handlers) : handlers[p].url \in SetupUrls \cup LateUrls
      BY <1>2 DEF HandlersInv, NothingHidden
    <3> QED  BY <3>1, <3>2
  <2> QED  BY <2>1, <2>2
<1>5. /\ NothingHidden(Regist(handlers, n))
      /\ {Regist(handlers, n)[p].url : p \in 1 .. Len(Regist(handlers, n))} =
             {handlers[p].url : p \in 1 .. Len(handlers)} \cup {n.url}
  BY <1>1, <1>2, <1>4, RegistHidesNothing DEF HandlersInv
<1>6. Regist(handlers, n) \in Seq(Nodes)
  BY <1>1, <1>2, RegistShape
<1>7. HandlersInv'
  <2>1. PICK list : list = Regist(handlers, n)
    OBVIOUS
  <2>2. NothingHidden(list)
    BY <1>5, <2>1
  <2>3. {list[p].url : p \in 1 .. Len(list)} =
            {handlers[p].url : p \in 1 .. Len(handlers)} \cup {n.url}
    BY <1>5, <2>1
  <2>4. SetupUrls \subseteq {list[p].url : p \in 1 .. Len(list)}
    BY <1>2, <2>3 DEF HandlersInv
  <2>5. handlers' = list
    BY <1>3, <2>1
  <2> QED  BY <2>2, <2>4, <2>5 DEF HandlersInv, NothingHidden
<1>8. TypeOK'
  BY <1>3, <1>6 DEF IInv, TypeOK
<1>9. (ContextInv /\ PageInv /\ ChunksInOrder /\ SaverInv)'
  BY <1>3 DEF IInv, HttpdInv, ContextInv, PageInv, ChunksInOrder, SaverInv, Lines,
              Last, Chunk, Header
<1> QED  BY <1>7, <1>8, <1>9 DEF IInv, HttpdInv

LEMMA InitFacts ==
    ASSUME Init
    PROVE  IInv
<1>1. << >> \in Seq(Items) /\ << >> \in Seq(Values)
  OBVIOUS
<1>2. TypeOK
  <2>1. handlers \in Seq(Nodes) /\ file \in Seq(Values)
    BY <1>1, SetupList DEF Init
  <2>2. /\ st \in [Conns -> {"closed", "open", "closing", "left"}]
        /\ ctx \in [Conns -> Contexts \cup {NoCtx}]
        /\ wire \in [Conns -> Seq(Items)]
    BY <1>1 DEF Init
  <2>3. out \in [Conns -> 0 .. Cap] /\ reqs \in [Conns -> Nat]
    BY HttpdAssumption DEF Init
  <2>4. armed \in BOOLEAN /\ saver \in Conns \cup {NoConn}
    BY DEF Init
  <2>5. cut \in [Conns -> BOOLEAN]
    BY DEF Init
  <2> QED  BY <2>1, <2>2, <2>3, <2>4, <2>5 DEF TypeOK
<1>3. HandlersInv
  BY SetupList DEF Init, HandlersInv
<1>4. ContextInv /\ PageInv
  BY KindFacts DEF Init, ContextInv, PageInv
<1>5. ChunksInOrder
  <2>1. 1 .. Len(<< >>) = {}
    OBVIOUS
  <2>2. \A c \in Conns : wire[c] = << >>
    BY DEF Init
  <2> QED  BY <2>1, <2>2 DEF ChunksInOrder
<1>6. SaverInv
  BY HttpdAssumption DEF Init, SaverInv
<1> QED  BY <1>2, <1>3, <1>4, <1>5, <1>6 DEF IInv, HttpdInv

LEMMA StepKeeps ==
    ASSUME IInv, [Next]_vars
    PROVE  IInv'
<1>1. CASE UNCHANGED vars
  BY <1>1 DEF vars, IInv, TypeOK, HttpdInv, HandlersInv, NothingHidden, ContextInv, PageInv,
              ChunksInOrder, SaverInv, Lines, Last, Chunk, Header
<1>2. ASSUME NEW n \in LateNodes, httpd_regist(n)
      PROVE  IInv'
  BY <1>2, RegistKeeps
<1>3. ASSUME NEW c \in Conns, httpd_listen(c)
      PROVE  IInv'
  <2>1. /\ st[c] = "closed" /\ st' = [st EXCEPT ![c] = "open"]
        /\ UNCHANGED <<handlers, ctx, out, file, armed, wire, saver>>
        /\ UNCHANGED <<reqs, cut>>
    BY <1>3 DEF httpd_listen
  <2> QED  BY <2>1, StatusKeeps
<1>4. ASSUME NEW c \in Conns, NEW r \in Requests, httpd_server_recv(c, r)
      PROVE  IInv'
  BY <1>4, RecvKeeps
<1>5. ASSUME NEW c \in Conns, httpd_server_sent(c)
      PROVE  IInv'
  BY <1>5, SentKeeps
<1>6. ASSUME NEW c \in Conns, PeerCloses(c)
      PROVE  IInv'
  <2>1. /\ st[c] = "open" /\ st' = [st EXCEPT ![c] = "left"]
        /\ UNCHANGED <<handlers, ctx, out, file, armed, wire, saver>>
        /\ UNCHANGED <<reqs, cut>>
    BY <1>6 DEF PeerCloses
  <2> QED  BY <2>1, StatusKeeps
<1>7. ASSUME NEW c \in Conns, httpd_server_discon(c) \/ Aborted(c)
      PROVE  IInv'
  <2>1. {c} \in SUBSET Conns /\ Close({c}) /\ UNCHANGED <<handlers, file, armed>>
    BY <1>7 DEF httpd_server_discon, Aborted
  <2>2. HandlersInv'
    BY <2>1, HandlersKept
  <2>3. handlers' \in Seq(Nodes) /\ armed' \in BOOLEAN
    BY <2>1 DEF IInv, TypeOK
  <2> QED  BY <2>1, <2>2, <2>3, CloseKeeps
<1>8. ASSUME Restart
      PROVE  IInv'
  <2>1. Close(Conns) /\ handlers' = AtSetup /\ armed' = FALSE /\ UNCHANGED file
    BY <1>8 DEF Restart
  <2>2. HandlersInv'
    BY <2>1, SetupList DEF HandlersInv, NothingHidden
  <2>3. handlers' \in Seq(Nodes) /\ armed' \in BOOLEAN /\ Conns \in SUBSET Conns
    BY <2>1, SetupList
  <2> QED  BY <2>1, <2>2, <2>3, CloseKeeps
<1> QED  BY <1>1, <1>2, <1>3, <1>4, <1>5, <1>6, <1>7, <1>8 DEF Next

\* What a handler hung up on is a page's last chunk.
LEMMA HangUp ==
    ASSUME IInv
    PROVE  HangsUpAfterLastChunk
<1> SUFFICES ASSUME NEW c \in Conns, st[c] = "closing", ~ cut[c], ctx[c].handler \in Typed
             PROVE  wire[c] # << >> /\ Last(wire[c]) = Chunk(Lines(ctx[c].handler))
  BY DEF HangsUpAfterLastChunk
<1>1. /\ ctx[c].line = Lines(ctx[c].handler)
      /\ ctx[c].line > 0 => wire[c] # << >> /\ Last(wire[c]) = Chunk(ctx[c].line)
  BY DEF IInv, HttpdInv, PageInv
<1>2. Lines(ctx[c].handler) > 0
  BY PageFacts
<1> QED  BY <1>1, <1>2

\* The second run of a form's handler.
LEMMA SecondRun ==
    ASSUME IInv, NEW c \in Conns, httpd_server_sent(c), saver = c
    PROVE  file' = file
<1>1. PICK x \in Contexts : x = ctx[c]
  BY SentFacts
<1>2. PICK o \in 0 .. Cap : o = out[c] - 1
  BY SentFacts
<1>3. x.handler = "web_ssid" /\ file = <<x.value>>
  BY <1>1 DEF IInv, HttpdInv, SaverInv
<1>4. Run(c, x, o)
  BY <1>1, <1>2 DEF httpd_server_sent
<1>5. x.handler \notin Typed
  BY <1>3, KindFacts
<1>6. PICK items \in Seq(Items), line \in Nat, more \in BOOLEAN :
          Ran(c, x, o, items, line, more)
  BY <1>4, <1>5, RunFacts DEF IInv
<1> QED  BY <1>3, <1>6 DEF Ran

-----------------------------------------------------------------------------
(***************************************************************************)
(* In every reachable state the list of handlers hides nothing, a context  *)
(* stands where its wire ends and the saved file is its writer's.          *)
(***************************************************************************)
THEOREM Invariant == Spec => []IInv
<1>1. Init => IInv
  BY InitFacts
<1>2. IInv /\ [Next]_vars => IInv'
  BY StepKeeps
<1> QED  BY <1>1, <1>2, PTL DEF Spec

(***************************************************************************)
(* Types and the inductive invariant, as runs of the server have them.     *)
(***************************************************************************)
THEOREM ServerCorrect == Spec => [](TypeOK /\ HttpdInv)
<1>1. IInv => TypeOK /\ HttpdInv
  BY DEF IInv
<1> QED  BY <1>1, Invariant, PTL

(***************************************************************************)
(* httpd_server_recv takes the handler with the longest matching URL, in   *)
(* whatever order wifi() registers again while the device runs.            *)
(***************************************************************************)
THEOREM DispatchCorrect == Spec => []LongestPrefixWins
<1>1. IInv => LongestPrefixWins
  BY FirstIsLongest
<1> QED  BY <1>1, Invariant, PTL

(***************************************************************************)
(* The chunks of a page go out in order and without gaps, for pages of any *)
(* length and a queue of any size.                                         *)
(***************************************************************************)
THEOREM OrderCorrect == Spec => []ChunksInOrder
<1>1. IInv => ChunksInOrder
  BY DEF IInv, HttpdInv
<1> QED  BY <1>1, Invariant, PTL

(***************************************************************************)
(* httpd_server_sent hangs up on a page only after its last chunk.         *)
(***************************************************************************)
THEOREM HangUpCorrect == Spec => []HangsUpAfterLastChunk
<1>1. IInv => HangsUpAfterLastChunk
  BY HangUp
<1> QED  BY <1>1, Invariant, PTL

(***************************************************************************)
(* The second run of web_ssid, on the acknowledgement of its redirect,     *)
(* leaves the file of the first as it is.                                  *)
(***************************************************************************)
THEOREM SaveCorrect == Spec => SecondRunKeepsFile
<1>1. IInv /\ [Next]_vars =>
          [\A c \in Conns : httpd_server_sent(c) /\ saver = c => file' = file]_vars
  BY SecondRun
<1> QED  BY <1>1, Invariant, PTL DEF Spec, SecondRunKeepsFile
=============================================================================
