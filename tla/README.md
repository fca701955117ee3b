# A formal model of the esp8266-Xcode firmware

TLA+ modules that model the firmware under `src/esp8266/` and the TLS library under
`src/crypto/` (handshake, records, certificates, status responses, big numbers),
TLC configurations that check them on small instances, and TLAPS proofs of the main
results for every instance.

## 1. The system

One ESP8266 runs one image of the firmware from one of two flash partitions. There
are no threads. The SDK's kernel (ETS) runs *tasks* by priority, one after the
other; timers, the TCP stack (`espconn`) and WiFi report to callbacks that run
inside tasks. Three things make it hard all the same:

* `delay()` runs other tasks nested in its caller (`ets_run_once`), and interrupts
  post to the same queues;
* every protocol is a chain of callbacks whose state lives in a heap context, and
  the callbacks of several connections interleave;
* power, resets and connections fail between any two steps, and in the middle of a
  flash write.

| Component | Source | State | Operations | Talks to |
|---|---|---|---|---|
| Clock, delay | `init.c` | overflow count, last value | overflow callback, `system_get_time64`, `system_get_time_ms`, `delay` | SDK counter and timer, task queues |
| Task queues | `ets.c`, kernel | ready bits, ring, index, count per priority | `ets_run_once`, (`ets_post`, `ets_run`) | every callback |
| Flash layout | `init.c` | partition table, cells | erase, program | OTA, FOTA, file system |
| OTA | `app/ota.c` | context per session; the SDK's one upgrade writer and flag | UDP invitation, TCP recv, sent, discon | flash, espconn |
| FOTA | `app/fota.cpp` | context per session, collected HTTP header | recv, disconn | HTTPS, flash |
| HTTPS | `app/https.c` | context, receive callback | connect, DNS found, TLS connect and recv, recv, discon | TLS client, espconn |
| TLS client, TLS server | `crypto/tls_internal.c`, `crypto/tls/tlsv1_client*.c`, `tlsv1_server*.c` | handshake state, secrets, hash of the handshake, partial record, alert | handshake, encrypt, decrypt, shutdown, setters | HTTPS, certificates, record layer |
| Record layer | `crypto/tls/tlsv1_record.c`, `tlsv1_common.c` | cipher state and number per direction | send, receive, change of cipher | TLS client and server |
| Credentials | `crypto/tls/tlsv1_cred.c`, `pkcs8.c` | trusted and own certificates, key, DH group, how to check | `tls_connection_set_params` | TLS client and server |
| Certificates | `crypto/tls/x509v3.c` | the chain that was read | parse, check signature, validate | TLS client and server |
| Status responses | `crypto/tls/tlsv1_client_ocsp.c` | status per certificate | process a response | TLS client |
| DER | `crypto/tls/asn1.c` | - | readers, writers | certificates, keys, responses |
| Big numbers, RSA | `crypto/tls/libtommath.c`, `bignum.c`, `rsa.c` | digits and sign; keys | arithmetic, import, sign, open | certificates, TLS |
| HTTP server | `app/httpd.c` | handler list; handler, URL and line per connection | regist, listen, recv, sent, discon | pages, espconn |
| Settings pages | `web/system.cpp` | the settings files, the restart timer | eight handlers | server, file system |
| RTC memory | `app/rtc.c` | two checksummed regions | begin, reset, read, write | SDK |
| Start-up, WiFi events | `main.cpp` | the registered handlers, OTA listening | `setup`, `wifi` | all |
| File system | `app/fs.c` | littlefs over SPI flash | open, gets, read, write, ... | pages, `main.cpp` |
| Software UART, GPIO | `app/uart.c`, `app/gpio.c` | bit, head and tail of a ring; handler table | edge interrupt, send, recv | interrupts |
| MQTT | `app/mqtt.cpp` | client, connected pointer | setup, publish, callbacks | MQTT submodule |

What makes each of them correct:

* clock: exact at every moment; `delay` never short;
* queues: FIFO, once each, nothing lost, no underflow;
* OTA and FOTA: all or nothing; nothing outside the partitions; a complete image is
  started; one session does not take the writer from another;
* HTTPS: the application sees an unbroken beginning of the answer; one request;
  the shared library stays up; failures are noticed;
* TLS: an end that has finished agrees with the other about keys, suite and version
  and knows who it is; data arrives in order and once; ends that fit finish;
* certificates and status: what is accepted goes back to an authority the user
  trusts, within its limits; what honest servers send is accepted;
* DER: what is written is read, one form only, cuts are noticed;
* big numbers: every result is the integer it should be; opening undoes signing;
* HTTP: right handler; chunks in order; no answer stuck; a form saved once;
* RTC: a change is atomic for each region.

The places where this can go wrong and a test would hardly reach are listed, with
their lines, under "hazards" in `PROJECT.json`, those that no property covers with
the reason.

## 2. The modules

```
Flash <- Upgrade <- Ota  <- OtaProofs
                 <- Fota <- FotaProofs
                 <- UpgradeProofs (extended by OtaProofs and FotaProofs)
EtsTask -- refines --> TaskQueue
EtsTask, SystemTime, Rtc <- BoardProofs
Https <- HttpsProofs      Httpd <- HttpdProofs
TlsCommon <- TlsClient, TlsServer -- INSTANCE --> TlsHandshake (both ends and the network)
TlsHandshake <- TlsServerProofs <- TlsHandshakeProofs
Asn1 <- X509 <- Der (bytes written and read)
             <- Ocsp, TlsCred <- Pki (what a client believes)
Mp <- Rsa
MC*: instances for TLC
```

Actions and operators have the names of the C functions they model; names in
CamelCase are parts of functions, or events from outside (`PeerCloses`, `Aborted`,
`PowerLoss`, `Reset`, `Tick`). Definitions with a comment in parentheses are faulty
variants of the definition that follows; no specification uses them. The mutation
runs put them in place of the real one to show that a property notices.

**SystemTime.** `clock` is the SDK's counter modulo `W`; `wraps` is the truth the
program does not have. `Tick(d)` moves the counter, the callback counts an overflow
it finds, a read makes up for one that is not counted yet. `delay()` is two steps,
begin and return, since other tasks run in between.

**EtsTask** and **TaskQueue.** The kernel's `ets_post` and `ets_run` lock
interrupts and are one step each; `ets_run_once` does not and is seven, one per
memory access. `stack` is the nesting of tasks in `delay()`; a frame keeps what
`ets_run_once` has loaded and not yet stored, a count (`held`) or the ready bits
(`word`). Priorities come in two
kinds: those only tasks post to, and those interrupts post to as well. `loop_task`
is of the first kind and below the mask of `delay()`. TaskQueue says what a task
may rely on, and EtsTask implements it for the first kind.

**Flash** and **Upgrade.** A cell remembers which cell of which image it holds;
programming a cell that is not blank leaves junk. Upgrade has what the two update
clients do in the same way: the choice of the partition, skipping the header,
erasing by the client's own address, writing at the SDK's position.

**Ota.** A session is named by the image it delivers. Sessions overlap, as they do
when an invitation is repeated. The ghost variable `tainted` holds the sessions
another one has disturbed: there is one writer and one flag and the code does not
keep the sessions apart, so the intactness properties are stated for the others.
`PowerLossInRecv` stops a callback after any number of cells.

**Fota.** The same partition logic behind an HTTP header. A piece is what one TLS
call decrypts and may be longer than a sector; then a sector may be passed over
without an erase (`skipped`).

**Https.** `tls` is the handshake state of the TLS client, reduced to what https.c
can tell apart: two flights of the server, then established, or failed.
`tlsv1_client_handshake` is the set of results a call may have. After the handshake
the stream is counted in cells and records have `L` of them: `held` cells are kept,
`seq` records are decrypted. `answer` says of which kind each record is: data, a
warning, a fatal alert, a message of a handshake. A call of `tlsv1_client_decrypt`
takes all complete records (`DecryptAll`), or throws everything away: when memory
runs out (`DecryptStarved`, recorded in `starved`), at a record that is neither data
nor a warning (`DecryptEnded`, in `refused`), or at bytes that are no record
(`DecryptRefused`). LookupIsCached
is the case in which the SDK returns the address at once and does not call back.

**Httpd.** A handler is a function of the line and the room in espconn's queue to
what it sends, the line it leaves, and whether it wants to be called again. `wire`
is what went out. A URL is the sequence of its parts, which are taken from `Parts`.
What wifi() registers late has a URL of setup() (`/`) or one that is no prefix of
another (`/setup`); `HttpdAssumption` asks for that, and the dispatch depends on it. The four other handlers that
save a form differ from `web_ssid` in the file and the keys.

**Rtc.** The block as a function from words to values. A checksum is the data it
covers, so different data never have equal checksums. `before` and `after` are the
block before the last change and the one it was to leave.

**TlsCommon**, **TlsClient**, **TlsServer** and **TlsHandshake.** A connection is a
record with the fields of the C structure; each `tls_process_*`, `tls_write_*` and
`tlsv1_*` function is an operator from a connection to the connection it leaves,
with the C function's tests in their order. `fault` names the resource that fails
during a call. A message is the record of the fields that decisions depend on, with
`fmt` for one that is too short or too long. A key is the value it is derived from,
a record is protected by its key and its number, the hash of the handshake is the
sequence of messages that went into it. In TlsHandshake both ends are called by
their users (`tls_internal.c`) with any beginning of what has arrived, whole records
or, for the client, half ones; `Disturb` damages, loses, repeats or exchanges a
record; `Reconnect` shuts both down and starts again on the same connections. A
scenario is a configuration of the two with the bounds of its exploration; `fit`
says that the two are meant to get along. The device's AES takes keys of 128 bits
only, and both ends list suites with 256 first; two devices can never talk to each
other. So one end of a fit scenario is of another make: it behaves as this library
does and has suites of its own (`PeerSuites`). The firmware's client meets such a
server, and its server such a client.

**Asn1** and **Der.** Readers and writers on sequences of bytes. Der writes elements
side by side and wraps them, then cuts the buffer or changes a byte.

**X509**, **Ocsp**, **TlsCred** and **Pki.** A certificate on the wire is the record
of its fields, each with the forms the parser tells apart: two-digit and four-digit
years, versions, names with a NUL in them, extensions that are critical, unknown or
unreadable. A date is the beginning of a year, and what the program keeps of it is the
number of seconds in 32 bits, counted in units of 128 seconds; Pki knows both.
A name has a text, the case of its letters, and its white space. A signature says which key made it and whether it matches. A file is a
sequence of PEM tags and data. Pki is the story of one client: parameters are set,
twice and with errors, a chain arrives, responses arrive. `Behind` and `Dedicated`
are what an observer knows about keys and the program does not.

**Mp** and **Rsa.** Numbers are sequences of digits of `DIGIT_BIT` bits, lowest
first, with a sign; the loops over digits are folds. Rsa drives them as a
calculator, with the plain integers in the ghost variable `val`, and as RSA keys
that are imported, used and freed.

### What is assumed of code outside the repository

* `system_upgrade_init` sets the writer to the base of the partition that is not
  running; `system_upgrade_deinit` releases it; `system_upgrade_reboot` restarts at
  once. The writer's buffering of incomplete words is not modelled.
* espconn: callbacks do not preempt one another; after `espconn_disconnect` nothing
  more is received or accepted for sending, but acknowledgements and then the
  disconnect are still reported; a connection that fails is reported to a reconnect
  callback only, which this firmware never registers.
* The host sends as many bytes as it announced, and an image is larger than its
  header and smaller than header and partition (`OtaAssumption`, `FotaAssumption`):
  neither client checks it. A TCP segment is not longer than a sector.
* The overflow timer is never early and less than a turn of the counter (71
  minutes) late.
* ETS: `ets_post` and `ets_run` lock interrupts.
* TLS: memory may run out at any allocation; data behind a gap does not
  authenticate, since the record number is part of the MAC. That the encryption of
  the request fails is not modelled.
* TLS primitives: without the key nobody makes a record, a Finished or a signature
  that passes; hashes have no collisions.
* `os_get_time` shows the seconds since 1970 in 32 bits, as `mktime` counts them.
* A server sends nothing behind a fatal alert (`FatalAssumption`).
* littlefs: a file that was opened for writing is written.
* RTC memory is written word by word, and a word is atomic.

## 3. The runs

| Run | Bounds | What it shows |
|---|---|---|
| `clock` | `W`=16, 3 us per ms, 6 overflows, delays up to 13 | `TimeIsExact`, `DelayIsFull`; the millisecond clock overflows twice |
| `ota` | 2 images of 5 or 7 cells, sectors of 2, pieces up to 2, 2 answers queued | `FinishedIsIntact`, `RunningIsIntact`, `OutsideIsUntouched`, `WriterIsHeld`, `DeliveredIsStarted` |
| `fota` | HTTP header of 2, pieces up to 3 | the first three, with the header cut anywhere |
| `https` | 2 connections, 3 records of 2 cells, segments up to 4; answers with a warning, a fatal alert or a HelloRequest among them | `LibraryStaysUp`, `AppSeesPrefix` (and one request only), `NothingIsLost` |
| `https_alert` | 1 connection | violated: see section 6 |
| `httpd` | 2 connections, 2 requests each, queue of 2, pages of 4 and 2 chunks | dispatch, order, hang-up, second runs, `RequestsEnd` |
| `ets` | 3 priorities, rings of 1 and 2, 3 events each, nesting 3 | `QueuesAreFifo` (refinement of TaskQueue), `BitTellsCount`, `AcceptedIsHandled` |
| `rtc` | 2 words in each region, 3 values, writes of up to 3 words | `SettingsSurvive`, `NoMixture` |
| `tls` | 30 configurations, 12 of them fit, 1 fault or disturbance; 12 without any, for liveness; 2 with two handshakes and 2 data records each way, one of them with halves of records | `ClientAgrees`, `ServerAgrees`, `NoDowngrade`, `ServerIsAuthenticated`, `ClientIsAuthenticated`, `DataInOrder`, `HonestNeverFails`, `HandshakeCompletes` |
| `der` | 2 elements side by side, 3 steps, lengths 0, 127, 128, 256, 12 values for a changed byte | `ReadsBack`, `CutIsNoticed`, `OneEncoding` |
| `pki` | 28 certificates in chains of up to 3, 21 sets of parameters set up to twice, 17 responses up to 2 of them, 5 moments from 1999 to 2100, dates from 1960 to 2150 | `AcceptedIsVouched`, `AcceptedMeetsLimits`, `GoodIsAccepted`, `StatusIsVouched` |
| `rsa` | digits of 2 bits, 2 registers up to 20, 4 key pairs, all messages | `ArithmeticIsExact`, `RsaRoundTrips` |

The bounds are the smallest with all the cases: an image that ends inside a sector
and one that ends in the next one, a piece that completes the header and starts the
body or a sector, a partition that is not filled to its end, one sector of margin
around each partition so that an erase or a write outside it shows; a segment that
holds the end of a record, a whole one and the beginning of a third; a queue that
fills up before a page ends; a ring that wraps while it is used by a nested call; a
write that crosses a checksum; each optional message of a handshake present and
absent; an issuer at, below and above its path length; dates and moments on both sides
of 2038, where the seconds become negative, and of 2106, where they wrap around; numbers of one to five
digits, so that both ways through the Barrett reduction, shifts by digits and by
bits, and two window sizes of the exponentiation occur. Symmetry is used for images, connections and values,
in runs without liveness properties, where these are only compared for equality.
Deadlock is checked where the system never stops (`httpd`, `rtc`, `rsa`) and not where the
bounded supply of inputs runs out.

### Fairness

* `ota`, `httpd`: a packet on an open connection is acknowledged or the connection
  fails (TCP retransmits and gives up), and a disconnect is reported. Nothing is
  assumed of the peer, of power, or of new data.
* `httpd`: the restart timer fires.
* `ets`: the kernel's loop runs, tasks return, and a call that has begun goes on.
  Nothing is assumed of interrupts.
* `tls`: each user goes on calling the library as long as something has arrived,
  which TCP sees to. It is weak fairness of the two calls with the condition that
  enables them written out.

## 4. The proofs

The theorems hold for all values of the constants that satisfy the named
assumptions. Every safety property of the runs `clock`, `ota`, `fota`, `https`,
`httpd`, `ets` and `rtc` is proved, and five of the seven of `tls`; the run shows it
on a small instance, the theorem for every one.

| Assumption | What it asks for |
|---|---|
| `ClockAssumption` | the callback runs at least once a turn; a delay is shorter than a turn |
| `FlashAssumption`, `OtaAssumption`, `FotaAssumption` | partitions that do not overlap; images larger than their header and smaller than header and partition; for OTA, segments of at most a sector |
| `EtsAssumption` | priorities are the 32 bits of a word; no queue is of both kinds; rings of 1 to 255 events, as many as the kernel's byte counts |
| `HttpsAssumption`, `FatalAssumption` | finitely many connections (`tls_ref_count` counts them); records are not empty; a fatal alert is the last one |
| `HttpdAssumption` | espconn queues a packet at all; pages are not empty; late URLs as above |
| `RtcAssumption` | regions are not empty; what an interrupted write leaves in a checksum is not the checksum of any data |
| `ScenariosAreSound`, `NullAssumption` | a client has one of the flags and credentials of the model; the verdict on a server's chain is "ok" or an alert; "no alert" is not an alert; a client of another make offers no suite without encryption, and anonymous ones only if its user allows them. How many records, rounds, failures and disturbances there are is left open |

None of the properties is inductive. Each proof has an invariant that is, named in
the component's module (TLS: in the modules of the proof) with a comment for each part, and one lemma for each action.
TLC checked these invariants first, on the instances of the runs; as they are
proved, the runs do not list them.

**BoardProofs** has the theorems of the three components next to the hardware, which
share nothing: SystemTime, EtsTask and Rtc. (Their specifications have different
names for that, `ClockSpec`, `Spec` and `RtcSpec`.)

**SystemTime.** `ClockTypeCorrect`, `GapCorrect`, `TimeCorrect`: with `GapInv`, the
counter is `gap` past the value the callback saw last and there is at most one
overflow in between. As `gap < W`, the test `low < overflow_last` of the clock holds exactly
when there is one. `DelayStartCorrect`, `DelayCorrect`: a delay under way began in
the past, and `start` is what the millisecond clock showed then (`DelayInv`). The
true time that has gone by is at least the difference modulo `W` that the loop
tests, so the loop is never left early, also across an overflow of either clock.

**EtsTask.** `RingsCorrect`, `BitsCorrect`, `QueuesCorrect`, the last one
being the refinement of TaskQueue. `EtsInv`: only the innermost frame stands in
`ets_run_once`; what it has loaded is not more than there is now, since in between
an interrupt only adds (`CallInv`); a bit over an empty queue is about to be cleared
(`BitsInv`); and for the queues only tasks post to, what was loaded is still what
there is, so that ring, count and bit agree (`TaskInv`). The events in such a ring
are numbered without a gap from the last one handled to the last one accepted. So
the abstract queue is determined by two numbers, and each step changes at most one
of them by one: an acceptance, a call of the task, or a stutter.

**Rtc.** `ContentsCorrect`, `NoMixtureCorrect`, `SurviveCorrect`. `RtcInv`: a
checksum in memory is that of one of the three contents a region may come to hold,
or of nothing; the array being written is sealed and in memory as far as it has
been written; a region that did not change stays whole during the write. The second
is what a reset between two words, and then the repair in rtc_begin, need.

**UpgradeProofs.** Lemmas about one piece, for any chip: which addresses it
programs, which sectors it erases, and what it leaves, provided the client's
address and the SDK's position agree (`Ready`). `PieceExtends` says that a piece
behind what is in place leaves more in place, `RunningUntouched` that the other
partition keeps its cells. Both update clients use them.

**OtaProofs.** `TypeCorrect`, `PositionsAgree`, `FinishCorrect`,
`UpdateIsAllOrNothing`, `UpdateStaysInside`, `WriterCorrect`. What the properties
need is `UpdateInv`: for a session nobody has disturbed, the writer stands where
the session's address says, what has arrived is in place, and the rest of the
current sector is blank. With it a piece neither programs a cell that is not blank
nor erases one that was written; and as it begins at the base of the other
partition and the image fits, it does not leave it, so the running bin is not
touched until the restart.

**FotaProofs.** `SessionsCorrect`, `FinishCorrect`, `UpdateIsAllOrNothing`,
`UpdateStaysInside`. The same argument, in parts that hold for different sessions
(`FotaInv`): pieces may be longer than a sector, so the content is in place
(`PlacedInv`) only for a session that has skipped no erase, while the position
(`PositionInv`), and with it that nothing outside is touched, holds whatever was
skipped. `WriterInv` says who has the writer and who set the flag.

**HttpsProofs.** `InvCorrect`, `LibraryCorrect`, `PrefixCorrect`,
`NothingLostCorrect`. `StreamInv` is the heart: what is kept of the stream starts
where the decrypted records end and is less than a record; once an allocation has
failed it starts beyond, so that no later record has the number expected and the
beginning the application has stays unbroken. A record that ends the call is counted
though the data before it is freed: what follows is still in step, so that the
prefix is unbroken only because nothing follows a fatal alert, and not towards a
server that asks for another handshake; order and number of what is passed hold for both. `tls_ref_count` is at
least the cardinality of the set of connections with a TLS context: no step lowers
it by more than that set loses.

**HttpdProofs.** `ServerCorrect`, `DispatchCorrect`, `OrderCorrect`,
`HangUpCorrect`, `SaveCorrect`. `HandlersInv`: no URL in the list is a prefix of a
later one, which httpd_regist keeps because it replaces or puts in front; the first
match is then the longest, since of two prefixes of one URL the shorter is a prefix
of the longer. `PageInv`: the line of a context is the number of the last chunk on
the wire, also when the queue was full or the peer is being disconnected.
`SaverInv`: what is in the file is what the connection that wrote it last would
write again.

**TlsServerProofs** and **TlsHandshakeProofs.** `SpecConsistent`,
`SpecClientAgrees`, `SpecServerAgrees`, `SpecNoDowngrade`,
`SpecClientIsAuthenticated`, `SpecServerIsAuthenticated`: the two ends of one session agree, whatever the network
damages, loses, repeats or exchanges, whichever call runs out of memory, in streams
of any length and after any number of handshakes on the same connections. The
bounds of a scenario (`troubles`, `rounds`, `data`) are used nowhere. The
invariant is `Consistent`, a relation of the two ends and the two streams:

* `ClientStates`, `ServerStates`: what an end knows in each of its states. Its log
  begins with the two hellos, and what it has chosen is what they say
  (`ClientSaid`, `ClientHeard`, `ServerSaid`, `ServerHeard`); from the key exchange
  on its keys are made of that.
* `ToClientOk`, `ToServerOk`: what can be said of a record on its way. One that is
  protected comes from an end that has sent its Finished in the present handshake
  (`ClientSent`, `ServerSent`), and a Finished among them is over that end's secret
  and a log that begins with its hellos. From then on nothing of this changes
  (`ClientFrozen`, `ServerFrozen`): what a record says remains true of its sender
  until both are shut down.
* `ClientAccepts`, `ServerAccepts`: an end that has read a Finished agrees with the
  other one (`Agree`). This is the step that the properties rest on: the verify data
  fits only a secret and hellos that are the same at both ends. So a hello that was
  changed on its way stops the handshake, whatever else got through.
* `ServerProof`: a server that asks for a certificate comes to wait for the Finished
  only with the client's key and a signature by it, or with a ticket.

For `ServerIsAuthenticated` there is a second one, `AInv`, which needs the first: what
a client that expects a Certificate reads is one only if it comes from the server.

* `ShowsAll`: each certificate on its way to the client says what the server's
  credentials say. The network cuts it short or loses it, and does not write another.
* `Sound`: a client has a key or a DH value of the server's only if it accepted that
  certificate, with the check its user configured (`Vouched`). In the state FAILED it
  may have the key of one that it refused.
* `Trusts`: in the states from the key exchange on it has accepted it, or has a ticket.
  It need not have read a Certificate in the present handshake: the message may be
  lost, and `tls_process_certificate` takes the ones that follow it. What keeps it from
  going on is that `tls_write_client_key_exchange` has nothing to make the secret with,
  and `tlsv1_process_diffie_hellman` takes no value that is not signed with a key it
  has. Hence also the condition on the suite, which is one of those the client offered
  (`NamedSuite`): an anonymous value is not signed, and a client that allows anonymous
  suites is outside the property.

`tlsv1_client_shutdown` leaves the peer's DH value in place (`tlsv1_client.c:700`), and
a second handshake can get as far as its key exchange with the value of the first. The
property survives this because in the model a connection meets a server with the same
credentials each time (the firmware's https.c makes a new connection for each session
and never meets the case). Of a client that calls two servers on one connection the
theorem says nothing: what stops that one is the Finished.

A step runs a C function over every record that has arrived. The function is a fold
in the model; `FoldedIsChain` turns it into a sequence of connections, one for each
record, and what one record does is carried along it. TlsServerProofs has a lemma
for each function of the server and what all of a call leaves (`ServerLeaves`);
TlsHandshakeProofs has the same for the client, the network's changes
(`ChangedIs`), and each action. Keys and secrets are the values they are made of
(section 2), so that their being equal is equality of terms: the proofs, as the
runs, say nothing of weak primitives.

### What is only model-checked

* Liveness (`DeliveredIsStarted`, `RequestsEnd`, `AcceptedIsHandled`,
  `HandshakeCompletes`): the prover has no support for fairness and ENABLED.
* `DataInOrder`, which needs the numbers of all records on their way, and
  `HonestNeverFails`, which needs every message of every configuration.
* `der`, `pki`, `rsa`. Der, TlsCred, Mp and Rsa use RECURSIVE operators, which tlapm
  does not take; what they and the folds of Mp compute would need induction over
  data.

## 5. The plan

Done: the modules above, and the proofs of section 4. To prove next, if at all:
`DataInOrder`, from an invariant of the record numbers.

Worth adding: Ota and Fota on one writer, composed over Upgrade; the reduced client
of Https shown to be what TlsClient implements; the round trip of a form through
`httpd_parameter_parse`, the file and `fs_gets`.

## 6. Disagreements between code and documentation

Run `https_alert`. `crypto/tls.h` says of the handshake function that when it
returns an alert, "tls_connection_get_failed() must return failure (> 0)". The
implementation in `tls_internal.c` reports a server's failures only and returns 0
for a client. The run shows a refused flight after which the client has failed, has
returned its alert, and is not reported as failed. So the branch in `https_tls_recv`
that hangs up is never taken: the alert is sent and the connection is kept until
the server closes it.

Others that showed while modelling. The models behave as the code does, and the
properties are stated so that they hold:

* *Reuse.* `tls.h:298` says a connection may be used again after
  `tls_connection_shutdown`. The server keeps its cipher state
  (`tlsv1_server.c:624`) and cannot read the next hello; the client keeps a partial
  record and its alert (`tlsv1_client.c:700`). The scenarios with two handshakes are
  therefore not `fit`: safety holds in them, success does not.
* *Data behind the Finished.* `tls.h:428` promises the application data that came
  with the last handshake message; with two such records the second takes the place
  of the first (`tlsv1_client_read.c:1452`).
* *Versions.* With `DISABLE_TLSv1_2` the client offers a version it then refuses.
* *AES-256.* The device's AES (`esp8266/lost/crypto.c:27`) takes keys of 16 bytes
  only, but the client offers suites with 32 (`tlsv1_client.c:487`); a server that
  picks one ends in a failed handshake, and so does every handshake of two devices.
  Such configurations are in the run `tls` and not `fit`: safety holds in them,
  success does not.
* *Dates.* `crypto/utils/os.h:125` says that `os_mktime` returns the seconds since
  1970 or fails. On the device they are a 32-bit `long` (`utils/os.h:12`), and the
  product in `mktime` (`esp8266/lost/lost.c:85`) wraps around. All comparisons cast to
  `unsigned long` (`x509v3.c:2169`, `tlsv1_client_ocsp.c:262`), so that dates are
  right beyond 2038, until February 2106. A later one is read as 136 years earlier, or
  as a multiple of that: a certificate valid to 2120 has expired, one valid from 2108
  is valid in 1999. (The end of 9999, which stands for no expiry, happens to be read
  as January 2106.) `AcceptedMeetsLimits`, `GoodIsAccepted` and `StatusIsVouched` are
  stated for dates up to 2105; such certificates are in the run `pki` (`Lasting`,
  `FarAhead`), and without the exception (`LastYear`) it violates the properties.
* *Case.* `crypto/utils/os.h:390` says that `os_strcasecmp` ignores case. It is
  `strcasecmp`, which the firmware defines as `os_strcmp` (`esp8266/lost/lost.c:102`).
  So names that differ in the case of their letters are two names, and an honest chain
  with such names is refused (`Capitals` in the run `pki`, not among its `GoodPaths`);
  white space is ignored, as meant.
* *Other records.* Once the handshake is over, a fatal alert, or a HelloRequest, frees the data
  decrypted before it in the same call (`tlsv1_client.c:428`), so that what the
  application gets depends on how TCP cut the stream; https.c takes no notice and
  goes on (`https.c:63`). `NothingIsLost` is stated up to such a record.
* *Server.* It keeps no partial record, so that half a record is an error, and in
  `tlsv1_server_decrypt` the alert it then sends is not initialised
  (`tlsv1_server.c:288`); without a DH group it stays silent towards a client that
  wants DHE.
* *Memory.* A client that could not allocate its answer, or the copy of its input,
  goes on waiting, and nobody is told.
* *Extensions.* Behind the critical flag the parser reads on at the wrong byte
  (`x509v3.c:1392`) and finds the value only because 0xFF 0x04 is taken for an
  extended tag of the private class.
* *Trust.* Only the first trusted certificate of a name is tried (`x509v3.c:2224`);
  its path length is not looked at; certificates of versions 1 and 2 may issue
  others; a check against an empty list of authorities accepts everything
  (`x509v3.c:2256`).
* *Status.* Only the first extra certificate of a response is read, one with an
  explicit version is refused, and the delegate's certificate is used after it was
  freed (`tlsv1_client_ocsp.c:623`).
* *PEM.* A tag that ends where the buffer ends is not found (`tlsv1_cred.c:98`).
* *Big numbers.* x^0 mod 1 is 1 instead of 0 (the run leaves this case out, a modulus
  no key has); RSA accepts an
  input equal to the modulus (`rsa.c:272`), which comes back as 0.

## 7. What is not modelled

* The text of pages, files and messages; memory leaks.
* Hashes, ciphers and random numbers, and the padding of PKCS#1 and PKCS#5: they
  are symbolic.
* Code the build does not compile or reach: PKCS#12 (`tlsv1_cred.c` from line 333),
  the testing options of the TLS server, the fast variants and the modular inverse
  of `libtommath.c`, `mp_reduce_2k_l`. Allocations that fail inside `libtommath.c`.
  Window sizes of 4 and more in `s_mp_exptmod`.
* `s_mp_exptmod` calls `delay(0)` for every bit, so that tasks of the highest
  priorities run in the middle of an RSA operation; Https treats a callback as one
  step.
* littlefs, lwIP and the MQTT protocol (submodules that are not in the repository)
  and the calls of `fs.c` and `mqtt.cpp` that hand on to them.
* The software UART, which depends on the time single instructions take; registers
  of pins and UARTs; radio calibration; the wrappers of library functions in
  `lost/`, except those that X509 and TlsCommon need (`mktime`, `os_mktime`,
  `strcasecmp`, the length of AES keys).
* An image larger than its partition, which the OTA client does not refuse
  (`ota.c:108`), and the HTTP status, which the HTTPS client does not look at
  (`fota.cpp:48`): the assumptions exclude them. Ota and Fota are not run against
  each other, though they share the writer.
