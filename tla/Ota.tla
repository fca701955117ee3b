--------------------------------- MODULE Ota ---------------------------------
(***************************************************************************)
(* app/ota.c: a host invites the device over UDP to fetch an image, the    *)
(* device connects back over TCP, writes what it receives to the partition *)
(* that is not running, answers each piece with "OK" and, when the whole   *)
(* image has been answered, restarts into it.                              *)
(*                                                                         *)
(* Every invitation, a repeated datagram too, makes a session of its own,  *)
(* so several may run at once although there is one writer and one flag.   *)
(* A session is named by the image it delivers.  Callbacks of the TCP      *)
(* stack do not preempt one another; power may fail at any time, also in   *)
(* the middle of a callback.                                               *)
(***************************************************************************)
EXTENDS Upgrade

CONSTANTS
    Images,      \* the images offered, one invitation for each
    Sizes,       \* the sizes an image may have, its header included
    MaxLen,      \* the largest piece TCP delivers
    MaxPending,  \* how many answers espconn queues
    None         \* no image

(***************************************************************************)
(* A TCP segment is shorter than a sector.  An image is larger than its    *)
(* header and does not fill the partition to the last cell: ota.c does not *)
(* compare the size it is told with the partition.                         *)
(***************************************************************************)
ASSUME OtaAssumption ==
    /\ MaxLen \in 1 .. SEC
    /\ Sizes \subseteq (SEC + 1) .. (SEC + PartSecs * SEC - 1)
    /\ MaxPending \in Nat \ {0}
    /\ {None, Factory, Blank, Junk} \cap Images = {}
    /\ None # Factory

VARIABLES
    listening,  \* ota_init has created the UDP connection
    st,         \* the life of each session
    address,    \* context->address
    offset,     \* context->offset
    size,       \* context->size; the size of the image once the context is freed
    pending,    \* answers sent and not yet acknowledged
    running,    \* ghost: the image the device runs
    finisher,   \* ghost: the session that set FINISH
    tainted     \* ghost: sessions another session has disturbed

session == <<st, address, offset, size, pending>>
vars == <<flash, bin, cursor, flag, listening, st, address, offset, size,
          pending, running, finisher, tainted>>

\* "left": the peer has closed; "closing": espconn_disconnect was called;
\* "freed": ota_tcp_discon ran; "lost": the connection or the power failed.
States == {"none", "connecting", "open", "left", "closing", "freed", "lost"}
Live == {"connecting", "open", "left", "closing"}

Init ==
    /\ UpgradeInit
    /\ listening = FALSE
    /\ st = [i \in Images |-> "none"]
    /\ address = [i \in Images |-> 0]
    /\ offset = [i \in Images |-> 0]
    /\ size = [i \in Images |-> 0]
    /\ pending = [i \in Images |-> 0]
    /\ running = Factory
    /\ finisher = None
    /\ tainted = {}

-----------------------------------------------------------------------------
\* The WiFi event handler calls ota_init each time an address is obtained.
ota_init ==
    /\ ~ listening
    /\ listening' = TRUE
    /\ UNCHANGED <<flash, bin, cursor, flag, session, running, finisher, tainted>>

\* (Takes the partition that is running.)
InitRunning(i, n) ==
    /\ st' = [st EXCEPT ![i] = "connecting"]
    /\ address' = [address EXCEPT ![i] = Base(bin) - SEC]
    /\ offset' = [offset EXCEPT ![i] = 0]
    /\ size' = [size EXCEPT ![i] = n]

\* A context for image i of size n, and a connection to its host.
ota_tcp_init(i, n) ==
    /\ st' = [st EXCEPT ![i] = "connecting"]
    /\ address' = [address EXCEPT ![i] = StartAddress]
    /\ offset' = [offset EXCEPT ![i] = 0]
    /\ size' = [size EXCEPT ![i] = n]

\* An invitation with all its four fields; any other changes nothing.
ota_udp_recv(i, n) ==
    /\ listening
    /\ st[i] = "none"
    /\ ota_tcp_init(i, n)
    /\ UNCHANGED <<flash, bin, cursor, flag, listening, pending, running,
                   finisher, tainted>>

\* The TCP connection is established.
Connected(i) ==
    /\ st[i] = "connecting"
    /\ st' = [st EXCEPT ![i] = "open"]
    /\ UNCHANGED <<flash, bin, cursor, flag, listening, address, offset, size,
                   pending, running, finisher, tainted>>

\* Whom a piece for session i disturbs: the sessions in the middle of an image
\* and, when i goes on with one of its own, the one that has just finished.
Disturbed(i) ==
    {j \in Images \ {i} : offset[j] > 0 \/ (j = finisher /\ offset[i] > 0)}

\* The host sends what it announced, in pieces as TCP cuts them.
Arrives(i, n) ==
    /\ st[i] = "open"
    /\ offset[i] + n <= size[i]

\* The answer goes out unless the queue is full; the result is not looked at.
Answer(i) ==
    pending' = [pending EXCEPT ![i] = IF @ < MaxPending THEN @ + 1 ELSE @]

ota_tcp_recv(i, n) ==
    /\ Arrives(i, n)
    /\ UpgradePiece(address[i], offset[i], n, i)
    /\ flag' = Started(offset[i])
    /\ address' = [address EXCEPT ![i] = @ + n]
    /\ offset' = [offset EXCEPT ![i] = @ + n]
    /\ Answer(i)
    /\ finisher' = IF offset[i] = 0 THEN None ELSE finisher
    /\ tainted' = tainted \cup Disturbed(i)
    /\ UNCHANGED <<listening, st, size, running>>

\* (Takes the last piece but one for the last.)
SendEarly(i) ==
    IF size[i] - offset[i] > MaxLen THEN UNCHANGED <<flag, finisher, st>>
    ELSE /\ flag' = "FINISH"
         /\ finisher' = i
         /\ st' = [st EXCEPT ![i] = IF @ = "open" THEN "closing" ELSE @]

\* (Does not disconnect.)
SendStays(i) ==
    IF offset[i] # size[i] THEN UNCHANGED <<flag, finisher, st>>
    ELSE /\ flag' = "FINISH"
         /\ finisher' = i
         /\ UNCHANGED st

\* The image is complete: flag it and hang up.
SendDone(i) ==
    IF offset[i] # size[i] THEN UNCHANGED <<flag, finisher, st>>
    ELSE /\ flag' = "FINISH"
         /\ finisher' = i
         /\ st' = [st EXCEPT ![i] = IF @ = "open" THEN "closing" ELSE @]

\* An answer has been acknowledged.  The final "OK" is acknowledged too, so
\* the handler can run once more while the connection closes.
ota_tcp_send(i) ==
    /\ st[i] \in {"open", "closing"}
    /\ pending[i] > 0
    /\ SendDone(i)
    /\ pending' = [pending EXCEPT
           ![i] = IF offset[i] = size[i] /\ st[i] = "open" THEN @ ELSE @ - 1]
    /\ UNCHANGED <<flash, bin, cursor, listening, address, offset, size,
                   running, tainted>>

\* The peer closes its side, whatever has arrived by then.
PeerCloses(i) ==
    /\ st[i] = "open"
    /\ st' = [st EXCEPT ![i] = "left"]
    /\ UNCHANGED <<flash, bin, cursor, flag, listening, address, offset, size,
                   pending, running, finisher, tainted>>

\* All sessions in `gone' end: their memory is freed or unreachable.
End(gone, how) ==
    /\ st' = [i \in Images |-> IF i \in gone THEN how[i] ELSE st[i]]
    /\ address' = [i \in Images |-> IF i \in gone THEN 0 ELSE address[i]]
    /\ offset' = [i \in Images |-> IF i \in gone THEN 0 ELSE offset[i]]
    /\ pending' = [i \in Images |-> IF i \in gone THEN 0 ELSE pending[i]]
    /\ UNCHANGED size

LiveSessions == {i \in Images : st[i] \in Live}

Reset(b) ==
    /\ UpgradeReset(b)
    /\ listening' = FALSE
    /\ finisher' = None

\* (Releases the writer whatever the flag says.)
DisconReleases(i) ==
    IF flag = "FINISH"
    THEN /\ Reset(Other(bin))
         /\ End(LiveSessions, [j \in Images |-> IF j = i THEN "freed" ELSE "lost"])
         /\ running' = finisher
    ELSE /\ End({i}, [j \in Images |-> "freed"])
         /\ cursor' = NoWriter
         /\ UNCHANGED <<bin, flag, listening, running, finisher>>

\* Restart into the new image when one is complete; otherwise give the writer
\* back, but not while an update is under way.
DisconDone(i) ==
    IF flag = "FINISH"
    THEN /\ Reset(Other(bin))
         /\ End(LiveSessions, [j \in Images |-> IF j = i THEN "freed" ELSE "lost"])
         /\ running' = finisher
    ELSE /\ End({i}, [j \in Images |-> "freed"])
         /\ cursor' = IF flag # "START" THEN NoWriter ELSE cursor
         /\ UNCHANGED <<bin, flag, listening, running, finisher>>

ota_tcp_discon(i) ==
    /\ st[i] \in {"left", "closing"}
    /\ DisconDone(i)
    /\ UNCHANGED <<flash, tainted>>

\* The connection fails or times out.  No reconnect callback is registered:
\* no code of ota.c runs.
Aborted(i) ==
    /\ st[i] \in Live
    /\ End({i}, [j \in Images |-> "lost"])
    /\ UNCHANGED <<flash, bin, cursor, flag, listening, running, finisher, tainted>>

PowerFails ==
    /\ Reset(bin)
    /\ End(LiveSessions, [j \in Images |-> "lost"])
    /\ UNCHANGED running

\* Power fails between two callbacks.
PowerLoss ==
    /\ PowerFails
    /\ UNCHANGED <<flash, tainted>>

\* Power fails while a piece is being written.
PowerLossInRecv(i, n) ==
    /\ Arrives(i, n)
    /\ \E k \in 0 .. Rest(offset[i], n) :
           flash' = Written(address[i], offset[i], n, i, k)
    /\ PowerFails
    /\ tainted' = tainted \cup Disturbed(i)

Next ==
    \/ ota_init
    \/ \E i \in Images, n \in Sizes : ota_udp_recv(i, n)
    \/ \E i \in Images :
          \/ Connected(i)
          \/ \E n \in 1 .. MaxLen : ota_tcp_recv(i, n)
          \/ ota_tcp_send(i)
          \/ PeerCloses(i)
          \/ ota_tcp_discon(i)
          \/ Aborted(i)
          \/ \E n \in 1 .. MaxLen : PowerLossInRecv(i, n)
    \/ PowerLoss

(***************************************************************************)
(* What TCP and the event loop of the SDK owe the callbacks: an answer is  *)
(* acknowledged or the connection fails, and a closed connection is        *)
(* reported.                                                               *)
(***************************************************************************)
Fairness ==
    \A i \in Images : WF_vars(ota_tcp_send(i)) /\ WF_vars(ota_tcp_discon(i))

Spec == Init /\ [][Next]_vars
FairSpec == Spec /\ Fairness

-----------------------------------------------------------------------------
Cells == (Images \cup {Factory, Blank, Junk}) \X Nat

TypeOK ==
    /\ flash \in [Addr -> Cells]
    /\ bin \in Bins
    /\ cursor \in Nat \cup {NoWriter}
    /\ flag \in Flags
    /\ listening \in BOOLEAN
    /\ st \in [Images -> States]
    /\ address \in [Images -> Nat]
    /\ offset \in [Images -> Nat]
    /\ size \in [Images -> Sizes \cup {0}]
    /\ pending \in [Images -> 0 .. MaxPending]
    /\ running \in Images \cup {Factory}
    /\ finisher \in Images \cup {None}
    /\ tainted \subseteq Images

(***************************************************************************)
(* The flag says FINISH only when the whole image of the session that set  *)
(* it is in the other partition, every cell programmed once after an erase *)
(* and none erased or overwritten since.                                   *)
(***************************************************************************)
FinishedIsIntact ==
    flag = "FINISH" /\ finisher \notin tainted =>
        /\ finisher \in Images
        /\ Holds(Other(bin), finisher, size[finisher])

(***************************************************************************)
(* The running bin is whole, whenever power failed and whatever sessions   *)
(* were cut off: an update is all or nothing.                              *)
(***************************************************************************)
RunningIsIntact ==
    tainted = {} =>
        IF running = Factory
        THEN \A a \in Addr : Sector(a) \in PartitionSecs(bin) => flash[a] = <<Factory, a>>
        ELSE Holds(bin, running, size[running])

(***************************************************************************)
(* No erase and no write leaves the two partitions: the boot loader, the   *)
(* file system and the calibration data stay as they are.                  *)
(***************************************************************************)
OutsideIsUntouched ==
    tainted = {} =>
        \A a \in Addr :
            Sector(a) \notin PartitionSecs(1) \cup PartitionSecs(2) => flash[a] = <<Factory, a>>

(***************************************************************************)
(* A session in the middle of its image has a writer: the disconnect of    *)
(* another session, however late it is reported, does not release it.      *)
(***************************************************************************)
WriterIsHeld == \A i \in Images : offset[i] > 0 => cursor # NoWriter /\ flag # "IDLE"

-----------------------------------------------------------------------------
\* A context lives as long as its session, and its address follows its offset.
SessionInv ==
    \A i \in Images :
        /\ st[i] # "none" => size[i] \in Sizes
        /\ st[i] \in Live =>
               /\ address[i] = StartAddress + offset[i]
               /\ offset[i] <= size[i]
        /\ st[i] \notin Live \ {"connecting"} => offset[i] = 0

\* An undisturbed session in the middle of its image: the SDK's writer stands
\* where the session's address says, what has arrived is in place, and the
\* rest of the current sector is blank.
InStep(i) ==
    /\ cursor = Base(Other(bin)) + (IF offset[i] >= SEC THEN offset[i] - SEC ELSE 0)
    /\ offset[i] >= SEC =>
           /\ Holds(Other(bin), i, offset[i])
           /\ \A a \in Addr :
                  a >= address[i] /\ Sector(a) = Sector(address[i]) => flash[a] = Blanked

FinisherInv ==
    /\ flag = "FINISH" <=> finisher # None
    /\ finisher # None => st[finisher] \notin {"none", "connecting", "open"}
    /\ running # Factory => st[running] # "none"

(***************************************************************************)
(* The inductive invariant behind the four properties above: the position  *)
(* a session erases at and the position the SDK writes at agree for every  *)
(* session nobody disturbs, although each is kept by a party that does not *)
(* know of the other.                                                      *)
(***************************************************************************)
UpdateInv ==
    /\ SessionInv
    /\ FinisherInv
    /\ \A i \in Images \ tainted : offset[i] > 0 => InStep(i)

(***************************************************************************)
(* An image that has arrived completely is started, unless the peer hangs  *)
(* up before its last answer, the connection or the power fails, or two    *)
(* sessions overlap.                                                       *)
(***************************************************************************)
DeliveredIsStarted ==
    \A i \in Images :
        (st[i] = "open" /\ offset[i] = size[i])
            ~> (running = i \/ st[i] \in {"left", "lost"} \/ tainted # {})
=============================================================================
