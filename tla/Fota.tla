-------------------------------- MODULE Fota --------------------------------
(***************************************************************************)
(* app/fota.cpp: fetch an image over HTTPS, write it to the partition that *)
(* is not running and restart into it.  The client of Https: it sees the   *)
(* beginning of the answer, cut anywhere, and then one disconnect.         *)
(*                                                                         *)
(* The answer starts with an HTTP header, which is collected until it is   *)
(* complete; the piece that completes it may bring the first of the image. *)
(* Unlike in Ota a piece is what one TLS call decrypts, which may be more  *)
(* than a sector.  Several calls of fota() may be under way at once.       *)
(***************************************************************************)
EXTENDS Upgrade

CONSTANTS
    Images,   \* the images, one call of fota() for each
    Sizes,    \* the sizes an image may have, its header included
    HttpLen,  \* cells of the HTTP header
    MaxLen,   \* the largest piece
    None      \* no image

(***************************************************************************)
(* The body of the answer is an image: fota.cpp looks neither at the       *)
(* status nor compares Content-Length with the partition.                  *)
(***************************************************************************)
ASSUME FotaAssumption ==
    /\ Sizes \subseteq (SEC + 1) .. (SEC + PartSecs * SEC - 1)
    /\ HttpLen \in Nat \ {0}
    /\ MaxLen \in Nat \ {0}
    /\ {None, Factory, Blank, Junk} \cap Images = {}
    /\ None # Factory

VARIABLES
    st,        \* the life of each session
    length,    \* ghost: the Content-Length of the answer, 0 if it has none
    came,      \* ghost: cells of the answer received
    http,      \* cells in context->header; HttpLen once it is complete
    address,   \* context->address
    offset,    \* context->offset
    size,      \* context->size; the size of the image once the context is deleted
    running,   \* ghost: the image the device runs
    finisher,  \* ghost: the session that set FINISH
    tainted,   \* ghost: sessions another session has disturbed
    skipped    \* ghost: sessions with a piece that skipped a sector

session == <<st, length, came, http, address, offset, size>>
vars == <<flash, bin, cursor, flag, st, length, came, http, address, offset, size,
          running, finisher, tainted, skipped>>

\* "wait": until the request is answered; the others as in Ota.
States == {"none", "wait", "open", "left", "closing", "freed", "lost"}
Live == {"wait", "open", "left", "closing"}

Init ==
    /\ UpgradeInit
    /\ st = [i \in Images |-> "none"]
    /\ length = [i \in Images |-> 0]
    /\ came = [i \in Images |-> 0]
    /\ http = [i \in Images |-> 0]
    /\ address = [i \in Images |-> 0]
    /\ offset = [i \in Images |-> 0]
    /\ size = [i \in Images |-> 0]
    /\ running = Factory
    /\ finisher = None
    /\ tainted = {}
    /\ skipped = {}

-----------------------------------------------------------------------------
\* fota(url); the server will answer with an image of n cells, or without a
\* Content-Length.
fota(i, n) ==
    /\ st[i] = "none"
    /\ st' = [st EXCEPT ![i] = "wait"]
    /\ length' = [length EXCEPT ![i] = n]
    /\ UNCHANGED <<flash, bin, cursor, flag, came, http, address, offset, size, running,
                   finisher, tainted, skipped>>

\* Https has sent the request: the answer may come.
Answered(i) ==
    /\ st[i] = "wait"
    /\ st' = [st EXCEPT ![i] = "open"]
    /\ UNCHANGED <<flash, bin, cursor, flag, length, came, http, address, offset, size,
                   running, finisher, tainted, skipped>>

\* The address of the context: the first piece creates it.
Address(i) == IF http[i] = 0 THEN StartAddress ELSE address[i]

\* (The whole piece, whatever of it belongs to the HTTP header.)
BodyUncut(i, n) == IF http[i] + n > HttpLen THEN n ELSE 0

\* The cells of a piece of n that belong to the body.
Body(i, n) == IF http[i] + n > HttpLen THEN http[i] + n - HttpLen ELSE 0

HeaderDone(i, n) == http[i] + n >= HttpLen

Arrives(i, n) ==
    /\ st[i] = "open"
    /\ length[i] > 0 => came[i] + n <= HttpLen + length[i]

\* What the last n cells of a piece of m are: the image from `offset' on, if
\* that is where the answer stands.
Payload(i, m, n) == IF came[i] + m - n = HttpLen + offset[i] THEN i ELSE Junk

Disturbed(i) ==
    {j \in Images \ {i} : offset[j] > 0 \/ (j = finisher /\ offset[i] > 0)}

\* A piece that reaches beyond the next sector: only the last one is erased.
SkipsSector(i, n) ==
    LET a == Address(i) + Skip(offset[i], n)
    IN  Sector(a + Rest(offset[i], n)) > Sector(a) + 1

Spoils(i, n) ==
    /\ tainted' = tainted \cup Disturbed(i)
    /\ skipped' = IF SkipsSector(i, n) THEN skipped \cup {i} ELSE skipped

\* context->offset reaches context->size.
Finishes(i, n) == offset[i] + n = length[i]

\* The n cells of the body in a piece of m.
Write(i, m, n) ==
    /\ UpgradePiece(Address(i), offset[i], n, Payload(i, m, n))
    /\ address' = [address EXCEPT ![i] = Address(i) + n]
    /\ offset' = [offset EXCEPT ![i] = @ + n]
    /\ flag' = IF Finishes(i, n) THEN "FINISH" ELSE Started(offset[i])
    /\ finisher' = IF Finishes(i, n) THEN i ELSE IF offset[i] = 0 THEN None ELSE finisher
    /\ st' = [st EXCEPT ![i] = IF Finishes(i, n) THEN "closing" ELSE @]
    /\ Spoils(i, n)

fota_recv(i, n) ==
    /\ Arrives(i, n)
    /\ came' = [came EXCEPT ![i] = @ + n]
    /\ http' = [http EXCEPT ![i] = IF HeaderDone(i, n) THEN HttpLen ELSE @ + n]
    /\ size' = [size EXCEPT ![i] = IF HeaderDone(i, n) THEN length[i] ELSE @]
    /\ \/ /\ Body(i, n) > 0 /\ length[i] > 0
          /\ Write(i, n, Body(i, n))
       \/ /\ ~ (Body(i, n) > 0 /\ length[i] > 0)
          /\ st' = [st EXCEPT ![i] = IF HeaderDone(i, n) /\ length[i] = 0 THEN "closing" ELSE @]
          /\ address' = [address EXCEPT ![i] = Address(i)]
          /\ UNCHANGED <<flash, bin, cursor, flag, offset, finisher, tainted, skipped>>
    /\ UNCHANGED <<length, running>>

\* The server closes its side, whatever has arrived by then.
PeerCloses(i) ==
    /\ st[i] = "open"
    /\ st' = [st EXCEPT ![i] = "left"]
    /\ UNCHANGED <<flash, bin, cursor, flag, length, came, http, address, offset, size,
                   running, finisher, tainted, skipped>>

\* All sessions in `gone' end.
End(gone, how) ==
    /\ st' = [i \in Images |-> IF i \in gone THEN how[i] ELSE st[i]]
    /\ came' = [i \in Images |-> IF i \in gone THEN 0 ELSE came[i]]
    /\ http' = [i \in Images |-> IF i \in gone THEN 0 ELSE http[i]]
    /\ address' = [i \in Images |-> IF i \in gone THEN 0 ELSE address[i]]
    /\ offset' = [i \in Images |-> IF i \in gone THEN 0 ELSE offset[i]]
    /\ UNCHANGED <<length, size>>

LiveSessions == {i \in Images : st[i] \in Live}

\* (Restarts without asking for the flag.)
DisconnRestarts(i) ==
    /\ UpgradeReset(Other(bin))
    /\ End(LiveSessions, [j \in Images |-> IF j = i THEN "freed" ELSE "lost"])
    /\ running' = i
    /\ finisher' = None

\* Restart into the new image when one is complete; otherwise give the writer
\* back, but not while an update is under way.
DisconnDone(i) ==
    IF flag = "FINISH"
    THEN /\ UpgradeReset(Other(bin))
         /\ End(LiveSessions, [j \in Images |-> IF j = i THEN "freed" ELSE "lost"])
         /\ running' = finisher
         /\ finisher' = None
    ELSE /\ End({i}, [j \in Images |-> "freed"])
         /\ cursor' = IF flag # "START" THEN NoWriter ELSE cursor
         /\ UNCHANGED <<bin, flag, running, finisher>>

\* Https reports the disconnect, or that it could not connect or agree.
fota_disconn(i) ==
    /\ st[i] \in {"wait", "left", "closing"}
    /\ DisconnDone(i)
    /\ UNCHANGED <<flash, tainted, skipped>>

\* The connection fails, or the name was known already: nobody is told.
Aborted(i) ==
    /\ st[i] \in Live
    /\ End({i}, [j \in Images |-> "lost"])
    /\ UNCHANGED <<flash, bin, cursor, flag, running, finisher, tainted, skipped>>

PowerFails ==
    /\ UpgradeReset(bin)
    /\ End(LiveSessions, [j \in Images |-> "lost"])
    /\ finisher' = None
    /\ UNCHANGED running

PowerLoss ==
    /\ PowerFails
    /\ UNCHANGED <<flash, tainted, skipped>>

\* Power fails while a piece is being written.
PowerLossInRecv(i, n) ==
    /\ Arrives(i, n)
    /\ Body(i, n) > 0 /\ length[i] > 0
    /\ \E k \in 0 .. Rest(offset[i], Body(i, n)) :
           flash' = Written(Address(i), offset[i], Body(i, n), Payload(i, n, Body(i, n)), k)
    /\ PowerFails
    /\ Spoils(i, Body(i, n))

Next ==
    \/ \E i \in Images, n \in Sizes \cup {0} : fota(i, n)
    \/ \E i \in Images :
          \/ Answered(i)
          \/ \E n \in 1 .. MaxLen : fota_recv(i, n)
          \/ PeerCloses(i)
          \/ fota_disconn(i)
          \/ Aborted(i)
          \/ \E n \in 1 .. MaxLen : PowerLossInRecv(i, n)
    \/ PowerLoss

Spec == Init /\ [][Next]_vars

-----------------------------------------------------------------------------
Cells == (Images \cup {Factory, Blank, Junk}) \X Nat

TypeOK ==
    /\ flash \in [Addr -> Cells]
    /\ bin \in Bins
    /\ cursor \in Nat \cup {NoWriter}
    /\ flag \in Flags
    /\ st \in [Images -> States]
    /\ length \in [Images -> Sizes \cup {0}]
    /\ came \in [Images -> Nat]
    /\ http \in [Images -> 0 .. HttpLen]
    /\ address \in [Images -> Nat]
    /\ offset \in [Images -> Nat]
    /\ size \in [Images -> Sizes \cup {0}]
    /\ running \in Images \cup {Factory}
    /\ finisher \in Images \cup {None}
    /\ tainted \subseteq Images
    /\ skipped \subseteq Images

(***************************************************************************)
(* The flag says FINISH only when the whole image is in the other          *)
(* partition: no part of the HTTP header is in it, none of the image is    *)
(* missing, wherever the answer was cut, provided that no piece skipped a  *)
(* sector and no other session came in between.                            *)
(***************************************************************************)
FinishedIsIntact ==
    flag = "FINISH" /\ finisher \notin tainted \cup skipped =>
        /\ finisher \in Images
        /\ Holds(Other(bin), finisher, length[finisher])

(***************************************************************************)
(* The running bin is whole, whenever power or a connection failed, unless *)
(* it was written with pieces that skip sectors or by two sessions.        *)
(***************************************************************************)
RunningIsIntact ==
    tainted = {} =>
        IF running = Factory
        THEN \A a \in Addr : Sector(a) \in PartitionSecs(bin) => flash[a] = <<Factory, a>>
        ELSE running \notin skipped => Holds(bin, running, length[running])

(***************************************************************************)
(* No erase and no write leaves the two partitions, not even of a session  *)
(* whose pieces skip sectors.                                              *)
(***************************************************************************)
OutsideIsUntouched ==
    tainted = {} =>
        \A a \in Addr :
            Sector(a) \notin PartitionSecs(1) \cup PartitionSecs(2) => flash[a] = <<Factory, a>>

-----------------------------------------------------------------------------
\* What has come is header first, then body; an answer without a length has no
\* body.  The address follows the offset, whether or not there is a context.
SessionInv ==
    \A i \in Images :
        /\ st[i] = "none" => length[i] = 0
        /\ st[i] \notin {"open", "left", "closing"} => came[i] = 0
        /\ http[i] = IF came[i] < HttpLen THEN came[i] ELSE HttpLen
        /\ offset[i] = IF length[i] > 0 THEN came[i] - http[i] ELSE 0
        /\ offset[i] <= length[i]
        /\ Address(i) = StartAddress + offset[i]

\* A session that has written has a writer, and FINISH its finisher, who
\* receives no more.
WriterInv ==
    /\ \A i \in Images : offset[i] > 0 => flag # "IDLE"
    /\ flag # "IDLE" => cursor # NoWriter
    /\ flag = "FINISH" <=> finisher \in Images
    /\ finisher \in Images => length[finisher] > 0 /\ st[finisher] \in {"closing", "lost"}
    /\ running \in Images => length[running] > 0

\* The SDK writes where an undisturbed session says, whatever its pieces skip.
PositionInv ==
    \A i \in Images \ tainted : offset[i] > 0 =>
        cursor = Base(Other(bin)) + (IF offset[i] >= SEC THEN offset[i] - SEC ELSE 0)

\* What an undisturbed session that skipped no sector has received is in place,
\* and the rest of the current sector is blank.
PlacedInv ==
    \A i \in Images \ (tainted \cup skipped) : offset[i] >= SEC =>
        /\ Holds(Other(bin), i, offset[i])
        /\ \A a \in Addr :
               a >= Address(i) /\ Sector(a) = Sector(Address(i)) => flash[a] = Blanked

(***************************************************************************)
(* The inductive invariant behind the three properties.                    *)
(***************************************************************************)
FotaInv ==
    SessionInv /\ WriterInv /\ PositionInv /\ PlacedInv
=============================================================================
