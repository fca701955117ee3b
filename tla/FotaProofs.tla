----------------------------- MODULE FotaProofs -----------------------------
(***************************************************************************)
(* An update over app/fota.cpp is all or nothing unless a piece skips a    *)
(* sector, and stays inside the partitions even then: for every sector     *)
(* size, partition table, length of the HTTP header and cut of the answer. *)
(***************************************************************************)
EXTENDS Fota, UpgradeProofs

IInv ==
    /\ TypeOK
    /\ FotaInv
    /\ FinishedIsIntact
    /\ RunningIsIntact
    /\ OutsideIsUntouched

\* An image has cells behind its header and fits the partition.
LEMMA SizeFacts ==
    ASSUME NEW n \in Sizes \cup {0}
    PROVE  /\ n \in Nat /\ n < SEC + PartSecs * SEC
           /\ n > 0 => n > SEC
<1>1. SEC \in Nat /\ SEC >= 1 /\ PartSecs * SEC \in Nat
  BY FlashAssumption, Z3
<1>2. CASE n = 0
  BY <1>1, <1>2
<1>3. CASE n \in Sizes
  BY <1>1, <1>3, FotaAssumption
<1> QED  BY <1>2, <1>3

\* The initial state.
LEMMA InitInv == Init => IInv
<1> SUFFICES ASSUME Init PROVE IInv
  OBVIOUS
<1> USE DEF Init, UpgradeInit
<1>1. TypeOK
  <2>1. flash \in [Addr -> Cells]
    BY DEF Delivered, Addr, Cells
  <2>2. 0 \in 0 .. HttpLen
    BY FotaAssumption
  <2> QED  BY <2>1, <2>2 DEF TypeOK, Flags, NoWriter, States
<1>2. SessionInv
  <2>1. StartAddress \in Nat /\ HttpLen > 0
    BY StartFacts, FotaAssumption
  <2> QED  BY <2>1 DEF SessionInv, Address
<1>3. WriterInv /\ PositionInv /\ PlacedInv
  BY FotaAssumption, FlashAssumption DEF WriterInv, PositionInv, PlacedInv
<1>4. FinishedIsIntact /\ RunningIsIntact /\ OutsideIsUntouched
  BY DEF FinishedIsIntact, RunningIsIntact, OutsideIsUntouched, Delivered
<1> QED  BY <1>1, <1>2, <1>3, <1>4 DEF IInv, FotaInv

-----------------------------------------------------------------------------
\* fota() and the steps that only move a session on.
LEMMA MoveStep ==
    ASSUME IInv, NEW i \in Images, NEW n \in Sizes \cup {0},
           fota(i, n) \/ Answered(i) \/ PeerCloses(i)
    PROVE  IInv'
<1> USE DEF IInv, FotaInv
<1>1. /\ UNCHANGED <<flash, bin, cursor, flag, came, http, address, offset, size, running,
                     finisher, tainted, skipped>>
      /\ \E t \in {"wait", "open", "left"} : st' = [st EXCEPT ![i] = t]
      /\ \/ st[i] = "none" /\ st'[i] = "wait" /\ length' = [length EXCEPT ![i] = n]
         \/ st[i] \in {"wait", "open"} /\ st'[i] \in {"open", "left"} /\ length' = length
  BY DEF fota, Answered, PeerCloses, TypeOK
<1>2. /\ \A j \in Images \ {i} : st'[j] = st[j] /\ length'[j] = length[j]
      /\ StartAddress' = StartAddress /\ \A j \in Images : Address(j)' = Address(j)
  BY <1>1 DEF TypeOK, StartAddress, Address
<1>3. TypeOK'
  BY <1>1 DEF TypeOK, States
<1>4. \A j \in Images : length[j] > 0 => length'[j] = length[j]
  BY <1>1, <1>2 DEF SessionInv, TypeOK
<1>5. SessionInv'
  <2> SUFFICES ASSUME NEW j \in Images
               PROVE  /\ st'[j] = "none" => length'[j] = 0
                      /\ st'[j] \notin {"open", "left", "closing"} => came[j] = 0
                      /\ http[j] = IF came[j] < HttpLen THEN came[j] ELSE HttpLen
                      /\ offset[j] = IF length'[j] > 0 THEN came[j] - http[j] ELSE 0
                      /\ offset[j] <= length'[j]
                      /\ Address(j) = StartAddress + offset[j]
    BY <1>1, <1>2 DEF SessionInv
  <2>1. CASE j = i /\ st[i] = "none"
    <3>1. came[i] = 0 /\ http[i] = 0 /\ offset[i] = 0
      BY <2>1, FotaAssumption DEF SessionInv
    <3>2. length'[i] \in Nat
      BY <1>3, SizeFacts DEF TypeOK
    <3> QED  BY <1>1, <2>1, <3>1, <3>2, FotaAssumption DEF SessionInv
  <2>2. CASE j # i \/ st[i] # "none"
    BY <1>1, <1>2, <2>2 DEF SessionInv
  <2> QED  BY <2>1, <2>2
<1>6. WriterInv'
  <2>1. finisher \in Images => finisher # i
    BY <1>1 DEF WriterInv
  <2> QED  BY <1>1, <1>2, <1>4, <2>1 DEF WriterInv
<1>7. PositionInv' /\ PlacedInv'
  BY <1>1, <1>2 DEF PositionInv, PlacedInv, Holds
<1>8. FinishedIsIntact'
  <2>1. flag = "FINISH" => finisher \in Images /\ length'[finisher] = length[finisher]
    BY <1>4 DEF WriterInv
  <2> QED  BY <1>1, <2>1 DEF FinishedIsIntact, Holds
<1>9. RunningIsIntact' /\ OutsideIsUntouched'
  <2>1. running # Factory => running \in Images /\ length'[running] = length[running]
    BY <1>4 DEF WriterInv, TypeOK
  <2> QED  BY <1>1, <2>1 DEF RunningIsIntact, OutsideIsUntouched, Holds
<1> QED  BY <1>3, <1>5, <1>6, <1>7, <1>8, <1>9

\* One session ends and the device runs on.
LEMMA EndStep ==
    ASSUME IInv, NEW i \in Images, st[i] \in Live, NEW s \in {"freed", "lost"},
           s = "freed" => flag # "FINISH",
           End({i}, [j \in Images |-> s]),
           UNCHANGED <<flash, bin, flag, running, finisher, tainted, skipped>>,
           cursor' = cursor \/ (flag = "IDLE" /\ cursor' = NoWriter)
    PROVE  IInv'
<1> USE DEF IInv, FotaInv, End
<1>1. /\ st'[i] = s /\ came'[i] = 0 /\ http'[i] = 0 /\ address'[i] = 0 /\ offset'[i] = 0
      /\ \A j \in Images \ {i} :
             /\ st'[j] = st[j] /\ came'[j] = came[j] /\ http'[j] = http[j]
             /\ address'[j] = address[j] /\ offset'[j] = offset[j]
      /\ UNCHANGED <<length, size>> /\ StartAddress' = StartAddress
  BY DEF StartAddress
<1>2. TypeOK'
  <2>1. /\ st' \in [Images -> States] /\ came' \in [Images -> Nat]
        /\ http' \in [Images -> 0 .. HttpLen] /\ address' \in [Images -> Nat]
        /\ offset' \in [Images -> Nat]
    BY FotaAssumption DEF TypeOK, States
  <2> QED  BY <2>1 DEF TypeOK
<1>3. \A j \in Images \ {i} : Address(j)' = Address(j)
  BY <1>1 DEF Address
<1>4. SessionInv'
  <2> SUFFICES ASSUME NEW j \in Images
               PROVE  /\ st'[j] = "none" => length[j] = 0
                      /\ st'[j] \notin {"open", "left", "closing"} => came'[j] = 0
                      /\ http'[j] = IF came'[j] < HttpLen THEN came'[j] ELSE HttpLen
                      /\ offset'[j] = IF length[j] > 0 THEN came'[j] - http'[j] ELSE 0
                      /\ offset'[j] <= length[j]
                      /\ Address(j)' = StartAddress + offset'[j]
    BY <1>1 DEF SessionInv
  <2>1. CASE j = i
    <3>1. Address(i)' = StartAddress /\ StartAddress \in Nat
      BY <1>1, StartFacts DEF Address, TypeOK
    <3>2. length[i] \in Nat
      BY SizeFacts DEF TypeOK
    <3> QED  BY <1>1, <2>1, <3>1, <3>2, FotaAssumption
  <2>2. CASE j # i
    BY <1>1, <1>3, <2>2 DEF SessionInv
  <2> QED  BY <2>1, <2>2
<1>5. WriterInv'
  <2>1. \A j \in Images : offset'[j] > 0 => offset[j] > 0
    BY <1>1
  <2>2. finisher \in Images => st'[finisher] \in {"closing", "lost"}
    BY <1>1 DEF WriterInv
  <2> QED  BY <1>1, <2>1, <2>2 DEF WriterInv
<1>6. \A j \in Images : offset'[j] > 0 =>
          /\ cursor' = cursor /\ offset'[j] = offset[j] /\ Address(j)' = Address(j)
  BY <1>1, <1>3 DEF WriterInv
<1>7. PositionInv'
  BY <1>6 DEF PositionInv
<1>8. PlacedInv'
  <2>1. \A j \in Images : offset'[j] >= SEC => offset'[j] > 0
    BY <1>2, FlashAssumption DEF TypeOK
  <2> QED  BY <1>6, <2>1 DEF PlacedInv, Holds
<1>9. FinishedIsIntact' /\ RunningIsIntact' /\ OutsideIsUntouched'
  BY <1>1 DEF FinishedIsIntact, RunningIsIntact, OutsideIsUntouched, Holds
<1> QED  BY <1>2, <1>4, <1>5, <1>7, <1>8, <1>9

\* All sessions end and the device starts anew.
LEMMA ResetStep ==
    ASSUME IInv, NEW b \in Bins, NEW how \in [Images -> {"freed", "lost"}],
           UpgradeReset(b), End(LiveSessions, how), finisher' = None,
           flash' \in [Addr -> Cells],
           running' \in Images \cup {Factory},
           running' \in Images => length[running'] > 0,
           tainted' \subseteq Images, skipped' \subseteq Images,
           RunningIsIntact', OutsideIsUntouched'
    PROVE  IInv'
<1> USE DEF IInv, FotaInv, UpgradeReset, End
<1>1. \A j \in Images : came'[j] = 0 /\ http'[j] = 0 /\ offset'[j] = 0
  <2> SUFFICES ASSUME NEW j \in Images, j \notin LiveSessions
               PROVE  came[j] = 0 /\ http[j] = 0 /\ offset[j] = 0
    OBVIOUS
  <2>1. came[j] = 0
    BY DEF SessionInv, LiveSessions, Live
  <2> QED  BY <2>1, FotaAssumption DEF SessionInv
<1>2. TypeOK'
  <2>1. /\ st' \in [Images -> States] /\ came' \in [Images -> Nat]
        /\ http' \in [Images -> 0 .. HttpLen] /\ address' \in [Images -> Nat]
        /\ offset' \in [Images -> Nat]
    BY FotaAssumption DEF TypeOK, States
  <2> QED  BY <2>1 DEF TypeOK, Flags
<1>3. SessionInv'
  <2>1. StartAddress' \in Nat
    BY StartFacts, FlashAssumption, PartitionFacts DEF StartAddress, Other, Bins
  <2>2. \A j \in Images : length[j] \in Nat /\ Address(j)' = StartAddress'
    BY <1>1, SizeFacts DEF TypeOK, Address
  <2>3. \A j \in Images : st'[j] = "none" => length[j] = 0
    BY DEF SessionInv, LiveSessions, Live
  <2> QED  BY <1>1, <2>1, <2>2, <2>3, FotaAssumption DEF SessionInv
<1>4. WriterInv'
  BY <1>1, FotaAssumption DEF WriterInv
<1>5. PositionInv' /\ PlacedInv'
  BY <1>1, FlashAssumption DEF PositionInv, PlacedInv
<1>6. FinishedIsIntact'
  BY DEF FinishedIsIntact
<1> QED  BY <1>2, <1>3, <1>4, <1>5, <1>6

-----------------------------------------------------------------------------
\* The body of a piece, of an answer with a length: what it brings is the image
\* from the offset on, and it ends inside the partition.
LEMMA BodyFacts ==
    ASSUME IInv, NEW i \in Images, NEW m \in 1 .. MaxLen, Arrives(i, m),
           NEW n, n = Body(i, m), n > 0, length[i] > 0
    PROVE  /\ n \in Nat \ {0} /\ n <= m
           /\ HeaderDone(i, m) /\ came[i] + m >= HttpLen
           /\ offset[i] + n = came[i] + m - HttpLen
           /\ offset[i] + n <= length[i]
           /\ offset[i] + n < SEC + PartSecs * SEC
           /\ Payload(i, m, n) = i
<1> USE DEF IInv, FotaInv
<1>1. /\ came[i] \in Nat /\ http[i] \in Nat /\ offset[i] \in Nat /\ m \in Nat /\ m >= 1
      /\ HttpLen \in Nat
      /\ http[i] = IF came[i] < HttpLen THEN came[i] ELSE HttpLen
      /\ offset[i] = came[i] - http[i]
      /\ came[i] + m <= HttpLen + length[i]
  BY FotaAssumption DEF TypeOK, SessionInv, Arrives
<1>2. n = http[i] + m - HttpLen /\ n \in Nat \ {0} /\ HeaderDone(i, m)
  BY <1>1 DEF Body, HeaderDone
<1>3. /\ n <= m /\ came[i] + m >= HttpLen /\ offset[i] + n = came[i] + m - HttpLen
      /\ came[i] + m - n = HttpLen + offset[i]
  BY <1>1, <1>2
<1>4. length[i] \in Nat /\ length[i] < SEC + PartSecs * SEC
  BY SizeFacts DEF TypeOK
<1>5. PartSecs * SEC \in Nat /\ SEC \in Nat
  BY FlashAssumption, Z3
<1> QED  BY <1>1, <1>2, <1>3, <1>4, <1>5 DEF Payload

\* What PieceEffect asks for holds for an undisturbed session.
LEMMA PieceOfSession ==
    ASSUME IInv, NEW i \in Images \ tainted, NEW m \in 1 .. MaxLen, Arrives(i, m),
           NEW n, n = Body(i, m), n > 0, length[i] > 0
    PROVE  /\ Ready(Address(i), offset[i], n)
           /\ i \notin skipped => Fresh(Address(i), offset[i])
<1> USE DEF IInv, FotaInv
<1>1. /\ n \in Nat \ {0} /\ offset[i] \in Nat /\ bin \in Bins
      /\ offset[i] + n < SEC + PartSecs * SEC
      /\ Address(i) = StartAddress + offset[i]
  BY BodyFacts DEF TypeOK, SessionInv
<1>2. Position(offset[i]) =
          Base(Other(bin)) + (IF offset[i] >= SEC THEN offset[i] - SEC ELSE 0)
  <2>1. CASE offset[i] = 0
    <3>1. SEC \in Nat /\ SEC > 0 /\ Base(Other(bin)) \in Nat
      BY <1>1, StartFacts, FlashAssumption
    <3> QED  BY <2>1, <3>1 DEF Position
  <2>2. CASE offset[i] > 0
    BY <2>2 DEF PositionInv, Position
  <2> QED  BY <1>1, <2>1, <2>2
<1>3. i \notin skipped => Fresh(Address(i), offset[i])
  BY DEF PlacedInv, Fresh
<1> QED  BY <1>1, <1>2, <1>3 DEF Ready

\* While nobody was disturbed, a piece changes the other partition only, also
\* if it skips sectors.
LEMMA OthersUntouched ==
    ASSUME IInv, NEW i \in Images, NEW m \in 1 .. MaxLen, Arrives(i, m),
           NEW n, n = Body(i, m), n > 0, length[i] > 0,
           NEW k \in 0 .. Rest(offset[i], n), NEW p,
           flash' = Written(Address(i), offset[i], n, p, k),
           bin' = bin, UNCHANGED <<running, length>>, tainted \subseteq tainted',
           skipped \subseteq skipped'
    PROVE  RunningIsIntact' /\ OutsideIsUntouched'
<1> USE DEF IInv, FotaInv
<1> SUFFICES ASSUME tainted = {}
             PROVE  RunningIsIntact' /\ OutsideIsUntouched'
  BY DEF RunningIsIntact, OutsideIsUntouched
<1>1. \A a \in Addr : Sector(a) \notin PartitionSecs(Other(bin)) => flash'[a] = flash[a]
  <2>1. Ready(Address(i), offset[i], n)
    BY PieceOfSession
  <2>2. Contained(Address(i), offset[i], n, p, k)
    BY <2>1, PieceEffect
  <2> QED  BY <2>2 DEF Contained
<1>2. bin \in Bins
  BY DEF TypeOK
<1>3. OutsideIsUntouched'
  BY <1>1, <1>2, RunningUntouched DEF OutsideIsUntouched
<1>4. CASE running = Factory
  BY <1>1, <1>2, <1>3, <1>4, RunningUntouched DEF RunningIsIntact
<1>5. CASE running # Factory
  <2>1. length[running] \in Nat /\ length[running] < SEC + PartSecs * SEC
    BY <1>5, SizeFacts DEF TypeOK
  <2>2. Holds(bin, running, length[running]) => Holds(bin, running, length[running])'
    <3>1. ASSUME Holds(bin, running, length[running]),
                 NEW c \in SEC .. (length[running] - 1)
          PROVE  flash'[Base(bin) + (c - SEC)] = <<running, c>>
      <4>1. PICK l \in Nat : l = length[running]
        BY <2>1
      <4>2. \A j \in SEC .. (l - 1) : flash'[Base(bin) + (j - SEC)] = <<running, j>>
        BY <1>1, <1>2, <2>1, <3>1, <4>1, RunningUntouched DEF Holds
      <4> QED  BY <3>1, <4>1, <4>2
    <3> QED  BY <3>1 DEF Holds
  <2>3. running \notin skipped' => Holds(bin, running, length[running])
    BY <1>5 DEF RunningIsIntact
  <2> QED  BY <1>3, <1>5, <2>2, <2>3 DEF RunningIsIntact
<1> QED  BY <1>4, <1>5

\* A piece that brings nothing to be written.
LEMMA HeaderStep ==
    ASSUME IInv, NEW i \in Images, NEW m \in 1 .. MaxLen, fota_recv(i, m),
           ~ (Body(i, m) > 0 /\ length[i] > 0)
    PROVE  IInv'
<1> USE DEF IInv, FotaInv
<1>1. /\ st[i] = "open"
      /\ length[i] > 0 => came[i] + m <= HttpLen + length[i]
      /\ came' = [came EXCEPT ![i] = @ + m]
      /\ http' = [http EXCEPT ![i] = IF HeaderDone(i, m) THEN HttpLen ELSE @ + m]
      /\ size' = [size EXCEPT ![i] = IF HeaderDone(i, m) THEN length[i] ELSE @]
      /\ st' = [st EXCEPT ![i] = IF HeaderDone(i, m) /\ length[i] = 0 THEN "closing" ELSE @]
      /\ address' = [address EXCEPT ![i] = Address(i)]
      /\ UNCHANGED <<flash, bin, cursor, flag, offset, finisher, tainted, skipped, length, running>>
  BY DEF fota_recv, Arrives, Write
<1>2. /\ came[i] \in Nat /\ http[i] \in Nat /\ m \in Nat /\ m >= 1 /\ offset[i] \in Nat
      /\ HttpLen \in Nat \ {0} /\ length[i] \in Nat
      /\ Address(i) = StartAddress + offset[i] /\ StartAddress \in Nat
      /\ StartAddress' = StartAddress
      /\ http[i] = IF came[i] < HttpLen THEN came[i] ELSE HttpLen
      /\ offset[i] = IF length[i] > 0 THEN came[i] - http[i] ELSE 0
  <2>1. StartAddress \in Nat /\ StartAddress' = StartAddress
    BY <1>1, StartFacts DEF TypeOK, StartAddress
  <2>2. length[i] \in Nat
    BY SizeFacts DEF TypeOK
  <2> QED  BY <2>1, <2>2, FotaAssumption DEF TypeOK, SessionInv
<1>3. /\ http'[i] = IF came'[i] < HttpLen THEN came'[i] ELSE HttpLen
      /\ came'[i] = came[i] + m /\ http'[i] \in 1 .. HttpLen
      /\ length[i] > 0 => came'[i] = http'[i] /\ offset[i] = 0
  <2>1. http'[i] = (IF HeaderDone(i, m) THEN HttpLen ELSE http[i] + m) /\ came'[i] = came[i] + m
    BY <1>1 DEF TypeOK
  <2>2. HeaderDone(i, m) <=> http[i] + m >= HttpLen
    BY DEF HeaderDone
  <2>3. length[i] > 0 => http[i] + m <= HttpLen
    BY <1>2 DEF Body
  <2> QED  BY <1>2, <2>1, <2>2, <2>3
<1>4. TypeOK'
  <2>1. http' \in [Images -> 0 .. HttpLen]
    BY <1>1, <1>3 DEF TypeOK
  <2>2. address' \in [Images -> Nat] /\ came' \in [Images -> Nat]
    BY <1>1, <1>2 DEF TypeOK
  <2>3. size' \in [Images -> Sizes \cup {0}] /\ st' \in [Images -> States]
    BY <1>1 DEF TypeOK, States
  <2> QED  BY <1>1, <2>1, <2>2, <2>3 DEF TypeOK
<1>5. \A j \in Images : Address(j)' = Address(j)
  <2>1. address'[i] = Address(i)
    BY <1>1 DEF TypeOK
  <2>2. Address(i)' = Address(i)
    BY <1>2, <1>3, <2>1 DEF Address
  <2>3. \A j \in Images \ {i} : http'[j] = http[j] /\ address'[j] = address[j]
    BY <1>1 DEF TypeOK
  <2> QED  BY <1>2, <2>2, <2>3 DEF Address
<1>6. \A j \in Images \ {i} : st'[j] = st[j] /\ came'[j] = came[j] /\ http'[j] = http[j]
  BY <1>1 DEF TypeOK
<1>7. st'[i] \in {"open", "closing"}
  BY <1>1 DEF TypeOK
<1>8. SessionInv'
  <2> SUFFICES ASSUME NEW j \in Images
               PROVE  /\ st'[j] = "none" => length[j] = 0
                      /\ st'[j] \notin {"open", "left", "closing"} => came'[j] = 0
                      /\ http'[j] = IF came'[j] < HttpLen THEN came'[j] ELSE HttpLen
                      /\ offset[j] = IF length[j] > 0 THEN came'[j] - http'[j] ELSE 0
                      /\ offset[j] <= length[j]
                      /\ Address(j) = StartAddress + offset[j]
    BY <1>1, <1>2, <1>5 DEF SessionInv
  <2>1. CASE j = i
    BY <1>2, <1>3, <1>7, <2>1
  <2>2. CASE j # i
    BY <1>6, <2>2 DEF SessionInv
  <2> QED  BY <2>1, <2>2
<1>9. WriterInv'
  <2>1. finisher \in Images => st'[finisher] = st[finisher]
    BY <1>1, <1>6 DEF WriterInv
  <2> QED  BY <1>1, <2>1 DEF WriterInv
<1>10. PositionInv' /\ PlacedInv'
  BY <1>1, <1>5 DEF PositionInv, PlacedInv, Holds
<1>11. FinishedIsIntact' /\ RunningIsIntact' /\ OutsideIsUntouched'
  BY <1>1 DEF FinishedIsIntact, RunningIsIntact, OutsideIsUntouched, Holds
<1> QED  BY <1>4, <1>8, <1>9, <1>10, <1>11

\* A piece is written.
LEMMA WriteStep ==
    ASSUME IInv, NEW i \in Images, NEW m \in 1 .. MaxLen, fota_recv(i, m),
           Body(i, m) > 0, length[i] > 0
    PROVE  IInv'
<1> DEFINE n   == Body(i, m)
           o   == offset[i]
           adr == Address(i)
           B   == Base(Other(bin))
<1>a. /\ Arrives(i, m) /\ st[i] = "open"
      /\ came' = [came EXCEPT ![i] = @ + m]
      /\ http' = [http EXCEPT ![i] = IF HeaderDone(i, m) THEN HttpLen ELSE @ + m]
      /\ size' = [size EXCEPT ![i] = IF HeaderDone(i, m) THEN length[i] ELSE @]
      /\ flash' = Written(adr, o, n, Payload(i, m, n), Rest(o, n))
      /\ cursor' = NextPosition(o, n)
      /\ address' = [address EXCEPT ![i] = adr + n]
      /\ offset' = [offset EXCEPT ![i] = @ + n]
      /\ flag' = IF o + n = length[i] THEN "FINISH" ELSE IF o = 0 THEN "START" ELSE flag
      /\ finisher' = IF o + n = length[i] THEN i ELSE IF o = 0 THEN None ELSE finisher
      /\ st' = [st EXCEPT ![i] = IF o + n = length[i] THEN "closing" ELSE @]
      /\ tainted' = tainted \cup Disturbed(i)
      /\ skipped' = IF SkipsSector(i, n) THEN skipped \cup {i} ELSE skipped
      /\ UNCHANGED <<bin, length, running>>
  BY DEF fota_recv, Arrives, Write, UpgradePiece, Started, Finishes, Spoils
<1>b. /\ n \in Nat \ {0} /\ HeaderDone(i, m) /\ Payload(i, m, n) = i
      /\ came[i] + m >= HttpLen /\ o + n = came[i] + m - HttpLen
      /\ o + n <= length[i]
  BY <1>a, BodyFacts
<1>c. /\ o \in Nat /\ adr = StartAddress + o /\ StartAddress \in Nat /\ bin \in Bins
      /\ StartAddress' = StartAddress /\ came[i] \in Nat /\ m \in Nat
      /\ B \in Nat /\ StartAddress = B - SEC /\ SEC \in Nat /\ SEC >= 1
      /\ HttpLen \in Nat /\ HttpLen >= 1 /\ length[i] \in Nat
      /\ length[i] > SEC
  <2>1. o \in Nat /\ adr = StartAddress + o /\ bin \in Bins /\ came[i] \in Nat
        /\ length[i] \in Sizes \cup {0}
    BY DEF IInv, FotaInv, TypeOK, SessionInv
  <2>2. StartAddress' = StartAddress
    BY <1>a DEF StartAddress
  <2>3. /\ StartAddress \in Nat /\ B \in Nat /\ StartAddress = B - SEC
        /\ SEC \in Nat /\ SEC >= 1
    BY <2>1, StartFacts, FlashAssumption
  <2>4. m \in Nat /\ HttpLen \in Nat /\ HttpLen >= 1
    BY FotaAssumption
  <2>5. length[i] \in Nat /\ length[i] > SEC
    BY <2>1, SizeFacts
  <2> HIDE DEF adr, B
  <2> QED  BY <2>1, <2>2, <2>3, <2>4, <2>5
<1>d. /\ offset'[i] = o + n /\ came'[i] = came[i] + m /\ http'[i] = HttpLen
      /\ address'[i] = adr + n
      /\ \A j \in Images \ {i} :
             /\ offset'[j] = offset[j] /\ came'[j] = came[j] /\ http'[j] = http[j]
             /\ address'[j] = address[j] /\ st'[j] = st[j]
      /\ st'[i] = IF o + n = length[i] THEN "closing" ELSE "open"
  BY <1>a, <1>b DEF IInv, TypeOK
<1>e. /\ Address(i)' = adr + n
      /\ \A j \in Images \ {i} : Address(j)' = Address(j)
  BY <1>c, <1>d DEF Address
<1>f. Rest(o, n) \in Nat
  BY <1>b, <1>c DEF Rest, Skip
<1>g. /\ i \notin Disturbed(i) /\ tainted' \subseteq Images /\ tainted \subseteq tainted'
      /\ skipped' \subseteq Images /\ skipped \subseteq skipped'
  BY <1>a DEF Disturbed, IInv, TypeOK
<1>h. Position(o) \in Nat
  BY <1>c DEF Position, IInv, FotaInv, WriterInv, TypeOK
<1>i. cursor' \in Nat
  BY <1>a, <1>f, <1>h DEF NextPosition, NoWriter
<1>j. finisher # i
  BY <1>a DEF IInv, FotaInv, WriterInv
<1>k. /\ o \in Nat /\ n \in Nat /\ adr \in Nat /\ B \in Nat /\ SEC \in Nat
      /\ o + n \in Nat /\ adr + n \in Nat /\ length[i] \in Nat
  BY <1>b, <1>c
<1>1. TypeOK'
  <2>1. flash' \in [Addr -> Cells]
    BY <1>a, <1>b, <1>c, <1>f, WrittenCells DEF IInv, TypeOK, Cells
  <2>2. /\ came' \in [Images -> Nat] /\ http' \in [Images -> 0 .. HttpLen]
        /\ address' \in [Images -> Nat] /\ offset' \in [Images -> Nat]
    BY <1>a, <1>b, <1>c DEF IInv, TypeOK
  <2>3. /\ size' \in [Images -> Sizes \cup {0}] /\ st' \in [Images -> States]
        /\ flag' \in Flags /\ finisher' \in Images \cup {None}
    BY <1>a DEF IInv, TypeOK, States, Flags
  <2> QED  BY <1>a, <1>g, <1>i, <2>1, <2>2, <2>3 DEF IInv, TypeOK
<1>2. SessionInv'
  <2> SUFFICES ASSUME NEW j \in Images
               PROVE  /\ st'[j] = "none" => length[j] = 0
                      /\ st'[j] \notin {"open", "left", "closing"} => came'[j] = 0
                      /\ http'[j] = IF came'[j] < HttpLen THEN came'[j] ELSE HttpLen
                      /\ offset'[j] = IF length[j] > 0 THEN came'[j] - http'[j] ELSE 0
                      /\ offset'[j] <= length[j]
                      /\ Address(j)' = StartAddress + offset'[j]
    BY <1>a, <1>c DEF SessionInv
  <2>1. CASE j = i
    BY <1>b, <1>c, <1>d, <1>e, <2>1
  <2>2. CASE j # i
    BY <1>d, <1>e, <2>2 DEF IInv, FotaInv, SessionInv
  <2> QED  BY <2>1, <2>2
<1>3. WriterInv'
  <2>1. flag' # "IDLE"
    BY <1>a, <1>c DEF IInv, FotaInv, WriterInv
  <2>2. CASE o + n = length[i]
    BY <1>a, <1>d, <1>i, <2>1, <2>2 DEF WriterInv, NoWriter, IInv, FotaInv
  <2>3. CASE o + n # length[i] /\ o = 0
    BY <1>a, <1>d, <1>i, <2>1, <2>3, FotaAssumption DEF WriterInv, NoWriter, IInv, FotaInv
  <2>4. CASE o + n # length[i] /\ o # 0
    BY <1>a, <1>d, <1>i, <1>j, <2>1, <2>4 DEF WriterInv, NoWriter, IInv, FotaInv
  <2> QED  BY <2>2, <2>3, <2>4
<1>4. ASSUME NEW j \in Images \ tainted', offset'[j] > 0
      PROVE  j = i /\ i \notin tainted /\ Ready(adr, o, n)
  <2>1. j = i /\ i \notin tainted
    BY <1>4, <1>a, <1>d, <1>g DEF Disturbed
  <2> QED  BY <2>1, <1>a, <1>b, PieceOfSession
<1>5. PositionInv'
  <2> SUFFICES ASSUME NEW j \in Images \ tainted', offset'[j] > 0
               PROVE  cursor' = B + (IF offset'[j] >= SEC THEN offset'[j] - SEC ELSE 0)
    BY <1>a DEF PositionInv
  <2>1. j = i /\ Ready(adr, o, n)
    BY <1>4
  <2>2. Rest(o, n) \in 0 .. Rest(o, n)
    BY <1>f
  <2>3. Advanced(o, n)
    BY <2>1, <2>2, PieceEffect
  <2>4. offset'[j] = o + n /\ cursor' = NextPosition(o, n)
    BY <1>a, <1>d, <2>1
  <2> HIDE DEF o, n
  <2> QED  BY <1>k, <2>3, <2>4 DEF Advanced
<1>6. ASSUME NEW j \in Images \ (tainted' \cup skipped'), offset'[j] >= SEC
      PROVE  /\ j = i
             /\ \A c \in SEC .. (o + n - 1) : flash'[B + (c - SEC)] = <<i, c>>
             /\ \A a \in Addr :
                    a >= adr + n /\ Sector(a) = Sector(adr + n) => flash'[a] = Blanked
  <2>1. j = i /\ i \notin tainted /\ Ready(adr, o, n)
    BY <1>1, <1>4, <1>6, <1>c DEF TypeOK
  <2>2. i \notin skipped /\ ~ SkipsSector(i, n)
    BY <1>a, <1>6, <2>1
  <2>3. Fresh(adr, o)
    BY <2>1, <2>2, <1>a, <1>b, PieceOfSession
  <2>4. Near(adr, o, n)
    <3> DEFINE a == adr + Skip(o, n)
    <3>1. a \in Nat /\ a + Rest(o, n) \in Nat
      BY <1>b, <1>c, <1>f DEF Skip
    <3>2. Sector(a) \in Nat /\ Sector(a + Rest(o, n)) \in Nat
      BY <3>1, SectorBounds
    <3>3. ~ (Sector(a + Rest(o, n)) > Sector(a) + 1)
      BY <2>2 DEF SkipsSector
    <3> HIDE DEF a
    <3>4. Sector(a + Rest(o, n)) <= Sector(a) + 1
      BY <3>2, <3>3
    <3> QED  BY <3>4 DEF Near, a
  <2>5. o >= SEC => Holds(Other(bin), i, o)
    BY <2>1, <2>2 DEF IInv, FotaInv, PlacedInv
  <2>6. o + n >= SEC
    BY <1>6, <1>d, <2>1
  <2>7. flash' = Written(adr, o, n, i, Rest(o, n))
    BY <1>a, <1>b
  <2> HIDE DEF o, adr, n
  <2>8. /\ \A c \in SEC .. (o + n - 1) : flash'[Base(Other(bin)) + (c - SEC)] = <<i, c>>
        /\ \A a \in Addr :
               a >= adr + n /\ Sector(a) = Sector(adr + n) => flash'[a] = Blanked
    BY <2>1, <2>3, <2>4, <2>5, <2>6, <2>7, PieceExtends
  <2> QED  BY <2>1, <2>8
<1>7. PlacedInv'
  <2> SUFFICES ASSUME NEW j \in Images \ (tainted' \cup skipped'), offset'[j] >= SEC
               PROVE  /\ \A c \in SEC .. (offset'[j] - 1) : flash'[B + (c - SEC)] = <<j, c>>
                      /\ \A a \in Addr :
                             a >= Address(j)' /\ Sector(a) = Sector(Address(j)') =>
                                 flash'[a] = Blanked
    BY <1>a DEF PlacedInv, Holds
  <2>1. /\ j = i
        /\ \A c \in SEC .. (o + n - 1) : flash'[B + (c - SEC)] = <<i, c>>
        /\ \A a \in Addr :
               a >= adr + n /\ Sector(a) = Sector(adr + n) => flash'[a] = Blanked
    BY <1>6
  <2>2. offset'[j] = o + n /\ Address(j)' = adr + n
    BY <1>d, <1>e, <2>1
  <2> HIDE DEF o, n, adr, B
  <2> QED  BY <1>k, <2>1, <2>2
<1>8. FinishedIsIntact'
  <2> SUFFICES ASSUME flag' = "FINISH", finisher' \notin tainted' \cup skipped'
               PROVE  /\ finisher' \in Images
                      /\ \A c \in SEC .. (length[finisher'] - 1) :
                             flash'[B + (c - SEC)] = <<finisher', c>>
    BY <1>a DEF FinishedIsIntact, Holds
  <2>1. CASE o + n = length[i]
    <3>1. finisher' = i /\ offset'[i] = length[i] /\ offset'[i] >= SEC
      BY <1>a, <1>c, <1>d, <2>1
    <3>2. \A c \in SEC .. (o + n - 1) : flash'[B + (c - SEC)] = <<i, c>>
      BY <1>6, <3>1
    <3> HIDE DEF o, n, B
    <3> QED  BY <1>k, <2>1, <3>1, <3>2
  <2>2. CASE o + n # length[i]
    <3>1. o > 0 /\ finisher' = finisher /\ flag = "FINISH"
      BY <1>a, <1>c, <2>2
    <3>2. finisher \in Images \ {i}
      BY <1>j, <3>1 DEF IInv, FotaInv, WriterInv
    <3>3. finisher \in tainted'
      BY <1>a, <3>1, <3>2 DEF Disturbed
    <3> QED  BY <3>1, <3>3
  <2> QED  BY <2>1, <2>2
<1>9. RunningIsIntact' /\ OutsideIsUntouched'
  <2>1. Rest(o, n) \in 0 .. Rest(o, n)
    BY <1>f
  <2> QED  BY <1>a, <1>b, <1>g, <2>1, OthersUntouched
<1> QED  BY <1>1, <1>2, <1>3, <1>5, <1>7, <1>8, <1>9 DEF IInv, FotaInv

\* Power fails while a piece is written.
LEMMA PowerLossInRecvStep ==
    ASSUME IInv, NEW i \in Images, NEW m \in 1 .. MaxLen, PowerLossInRecv(i, m)
    PROVE  IInv'
<1> DEFINE n   == Body(i, m)
           how == [j \in Images |-> "lost"]
<1>1. PICK k \in 0 .. Rest(offset[i], n) :
          flash' = Written(Address(i), offset[i], n, Payload(i, m, n), k)
  BY DEF PowerLossInRecv
<1>2. /\ Arrives(i, m) /\ n > 0 /\ length[i] > 0
      /\ UpgradeReset(bin) /\ End(LiveSessions, how) /\ finisher' = None
      /\ UNCHANGED <<running, length>> /\ bin' = bin
      /\ tainted' = tainted \cup Disturbed(i)
      /\ skipped' = IF SkipsSector(i, n) THEN skipped \cup {i} ELSE skipped
  BY DEF PowerLossInRecv, PowerFails, UpgradeReset, End, Spoils
<1>3. /\ tainted' \subseteq Images /\ tainted \subseteq tainted'
      /\ skipped' \subseteq Images /\ skipped \subseteq skipped'
  BY <1>2 DEF Disturbed, IInv, TypeOK
<1>4. n \in Nat \ {0} /\ Payload(i, m, n) = i
  BY <1>2, BodyFacts
<1>5. RunningIsIntact' /\ OutsideIsUntouched'
  BY <1>1, <1>2, <1>3, OthersUntouched
<1>6. k \in Nat /\ offset[i] \in Nat
  BY DEF IInv, TypeOK
<1>7. flash' \in [Addr -> Cells]
  BY <1>1, <1>4, <1>6, WrittenCells DEF IInv, TypeOK, Cells
<1>8. how \in [Images -> {"freed", "lost"}]
  OBVIOUS
<1>9. /\ running' \in Images \cup {Factory} /\ bin \in Bins
      /\ running' \in Images => length[running'] > 0
  BY <1>2 DEF IInv, FotaInv, TypeOK, WriterInv
<1> HIDE DEF n, how
<1> QED  BY <1>2, <1>3, <1>5, <1>7, <1>8, <1>9, ResetStep

\* Power fails between two callbacks.
LEMMA PowerLossStep ==
    ASSUME IInv, PowerLoss
    PROVE  IInv'
<1> DEFINE how == [j \in Images |-> "lost"]
<1>1. /\ UpgradeReset(bin) /\ End(LiveSessions, how) /\ finisher' = None
      /\ UNCHANGED <<running, length, flash, tainted, skipped>> /\ bin' = bin
  BY DEF PowerLoss, PowerFails, UpgradeReset, End
<1>2. RunningIsIntact' /\ OutsideIsUntouched'
  BY <1>1 DEF IInv, RunningIsIntact, OutsideIsUntouched, Holds
<1>3. /\ how \in [Images -> {"freed", "lost"}]
      /\ flash' \in [Addr -> Cells] /\ tainted' \subseteq Images /\ skipped' \subseteq Images
      /\ running' \in Images \cup {Factory} /\ bin \in Bins
      /\ running' \in Images => length[running'] > 0
  BY <1>1 DEF IInv, FotaInv, TypeOK, WriterInv
<1> HIDE DEF how
<1> QED  BY <1>1, <1>2, <1>3, ResetStep

\* A disconnect is reported: the device restarts into the new image, or goes on.
LEMMA DisconnStep ==
    ASSUME IInv, NEW i \in Images, fota_disconn(i)
    PROVE  IInv'
<1> USE DEF fota_disconn
<1>1. CASE flag = "FINISH"
  <2> DEFINE how == [j \in Images |-> IF j = i THEN "freed" ELSE "lost"]
  <2>1. /\ UpgradeReset(Other(bin)) /\ bin' = Other(bin) /\ running' = finisher
        /\ End(LiveSessions, how) /\ finisher' = None
        /\ UNCHANGED <<flash, tainted, skipped, length>>
    BY <1>1 DEF DisconnDone, UpgradeReset, End
  <2>2. /\ bin \in Bins /\ Other(bin) \in Bins
        /\ finisher \in Images /\ finisher # Factory /\ length[finisher] > 0
    BY <1>1, StartFacts, FotaAssumption DEF IInv, FotaInv, TypeOK, WriterInv
  <2>3. OutsideIsUntouched'
    BY <2>1 DEF IInv, OutsideIsUntouched
  <2>4. RunningIsIntact'
    BY <1>1, <2>1, <2>2 DEF IInv, RunningIsIntact, FinishedIsIntact, Holds
  <2>5. /\ how \in [Images -> {"freed", "lost"}]
        /\ flash' \in [Addr -> Cells] /\ tainted' \subseteq Images /\ skipped' \subseteq Images
        /\ running' \in Images \cup {Factory}
        /\ running' \in Images => length[running'] > 0
    BY <2>1, <2>2 DEF IInv, TypeOK
  <2> HIDE DEF how
  <2> QED  BY <2>1, <2>2, <2>3, <2>4, <2>5, ResetStep
<1>2. CASE flag # "FINISH"
  <2>1. /\ End({i}, [j \in Images |-> "freed"])
        /\ UNCHANGED <<flash, bin, flag, running, finisher, tainted, skipped>>
        /\ cursor' = cursor \/ (flag = "IDLE" /\ cursor' = NoWriter)
        /\ st[i] \in Live
    BY <1>2 DEF DisconnDone, IInv, TypeOK, Flags, Live
  <2> QED  BY <1>2, <2>1, EndStep
<1> QED  BY <1>1, <1>2

-----------------------------------------------------------------------------
\* Every step preserves the invariant.
LEMMA NextInv == IInv /\ [Next]_vars => IInv'
<1> SUFFICES ASSUME IInv, [Next]_vars PROVE IInv'
  OBVIOUS
<1>1. ASSUME NEW i \in Images, NEW n \in Sizes \cup {0}, fota(i, n)
      PROVE  IInv'
  BY <1>1, MoveStep
<1>2. ASSUME NEW i \in Images, Answered(i) \/ PeerCloses(i)
      PROVE  IInv'
  <2>1. 0 \in Sizes \cup {0}
    OBVIOUS
  <2> QED  BY <1>2, <2>1, MoveStep
<1>3. ASSUME NEW i \in Images, NEW n \in 1 .. MaxLen, fota_recv(i, n)
      PROVE  IInv'
  <2>1. CASE Body(i, n) > 0 /\ length[i] > 0
    BY <1>3, <2>1, WriteStep
  <2>2. CASE ~ (Body(i, n) > 0 /\ length[i] > 0)
    BY <1>3, <2>2, HeaderStep
  <2> QED  BY <2>1, <2>2
<1>4. ASSUME NEW i \in Images, fota_disconn(i)
      PROVE  IInv'
  BY <1>4, DisconnStep
<1>5. ASSUME NEW i \in Images, Aborted(i)
      PROVE  IInv'
  BY <1>5, EndStep DEF Aborted
<1>6. ASSUME NEW i \in Images, NEW n \in 1 .. MaxLen, PowerLossInRecv(i, n)
      PROVE  IInv'
  BY <1>6, PowerLossInRecvStep
<1>7. CASE PowerLoss
  BY <1>7, PowerLossStep
<1>8. CASE UNCHANGED vars
  <2>1. /\ UNCHANGED <<flash, bin, cursor, flag, st, length, came, http, address, offset,
                       size, running, finisher, tainted, skipped>>
        /\ StartAddress' = StartAddress
    BY <1>8 DEF vars, StartAddress
  <2>2. TypeOK' /\ WriterInv' /\ FinishedIsIntact' /\ RunningIsIntact' /\ OutsideIsUntouched'
    BY <2>1 DEF IInv, FotaInv, TypeOK, WriterInv, FinishedIsIntact, RunningIsIntact,
                OutsideIsUntouched, Holds
  <2>3. \A i \in Images : Address(i)' = Address(i)
    BY <2>1 DEF Address
  <2>4. SessionInv' /\ PositionInv' /\ PlacedInv'
    BY <2>1, <2>3 DEF IInv, FotaInv, SessionInv, PositionInv, PlacedInv, Holds
  <2> QED  BY <2>2, <2>4 DEF IInv, FotaInv
<1> QED  BY <1>1, <1>2, <1>3, <1>4, <1>5, <1>6, <1>7, <1>8 DEF Next

\* The inductive invariant holds in every reachable state.
THEOREM Invariant == Spec => []IInv
  BY InitInv, NextInv, PTL DEF Spec

\* Every variable keeps its type, and what the client keeps agrees with what
\* has come and with the SDK's writer.
THEOREM SessionsCorrect == Spec => [](TypeOK /\ FotaInv)
  BY Invariant, PTL DEF IInv

\* FINISH is set, and stays set, only over a complete image.
THEOREM FinishCorrect == Spec => []FinishedIsIntact
  BY Invariant, PTL DEF IInv

\* The running bin is whole after every update, abort and power failure.
THEOREM UpdateIsAllOrNothing == Spec => []RunningIsIntact
  BY Invariant, PTL DEF IInv

\* Nothing outside the two partitions is erased or written.
THEOREM UpdateStaysInside == Spec => []OutsideIsUntouched
  BY Invariant, PTL DEF IInv
=============================================================================
