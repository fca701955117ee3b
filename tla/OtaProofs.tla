------------------------------ MODULE OtaProofs ------------------------------
(***************************************************************************)
(* An update over app/ota.c is all or nothing, for every sector size,      *)
(* partition table, set of images and number of sessions.                  *)
(***************************************************************************)
EXTENDS Ota, UpgradeProofs

IInv ==
    /\ TypeOK
    /\ WriterIsHeld
    /\ UpdateInv
    /\ FinishedIsIntact
    /\ RunningIsIntact
    /\ OutsideIsUntouched

\* An image has cells behind its header and fits the partition.
LEMMA SizeFacts ==
    ASSUME NEW n \in Sizes
    PROVE  n \in Nat /\ n > SEC /\ n < SEC + PartSecs * SEC
<1>1. SEC \in Nat /\ PartSecs * SEC \in Nat
  BY FlashAssumption, Z3
<1> QED  BY <1>1, OtaAssumption

\* The initial state.
LEMMA InitInv == Init => IInv
<1> SUFFICES ASSUME Init PROVE IInv
  OBVIOUS
<1> USE DEF Init, UpgradeInit
<1>1. TypeOK
  <2>1. flash \in [Addr -> Cells]
    BY DEF Delivered, Addr, Cells
  <2>2. listening \in BOOLEAN
    OBVIOUS
  <2>3. /\ st \in [Images -> States]
        /\ address \in [Images -> Nat]
        /\ offset \in [Images -> Nat]
        /\ size \in [Images -> Sizes \cup {0}]
        /\ pending \in [Images -> 0 .. MaxPending]
    BY OtaAssumption DEF States
  <2> QED  BY <2>1, <2>2, <2>3 DEF TypeOK, Flags, NoWriter
<1>2. \A i \in Images : offset[i] = 0 /\ st[i] = "none"
  OBVIOUS
<1>3. WriterIsHeld /\ FinishedIsIntact
  BY <1>2 DEF WriterIsHeld, FinishedIsIntact
<1>4. UpdateInv
  BY <1>2 DEF UpdateInv, SessionInv, FinisherInv, Live
<1>5. RunningIsIntact /\ OutsideIsUntouched
  BY DEF RunningIsIntact, OutsideIsUntouched, Delivered
<1> QED  BY <1>1, <1>3, <1>4, <1>5 DEF IInv

-----------------------------------------------------------------------------
\* Steps that leave the chip, the SDK and the sessions' progress alone.
LEMMA QuietStep ==
    ASSUME IInv,
           UNCHANGED <<flash, bin, cursor, flag, offset, pending, running, finisher, tainted>>,
           listening' \in BOOLEAN,
           st' \in [Images -> States],
           \/ UNCHANGED <<st, address, size>>
           \/ \E i \in Images :
                /\ st'[i] = "connecting" /\ st[i] = "none"
                /\ address'[i] = StartAddress /\ size'[i] \in Sizes
                /\ address' \in [Images -> Nat] /\ size' \in [Images -> Sizes \cup {0}]
                /\ \A j \in Images \ {i} :
                       st'[j] = st[j] /\ address'[j] = address[j] /\ size'[j] = size[j]
           \/ \E i \in Images :
                /\ \/ st[i] = "connecting" /\ st'[i] = "open"
                   \/ st[i] = "open" /\ st'[i] = "left"
                /\ UNCHANGED <<address, size>>
                /\ \A j \in Images \ {i} : st'[j] = st[j]
    PROVE  IInv'
<1> USE DEF IInv
<1>a. bin \in Bins /\ StartAddress' = StartAddress /\ StartAddress \in Nat
  BY StartFacts DEF TypeOK, StartAddress
<1>1. TypeOK'
  BY DEF TypeOK
<1>2. WriterIsHeld' /\ OutsideIsUntouched'
  BY DEF WriterIsHeld, OutsideIsUntouched
<1>3. \A i \in Images : st[i] # "none" => st'[i] # "none" /\ size'[i] = size[i]
  BY DEF TypeOK
<1>4. \A i \in Images : offset[i] > 0 => address'[i] = address[i]
  BY DEF UpdateInv, SessionInv, Live, TypeOK
<1>5. SessionInv'
  <2>1. \A i \in Images : st[i] = "none" => offset[i] = 0
    BY DEF UpdateInv, SessionInv, Live
  <2>2. \A n \in Sizes : n \in Nat
    BY SizeFacts
  <2> QED  BY <1>a, <2>1, <2>2 DEF UpdateInv, SessionInv, Live, TypeOK
<1>6. FinisherInv'
  BY <1>3, OtaAssumption DEF UpdateInv, FinisherInv, TypeOK
<1>7. \A i \in Images \ tainted : offset[i] > 0 => InStep(i)'
  BY <1>4 DEF UpdateInv, InStep, Holds
<1>8. FinishedIsIntact'
  <2>1. flag = "FINISH" => finisher \in Images /\ size'[finisher] = size[finisher]
    BY <1>3 DEF UpdateInv, FinisherInv, TypeOK
  <2> QED  BY <2>1 DEF FinishedIsIntact, Holds
<1>9. RunningIsIntact'
  <2>1. running # Factory => running \in Images /\ size'[running] = size[running]
    BY <1>3 DEF UpdateInv, FinisherInv, TypeOK
  <2> QED  BY <2>1 DEF RunningIsIntact, Holds
<1> QED  BY <1>1, <1>2, <1>5, <1>6, <1>7, <1>8, <1>9 DEF UpdateInv

\* The acknowledgement of an answer: the only step that sets FINISH.
LEMMA SendStep ==
    ASSUME IInv, NEW i \in Images, ota_tcp_send(i)
    PROVE  IInv'
<1> USE DEF IInv, ota_tcp_send
<1>a. StartAddress' = StartAddress
  BY DEF StartAddress
<1>b. size[i] \in Sizes /\ size[i] \in Nat /\ size[i] > SEC /\ SEC \in Nat
  <2>1. size[i] \in Sizes
    BY DEF UpdateInv, SessionInv
  <2> QED  BY <2>1, SizeFacts, FlashAssumption
<1>1. TypeOK'
  <2>1. pending' \in [Images -> 0 .. MaxPending]
    BY OtaAssumption DEF TypeOK
  <2>2. flag' \in Flags /\ st' \in [Images -> States] /\ finisher' \in Images \cup {None}
    BY DEF TypeOK, SendDone, Flags, States
  <2> QED  BY <2>1, <2>2 DEF TypeOK
<1>2. WriterIsHeld' /\ OutsideIsUntouched'
  BY DEF WriterIsHeld, OutsideIsUntouched, SendDone
<1>3. ASSUME NEW j \in Images
      PROVE  /\ st'[j] = st[j] \/ (st[j] = "open" /\ st'[j] = "closing")
             /\ st[j] # "none" => st'[j] # "none"
  BY DEF TypeOK, SendDone
<1>4. SessionInv'
  <2> SUFFICES ASSUME NEW j \in Images
               PROVE  /\ st'[j] # "none" => size[j] \in Sizes
                      /\ st'[j] \in Live => /\ address[j] = StartAddress + offset[j]
                                            /\ offset[j] <= size[j]
                      /\ st'[j] \notin Live \ {"connecting"} => offset[j] = 0
    BY <1>a DEF SessionInv
  <2>1. st'[j] = st[j] \/ (st[j] = "open" /\ st'[j] = "closing")
    BY <1>3
  <2> QED  BY <2>1 DEF UpdateInv, SessionInv, Live
<1>5. \A j \in Images \ tainted : offset[j] > 0 => InStep(j)'
  BY DEF UpdateInv, InStep, Holds
<1>6. RunningIsIntact'
  BY DEF RunningIsIntact, Holds
<1>7. CASE offset[i] # size[i]
  <2>1. UNCHANGED <<flag, finisher, st>>
    BY <1>7 DEF SendDone
  <2>2. FinisherInv' /\ FinishedIsIntact'
    BY <2>1 DEF UpdateInv, FinisherInv, FinishedIsIntact, Holds
  <2> QED  BY <1>1, <1>2, <1>4, <1>5, <1>6, <2>2 DEF UpdateInv
<1>8. CASE offset[i] = size[i]
  <2>1. flag' = "FINISH" /\ finisher' = i /\ st'[i] = "closing"
    BY <1>8 DEF SendDone, TypeOK
  <2>2. FinisherInv'
    <3>1. i # None
      BY OtaAssumption
    <3>2. running' # Factory => st'[running'] # "none"
      BY <1>3 DEF UpdateInv, FinisherInv, TypeOK
    <3> QED  BY <2>1, <3>1, <3>2 DEF FinisherInv
  <2>3. i \notin tainted => Holds(Other(bin), i, size[i])
    BY <1>8, <1>b DEF UpdateInv, InStep
  <2>4. FinishedIsIntact'
    BY <2>1, <2>3 DEF FinishedIsIntact, Holds
  <2> QED  BY <1>1, <1>2, <1>4, <1>5, <1>6, <2>2, <2>4 DEF UpdateInv
<1> QED  BY <1>7, <1>8

\* One session ends and the device runs on: its disconnect is reported, or its
\* connection fails.
LEMMA EndStep ==
    ASSUME IInv, NEW i \in Images, st[i] \in Live, NEW s \in {"freed", "lost"},
           End({i}, [j \in Images |-> s]),
           UNCHANGED <<flash, bin, flag, listening, running, finisher, tainted>>,
           cursor' = cursor \/ (flag = "IDLE" /\ cursor' = NoWriter)
    PROVE  IInv'
<1> USE DEF IInv, End
<1>a. StartAddress' = StartAddress
  BY DEF StartAddress
<1>b. \A j \in Images : offset'[j] > 0 =>
          j # i /\ offset'[j] = offset[j] /\ address'[j] = address[j] /\ offset[j] > 0
  BY DEF TypeOK
<1>c. \A j \in Images : offset'[j] > 0 => cursor' = cursor
  BY <1>b DEF WriterIsHeld
<1>d. st[i] # "none"
  BY DEF Live
<1>1. TypeOK'
  BY OtaAssumption DEF TypeOK, States
<1>2. WriterIsHeld' /\ OutsideIsUntouched'
  BY <1>b, <1>c DEF WriterIsHeld, OutsideIsUntouched
<1>3. \A j \in Images : st[j] # "none" => st'[j] # "none"
  OBVIOUS
<1>4. SessionInv'
  <2> SUFFICES ASSUME NEW j \in Images
               PROVE  /\ st'[j] # "none" => size[j] \in Sizes
                      /\ st'[j] \in Live => /\ address'[j] = StartAddress + offset'[j]
                                            /\ offset'[j] <= size[j]
                      /\ st'[j] \notin Live \ {"connecting"} => offset'[j] = 0
    BY <1>a DEF SessionInv
  <2>1. CASE j = i
    <3>1. st'[i] \notin Live /\ offset'[i] = 0 /\ (st[i] # "none" => size[i] \in Sizes)
      BY DEF Live, UpdateInv, SessionInv
    <3> QED  BY <2>1, <3>1, <1>d
  <2>2. CASE j # i
    BY <2>2 DEF UpdateInv, SessionInv
  <2> QED  BY <2>1, <2>2
<1>5. FinisherInv'
  BY <1>3, OtaAssumption DEF UpdateInv, FinisherInv, TypeOK
<1>6. \A j \in Images \ tainted : offset'[j] > 0 => InStep(j)'
  BY <1>b, <1>c DEF UpdateInv, InStep, Holds
<1>7. FinishedIsIntact' /\ RunningIsIntact'
  BY DEF FinishedIsIntact, RunningIsIntact, Holds
<1> QED  BY <1>1, <1>2, <1>4, <1>5, <1>6, <1>7 DEF UpdateInv

\* All sessions end and the device starts anew.
LEMMA ResetStep ==
    ASSUME IInv, NEW b \in Bins, NEW how \in [Images -> {"freed", "lost"}],
           Reset(b), End(LiveSessions, how),
           flash' \in [Addr -> Cells],
           running' \in Images \cup {Factory},
           running' # Factory => st[running'] # "none",
           tainted \subseteq tainted', tainted' \subseteq Images,
           RunningIsIntact', OutsideIsUntouched'
    PROVE  IInv'
<1> USE DEF IInv, Reset, UpgradeReset, End
<1>1. \A j \in Images :
          /\ offset'[j] = 0 /\ st'[j] \notin Live
          /\ st[j] # "none" => st'[j] # "none"
  BY DEF LiveSessions, UpdateInv, SessionInv, Live, TypeOK
<1>2. TypeOK'
  <2>1. /\ st' \in [Images -> States] /\ address' \in [Images -> Nat]
        /\ offset' \in [Images -> Nat] /\ pending' \in [Images -> 0 .. MaxPending]
    BY OtaAssumption DEF TypeOK, States
  <2>2. listening' \in BOOLEAN
    OBVIOUS
  <2> QED  BY <2>1, <2>2 DEF TypeOK, Flags
<1>3. WriterIsHeld' /\ FinishedIsIntact'
  BY <1>1 DEF WriterIsHeld, FinishedIsIntact
<1>4. SessionInv'
  <2>1. \A j \in Images : st'[j] # "none" => st[j] # "none"
    BY DEF LiveSessions, Live
  <2> QED  BY <1>1, <2>1 DEF UpdateInv, SessionInv
<1>5. FinisherInv'
  BY <1>1 DEF FinisherInv
<1>6. \A j \in Images \ tainted' : offset'[j] > 0 => InStep(j)'
  BY <1>1
<1> QED  BY <1>2, <1>3, <1>4, <1>5, <1>6 DEF UpdateInv

-----------------------------------------------------------------------------
\* What PieceEffect asks for holds for an undisturbed session.
LEMMA PieceOfSession ==
    ASSUME IInv, NEW i \in Images \ tainted, NEW n \in 1 .. MaxLen, Arrives(i, n)
    PROVE  /\ Ready(address[i], offset[i], n)
           /\ Fresh(address[i], offset[i])
           /\ Near(address[i], offset[i], n)
<1> USE DEF IInv
<1>1. offset[i] \in Nat /\ bin \in Bins /\ st[i] = "open"
  BY DEF TypeOK, Arrives
<1>2. n \in 1 .. SEC
  BY OtaAssumption, FlashAssumption
<1>3. address[i] = StartAddress + offset[i] /\ size[i] \in Sizes
  BY <1>1 DEF UpdateInv, SessionInv, Live
<1>4. offset[i] + n < SEC + PartSecs * SEC
  <2>1. PartSecs * SEC \in Nat /\ SEC \in Nat
    BY FlashAssumption, Z3
  <2>2. size[i] \in Nat /\ size[i] < SEC + PartSecs * SEC
    BY <1>3, SizeFacts
  <2> QED  BY <1>1, <1>2, <2>1, <2>2 DEF Arrives
<1>5. Ready(address[i], offset[i], n) /\ Fresh(address[i], offset[i])
  <2>1. CASE offset[i] = 0
    <3>1. SEC > 0 /\ SEC \in Nat /\ Base(Other(bin)) \in Nat
      BY <1>1, FlashAssumption, StartFacts
    <3> QED  BY <1>1, <1>2, <1>3, <1>4, <2>1, <3>1 DEF Position, Ready, Fresh
  <2>2. CASE offset[i] > 0
    <3>1. InStep(i)
      BY <2>2 DEF UpdateInv
    <3>2. SEC \in Nat
      BY FlashAssumption
    <3> QED  BY <1>1, <1>2, <1>3, <1>4, <2>2, <3>1, <3>2 DEF Position, InStep, Ready, Fresh
  <2> QED  BY <1>1, <2>1, <2>2
<1>6. n <= SEC
  BY <1>2, FlashAssumption
<1> QED  BY <1>5, <1>6, ShortIsNear

\* While nobody was disturbed, a piece changes the other partition only.
LEMMA OthersUntouched ==
    ASSUME IInv, NEW i \in Images, NEW n \in 1 .. MaxLen, Arrives(i, n),
           NEW k \in 0 .. Rest(offset[i], n),
           flash' = Written(address[i], offset[i], n, i, k),
           bin' = bin, UNCHANGED <<running, size>>, tainted \subseteq tainted'
    PROVE  RunningIsIntact' /\ OutsideIsUntouched'
<1> USE DEF IInv
<1> SUFFICES ASSUME tainted = {}
             PROVE  RunningIsIntact' /\ OutsideIsUntouched'
  BY DEF RunningIsIntact, OutsideIsUntouched
<1>1. \A a \in Addr : Sector(a) \notin PartitionSecs(Other(bin)) => flash'[a] = flash[a]
  <2>1. Contained(address[i], offset[i], n, i, k)
    BY PieceOfSession, PieceEffect
  <2> QED  BY <2>1 DEF Contained
<1>2. bin \in Bins
  BY DEF TypeOK
<1>3. OutsideIsUntouched'
  BY <1>1, <1>2, RunningUntouched DEF OutsideIsUntouched
<1>4. CASE running = Factory
  BY <1>1, <1>2, <1>3, <1>4, RunningUntouched DEF RunningIsIntact
<1>5. CASE running # Factory
  <2>1. size[running] \in Sizes
    BY <1>5 DEF UpdateInv, FinisherInv, SessionInv, TypeOK
  <2>2. size[running] \in Nat /\ size[running] < SEC + PartSecs * SEC
    BY <2>1, SizeFacts
  <2>3. Holds(bin, running, size[running])'
    BY <1>1, <1>2, <1>5, <2>2, RunningUntouched DEF RunningIsIntact, Holds
  <2> QED  BY <1>3, <1>5, <2>3 DEF RunningIsIntact
<1> QED  BY <1>4, <1>5

\* A piece arrives and is written.
LEMMA RecvStep ==
    ASSUME IInv, NEW i \in Images, NEW n \in 1 .. MaxLen, ota_tcp_recv(i, n)
    PROVE  IInv'
<1> DEFINE o   == offset[i]
           adr == address[i]
           B   == Base(Other(bin))
<1>a. /\ Arrives(i, n) /\ st[i] = "open"
      /\ flash' = Written(adr, o, n, i, Rest(o, n))
      /\ cursor' = NextPosition(o, n)
      /\ flag' = IF o = 0 THEN "START" ELSE flag
      /\ UNCHANGED <<bin, listening, st, size, running>>
      /\ address' = [address EXCEPT ![i] = @ + n]
      /\ offset' = [offset EXCEPT ![i] = @ + n]
      /\ finisher' = IF o = 0 THEN None ELSE finisher
      /\ tainted' = tainted \cup Disturbed(i)
      /\ Answer(i)
  BY DEF ota_tcp_recv, UpgradePiece, Started, Arrives
<1>b. /\ o \in Nat /\ adr \in Nat /\ n \in Nat /\ n >= 1 /\ SEC \in Nat /\ SEC >= 1
      /\ offset \in [Images -> Nat] /\ address \in [Images -> Nat] /\ bin \in Bins
      /\ B \in Nat /\ StartAddress = B - SEC /\ StartAddress' = StartAddress
  BY <1>a, StartFacts, FlashAssumption DEF IInv, TypeOK, StartAddress
<1>c. /\ offset'[i] = o + n /\ address'[i] = adr + n
      /\ \A j \in Images \ {i} : offset'[j] = offset[j] /\ address'[j] = address[j]
  BY <1>a, <1>b
<1>d. Rest(o, n) \in Nat
  BY <1>b DEF Rest, Skip
<1>e. Position(o) # NoWriter /\ Position(o) \in Nat
  BY <1>b DEF Position, IInv, WriterIsHeld, TypeOK, NoWriter
<1>f. i # finisher
  BY <1>a, OtaAssumption DEF IInv, UpdateInv, FinisherInv
<1>g. i \notin Disturbed(i) /\ tainted' \subseteq Images
  BY <1>a DEF Disturbed, IInv, TypeOK
<1>1. TypeOK'
  <2>1. flash' \in [Addr -> Cells]
    BY <1>a, <1>b, <1>d, WrittenCells DEF IInv, TypeOK, Cells
  <2>2. cursor' \in Nat \cup {NoWriter}
    BY <1>a, <1>d, <1>e DEF NextPosition
  <2>3. pending' \in [Images -> 0 .. MaxPending]
    BY <1>a, OtaAssumption DEF Answer, IInv, TypeOK
  <2>4. address' \in [Images -> Nat] /\ offset' \in [Images -> Nat]
    BY <1>a, <1>b
  <2>5. flag' \in Flags /\ finisher' \in Images \cup {None}
    BY <1>a DEF IInv, TypeOK, Flags
  <2> QED  BY <1>a, <1>g, <2>1, <2>2, <2>3, <2>4, <2>5 DEF IInv, TypeOK
<1>2. WriterIsHeld'
  <2>1. cursor' # NoWriter
    BY <1>a, <1>d, <1>e DEF NextPosition, NoWriter
  <2>2. flag' # "IDLE"
    BY <1>a, <1>b DEF IInv, WriterIsHeld
  <2> QED  BY <2>1, <2>2 DEF WriterIsHeld
<1>3. SessionInv'
  <2> SUFFICES ASSUME NEW j \in Images
               PROVE  /\ st[j] # "none" => size[j] \in Sizes
                      /\ st[j] \in Live => /\ address'[j] = StartAddress + offset'[j]
                                           /\ offset'[j] <= size[j]
                      /\ st[j] \notin Live \ {"connecting"} => offset'[j] = 0
    BY <1>a, <1>b DEF SessionInv
  <2>1. CASE j = i
    BY <2>1, <1>a, <1>b, <1>c DEF IInv, UpdateInv, SessionInv, Live, Arrives
  <2>2. CASE j # i
    BY <2>2, <1>c DEF IInv, UpdateInv, SessionInv
  <2> QED  BY <2>1, <2>2
<1>4. FinisherInv'
  BY <1>a DEF IInv, UpdateInv, FinisherInv
<1>5. FinishedIsIntact'
  <2> SUFFICES ASSUME flag' = "FINISH", finisher' \notin tainted'
               PROVE  FALSE
    BY DEF FinishedIsIntact
  <2>1. o > 0 /\ finisher' = finisher /\ flag = "FINISH"
    BY <1>a, <1>b
  <2>2. finisher \in Images \ {i}
    BY <1>f, <2>1 DEF IInv, UpdateInv, FinisherInv, TypeOK
  <2> QED  BY <2>1, <2>2, <1>a DEF Disturbed
<1>6. ASSUME NEW j \in Images \ tainted', offset'[j] > 0
      PROVE  InStep(j)'
  <2>1. j = i
    BY <1>6, <1>a, <1>c DEF Disturbed
  <2>2. i \in Images \ tainted
    BY <1>6, <2>1, <1>a
  <2>3. Ready(adr, o, n) /\ Fresh(adr, o) /\ Near(adr, o, n)
    BY <2>2, <1>a, PieceOfSession
  <2>4. Rest(o, n) \in 0 .. Rest(o, n)
    BY <1>d
  <2>5. o >= SEC => Holds(Other(bin), i, o)
    BY <2>2, <1>b DEF IInv, UpdateInv, InStep
  <2> HIDE DEF o, adr, B
  <2>6. o + n >= SEC =>
            /\ \A c \in SEC .. (o + n - 1) : flash'[B + (c - SEC)] = <<i, c>>
            /\ \A a \in Addr :
                   a >= adr + n /\ Sector(a) = Sector(adr + n) => flash'[a] = Blanked
    BY <1>a, <2>3, <2>5, PieceExtends DEF o, adr, B
  <2>7. cursor' = B + (IF o + n >= SEC THEN o + n - SEC ELSE 0)
    <3>1. Advanced(o, n)
      BY <2>3, <2>4, PieceEffect
    <3> QED  BY <3>1, <1>a DEF Advanced, B, o, adr
  <2>8. offset'[i] = o + n /\ address'[i] = adr + n /\ bin' = bin
    BY <1>a, <1>c DEF o, adr
  <2>9. B = Base(Other(bin'))
    BY <2>8 DEF B
  <2>10. cursor' = Base(Other(bin')) + (IF offset'[i] >= SEC THEN offset'[i] - SEC ELSE 0)
    BY <1>b, <2>7, <2>8, <2>9
  <2>11. offset'[i] >= SEC =>
            \A c \in SEC .. (offset'[i] - 1) : flash'[Base(Other(bin')) + (c - SEC)] = <<i, c>>
    BY <1>b, <2>6, <2>8, <2>9
  <2>12. offset'[i] >= SEC => \A a \in Addr :
            a >= address'[i] /\ Sector(a) = Sector(address'[i]) => flash'[a] = Blanked
    BY <2>6, <2>8
  <2> QED  BY <2>1, <2>10, <2>11, <2>12 DEF InStep, Holds

<1>7. RunningIsIntact' /\ OutsideIsUntouched'
  <2>1. Rest(o, n) \in 0 .. Rest(o, n)
    BY <1>d
  <2> QED  BY <1>a, <2>1, OthersUntouched
<1> QED  BY <1>1, <1>2, <1>3, <1>4, <1>5, <1>6, <1>7 DEF IInv, UpdateInv

\* Power fails while a piece is being written.
LEMMA PowerLossInRecvStep ==
    ASSUME IInv, NEW i \in Images, NEW n \in 1 .. MaxLen, PowerLossInRecv(i, n)
    PROVE  IInv'
<1>1. PICK k \in 0 .. Rest(offset[i], n) :
          flash' = Written(address[i], offset[i], n, i, k)
  BY DEF PowerLossInRecv
<1>2. /\ Arrives(i, n) /\ Reset(bin) /\ UNCHANGED <<running, size>> /\ bin' = bin
      /\ End(LiveSessions, [j \in Images |-> "lost"])
      /\ tainted' = tainted \cup Disturbed(i)
  BY DEF PowerLossInRecv, PowerFails, Reset, UpgradeReset, End
<1>3. RunningIsIntact' /\ OutsideIsUntouched'
  BY <1>1, <1>2, OthersUntouched
<1>4. k \in Nat /\ n \in Nat /\ offset[i] \in Nat
  BY DEF IInv, TypeOK
<1>5. flash' \in [Addr -> Cells]
  BY <1>1, <1>4, WrittenCells DEF IInv, TypeOK, Cells
<1>6. tainted' \subseteq Images /\ tainted \subseteq tainted'
  BY <1>2 DEF Disturbed, IInv, TypeOK
<1>7. [j \in Images |-> "lost"] \in [Images -> {"freed", "lost"}]
  OBVIOUS
<1>8. /\ running' \in Images \cup {Factory} /\ bin \in Bins
      /\ running' # Factory => st[running'] # "none"
  BY <1>2 DEF IInv, TypeOK, UpdateInv, FinisherInv
<1> QED  BY <1>2, <1>3, <1>5, <1>6, <1>7, <1>8, ResetStep

\* Power fails between two callbacks.
LEMMA PowerLossStep ==
    ASSUME IInv, PowerLoss
    PROVE  IInv'
<1>1. /\ Reset(bin) /\ UNCHANGED <<running, size, flash, tainted>> /\ bin' = bin
      /\ End(LiveSessions, [j \in Images |-> "lost"])
  BY DEF PowerLoss, PowerFails, Reset, UpgradeReset, End
<1>2. RunningIsIntact' /\ OutsideIsUntouched'
  BY <1>1 DEF IInv, RunningIsIntact, OutsideIsUntouched, Holds
<1>3. /\ [j \in Images |-> "lost"] \in [Images -> {"freed", "lost"}]
      /\ flash' \in [Addr -> Cells] /\ tainted' \subseteq Images /\ tainted \subseteq tainted'
      /\ running' \in Images \cup {Factory} /\ bin \in Bins
      /\ running' # Factory => st[running'] # "none"
  BY <1>1 DEF IInv, TypeOK, UpdateInv, FinisherInv
<1> QED  BY <1>1, <1>2, <1>3, ResetStep

\* A disconnect is reported: the device restarts into the new image, or goes on.
LEMMA DisconStep ==
    ASSUME IInv, NEW i \in Images, ota_tcp_discon(i)
    PROVE  IInv'
<1> USE DEF ota_tcp_discon
<1>1. CASE flag = "FINISH"
  <2> DEFINE how == [j \in Images |-> IF j = i THEN "freed" ELSE "lost"]
  <2>1. /\ Reset(Other(bin)) /\ bin' = Other(bin) /\ running' = finisher
        /\ End(LiveSessions, how) /\ UNCHANGED <<flash, tainted, size>>
    BY <1>1 DEF DisconDone, Reset, UpgradeReset, End
  <2>2. /\ bin \in Bins /\ Other(bin) \in Bins
        /\ finisher \in Images /\ finisher # Factory /\ st[finisher] # "none"
    BY <1>1, StartFacts, OtaAssumption DEF IInv, TypeOK, UpdateInv, FinisherInv
  <2>3. OutsideIsUntouched'
    BY <2>1 DEF IInv, OutsideIsUntouched
  <2>4. RunningIsIntact'
    BY <1>1, <2>1, <2>2 DEF IInv, RunningIsIntact, FinishedIsIntact, Holds
  <2>5. /\ how \in [Images -> {"freed", "lost"}]
        /\ flash' \in [Addr -> Cells] /\ tainted' \subseteq Images /\ tainted \subseteq tainted'
        /\ running' \in Images \cup {Factory}
        /\ running' # Factory => st[running'] # "none"
    BY <2>1, <2>2 DEF IInv, TypeOK
  <2> QED  BY <2>1, <2>2, <2>3, <2>4, <2>5, ResetStep
<1>2. CASE flag # "FINISH"
  <2>1. /\ End({i}, [j \in Images |-> "freed"])
        /\ UNCHANGED <<flash, bin, flag, listening, running, finisher, tainted>>
        /\ cursor' = cursor \/ (flag = "IDLE" /\ cursor' = NoWriter)
        /\ st[i] \in Live
    BY <1>2 DEF DisconDone, IInv, TypeOK, Flags, Live
  <2> QED  BY <2>1, EndStep
<1> QED  BY <1>1, <1>2

-----------------------------------------------------------------------------
\* Every step preserves the invariant.
LEMMA NextInv == IInv /\ [Next]_vars => IInv'
<1> SUFFICES ASSUME IInv, [Next]_vars PROVE IInv'
  OBVIOUS
<1>1. CASE ota_init
  BY <1>1, QuietStep DEF ota_init, session, IInv, TypeOK
<1>2. CASE \E i \in Images, n \in Sizes : ota_udp_recv(i, n)
  <2>1. PICK i \in Images, n \in Sizes : ota_udp_recv(i, n)
    BY <1>2
  <2>2. StartAddress \in Nat
    BY StartFacts DEF IInv, TypeOK
  <2>3. /\ st' = [st EXCEPT ![i] = "connecting"] /\ st[i] = "none"
        /\ address' = [address EXCEPT ![i] = StartAddress]
        /\ size' = [size EXCEPT ![i] = n]
        /\ offset' = [offset EXCEPT ![i] = 0]
        /\ UNCHANGED <<flash, bin, cursor, flag, listening, pending, running, finisher, tainted>>
    BY <2>1 DEF ota_udp_recv, ota_tcp_init
  <2>4. offset' = offset
    BY <2>3 DEF IInv, TypeOK, UpdateInv, SessionInv, Live
  <2>5. st' \in [Images -> States] /\ listening' \in BOOLEAN
    BY <2>3 DEF IInv, TypeOK, States
  <2>6. /\ st'[i] = "connecting" /\ st[i] = "none"
        /\ address'[i] = StartAddress /\ size'[i] \in Sizes
        /\ address' \in [Images -> Nat] /\ size' \in [Images -> Sizes \cup {0}]
        /\ \A j \in Images \ {i} :
               st'[j] = st[j] /\ address'[j] = address[j] /\ size'[j] = size[j]
    BY <2>2, <2>3 DEF IInv, TypeOK
  <2> QED  BY <2>3, <2>4, <2>5, <2>6, QuietStep
<1>3. ASSUME NEW i \in Images, Connected(i) \/ PeerCloses(i)
      PROVE  IInv'
  <2>1. /\ \/ st[i] = "connecting" /\ st'[i] = "open"
           \/ st[i] = "open" /\ st'[i] = "left"
        /\ \A j \in Images \ {i} : st'[j] = st[j]
        /\ st' \in [Images -> States]
    BY <1>3 DEF Connected, PeerCloses, IInv, TypeOK, States
  <2>2. /\ UNCHANGED <<flash, bin, cursor, flag, offset, pending, running, finisher, tainted>>
        /\ UNCHANGED <<address, size>> /\ listening' \in BOOLEAN
    BY <1>3 DEF Connected, PeerCloses, IInv, TypeOK
  <2> QED  BY <2>1, <2>2, QuietStep
<1>4. ASSUME NEW i \in Images, NEW n \in 1 .. MaxLen, ota_tcp_recv(i, n)
      PROVE  IInv'
  BY <1>4, RecvStep
<1>5. ASSUME NEW i \in Images, ota_tcp_send(i)
      PROVE  IInv'
  BY <1>5, SendStep
<1>6. ASSUME NEW i \in Images, ota_tcp_discon(i)
      PROVE  IInv'
  BY <1>6, DisconStep
<1>7. ASSUME NEW i \in Images, Aborted(i)
      PROVE  IInv'
  BY <1>7, EndStep DEF Aborted
<1>8. ASSUME NEW i \in Images, NEW n \in 1 .. MaxLen, PowerLossInRecv(i, n)
      PROVE  IInv'
  BY <1>8, PowerLossInRecvStep
<1>9. CASE PowerLoss
  BY <1>9, PowerLossStep
<1>10. CASE UNCHANGED vars
  BY <1>10, QuietStep DEF vars, IInv, TypeOK
<1> QED
  BY <1>1, <1>2, <1>3, <1>4, <1>5, <1>6, <1>7, <1>8, <1>9, <1>10 DEF Next

\* The inductive invariant holds in every reachable state.
THEOREM Invariant == Spec => []IInv
  BY InitInv, NextInv, PTL DEF Spec

\* Every variable keeps its type.
THEOREM TypeCorrect == Spec => []TypeOK
  BY Invariant, PTL DEF IInv

\* The client's position and the SDK's agree for every undisturbed session.
THEOREM PositionsAgree == Spec => []UpdateInv
  BY Invariant, PTL DEF IInv

\* FINISH is set, and stays set, only over a complete image.
THEOREM FinishCorrect == Spec => []FinishedIsIntact
  BY Invariant, PTL DEF IInv

\* The running bin is whole after every update, abort and power failure.
THEOREM UpdateIsAllOrNothing == Spec => []RunningIsIntact
  BY Invariant, PTL DEF IInv

\* Nothing outside the two partitions is erased or written.
THEOREM UpdateStaysInside == Spec => []OutsideIsUntouched
  BY Invariant, PTL DEF IInv

\* No disconnect takes the writer from a session that is using it.
THEOREM WriterCorrect == Spec => []WriterIsHeld
  BY Invariant, PTL DEF IInv
=============================================================================
