--------------------------- MODULE UsbBulkOutProofs ---------------------------
(***************************************************************************)
(* Host-to-device bulk data, for every set of endpoints, packet size and   *)
(* write size and for any number of drops and resets.                      *)
(*                                                                         *)
(* The invariants the runs check are not inductive.  What they rest on:    *)
(*   - a status bit whose event is still on its way is due to a host thread*)
(*     that has not raised it, to both halves of the event being set, or to*)
(*     a handler that has yet to read the status (Announced);              *)
(*   - SIZE is exact in every phase of a reset but the last (SizesExact);  *)
(*   - as long as nothing is dropped or reset, at most one of the status   *)
(*     bit, the driver's list and the DMA in preparation claims a chunk,   *)
(*     and what they claim is there (ClaimsAreSound).                      *)
(***************************************************************************)
EXTENDS UsbBulkOut, DataLemmas

Fetching(e) == isr = "start" /\ dma = e

Known(e) == e \in seen \cup dmaWaiting \/ Fetching(e)

\* The event that announces endpoint e's status bit is on its way.
Announced(e) ==
  \/ hostSignal[e] = "interrupt"
  \/ hostSignal[e] = "event" /\ interrupt
  \/ interrupt /\ epData
  \/ isr \in {"clear", "lower", "read"}

ChunksKnown ==
  resetting = "no" =>
    \A e \in Endpoint :
      presentedOutChunk[e] # << >> =>
        Known(e) \/ (epOutDataStatus[e] /\ Announced(e))

SizesExact ==
  resetting # "queues" =>
    \A e \in Endpoint :
      presentedOutChunk[e] # << >> =>
        /\ Len(presentedOutChunk[e]) <= MaxPacket
        /\ sizeEpOut[e] = Len(presentedOutChunk[e])

ClaimIsSound(e) ==
  /\ epOutDataStatus[e] \/ e \in dmaWaiting \/ Fetching(e)
       => presentedOutChunk[e] # << >>
  /\ e \in seen => epOutDataStatus[e]
  /\ ~(epOutDataStatus[e] /\ e \in dmaWaiting)
  /\ ~(epOutDataStatus[e] /\ Fetching(e))
  /\ ~(e \in dmaWaiting /\ Fetching(e))
  /\ Fetching(e) => epOutMaxCnt[e] = Len(presentedOutChunk[e])

ClaimsAreSound == Undisturbed => \A e \in Endpoint : ClaimIsSound(e)

\* The program points that the other parts refer to.
PointsConsistent ==
  /\ isr = "start" => dma \in Endpoint
  /\ isr # "acknowledge" => seen = {}
  /\ resets = 0 => resetting = "no"

BulkOutInvariant ==
  /\ TypeOK
  /\ PointsConsistent
  /\ ChunksKnown
  /\ SizesExact
  /\ ClaimsAreSound
  /\ DmaAnswered
  /\ NothingLost

(***************************************************************************)
(* Presenting a chunk                                                      *)
(***************************************************************************)

\* What TryPresentOutChunk leaves behind.
Presented(e, queue, chunk, size) ==
  IF Presentable(queue, chunk)
  THEN /\ presentedOutChunk'[e] # << >>
       /\ Len(presentedOutChunk'[e]) <= MaxPacket
       /\ sizeEpOut'[e] = Len(presentedOutChunk'[e])
       /\ epOutDataStatus'[e]
  ELSE /\ presentedOutChunk'[e] = chunk
       /\ sizeEpOut'[e] = size
       /\ epOutDataStatus'[e] = epOutDataStatus[e]

\* A chunk is presented only when none is, its size is exact, no byte is lost or
\* moved, and no other endpoint is touched.
LEMMA PresentOutChunk ==
  ASSUME TypeOK, NEW e \in Endpoint, NEW queue \in Seq(Nat), NEW chunk \in Seq(Nat),
         NEW size \in 0..MaxPacket, TryPresentOutChunk(e, queue, chunk, size)
  PROVE  /\ outDataQueues' \in [Endpoint -> Seq(Nat)]
         /\ presentedOutChunk' \in [Endpoint -> Seq(Nat)]
         /\ sizeEpOut' \in [Endpoint -> 0..MaxPacket]
         /\ epOutDataStatus' \in [Endpoint -> BOOLEAN]
         /\ Presented(e, queue, chunk, size)
         /\ presentedOutChunk'[e] \o outDataQueues'[e] = chunk \o queue
         /\ \A d \in Endpoint \ {e} :
              /\ outDataQueues'[d] = outDataQueues[d]
              /\ presentedOutChunk'[d] = presentedOutChunk[d]
              /\ sizeEpOut'[d] = sizeEpOut[d]
              /\ epOutDataStatus'[d] = epOutDataStatus[d]
<1>. DEFINE count == Lesser(MaxPacket, Len(queue))
            first == SubSeq(queue, 1, count)
            rest  == SubSeq(queue, count + 1, Len(queue))
<1>1. CASE Presentable(queue, chunk)
  <2>1. chunk = << >> /\ queue # << >> /\ Len(queue) \in Nat \ {0}
    BY <1>1, EmptySeq DEF Presentable
  <2>2. count \in 1..MaxPacket /\ count \in 0..Len(queue)
    BY <2>1, BulkOutAssumption DEF Lesser
  <2>3. /\ first \in Seq(Nat)
        /\ rest \in Seq(Nat)
        /\ first \o rest = queue
        /\ Len(first) = count
    <3>1. count \in Int /\ 1 \in Int /\ \A i \in 1..count : queue[i] \in Nat
      BY <2>2
    <3>2. Len(first) = count
      BY <2>2, <3>1, SubSeqProperties
    <3>. HIDE DEF count
    <3>. QED
      BY <2>2, <3>2, SplitConcat
  <2>4. first # << >> /\ chunk \o queue = queue
    BY <2>1, <2>2, <2>3
  <2>5. /\ presentedOutChunk' = [presentedOutChunk EXCEPT ![e] = first]
        /\ outDataQueues' = [outDataQueues EXCEPT ![e] = rest]
        /\ sizeEpOut' = [sizeEpOut EXCEPT ![e] = count]
        /\ epOutDataStatus' = [epOutDataStatus EXCEPT ![e] = TRUE]
    BY <1>1 DEF TryPresentOutChunk
  <2>. HIDE DEF count, first, rest
  <2>6. /\ outDataQueues' \in [Endpoint -> Seq(Nat)]
        /\ presentedOutChunk' \in [Endpoint -> Seq(Nat)]
        /\ sizeEpOut' \in [Endpoint -> 0..MaxPacket]
        /\ epOutDataStatus' \in [Endpoint -> BOOLEAN]
    <3>1. count \in 0..MaxPacket
      BY <2>2, BulkOutAssumption
    <3>. QED
      BY <2>3, <2>5, <3>1 DEF TypeOK
  <2>7. /\ presentedOutChunk'[e] = first
        /\ outDataQueues'[e] = rest
        /\ sizeEpOut'[e] = count
        /\ epOutDataStatus'[e]
    BY <2>5 DEF TypeOK
  <2>8. Presented(e, queue, chunk, size)
    BY <1>1, <2>2, <2>3, <2>4, <2>7, BulkOutAssumption DEF Presented
  <2>9. presentedOutChunk'[e] \o outDataQueues'[e] = chunk \o queue
    BY <2>3, <2>4, <2>7
  <2>10. \A d \in Endpoint \ {e} :
           /\ outDataQueues'[d] = outDataQueues[d]
           /\ presentedOutChunk'[d] = presentedOutChunk[d]
           /\ sizeEpOut'[d] = sizeEpOut[d]
           /\ epOutDataStatus'[d] = epOutDataStatus[d]
    BY <2>5 DEF TypeOK
  <2>. QED
    BY <2>6, <2>8, <2>9, <2>10
<1>2. CASE ~Presentable(queue, chunk)
  BY <1>2, ZenonT(40) DEF TryPresentOutChunk, Presented, TypeOK
<1>. QED
  BY <1>1, <1>2

(***************************************************************************)
(* Type correctness                                                        *)
(***************************************************************************)

\* A byte written is a natural number, and so is a chunk of them.
LEMMA WrittenQueue ==
  ASSUME TypeOK, NEW e \in Endpoint, NEW n \in 1..MaxWrite
  PROVE  /\ written[e] \in Nat
         /\ n \in Nat
         /\ outDataQueues[e] \o NextOrdinals(written[e], n) \in Seq(Nat)
<1>1. written[e] \in Nat /\ n \in Nat /\ outDataQueues[e] \in Seq(Nat)
  BY BulkOutAssumption DEF TypeOK
<1>. QED
  BY <1>1, ExtendPath

\* HandleHostToDeviceData in the terms of the lemmas.
LEMMA HostWrites ==
  ASSUME TypeOK, NEW e \in Endpoint, NEW n \in 1..MaxWrite,
         HandleHostToDeviceData(e, n)
  PROVE  LET queue == outDataQueues[e] \o NextOrdinals(written[e], n)
         IN  /\ queue \in Seq(Nat)
             /\ TryPresentOutChunk(e, queue, presentedOutChunk[e], sizeEpOut[e])
             /\ presentedOutChunk[e] \in Seq(Nat)
             /\ sizeEpOut[e] \in 0..MaxPacket
             /\ written' = [written EXCEPT ![e] = @ + n]
             /\ hostSignal' = [hostSignal EXCEPT
                  ![e] = IF Presentable(queue, presentedOutChunk[e])
                         THEN "interrupt" ELSE "none"]
             /\ hostSignal[e] = "none"
             /\ UNCHANGED <<eventVars, endEpOut, epOutMaxCnt, guestVars, received,
                            faultVars>>
BY WrittenQueue DEF HandleHostToDeviceData, NextOrdinals, TypeOK

\* The constants' types, and the empty chunk's.
LEMMA Empty == << >> \in Seq(Nat) /\ 0 \in 0..MaxPacket
BY BulkOutAssumption

\* A step keeps the types and the program points' consistency.
LEMMA TypeStep ==
  TypeOK /\ PointsConsistent /\ [Next]_vars => TypeOK' /\ PointsConsistent'
<1>. SUFFICES ASSUME TypeOK, PointsConsistent, [Next]_vars
              PROVE  TypeOK' /\ PointsConsistent'
  OBVIOUS
<1>. USE DEF hostVars, lockedVars, eventVars, guestVars, faultVars
<1>1. ASSUME NEW e \in Endpoint, NEW n \in 1..MaxWrite, HandleHostToDeviceData(e, n)
      PROVE  TypeOK' /\ PointsConsistent'
  <2>1. /\ outDataQueues' \in [Endpoint -> Seq(Nat)]
        /\ presentedOutChunk' \in [Endpoint -> Seq(Nat)]
        /\ sizeEpOut' \in [Endpoint -> 0..MaxPacket]
        /\ epOutDataStatus' \in [Endpoint -> BOOLEAN]
    BY <1>1, HostWrites, PresentOutChunk
  <2>2. written' \in [Endpoint -> Nat]
    <3>1. written' = [written EXCEPT ![e] = @ + n]
      BY <1>1, HostWrites
    <3>2. written[e] \in Nat /\ n \in Nat
      BY WrittenQueue
    <3>. QED
      BY <3>1, <3>2, SMTT(30) DEF TypeOK
  <2>3. hostSignal' \in [Endpoint -> HostSignal]
    BY <1>1, HostWrites DEF TypeOK, HostSignal
  <2>4. UNCHANGED <<eventVars, endEpOut, epOutMaxCnt, guestVars, received, faultVars>>
    BY <1>1, HostWrites
  <2>. QED
    BY <2>1, <2>2, <2>3, <2>4 DEF TypeOK, PointsConsistent
<1>2. ASSUME NEW e \in Endpoint, HostSetInterrupt(e) \/ HostSetEvent(e)
      PROVE  TypeOK' /\ PointsConsistent'
  BY <1>2 DEF HostSetInterrupt, HostSetEvent, TypeOK, PointsConsistent, HostSignal
<1>3. CASE GuestFindEpData \/ GuestClearEpData \/ GuestLowerInterrupt
           \/ GuestReadStatus \/ GuestLeave
           \/ StartBulkEpOutStray
  BY <1>3 DEF GuestFindEpData, GuestClearEpData, GuestLowerInterrupt,
     GuestReadStatus, GuestLeave,
              StartBulkEpOutStray, TypeOK, PointsConsistent, Isr
<1>4. CASE GuestAcknowledge
  BY <1>4 DEF GuestAcknowledge, WriteEpDataStatus, TypeOK, PointsConsistent, Isr
<1>5. ASSUME NEW e \in Endpoint, GuestProgram(e) \/ GuestEndDma(e)
      PROVE  TypeOK' /\ PointsConsistent'
  BY <1>5 DEF GuestProgram, GuestEndDma, TypeOK, PointsConsistent, Isr
<1>6. CASE StartBulkEpOut
  <2>1. dma \in Endpoint
    BY <1>6 DEF StartBulkEpOut, PointsConsistent
  <2>2. outDataQueues[dma] \in Seq(Nat) /\ presentedOutChunk[dma] \in Seq(Nat)
        /\ epOutMaxCnt[dma] \in 0..MaxPacket
    BY <2>1 DEF TypeOK
  <2>3. TryPresentOutChunk(dma, outDataQueues[dma], << >>, 0)
    BY <1>6 DEF StartBulkEpOut
  <2>4. /\ outDataQueues' \in [Endpoint -> Seq(Nat)]
        /\ presentedOutChunk' \in [Endpoint -> Seq(Nat)]
        /\ sizeEpOut' \in [Endpoint -> 0..MaxPacket]
        /\ epOutDataStatus' \in [Endpoint -> BOOLEAN]
    BY <2>1, <2>2, <2>3, Empty, PresentOutChunk
  <2>5. received' \in [Endpoint -> Seq(Nat)]
    <3>. DEFINE count == Lesser(Len(presentedOutChunk[dma]), epOutMaxCnt[dma])
    <3>1. count \in 0..Len(presentedOutChunk[dma])
      BY <2>2, BulkOutAssumption DEF Lesser
    <3>2. received' = [received EXCEPT ![dma] = @ \o SubSeq(presentedOutChunk[dma], 1, count)]
      BY <1>6 DEF StartBulkEpOut
    <3>. HIDE DEF count
    <3>3. received[dma] \o SubSeq(presentedOutChunk[dma], 1, count) \in Seq(Nat)
      BY <2>1, <2>2, <3>1, SplitConcat, ConcatProperties DEF TypeOK
    <3>. QED
      BY <3>2, <3>3 DEF TypeOK
  <2>6. /\ endEpOut' = [endEpOut EXCEPT ![dma] = TRUE]
        /\ interrupt' \in BOOLEAN /\ epData' \in BOOLEAN
        /\ isr = "start" /\ isr' = "thread"
        /\ UNCHANGED <<hostVars, epOutMaxCnt, seen, dmaWaiting, dma, faultVars>>
    BY <1>6 DEF StartBulkEpOut, SetEpDataIf, TypeOK
  <2>. QED
    BY <2>4, <2>5, <2>6 DEF TypeOK, PointsConsistent, Isr
<1>7. ASSUME NEW e \in Endpoint, GuestDrop(e)
      PROVE  TypeOK' /\ PointsConsistent'
  <2>1. /\ outDataQueues' \in [Endpoint -> Seq(Nat)]
        /\ presentedOutChunk' \in [Endpoint -> Seq(Nat)]
        /\ sizeEpOut' \in [Endpoint -> 0..MaxPacket]
        /\ epOutDataStatus' \in [Endpoint -> BOOLEAN]
    BY <1>7, Empty, PresentOutChunk DEF GuestDrop, TypeOK
  <2>2. drops' \in 0..MaxDrops
    BY <1>7, BulkOutAssumption DEF GuestDrop, TypeOK
  <2>3. /\ interrupt' \in BOOLEAN /\ epData' \in BOOLEAN
        /\ dmaWaiting' \subseteq Endpoint
        /\ isr = "thread"
        /\ UNCHANGED <<hostVars, endEpOut, epOutMaxCnt, isr, seen, dma, received,
                       resets, resetting>>
    BY <1>7 DEF GuestDrop, SetEpDataIf, TypeOK
  <2>. QED
    BY <2>1, <2>2, <2>3 DEF TypeOK, PointsConsistent
<1>8. CASE ResetInterrupts
  <2>1. resets' \in 0..MaxResets /\ resets' # 0
    BY <1>8, BulkOutAssumption DEF ResetInterrupts, TypeOK
  <2>. QED
    BY <1>8, <2>1 DEF ResetInterrupts, TypeOK, PointsConsistent, Isr, Resetting
<1>9. CASE ResetRegisters \/ ResetSizes \/ ResetQueues
  BY <1>9, Empty DEF ResetRegisters, ResetSizes, ResetQueues, TypeOK,
     PointsConsistent, Resetting
<1>10. CASE UNCHANGED vars
  BY <1>10 DEF vars, TypeOK, PointsConsistent
<1>. QED
  BY <1>1, <1>2, <1>3, <1>4, <1>5, <1>6, <1>7, <1>8, <1>9, <1>10
     DEF Next, GuestStep, ResetStep, HostStep

(***************************************************************************)
(* Presented chunks are known, and their sizes exact                       *)
(***************************************************************************)

\* A step keeps SIZE exact, unless the reset has cleared it and not yet the chunks.
LEMMA SizesStep ==
  TypeOK /\ PointsConsistent /\ SizesExact /\ [Next]_vars => SizesExact'
<1>. SUFFICES ASSUME TypeOK, PointsConsistent, SizesExact, [Next]_vars
              PROVE  SizesExact'
  OBVIOUS
<1>. USE DEF hostVars, lockedVars, eventVars, guestVars, faultVars
<1>1. ASSUME NEW e \in Endpoint, NEW n \in 1..MaxWrite, HandleHostToDeviceData(e, n)
      PROVE  SizesExact'
  <2>. DEFINE queue == outDataQueues[e] \o NextOrdinals(written[e], n)
  <2>1. /\ Presented(e, queue, presentedOutChunk[e], sizeEpOut[e])
        /\ \A x \in Endpoint \ {e} :
             /\ presentedOutChunk'[x] = presentedOutChunk[x]
             /\ sizeEpOut'[x] = sizeEpOut[x]
        /\ resetting' = resetting
    BY <1>1, HostWrites, PresentOutChunk
  <2>. HIDE DEF queue
  <2>. QED
    BY <2>1 DEF Presented, SizesExact
<1>2. CASE StartBulkEpOut
  <2>1. /\ dma \in Endpoint
        /\ outDataQueues[dma] \in Seq(Nat)
        /\ TryPresentOutChunk(dma, outDataQueues[dma], << >>, 0)
        /\ resetting' = resetting
    BY <1>2 DEF StartBulkEpOut, PointsConsistent, TypeOK
  <2>. QED
    BY <2>1, Empty, PresentOutChunk, ZenonT(40) DEF Presented, SizesExact
<1>3. ASSUME NEW e \in Endpoint, GuestDrop(e) PROVE SizesExact'
  <2>1. /\ outDataQueues[e] \in Seq(Nat)
        /\ TryPresentOutChunk(e, outDataQueues[e], << >>, 0)
        /\ resetting' = resetting
    BY <1>3 DEF GuestDrop, TypeOK
  <2>. QED
    BY <2>1, Empty, PresentOutChunk, ZenonT(40) DEF Presented, SizesExact
<1>4. CASE ResetSizes \/ ResetQueues
  BY <1>4 DEF ResetSizes, ResetQueues, SizesExact
<1>5. CASE UNCHANGED <<presentedOutChunk, sizeEpOut>> /\ resetting # "queues"
  BY <1>5 DEF SizesExact
<1>6. CASE UNCHANGED <<presentedOutChunk, sizeEpOut, resetting>>
  BY <1>6 DEF SizesExact
<1>7. ASSUME NEW e \in Endpoint,
             \/ HostSetInterrupt(e) \/ HostSetEvent(e)
             \/ GuestProgram(e) \/ GuestEndDma(e)
      PROVE  UNCHANGED <<presentedOutChunk, sizeEpOut, resetting>>
  BY <1>7 DEF HostSetInterrupt, HostSetEvent, GuestProgram, GuestEndDma
<1>8. ASSUME \/ GuestFindEpData \/ GuestClearEpData \/ GuestLowerInterrupt
             \/ GuestReadStatus \/ GuestAcknowledge \/ StartBulkEpOutStray \/ GuestLeave
      PROVE  UNCHANGED <<presentedOutChunk, sizeEpOut, resetting>>
  BY <1>8 DEF GuestFindEpData, GuestClearEpData, GuestLowerInterrupt,
     GuestReadStatus, GuestAcknowledge,
              StartBulkEpOutStray, GuestLeave
<1>9. ASSUME ResetInterrupts \/ ResetRegisters
      PROVE  UNCHANGED <<presentedOutChunk, sizeEpOut>> /\ resetting # "queues"
  BY <1>9 DEF ResetInterrupts, ResetRegisters
<1>10. CASE UNCHANGED vars
  BY <1>6, <1>10 DEF vars
<1>. QED
  BY <1>1, <1>2, <1>3, <1>4, <1>5, <1>6, <1>7, <1>8, <1>9, <1>10
     DEF Next, GuestStep, ResetStep, HostStep

\* A step leaves no presented chunk without someone who knows of it.
LEMMA KnownStep ==
  TypeOK /\ PointsConsistent /\ ChunksKnown /\ [Next]_vars => ChunksKnown'
<1>. SUFFICES ASSUME TypeOK, PointsConsistent, ChunksKnown, [Next]_vars,
                     resetting' = "no", NEW d \in Endpoint,
                     presentedOutChunk'[d] # << >>
              PROVE  Known(d)' \/ (epOutDataStatus'[d] /\ Announced(d)')
  BY DEF ChunksKnown
<1>. USE DEF hostVars, lockedVars, eventVars, guestVars, faultVars
<1>1. ASSUME NEW e \in Endpoint, NEW n \in 1..MaxWrite, HandleHostToDeviceData(e, n)
      PROVE  Known(d)' \/ (epOutDataStatus'[d] /\ Announced(d)')
  <2>. DEFINE queue == outDataQueues[e] \o NextOrdinals(written[e], n)
  <2>1. /\ Presented(e, queue, presentedOutChunk[e], sizeEpOut[e])
        /\ \A x \in Endpoint \ {e} :
             /\ presentedOutChunk'[x] = presentedOutChunk[x]
             /\ epOutDataStatus'[x] = epOutDataStatus[x]
        /\ hostSignal' = [hostSignal EXCEPT
             ![e] = IF Presentable(queue, presentedOutChunk[e])
                    THEN "interrupt" ELSE "none"]
        /\ hostSignal[e] = "none"
        /\ UNCHANGED <<interrupt, epData, isr, seen, dmaWaiting, dma, resetting>>
    BY <1>1, HostWrites, PresentOutChunk
  <2>. HIDE DEF queue
  <2>2. CASE d = e /\ Presentable(queue, presentedOutChunk[e])
    BY <2>1, <2>2 DEF Presented, Announced, TypeOK
  <2>3. CASE d # e \/ ~Presentable(queue, presentedOutChunk[e])
    <3>1. /\ presentedOutChunk'[d] = presentedOutChunk[d]
          /\ epOutDataStatus'[d] = epOutDataStatus[d]
          /\ hostSignal'[d] = hostSignal[d]
      BY <2>1, <2>3 DEF Presented, TypeOK
    <3>. QED
      BY <2>1, <3>1 DEF ChunksKnown, Known, Fetching, Announced
  <2>. QED
    BY <2>2, <2>3
<1>2. ASSUME NEW e \in Endpoint, HostSetInterrupt(e) \/ HostSetEvent(e)
      PROVE  Known(d)' \/ (epOutDataStatus'[d] /\ Announced(d)')
  <2>1. /\ Known(d)' = Known(d)
        /\ resetting = "no"
        /\ UNCHANGED <<presentedOutChunk, epOutDataStatus, isr>>
    BY <1>2 DEF HostSetInterrupt, HostSetEvent, Known, Fetching
  <2>2. CASE HostSetInterrupt(e)
    <3>1. /\ interrupt' = TRUE /\ epData' = epData
          /\ hostSignal[e] = "interrupt"
          /\ hostSignal' = [hostSignal EXCEPT ![e] = "event"]
      BY <2>2 DEF HostSetInterrupt
    <3>2. Announced(d) => Announced(d)'
      BY <2>1, <3>1 DEF Announced, TypeOK
    <3>. QED
      BY <2>1, <3>2 DEF ChunksKnown
  <2>3. CASE HostSetEvent(e)
    <3>1. /\ epData' = TRUE /\ interrupt' = interrupt
          /\ hostSignal[e] = "event"
          /\ hostSignal' = [hostSignal EXCEPT ![e] = "none"]
      BY <2>3 DEF HostSetEvent
    <3>2. Announced(d) => Announced(d)'
      BY <2>1, <3>1 DEF Announced, TypeOK
    <3>. QED
      BY <2>1, <3>2 DEF ChunksKnown
  <2>. QED
    BY <1>2, <2>2, <2>3
<1>3. CASE GuestFindEpData \/ GuestClearEpData \/ GuestLowerInterrupt
  BY <1>3 DEF GuestFindEpData, GuestClearEpData, GuestLowerInterrupt, ChunksKnown,
     Known, Fetching, Announced
<1>4. CASE GuestReadStatus
  <2>1. /\ seen' = {e \in Endpoint : epOutDataStatus[e]}
        /\ isr = "read"
        /\ resetting = "no"
        /\ UNCHANGED <<presentedOutChunk, epOutDataStatus, dmaWaiting>>
    BY <1>4 DEF GuestReadStatus
  <2>2. CASE epOutDataStatus[d]
    BY <2>1, <2>2 DEF Known
  <2>3. CASE ~epOutDataStatus[d]
    <3>1. seen = {} /\ ~Fetching(d)
      BY <2>1 DEF PointsConsistent, Fetching
    <3>. QED
      BY <2>1, <2>3, <3>1 DEF ChunksKnown, Known
  <2>. QED
    BY <2>2, <2>3
<1>5. CASE GuestAcknowledge
  BY <1>5 DEF GuestAcknowledge, WriteEpDataStatus, ChunksKnown, Known, Fetching,
              Announced, TypeOK
<1>6. ASSUME NEW e \in Endpoint, GuestProgram(e) \/ GuestEndDma(e)
      PROVE  Known(d)' \/ (epOutDataStatus'[d] /\ Announced(d)')
  BY <1>6 DEF GuestProgram, GuestEndDma, ChunksKnown, Known, Fetching, Announced
<1>7. CASE StartBulkEpOutStray \/ GuestLeave
  BY <1>7 DEF StartBulkEpOutStray, GuestLeave, ChunksKnown, Known, Fetching, Announced
<1>8. CASE StartBulkEpOut
  <2>1. /\ dma \in Endpoint
        /\ outDataQueues[dma] \in Seq(Nat)
        /\ TryPresentOutChunk(dma, outDataQueues[dma], << >>, 0)
        /\ interrupt' = (interrupt \/ outDataQueues[dma] # << >>)
        /\ epData' = (epData \/ outDataQueues[dma] # << >>)
        /\ isr = "start" /\ isr' = "thread"
        /\ UNCHANGED <<hostSignal, seen, dmaWaiting, dma, resetting>>
    BY <1>8 DEF StartBulkEpOut, PointsConsistent, TypeOK, SetEpDataIf
  <2>2. Presented(dma, outDataQueues[dma], << >>, 0)
        /\ \A x \in Endpoint \ {dma} :
             /\ presentedOutChunk'[x] = presentedOutChunk[x]
             /\ epOutDataStatus'[x] = epOutDataStatus[x]
    BY <2>1, Empty, PresentOutChunk
  <2>3. CASE d = dma
    BY <2>1, <2>2, <2>3 DEF Presented, Presentable, Announced
  <2>4. CASE d # dma
    BY <2>1, <2>2, <2>4 DEF ChunksKnown, Known, Fetching, Announced
  <2>. QED
    BY <2>3, <2>4
<1>9. ASSUME NEW e \in Endpoint, GuestDrop(e)
      PROVE  Known(d)' \/ (epOutDataStatus'[d] /\ Announced(d)')
  <2>1. /\ outDataQueues[e] \in Seq(Nat)
        /\ TryPresentOutChunk(e, outDataQueues[e], << >>, 0)
        /\ interrupt' = (interrupt \/ outDataQueues[e] # << >>)
        /\ epData' = (epData \/ outDataQueues[e] # << >>)
        /\ dmaWaiting' = dmaWaiting \ {e}
        /\ isr = "thread"
        /\ UNCHANGED <<hostSignal, isr, seen, dma, resetting>>
    BY <1>9 DEF GuestDrop, TypeOK, SetEpDataIf
  <2>2. Presented(e, outDataQueues[e], << >>, 0)
        /\ \A x \in Endpoint \ {e} :
             /\ presentedOutChunk'[x] = presentedOutChunk[x]
             /\ epOutDataStatus'[x] = epOutDataStatus[x]
    BY <2>1, Empty, PresentOutChunk
  <2>3. CASE d = e
    BY <2>1, <2>2, <2>3 DEF Presented, Presentable, Announced
  <2>4. CASE d # e
    BY <2>1, <2>2, <2>4 DEF ChunksKnown, Known, Fetching, Announced
  <2>. QED
    BY <2>3, <2>4
<1>10. CASE ResetInterrupts \/ ResetRegisters \/ ResetSizes
  BY <1>10 DEF ResetInterrupts, ResetRegisters, ResetSizes
<1>11. CASE ResetQueues
  BY <1>11 DEF ResetQueues
<1>12. CASE UNCHANGED vars
  BY <1>12 DEF vars, ChunksKnown, Known, Fetching, Announced
<1>. QED
  BY <1>1, <1>2, <1>3, <1>4, <1>5, <1>6, <1>7, <1>8, <1>9, <1>10, <1>11, <1>12
     DEF Next, GuestStep, ResetStep, HostStep

(***************************************************************************)
(* Undisturbed, the claims are sound and every DMA is answered             *)
(***************************************************************************)

\* What is undisturbed after a step was so before it.
LEMMA StaysUndisturbed ==
  ASSUME TypeOK, PointsConsistent, [Next]_vars, Undisturbed'
  PROVE  Undisturbed /\ resetting = "no"
<1>. USE DEF hostVars, lockedVars, eventVars, guestVars, faultVars
<1>1. CASE \E e \in Endpoint : GuestDrop(e)
  BY <1>1, BulkOutAssumption DEF GuestDrop, Undisturbed, TypeOK
<1>2. CASE ResetInterrupts
  BY <1>2, BulkOutAssumption DEF ResetInterrupts, Undisturbed, TypeOK
<1>3. CASE UNCHANGED <<drops, resets>>
  BY <1>3 DEF Undisturbed, PointsConsistent
<1>4. ASSUME GuestStep \/ ResetRegisters \/ ResetSizes \/ ResetQueues
      PROVE  UNCHANGED <<drops, resets>>
  BY <1>4 DEF GuestStep, GuestFindEpData, GuestClearEpData, GuestLowerInterrupt,
     GuestReadStatus,
     GuestAcknowledge, GuestProgram, GuestEndDma, StartBulkEpOut,
     StartBulkEpOutStray, GuestLeave, ResetRegisters, ResetSizes, ResetQueues
<1>5. ASSUME NEW e \in Endpoint, HostStep(e)
      PROVE  UNCHANGED <<drops, resets>>
  BY <1>5 DEF HostStep, HandleHostToDeviceData, HostSetInterrupt, HostSetEvent
<1>. QED
  BY <1>1, <1>2, <1>3, <1>4, <1>5 DEF Next, ResetStep, vars

\* A drop and a reset disturb.
LEMMA UndisturbedStep ==
  ASSUME TypeOK, Undisturbed', resetting = "no",
         (\E e \in Endpoint : GuestDrop(e)) \/ ResetStep
  PROVE  FALSE
<1>1. ~ \E e \in Endpoint : GuestDrop(e)
  BY BulkOutAssumption DEF GuestDrop, Undisturbed, TypeOK
<1>2. ~ ResetStep
  BY BulkOutAssumption DEF ResetStep, ResetInterrupts, ResetRegisters, ResetSizes,
     ResetQueues, Undisturbed, TypeOK
<1>. QED
  BY <1>1, <1>2

\* A step of an undisturbed system keeps every claim sound and the DMA answered.
LEMMA ClaimsStep ==
  TypeOK /\ PointsConsistent /\ SizesExact /\ ClaimsAreSound /\ DmaAnswered
    /\ [Next]_vars => ClaimsAreSound' /\ DmaAnswered'
<1>. SUFFICES ASSUME TypeOK, PointsConsistent, SizesExact, ClaimsAreSound, DmaAnswered,
                     [Next]_vars, Undisturbed'
              PROVE  /\ \A d \in Endpoint : ClaimIsSound(d)'
                     /\ DmaAnswered'
  BY DEF ClaimsAreSound, DmaAnswered
<1>. USE DEF hostVars, lockedVars, eventVars, guestVars, faultVars
<1>0. Undisturbed /\ resetting = "no"
  BY StaysUndisturbed
<1>a. /\ \A e \in Endpoint : ClaimIsSound(e)
      /\ dma # NoEndpoint /\ isr # "start" => endEpOut[dma]
      /\ \A e \in Endpoint : presentedOutChunk[e] # << >>
           => sizeEpOut[e] = Len(presentedOutChunk[e])
  BY <1>0 DEF ClaimsAreSound, DmaAnswered, SizesExact
<1>1. ASSUME NEW e \in Endpoint, NEW n \in 1..MaxWrite, HandleHostToDeviceData(e, n)
      PROVE  (\A d \in Endpoint : ClaimIsSound(d)') /\ DmaAnswered'
  <2>. DEFINE queue == outDataQueues[e] \o NextOrdinals(written[e], n)
  <2>1. /\ Presented(e, queue, presentedOutChunk[e], sizeEpOut[e])
        /\ \A x \in Endpoint \ {e} :
             /\ presentedOutChunk'[x] = presentedOutChunk[x]
             /\ epOutDataStatus'[x] = epOutDataStatus[x]
        /\ UNCHANGED <<endEpOut, epOutMaxCnt, guestVars>>
    BY <1>1, HostWrites, PresentOutChunk
  <2>. HIDE DEF queue
  <2>2. ClaimIsSound(e)'
    BY <1>a, <2>1 DEF Presented, Presentable, ClaimIsSound, Fetching
  <2>3. ASSUME NEW d \in Endpoint \ {e} PROVE ClaimIsSound(d)'
    BY <1>a, <2>1 DEF ClaimIsSound, Fetching
  <2>. QED
    BY <1>a, <2>1, <2>2, <2>3 DEF DmaAnswered
<1>2. ASSUME NEW e \in Endpoint, HostSetInterrupt(e) \/ HostSetEvent(e)
      PROVE  (\A d \in Endpoint : ClaimIsSound(d)') /\ DmaAnswered'
  BY <1>a, <1>2 DEF HostSetInterrupt, HostSetEvent, ClaimIsSound, Fetching,
     DmaAnswered
<1>3. CASE GuestFindEpData \/ GuestClearEpData \/ GuestLowerInterrupt \/ GuestLeave
  BY <1>a, <1>3 DEF GuestFindEpData, GuestClearEpData, GuestLowerInterrupt,
     GuestLeave, ClaimIsSound,
     Fetching, DmaAnswered
<1>4. CASE GuestReadStatus
  BY <1>a, <1>4 DEF GuestReadStatus, ClaimIsSound, Fetching, DmaAnswered
<1>5. CASE GuestAcknowledge
  <2>1. /\ epOutDataStatus' = [x \in Endpoint |-> epOutDataStatus[x] /\ x \notin seen]
        /\ dmaWaiting' = dmaWaiting \cup seen
        /\ seen' = {}
        /\ isr = "acknowledge" /\ isr' = "dma"
        /\ UNCHANGED <<presentedOutChunk, epOutMaxCnt, dma, endEpOut>>
    BY <1>5 DEF GuestAcknowledge, WriteEpDataStatus
  <2>2. ASSUME NEW d \in Endpoint PROVE ClaimIsSound(d)'
    BY <1>a, <2>1 DEF ClaimIsSound, Fetching
  <2>. QED
    BY <1>a, <2>1, <2>2 DEF DmaAnswered
<1>6. ASSUME NEW e \in Endpoint, GuestProgram(e)
      PROVE  (\A d \in Endpoint : ClaimIsSound(d)') /\ DmaAnswered'
  <2>1. /\ isr = "dma" /\ isr' = "start"
        /\ e \in dmaWaiting /\ dmaWaiting' = dmaWaiting \ {e}
        /\ dma' = e
        /\ epOutMaxCnt' = [epOutMaxCnt EXCEPT ![e] = sizeEpOut[e]]
        /\ UNCHANGED <<presentedOutChunk, epOutDataStatus, seen>>
    BY <1>6 DEF GuestProgram
  <2>2. epOutMaxCnt'[e] = Len(presentedOutChunk[e])
    BY <1>a, <2>1 DEF ClaimIsSound, TypeOK
  <2>3. ASSUME NEW d \in Endpoint PROVE ClaimIsSound(d)'
    BY <1>a, <2>1, <2>2 DEF ClaimIsSound, Fetching
  <2>. QED
    BY <2>1, <2>3 DEF DmaAnswered
<1>7. ASSUME NEW e \in Endpoint, GuestEndDma(e)
      PROVE  (\A d \in Endpoint : ClaimIsSound(d)') /\ DmaAnswered'
  BY <1>a, <1>7 DEF GuestEndDma, ClaimIsSound, Fetching, DmaAnswered
<1>8. CASE StartBulkEpOutStray
  BY <1>a, <1>8 DEF StartBulkEpOutStray, PointsConsistent, ClaimIsSound, Fetching
<1>9. CASE StartBulkEpOut
  <2>1. /\ dma \in Endpoint
        /\ outDataQueues[dma] \in Seq(Nat)
        /\ TryPresentOutChunk(dma, outDataQueues[dma], << >>, 0)
        /\ endEpOut' = [endEpOut EXCEPT ![dma] = TRUE]
        /\ isr = "start" /\ isr' = "thread"
        /\ UNCHANGED <<epOutMaxCnt, seen, dmaWaiting, dma>>
    BY <1>9 DEF StartBulkEpOut, PointsConsistent, TypeOK
  <2>2. Presented(dma, outDataQueues[dma], << >>, 0)
        /\ \A x \in Endpoint \ {dma} :
             /\ presentedOutChunk'[x] = presentedOutChunk[x]
             /\ epOutDataStatus'[x] = epOutDataStatus[x]
    BY <2>1, Empty, PresentOutChunk
  <2>3. /\ seen = {}
        /\ ~epOutDataStatus[dma] /\ dma \notin dmaWaiting
    BY <1>a, <2>1 DEF PointsConsistent, ClaimIsSound, Fetching
  <2>4. ClaimIsSound(dma)'
    BY <2>1, <2>2, <2>3 DEF Presented, ClaimIsSound, Fetching
  <2>5. ASSUME NEW d \in Endpoint \ {dma} PROVE ClaimIsSound(d)'
    BY <1>a, <2>1, <2>2 DEF ClaimIsSound, Fetching
  <2>6. DmaAnswered'
    BY <2>1 DEF DmaAnswered, TypeOK
  <2>. QED
    BY <2>1, <2>4, <2>5, <2>6
<1>10. ASSUME (\E e \in Endpoint : GuestDrop(e)) \/ ResetStep
       PROVE  FALSE
  BY <1>0, <1>10, UndisturbedStep
<1>11. CASE UNCHANGED vars
  BY <1>a, <1>11 DEF vars, ClaimIsSound, Fetching, DmaAnswered
<1>. QED
  BY <1>1, <1>2, <1>3, <1>4, <1>5, <1>6, <1>7, <1>8, <1>9, <1>10, <1>11
     DEF Next, GuestStep, HostStep

(***************************************************************************)
(* Undisturbed, nothing is lost                                            *)
(***************************************************************************)

\* Presenting moves bytes from the queue to the chunk and touches no other endpoint.
LEMMA PresentKeeps ==
  ASSUME TypeOK, NEW e \in Endpoint, NEW queue \in Seq(Nat), NEW chunk \in Seq(Nat),
         NEW size \in 0..MaxPacket, TryPresentOutChunk(e, queue, chunk, size)
  PROVE  /\ InFlight(e)' = chunk \o queue
         /\ \A d \in Endpoint \ {e} : InFlight(d)' = InFlight(d)
<1>1. presentedOutChunk'[e] \o outDataQueues'[e] = chunk \o queue
  BY PresentOutChunk
<1>2. \A d \in Endpoint \ {e} :
        presentedOutChunk'[d] = presentedOutChunk[d] /\ outDataQueues'[d] = outDataQueues[d]
  BY PresentOutChunk
<1>3. InFlight(e)' = presentedOutChunk'[e] \o outDataQueues'[e]
  BY DEF InFlight
<1>4. ASSUME NEW d \in Endpoint \ {e} PROVE InFlight(d)' = InFlight(d)
  BY <1>2 DEF InFlight
<1>. QED
  BY <1>1, <1>3, <1>4

\* HandleHostToDeviceData adds the bytes written to the end of what is held.
LEMMA WriteExtends ==
  ASSUME TypeOK, NEW e \in Endpoint, NEW n \in 1..MaxWrite,
         HandleHostToDeviceData(e, n)
  PROVE  /\ InFlight(e) \in Seq(Nat)
         /\ InFlight(e)' = InFlight(e) \o NextOrdinals(written[e], n)
         /\ \A d \in Endpoint \ {e} :
              InFlight(d)' = InFlight(d) /\ written'[d] = written[d]
         /\ written' = [written EXCEPT ![e] = @ + n]
         /\ UNCHANGED received
<1>1. /\ presentedOutChunk[e] \in Seq(Nat)
      /\ outDataQueues[e] \in Seq(Nat)
      /\ NextOrdinals(written[e], n) \in Seq(Nat)
  BY WrittenQueue, OrdinalsAreSeq DEF TypeOK
<1>. DEFINE queue == outDataQueues[e] \o NextOrdinals(written[e], n)
<1>2. /\ InFlight(e)' = presentedOutChunk[e] \o queue
      /\ \A d \in Endpoint \ {e} : InFlight(d)' = InFlight(d)
  <2>1. /\ queue \in Seq(Nat)
        /\ sizeEpOut[e] \in 0..MaxPacket
        /\ TryPresentOutChunk(e, queue, presentedOutChunk[e], sizeEpOut[e])
    BY HostWrites
  <2>. HIDE DEF queue
  <2>. QED
    BY <1>1, <2>1, PresentKeeps
<1>3. presentedOutChunk[e] \o queue
        = (presentedOutChunk[e] \o outDataQueues[e]) \o NextOrdinals(written[e], n)
  BY <1>1, Regroup, Zenon
<1>4. /\ written' = [written EXCEPT ![e] = @ + n]
      /\ received' = received
  BY HostWrites
<1>5. \A d \in Endpoint \ {e} : written'[d] = written[d]
  BY <1>4 DEF TypeOK
<1>6. InFlight(e) = presentedOutChunk[e] \o outDataQueues[e] /\ InFlight(e) \in Seq(Nat)
  BY <1>1, ConcatProperties DEF InFlight
<1>7. InFlight(e)' = InFlight(e) \o NextOrdinals(written[e], n)
  BY <1>2, <1>3, <1>6
<1>. QED
  BY <1>2, <1>4, <1>5, <1>6, <1>7

\* A DMA takes the chunk off the front of what is held, and the guest gets its
\* first count bytes.
LEMMA FetchTakes ==
  ASSUME TypeOK, PointsConsistent, StartBulkEpOut
  PROVE  LET chunk == presentedOutChunk[dma]
             count == Lesser(Len(chunk), epOutMaxCnt[dma])
         IN  /\ dma \in Endpoint
             /\ chunk \in Seq(Nat) /\ chunk # << >>
             /\ outDataQueues[dma] \in Seq(Nat)
             /\ count \in 0..Len(chunk)
             /\ InFlight(dma) = chunk \o outDataQueues[dma]
             /\ InFlight(dma)' = outDataQueues[dma]
             /\ received' = [received EXCEPT ![dma] = @ \o SubSeq(chunk, 1, count)]
             /\ \A d \in Endpoint \ {dma} : InFlight(d)' = InFlight(d)
             /\ UNCHANGED written
<1>1. /\ dma \in Endpoint
      /\ presentedOutChunk[dma] \in Seq(Nat) /\ presentedOutChunk[dma] # << >>
      /\ outDataQueues[dma] \in Seq(Nat)
      /\ epOutMaxCnt[dma] \in 0..MaxPacket
      /\ TryPresentOutChunk(dma, outDataQueues[dma], << >>, 0)
      /\ written' = written
      /\ dma' = dma
  BY DEF StartBulkEpOut, PointsConsistent, TypeOK, hostVars
<1>2. Lesser(Len(presentedOutChunk[dma]), epOutMaxCnt[dma])
        \in 0..Len(presentedOutChunk[dma])
  BY <1>1, BulkOutAssumption DEF Lesser
<1>3. /\ InFlight(dma)' = << >> \o outDataQueues[dma]
      /\ \A d \in Endpoint \ {dma} : InFlight(d)' = InFlight(d)
  <2>. DEFINE After(d) == presentedOutChunk'[d] \o outDataQueues'[d]
  <2>1. /\ After(dma) = << >> \o outDataQueues[dma]
        /\ \A d \in Endpoint \ {dma} : After(d) = InFlight(d)
    BY <1>1, Empty, PresentKeeps DEF InFlight
  <2>2. InFlight(dma)' = After(dma) /\ \A d \in Endpoint : InFlight(d)' = After(d)
    BY <1>1 DEF InFlight
  <2>. HIDE DEF After
  <2>. QED
    BY <2>1, <2>2
<1>4. << >> \o outDataQueues[dma] = outDataQueues[dma]
  BY <1>1
<1>. QED
  BY <1>1, <1>2, <1>3, <1>4 DEF InFlight, StartBulkEpOut

\* A step of an undisturbed system loses, repeats and overtakes no byte.
LEMMA LossStep ==
  TypeOK /\ PointsConsistent /\ ClaimsAreSound /\ NothingLost /\ [Next]_vars
    => NothingLost'
<1>. SUFFICES ASSUME TypeOK, PointsConsistent, ClaimsAreSound, NothingLost,
                     [Next]_vars, Undisturbed'
              PROVE  \A d \in Endpoint :
                       received'[d] \o InFlight(d)' = FirstOrdinals(written'[d])
  BY DEF NothingLost, FirstOrdinals
<1>0. Undisturbed /\ resetting = "no"
  BY StaysUndisturbed
<1>a. \A d \in Endpoint : received[d] \o InFlight(d) = FirstOrdinals(written[d])
  BY <1>0 DEF NothingLost, FirstOrdinals
<1>1. ASSUME NEW e \in Endpoint, NEW n \in 1..MaxWrite, HandleHostToDeviceData(e, n)
      PROVE  \A d \in Endpoint :
               received'[d] \o InFlight(d)' = FirstOrdinals(written'[d])
  <2>1. /\ InFlight(e) \in Seq(Nat) /\ received[e] \in Seq(Nat)
        /\ written[e] \in Nat /\ n \in Nat
    BY <1>1, WriteExtends, WrittenQueue DEF TypeOK
  <2>2. received[e] \o (InFlight(e) \o NextOrdinals(written[e], n))
          = FirstOrdinals(written[e] + n)
    BY <1>a, <2>1, ExtendPath, ZenonT(40)
  <2>3. written'[e] = written[e] + n
    BY <1>1, WriteExtends, SMTT(30) DEF TypeOK
  <2>. QED
    BY <1>1, <1>a, <2>2, <2>3, WriteExtends
<1>2. CASE StartBulkEpOut
  <2>. DEFINE chunk == presentedOutChunk[dma]
              count == Lesser(Len(chunk), epOutMaxCnt[dma])
  <2>1. /\ dma \in Endpoint
        /\ chunk \in Seq(Nat)
        /\ outDataQueues[dma] \in Seq(Nat)
        /\ received[dma] \in Seq(Nat)
        /\ InFlight(dma) = chunk \o outDataQueues[dma]
        /\ InFlight(dma)' = outDataQueues[dma]
        /\ received' = [received EXCEPT ![dma] = @ \o SubSeq(chunk, 1, count)]
        /\ \A d \in Endpoint \ {dma} : InFlight(d)' = InFlight(d)
        /\ UNCHANGED written
    BY <1>2, FetchTakes DEF TypeOK
  <2>2. count = Len(chunk)
    BY <1>0, <1>2, <2>1 DEF ClaimsAreSound, ClaimIsSound, Fetching, StartBulkEpOut,
       Lesser
  <2>. HIDE DEF chunk, count
  <2>3. SubSeq(chunk, 1, count) = chunk
    BY <2>1, <2>2, SubSeqFull
  <2>4. received[dma] \o (chunk \o outDataQueues[dma])
          = (received[dma] \o chunk) \o outDataQueues[dma]
    <3>1. /\ received[dma] \in Seq(Nat)
          /\ chunk \in Seq(Nat)
          /\ outDataQueues[dma] \in Seq(Nat)
      BY <2>1
    <3>. QED
      BY <3>1, Regroup, Zenon
  <2>5. received'[dma] = received[dma] \o chunk
    BY <2>1, <2>3 DEF TypeOK
  <2>6. received'[dma] \o InFlight(dma)' = FirstOrdinals(written'[dma])
    BY <1>a, <2>1, <2>4, <2>5
  <2>7. \A d \in Endpoint \ {dma} :
          received'[d] = received[d] /\ InFlight(d)' = InFlight(d) /\ written' = written
    BY <2>1 DEF TypeOK
  <2>8. ASSUME NEW d \in Endpoint \ {dma}
        PROVE  received'[d] \o InFlight(d)' = FirstOrdinals(written'[d])
    BY <1>a, <2>7
  <2>9. ASSUME NEW d \in Endpoint, d = dma
        PROVE  received'[d] \o InFlight(d)' = FirstOrdinals(written'[d])
    <3>1. dma' = dma
      BY <1>2 DEF StartBulkEpOut
    <3>. QED
      BY <2>6, <2>9, <3>1 DEF InFlight
  <2>. QED
    BY <2>8, <2>9
<1>3. CASE UNCHANGED <<written, received, presentedOutChunk, outDataQueues>>
  BY <1>a, <1>3 DEF InFlight
<1>4. ASSUME NEW e \in Endpoint,
             \/ HostSetInterrupt(e) \/ HostSetEvent(e)
             \/ GuestProgram(e) \/ GuestEndDma(e)
      PROVE  UNCHANGED <<written, received, presentedOutChunk, outDataQueues>>
  BY <1>4 DEF HostSetInterrupt, HostSetEvent, GuestProgram, GuestEndDma, lockedVars,
              hostVars
<1>5. ASSUME \/ GuestFindEpData \/ GuestClearEpData \/ GuestLowerInterrupt
             \/ GuestReadStatus \/ GuestAcknowledge \/ StartBulkEpOutStray \/ GuestLeave
      PROVE  UNCHANGED <<written, received, presentedOutChunk, outDataQueues>>
  BY <1>5 DEF GuestFindEpData, GuestClearEpData, GuestLowerInterrupt,
     GuestReadStatus, GuestAcknowledge,
              StartBulkEpOutStray, GuestLeave, lockedVars, hostVars
<1>6. ASSUME (\E e \in Endpoint : GuestDrop(e)) \/ ResetStep
      PROVE  FALSE
  BY <1>0, <1>6, UndisturbedStep
<1>7. CASE UNCHANGED vars
  BY <1>3, <1>7 DEF vars, lockedVars, hostVars
<1>. QED
  BY <1>1, <1>2, <1>3, <1>4, <1>5, <1>6, <1>7 DEF Next, GuestStep, HostStep

(***************************************************************************)
(* The theorems                                                            *)
(***************************************************************************)

\* The controller starts empty, with nothing announced, claimed or lost.
LEMMA InitInvariant == Init => BulkOutInvariant
<1>. SUFFICES ASSUME Init PROVE BulkOutInvariant
  OBVIOUS
<1>1. TypeOK
  <2>1. 0 \in 0..MaxPacket /\ 0 \in 0..MaxDrops /\ 0 \in 0..MaxResets /\ 0 \in Nat
    BY BulkOutAssumption
  <2>. QED
    BY Empty, <2>1 DEF Init, TypeOK, HostSignal, Isr, Resetting
<1>2. PointsConsistent /\ ChunksKnown /\ SizesExact /\ DmaAnswered
  BY DEF Init, PointsConsistent, ChunksKnown, SizesExact, DmaAnswered
<1>3. ClaimsAreSound
  BY DEF Init, ClaimsAreSound, ClaimIsSound, Fetching
<1>4. NothingLost
  <2>1. ASSUME NEW e \in Endpoint
        PROVE  received[e] \o InFlight(e) = << >> /\ written[e] = 0
    BY Empty DEF Init, InFlight
  <2>2. [i \in 1..0 |-> i] = << >>
    OBVIOUS
  <2>. QED
    BY <2>1, <2>2 DEF NothingLost
<1>. QED
  BY <1>1, <1>2, <1>3, <1>4 DEF BulkOutInvariant

\* The invariant holds in every reachable state.
THEOREM BulkOutAlwaysInvariant == Spec => []BulkOutInvariant
<1>1. BulkOutInvariant /\ [Next]_vars => BulkOutInvariant'
  BY TypeStep, SizesStep, KnownStep, ClaimsStep, LossStep DEF BulkOutInvariant
<1>. QED
  BY InitInvariant, <1>1, PTL DEF Spec

\* Type correctness: SIZE and MAXCNT never exceed the packet size, the DMA is
\* outstanding on an endpoint in use.
THEOREM BulkOutTypeCorrect == Spec => []TypeOK
<1>1. BulkOutInvariant => TypeOK
  BY DEF BulkOutInvariant
<1>. QED
  BY BulkOutAlwaysInvariant, <1>1, PTL

\* No chunk is presented behind the guest's back, for any number of endpoints and
\* host threads and however often packets are dropped or the machine is reset.
THEOREM NoChunkForgotten == Spec => []PresentedChunkIsKnown
<1>1. BulkOutInvariant => PresentedChunkIsKnown
  BY DEF BulkOutInvariant, ChunksKnown, PresentedChunkIsKnown, Known, Fetching,
     Announced, WakeupPending
<1>. QED
  BY BulkOutAlwaysInvariant, <1>1, PTL

\* SIZE.EPOUT is the length of the presented chunk.
THEOREM SizeIsExact == Spec => []PresentedSizeExact
<1>1. BulkOutInvariant => PresentedSizeExact
  BY DEF BulkOutInvariant, SizesExact, PresentedSizeExact
<1>. QED
  BY BulkOutAlwaysInvariant, <1>1, PTL

\* Undisturbed, every DMA the driver starts is answered by ENDEPOUT.
THEOREM EveryDmaAnswered == Spec => []DmaAnswered
<1>1. BulkOutInvariant => DmaAnswered
  BY DEF BulkOutInvariant
<1>. QED
  BY BulkOutAlwaysInvariant, <1>1, PTL

\* Undisturbed, the guest's bytes followed by those held are the bytes written.
THEOREM NoByteLost == Spec => []NothingLost
<1>1. BulkOutInvariant => NothingLost
  BY DEF BulkOutInvariant
<1>. QED
  BY BulkOutAlwaysInvariant, <1>1, PTL

(***************************************************************************)
(* The controller implements the lossy pipe                                *)
(***************************************************************************)

Held == [e \in Endpoint |-> InFlight(e)]

\* The bytes held for an endpoint are the queue and the chunk, after a step too.
LEMMA HeldPointwise ==
  /\ \A e \in Endpoint : Held[e] = InFlight(e)
  /\ \A e \in Endpoint : Held'[e] = presentedOutChunk'[e] \o outDataQueues'[e]
  /\ DOMAIN Held = Endpoint /\ DOMAIN Held' = Endpoint
BY DEF Held, InFlight

\* Removing the presented chunk and presenting the next one is a Take: the guest
\* gets the chunk's first m bytes and the rest is discarded.
LEMMA RemovalIsTake ==
  ASSUME TypeOK, NEW e \in Endpoint, presentedOutChunk[e] # << >>,
         TryPresentOutChunk(e, outDataQueues[e], << >>, 0),
         NEW m \in 0..Len(presentedOutChunk[e]),
         received' = [received EXCEPT ![e] = @ \o SubSeq(presentedOutChunk[e], 1, m)],
         written' = written
  PROVE  Pipe!Next
<1>. DEFINE chunk == presentedOutChunk[e]
            queue == outDataQueues[e]
<1>1. chunk \in Seq(Nat) /\ queue \in Seq(Nat) /\ chunk # << >> /\ m \in 0..Len(chunk)
  BY DEF TypeOK
<1>2. Held[e] = chunk \o queue
  BY HeldPointwise DEF InFlight
<1>3. /\ Held'[e] = queue
      /\ \A d \in Endpoint \ {e} : Held'[d] = Held[d]
  <2>1. presentedOutChunk'[e] \o outDataQueues'[e] = << >> \o queue
    BY <1>1, Empty, PresentOutChunk
  <2>2. \A d \in Endpoint \ {e} :
          presentedOutChunk'[d] = presentedOutChunk[d] /\ outDataQueues'[d] = outDataQueues[d]
    BY <1>1, Empty, PresentOutChunk
  <2>3. << >> \o queue = queue
    BY <1>1
  <2>. QED
    BY <2>1, <2>2, <2>3, HeldPointwise DEF InFlight
<1>. HIDE DEF chunk, queue
<1>4. /\ SubSeq(Held[e], 1, m) = SubSeq(chunk, 1, m)
      /\ SubSeq(Held[e], Len(chunk) + 1, Len(Held[e])) = queue
      /\ Len(Held[e]) = Len(chunk) + Len(queue)
  BY <1>1, <1>2, FrontOfConcat
<1>5. /\ Len(chunk) \in 1..Len(Held[e])
      /\ m \in 0..Len(chunk)
  BY <1>1, <1>4, EmptySeq
<1>6. Held' = [Held EXCEPT ![e] = SubSeq(@, Len(chunk) + 1, Len(@))]
  <2>1. Held' = [d \in Endpoint |-> Held'[d]] /\ Held = [d \in Endpoint |-> Held[d]]
    BY DEF Held
  <2>. QED
    BY <1>3, <1>4, <2>1
<1>7. received' = [received EXCEPT ![e] = @ \o SubSeq(Held[e], 1, m)]
  BY <1>4 DEF chunk
<1>8. Pipe!Take(e, m, Len(chunk))
  BY <1>6, <1>7 DEF Pipe!Take, Held
<1>. QED
  BY <1>5, <1>8 DEF Pipe!Next, Held

\* The bytes of one write are a Put.
LEMMA WriteIsPut ==
  ASSUME TypeOK, NEW e \in Endpoint, NEW n \in 1..MaxWrite,
         HandleHostToDeviceData(e, n)
  PROVE  Pipe!Next
<1>1. /\ InFlight(e)' = InFlight(e) \o NextOrdinals(written[e], n)
      /\ \A d \in Endpoint \ {e} : InFlight(d)' = InFlight(d)
      /\ written' = [written EXCEPT ![e] = @ + n]
      /\ received' = received
  BY WriteExtends
<1>2. Held' = [Held EXCEPT ![e] = @ \o NextOrdinals(written[e], n)]
  <2>1. Held' = [d \in Endpoint |-> InFlight(d)']
    BY DEF Held
  <2>. QED
    BY <1>1, <2>1 DEF Held
<1>3. Pipe!Put(e, n)
  BY <1>1, <1>2 DEF Pipe!Put, Pipe!Ordinals, NextOrdinals, Held
<1>. QED
  BY <1>3 DEF Pipe!Next

\* Every step of the controller, the host's threads and the guest is a step of the
\* pipe or leaves it unchanged.
LEMMA BulkOutStepIsPipeStep ==
  TypeOK /\ PointsConsistent /\ [Next]_vars => [Pipe!Next]_<<written, Held, received>>
<1>. SUFFICES ASSUME TypeOK, PointsConsistent, [Next]_vars
              PROVE  [Pipe!Next]_<<written, Held, received>>
  OBVIOUS
<1>1. ASSUME NEW e \in Endpoint, NEW n \in 1..MaxWrite, HandleHostToDeviceData(e, n)
      PROVE  [Pipe!Next]_<<written, Held, received>>
  BY <1>1, WriteIsPut
<1>2. CASE StartBulkEpOut
  <2>. DEFINE count == Lesser(Len(presentedOutChunk[dma]), epOutMaxCnt[dma])
  <2>1. /\ dma \in Endpoint
        /\ presentedOutChunk[dma] # << >>
        /\ count \in 0..Len(presentedOutChunk[dma])
        /\ received' = [received EXCEPT
             ![dma] = @ \o SubSeq(presentedOutChunk[dma], 1, count)]
        /\ written' = written
    BY <1>2, FetchTakes
  <2>2. TryPresentOutChunk(dma, outDataQueues[dma], << >>, 0)
    BY <1>2 DEF StartBulkEpOut
  <2>. HIDE DEF count
  <2>. QED
    BY <2>1, <2>2, RemovalIsTake
<1>3. ASSUME NEW e \in Endpoint, GuestDrop(e)
      PROVE  [Pipe!Next]_<<written, Held, received>>
  <2>1. /\ TryPresentOutChunk(e, outDataQueues[e], << >>, 0)
        /\ written' = written
        /\ received' = received
    BY <1>3 DEF GuestDrop, hostVars
  <2>2. /\ presentedOutChunk[e] \in Seq(Nat)
        /\ outDataQueues[e] \in Seq(Nat)
        /\ received[e] \in Seq(Nat)
    BY DEF TypeOK
  <2>3. CASE presentedOutChunk[e] # << >>
    <3>1. 0 \in 0..Len(presentedOutChunk[e])
      BY <2>2, EmptySeq
    <3>2. received[e] \o SubSeq(presentedOutChunk[e], 1, 0) = received[e]
      <4>1. SubSeq(presentedOutChunk[e], 1, 0) = << >>
        BY <2>2
      <4>. QED
        BY <2>2, <4>1
    <3>3. received' = [received EXCEPT ![e] = @ \o SubSeq(presentedOutChunk[e], 1, 0)]
      BY <2>1, <3>2 DEF TypeOK
    <3>. QED
      BY <2>1, <2>3, <3>1, <3>3, RemovalIsTake
  <2>4. CASE presentedOutChunk[e] = << >>
    <3>1. presentedOutChunk'[e] \o outDataQueues'[e] = presentedOutChunk[e] \o outDataQueues[e]
      BY <2>1, <2>2, <2>4, Empty, PresentOutChunk
    <3>2. \A d \in Endpoint \ {e} :
            presentedOutChunk'[d] = presentedOutChunk[d] /\ outDataQueues'[d] = outDataQueues[d]
      BY <2>1, <2>2, Empty, PresentOutChunk
    <3>3. Held' = Held
      BY <3>1, <3>2 DEF Held, InFlight
    <3>. QED
      BY <2>1, <3>3
  <2>. QED
    BY <2>3, <2>4
<1>4. CASE ResetQueues
  <2>1. /\ outDataQueues' = [e \in Endpoint |-> << >>]
        /\ presentedOutChunk' = [e \in Endpoint |-> << >>]
        /\ UNCHANGED <<written, received>>
    BY <1>4 DEF ResetQueues, hostVars
  <2>2. << >> \o << >> = << >>
    BY Empty
  <2>3. Held' = [e \in Endpoint |-> << >>]
    BY <2>1, <2>2 DEF Held, InFlight
  <2>4. Pipe!Flush
    BY <2>1, <2>3 DEF Pipe!Flush, Held
  <2>. QED
    BY <2>4 DEF Pipe!Next
<1>5. CASE UNCHANGED <<written, received, presentedOutChunk, outDataQueues>>
  BY <1>5 DEF Held, InFlight
<1>6. ASSUME NEW e \in Endpoint,
             \/ HostSetInterrupt(e) \/ HostSetEvent(e)
             \/ GuestProgram(e) \/ GuestEndDma(e)
      PROVE  UNCHANGED <<written, received, presentedOutChunk, outDataQueues>>
  BY <1>6 DEF HostSetInterrupt, HostSetEvent, GuestProgram, GuestEndDma, lockedVars,
              hostVars
<1>7. ASSUME \/ GuestFindEpData \/ GuestClearEpData \/ GuestLowerInterrupt
             \/ GuestReadStatus \/ GuestAcknowledge \/ StartBulkEpOutStray \/ GuestLeave
             \/ ResetInterrupts \/ ResetRegisters \/ ResetSizes
      PROVE  UNCHANGED <<written, received, presentedOutChunk, outDataQueues>>
  BY <1>7 DEF GuestFindEpData, GuestClearEpData, GuestLowerInterrupt,
     GuestReadStatus, GuestAcknowledge,
              StartBulkEpOutStray, GuestLeave, ResetInterrupts, ResetRegisters,
              ResetSizes, lockedVars, hostVars
<1>8. CASE UNCHANGED vars
  BY <1>5, <1>8 DEF vars, lockedVars, hostVars
<1>. QED
  BY <1>1, <1>2, <1>3, <1>4, <1>5, <1>6, <1>7, <1>8
     DEF Next, GuestStep, HostStep, ResetStep

\* Whatever the drops, the resets and the interleaving, the guest gets the host's
\* bytes in order and none twice: the controller is a pipe that may lose items.
THEOREM BulkOutImplementsPipe == Spec => BulkOutIsPipe
<1>1. Init => Pipe!Init
  <2>1. << >> \o << >> = << >>
    BY Empty
  <2>. QED
    BY <2>1 DEF Init, Pipe!Init, InFlight
<1>2. BulkOutInvariant /\ [Next]_vars => [Pipe!Next]_Pipe!pipeVars
  BY BulkOutStepIsPipeStep DEF BulkOutInvariant, Pipe!pipeVars, Held
<1>. QED
  BY <1>1, <1>2, BulkOutAlwaysInvariant, PTL DEF Spec, BulkOutIsPipe, Pipe!Spec
=============================================================================
