------------------------------ MODULE UsbBulkOut ------------------------------
(***************************************************************************)
(* Host-to-device bulk data of the emulated nRF USB controller             *)
(* (NRF_USBD_Full.cs).  A host thread hands bytes to an OUT endpoint; the  *)
(* controller queues them and presents one chunk at a time to the guest,   *)
(* through SIZE.EPOUT, EPDATASTATUS and EVENTS_EPDATA; the guest's driver  *)
(* fetches it by DMA (TASKS_STARTEPOUT), upon which the next chunk is      *)
(* presented.                                                              *)
(*                                                                         *)
(* The queue, the chunk, SIZE and EPDATASTATUS are meant to be guarded by  *)
(* outLock; events are raised after the lock is released, and SetEvent     *)
(* itself first raises the interrupt, then sets the event register.        *)
(* A machine reset clears the controller piecemeal while host threads run  *)
(* on.                                                                     *)
(*                                                                         *)
(* A byte is its ordinal: the k-th byte written to an endpoint is k.  The  *)
(* guest's driver is an external, modelled by its register accesses as the *)
(* comments of NRF_USBD_Full.cs describe them.                             *)
(***************************************************************************)
EXTENDS Naturals, Sequences

CONSTANTS Endpoint,    (* the bulk OUT endpoints in use                    *)
          NoEndpoint,  (* no DMA outstanding                               *)
          MaxPacket,   (* maximumPacketSize                                *)
          MaxWrite,    (* bytes of one WriteData call, at most             *)
          MaxBytes,    (* bound: bytes the host writes to each endpoint    *)
          MaxDrops,    (* bound: how often the guest drops a packet        *)
          MaxResets    (* bound: how often the machine is reset            *)

ASSUME BulkOutAssumption ==
  /\ NoEndpoint \notin Endpoint
  /\ MaxPacket \in Nat \ {0}
  /\ MaxWrite \in Nat \ {0}
  /\ MaxBytes \in [Endpoint -> Nat]
  /\ MaxDrops \in Nat
  /\ MaxResets \in Nat

VARIABLES
  written,           (* written[e]: bytes the host has written              *)
  outDataQueues,     (* bytes not yet presented                             *)
  presentedOutChunk, (* the chunk presented to the guest; << >> is null     *)
  sizeEpOut,         (* SIZE.EPOUT                                          *)
  epOutDataStatus,   (* EPDATASTATUS.EPOUT                                  *)
  interrupt,         (* the interrupt manager's EPDATA line                 *)
  epData,            (* EVENTS_EPDATA                                       *)
  endEpOut,          (* EVENTS_ENDEPOUT                                     *)
  epOutMaxCnt,       (* EPOUT.MAXCNT                                        *)
  hostSignal,        (* host thread: SetEvent steps still to do             *)
  isr,               (* guest: how far the interrupt handler is             *)
  seen,              (* guest: the EPDATASTATUS bits it has read            *)
  dmaWaiting,        (* guest: endpoints with data to fetch                 *)
  dma,               (* guest: the endpoint whose DMA is outstanding        *)
  received,          (* guest RAM: the bytes fetched, in order              *)
  drops, resets,     (* how often each has happened                         *)
  resetting          (* how far Reset is                                    *)

hostVars  == <<written, hostSignal>>
lockedVars == <<outDataQueues, presentedOutChunk, sizeEpOut, epOutDataStatus>>
eventVars == <<interrupt, epData>>
guestVars == <<isr, seen, dmaWaiting, dma>>
faultVars == <<drops, resets, resetting>>
vars == <<hostVars, lockedVars, eventVars, endEpOut, epOutMaxCnt, guestVars,
          received, faultVars>>

HostSignal == {"none", "interrupt", "event"}
Isr == {"thread", "clear", "lower", "read", "acknowledge", "dma", "start"}
Resetting == {"no", "registers", "sizes", "queues"}

Lesser(a, b) == IF a < b THEN a ELSE b

TypeOK ==
  /\ written           \in [Endpoint -> Nat]
  /\ outDataQueues     \in [Endpoint -> Seq(Nat)]
  /\ presentedOutChunk \in [Endpoint -> Seq(Nat)]
  /\ sizeEpOut         \in [Endpoint -> 0..MaxPacket]
  /\ epOutDataStatus   \in [Endpoint -> BOOLEAN]
  /\ interrupt         \in BOOLEAN
  /\ epData            \in BOOLEAN
  /\ endEpOut          \in [Endpoint -> BOOLEAN]
  /\ epOutMaxCnt       \in [Endpoint -> 0..MaxPacket]
  /\ hostSignal        \in [Endpoint -> HostSignal]
  /\ isr               \in Isr
  /\ seen              \subseteq Endpoint
  /\ dmaWaiting        \subseteq Endpoint
  /\ dma               \in Endpoint \cup {NoEndpoint}
  /\ received          \in [Endpoint -> Seq(Nat)]
  /\ drops             \in 0..MaxDrops
  /\ resets            \in 0..MaxResets
  /\ resetting         \in Resetting

Init ==
  /\ written           = [e \in Endpoint |-> 0]
  /\ outDataQueues     = [e \in Endpoint |-> << >>]
  /\ presentedOutChunk = [e \in Endpoint |-> << >>]
  /\ sizeEpOut         = [e \in Endpoint |-> 0]
  /\ epOutDataStatus   = [e \in Endpoint |-> FALSE]
  /\ interrupt         = FALSE
  /\ epData            = FALSE
  /\ endEpOut          = [e \in Endpoint |-> FALSE]
  /\ epOutMaxCnt       = [e \in Endpoint |-> 0]
  /\ hostSignal        = [e \in Endpoint |-> "none"]
  /\ isr               = "thread"
  /\ seen              = {}
  /\ dmaWaiting        = {}
  /\ dma               = NoEndpoint
  /\ received          = [e \in Endpoint |-> << >>]
  /\ drops             = 0
  /\ resets            = 0
  /\ resetting         = "no"

(***************************************************************************)
(* Presenting a chunk                                                      *)
(***************************************************************************)

\* TryPresentOutChunk's condition, for a queue and a presented chunk.
Presentable(queue, chunk) == chunk = << >> /\ queue # << >>

\* Mutant: SIZE is set to everything that is pending, not to the chunk.
PresentWithQueueLength(e, queue, chunk, size) ==
  LET count == Lesser(MaxPacket, Len(queue)) IN
  IF Presentable(queue, chunk)
  THEN /\ presentedOutChunk' = [presentedOutChunk EXCEPT ![e] = SubSeq(queue, 1, count)]
       /\ outDataQueues' = [outDataQueues EXCEPT ![e] = SubSeq(queue, count + 1, Len(queue))]
       /\ sizeEpOut' = [sizeEpOut EXCEPT ![e] = Len(queue)]
       /\ epOutDataStatus' = [epOutDataStatus EXCEPT ![e] = TRUE]
  ELSE /\ presentedOutChunk' = [presentedOutChunk EXCEPT ![e] = chunk]
       /\ outDataQueues' = [outDataQueues EXCEPT ![e] = queue]
       /\ sizeEpOut' = [sizeEpOut EXCEPT ![e] = size]
       /\ UNCHANGED epOutDataStatus

\* TryPresentOutChunk, after the caller has made the queue, the chunk and SIZE
\* what its arguments say: present the next chunk unless one is waiting.
TryPresentOutChunk(e, queue, chunk, size) ==
  LET count == Lesser(MaxPacket, Len(queue)) IN
  IF Presentable(queue, chunk)
  THEN /\ presentedOutChunk' = [presentedOutChunk EXCEPT ![e] = SubSeq(queue, 1, count)]
       /\ outDataQueues' = [outDataQueues EXCEPT ![e] = SubSeq(queue, count + 1, Len(queue))]
       /\ sizeEpOut' = [sizeEpOut EXCEPT ![e] = count]
       /\ epOutDataStatus' = [epOutDataStatus EXCEPT ![e] = TRUE]
  ELSE /\ presentedOutChunk' = [presentedOutChunk EXCEPT ![e] = chunk]
       /\ outDataQueues' = [outDataQueues EXCEPT ![e] = queue]
       /\ sizeEpOut' = [sizeEpOut EXCEPT ![e] = size]
       /\ UNCHANGED epOutDataStatus

\* Mutant: the CPU thread presents a chunk without telling the guest.
ForgetEpData(presented) == UNCHANGED eventVars

\* SetEvent(EpData) on the CPU thread: no guest instruction can fall between
\* its two assignments.
SetEpDataIf(presented) ==
  /\ interrupt' = (interrupt \/ presented)
  /\ epData' = (epData \/ presented)

(***************************************************************************)
(* The host's thread                                                       *)
(***************************************************************************)

\* HandleHostToDeviceData: queue the bytes and present under outLock ...
HandleHostToDeviceData(e, n) ==
  LET queue == outDataQueues[e] \o [i \in 1..n |-> written[e] + i] IN
  /\ hostSignal[e] = "none"
  /\ written[e] + n <= MaxBytes[e]
  /\ written' = [written EXCEPT ![e] = @ + n]
  /\ TryPresentOutChunk(e, queue, presentedOutChunk[e], sizeEpOut[e])
  /\ hostSignal' = [hostSignal EXCEPT
       ![e] = IF Presentable(queue, presentedOutChunk[e]) THEN "interrupt" ELSE "none"]
  /\ UNCHANGED <<eventVars, endEpOut, epOutMaxCnt, guestVars, received, faultVars>>

\* ... and, with the lock released, SetEvent: the interrupt line first ...
HostSetInterrupt(e) ==
  /\ hostSignal[e] = "interrupt"
  /\ interrupt' = TRUE
  /\ hostSignal' = [hostSignal EXCEPT ![e] = "event"]
  /\ UNCHANGED <<written, lockedVars, epData, endEpOut, epOutMaxCnt, guestVars,
                 received, faultVars>>

\* ... then the event register.
HostSetEvent(e) ==
  /\ hostSignal[e] = "event"
  /\ epData' = TRUE
  /\ hostSignal' = [hostSignal EXCEPT ![e] = "none"]
  /\ UNCHANGED <<written, lockedVars, interrupt, endEpOut, epOutMaxCnt, guestVars,
                 received, faultVars>>

(***************************************************************************)
(* The guest's interrupt handler, one register access after the other      *)
(***************************************************************************)

GuestRuns == resetting = "no"

\* The handler is entered for a pending interrupt and finds EVENTS_EPDATA set.
GuestFindEpData ==
  /\ GuestRuns
  /\ isr = "thread"
  /\ interrupt \/ \E e \in Endpoint : endEpOut[e]
  /\ epData
  /\ isr' = "clear"
  /\ UNCHANGED <<hostVars, lockedVars, eventVars, endEpOut, epOutMaxCnt, seen,
                 dmaWaiting, dma, received, faultVars>>

\* Writing 0 to the event register clears it ...
GuestClearEpData ==
  /\ GuestRuns
  /\ isr = "clear"
  /\ epData' = FALSE
  /\ isr' = "lower"
  /\ UNCHANGED <<hostVars, lockedVars, interrupt, endEpOut, epOutMaxCnt, seen,
                 dmaWaiting, dma, received, faultVars>>

\* ... and then, in the register's write callback, lowers the interrupt line, even
\* if a host thread has raised both in the meantime.
GuestLowerInterrupt ==
  /\ GuestRuns
  /\ isr = "lower"
  /\ interrupt' = FALSE
  /\ isr' = "read"
  /\ UNCHANGED <<hostVars, lockedVars, epData, endEpOut, epOutMaxCnt, seen,
                 dmaWaiting, dma, received, faultVars>>

\* status = EPDATASTATUS
GuestReadStatus ==
  /\ GuestRuns
  /\ isr = "read"
  /\ seen' = {e \in Endpoint : epOutDataStatus[e]}
  /\ isr' = "acknowledge"
  /\ UNCHANGED <<hostVars, lockedVars, eventVars, endEpOut, epOutMaxCnt,
                 dmaWaiting, dma, received, faultVars>>

\* Mutant: EPDATASTATUS is a plain register, not write-one-to-clear.
StoreStatus(bits) ==
  epOutDataStatus' = [e \in Endpoint |-> e \in bits]

\* Mutant: a write to EPDATASTATUS clears every bit, whatever is written.
ClearAllStatus(bits) ==
  epOutDataStatus' = [e \in Endpoint |-> FALSE]

\* A write to EPDATASTATUS clears the bits that are written as one.
WriteEpDataStatus(bits) ==
  epOutDataStatus' = [e \in Endpoint |-> epOutDataStatus[e] /\ e \notin bits]

\* EPDATASTATUS = status
GuestAcknowledge ==
  /\ GuestRuns
  /\ isr = "acknowledge"
  /\ WriteEpDataStatus(seen)
  /\ dmaWaiting' = dmaWaiting \cup seen
  /\ seen' = {}
  /\ isr' = "dma"
  /\ UNCHANGED <<hostVars, outDataQueues, presentedOutChunk, sizeEpOut, eventVars,
                 endEpOut, epOutMaxCnt, dma, received, faultVars>>

\* The driver has one DMA at a time: it programs MAXCNT = SIZE.EPOUT ...
GuestProgram(e) ==
  /\ GuestRuns
  /\ isr = "dma"
  /\ dma = NoEndpoint
  /\ e \in dmaWaiting
  /\ epOutMaxCnt' = [epOutMaxCnt EXCEPT ![e] = sizeEpOut[e]]
  /\ dmaWaiting' = dmaWaiting \ {e}
  /\ dma' = e
  /\ isr' = "start"
  /\ UNCHANGED <<hostVars, lockedVars, eventVars, endEpOut, seen, received,
                 faultVars>>

\* ... and writes TASKS_STARTEPOUT: StartBulkEpOut with a chunk to fetch.  What
\* the DMA leaves of the chunk is dropped.
StartBulkEpOut ==
  LET chunk == presentedOutChunk[dma]
      count == Lesser(Len(chunk), epOutMaxCnt[dma])
  IN
  /\ GuestRuns
  /\ isr = "start"
  /\ chunk # << >>
  /\ received' = [received EXCEPT ![dma] = @ \o SubSeq(chunk, 1, count)]
  /\ TryPresentOutChunk(dma, outDataQueues[dma], << >>, 0)
  /\ endEpOut' = [endEpOut EXCEPT ![dma] = TRUE]
  /\ SetEpDataIf(outDataQueues[dma] # << >>)
  /\ isr' = "thread"
  /\ UNCHANGED <<hostVars, epOutMaxCnt, seen, dmaWaiting, dma, faultVars>>

\* StartBulkEpOut without one: a warning, no DMA and no ENDEPOUT.
StartBulkEpOutStray ==
  /\ GuestRuns
  /\ isr = "start"
  /\ presentedOutChunk[dma] = << >>
  /\ isr' = "thread"
  /\ UNCHANGED <<hostVars, lockedVars, eventVars, endEpOut, epOutMaxCnt, seen,
                 dmaWaiting, dma, received, faultVars>>

\* Nothing to start now: leave the handler.
GuestLeave ==
  /\ GuestRuns
  /\ isr = "dma"
  /\ dmaWaiting = {} \/ dma # NoEndpoint
  /\ isr' = "thread"
  /\ UNCHANGED <<hostVars, lockedVars, eventVars, endEpOut, epOutMaxCnt, seen,
                 dmaWaiting, dma, received, faultVars>>

\* The handler finds ENDEPOUT: the DMA is over, the next one may start.
GuestEndDma(e) ==
  /\ GuestRuns
  /\ isr = "thread"
  /\ endEpOut[e]
  /\ endEpOut' = [endEpOut EXCEPT ![e] = FALSE]
  /\ dma' = NoEndpoint
  /\ isr' = "dma"
  /\ UNCHANGED <<hostVars, lockedVars, eventVars, epOutMaxCnt, seen, dmaWaiting,
                 received, faultVars>>

\* The driver enables the endpoint: a write to SIZE.EPOUT drops the presented
\* chunk and presents the next; EPDATASTATUS is left as it is.
GuestDrop(e) ==
  /\ GuestRuns
  /\ isr = "thread"
  /\ dma # e
  /\ drops < MaxDrops
  /\ drops' = drops + 1
  /\ TryPresentOutChunk(e, outDataQueues[e], << >>, 0)
  /\ SetEpDataIf(outDataQueues[e] # << >>)
  /\ dmaWaiting' = dmaWaiting \ {e}
  /\ UNCHANGED <<hostVars, endEpOut, epOutMaxCnt, isr, seen, dma, received,
                 resets, resetting>>

(***************************************************************************)
(* Reset.  The CPU is halted, the host's threads are not.                  *)
(***************************************************************************)

\* interruptManager.Reset(); the guest restarts when Reset is over.
ResetInterrupts ==
  /\ resetting = "no"
  /\ resets < MaxResets
  /\ resets' = resets + 1
  /\ interrupt' = FALSE
  /\ isr' = "thread"
  /\ seen' = {}
  /\ dmaWaiting' = {}
  /\ dma' = NoEndpoint
  /\ resetting' = "registers"
  /\ UNCHANGED <<hostVars, lockedVars, epData, endEpOut, epOutMaxCnt, received, drops>>

\* registers.Reset()
ResetRegisters ==
  /\ resetting = "registers"
  /\ epData' = FALSE
  /\ endEpOut' = [e \in Endpoint |-> FALSE]
  /\ epOutMaxCnt' = [e \in Endpoint |-> 0]
  /\ resetting' = "sizes"
  /\ UNCHANGED <<hostVars, lockedVars, interrupt, guestVars, received, drops, resets>>

\* The arrays behind SIZE.EPOUT and EPDATASTATUS, outside outLock.
ResetSizes ==
  /\ resetting = "sizes"
  /\ sizeEpOut' = [e \in Endpoint |-> 0]
  /\ epOutDataStatus' = [e \in Endpoint |-> FALSE]
  /\ resetting' = "queues"
  /\ UNCHANGED <<hostVars, outDataQueues, presentedOutChunk, eventVars, endEpOut,
                 epOutMaxCnt, guestVars, received, drops, resets>>

\* Mutant: the presented chunk survives the reset.
ResetQueuesOnly ==
  /\ resetting = "queues"
  /\ outDataQueues' = [e \in Endpoint |-> << >>]
  /\ resetting' = "no"
  /\ UNCHANGED <<hostVars, presentedOutChunk, sizeEpOut, epOutDataStatus, eventVars,
                 endEpOut, epOutMaxCnt, guestVars, received, drops, resets>>

\* The queues and the presented chunks, under outLock.
ResetQueues ==
  /\ resetting = "queues"
  /\ outDataQueues' = [e \in Endpoint |-> << >>]
  /\ presentedOutChunk' = [e \in Endpoint |-> << >>]
  /\ resetting' = "no"
  /\ UNCHANGED <<hostVars, sizeEpOut, epOutDataStatus, eventVars, endEpOut,
                 epOutMaxCnt, guestVars, received, drops, resets>>

HostStep(e) ==
  \/ \E n \in 1..MaxWrite : HandleHostToDeviceData(e, n)
  \/ HostSetInterrupt(e)
  \/ HostSetEvent(e)

GuestStep ==
  \/ GuestFindEpData
  \/ GuestClearEpData
  \/ GuestLowerInterrupt
  \/ GuestReadStatus
  \/ GuestAcknowledge
  \/ \E e \in Endpoint : GuestProgram(e) \/ GuestEndDma(e)
  \/ StartBulkEpOut
  \/ StartBulkEpOutStray
  \/ GuestLeave

ResetStep == ResetInterrupts \/ ResetRegisters \/ ResetSizes \/ ResetQueues

Next ==
  \/ GuestStep
  \/ ResetStep
  \/ \E e \in Endpoint : HostStep(e) \/ GuestDrop(e)

Spec == Init /\ [][Next]_vars

\* A host thread that has begun SetEvent ends it, the guest handles the
\* interrupts it takes, a reset comes to an end.  Nothing makes the host write,
\* the guest drop a packet or the machine reset.
Fairness ==
  /\ WF_vars(GuestStep)
  /\ WF_vars(ResetRegisters \/ ResetSizes \/ ResetQueues)
  /\ \A e \in Endpoint : WF_vars(HostSetInterrupt(e) \/ HostSetEvent(e))

FairSpec == Spec /\ Fairness

(***************************************************************************)
(* Properties                                                              *)
(***************************************************************************)

\* The bytes the controller holds for an endpoint, oldest first.
InFlight(e) == presentedOutChunk[e] \o outDataQueues[e]

\* The guest will find out that endpoint e has data: its host thread has yet to
\* raise EPDATA, or EPDATA is pending, or the handler has not read the status.
WakeupPending(e) ==
  \/ hostSignal[e] # "none"
  \/ interrupt /\ epData
  \/ isr \in {"clear", "lower", "read"}

\* No chunk is presented behind the guest's back.  Its status bit is raised under
\* the lock, the event only after it, while the guest clears the event and then
\* reads and clears the status: whatever the interleaving, a presented chunk is
\* known to the driver or announced by a status bit whose event is still due.
PresentedChunkIsKnown ==
  resetting = "no" =>
    \A e \in Endpoint :
      presentedOutChunk[e] # << >> =>
        \/ e \in seen \cup dmaWaiting
        \/ isr = "start" /\ dma = e
        \/ epOutDataStatus[e] /\ WakeupPending(e)

\* SIZE.EPOUT tells the driver exactly how long the presented chunk is, so that
\* a DMA with MAXCNT = SIZE leaves no tail behind.
PresentedSizeExact ==
  resetting = "no" =>
    \A e \in Endpoint :
      presentedOutChunk[e] # << >> =>
        /\ Len(presentedOutChunk[e]) <= MaxPacket
        /\ sizeEpOut[e] = Len(presentedOutChunk[e])

\* Nothing has been dropped and no reset has begun.
Undisturbed == drops = 0 /\ resets = 0

\* A driver that starts a DMA only for a status bit it has acknowledged is always
\* answered by ENDEPOUT, as long as no packet was dropped and no reset happened.
DmaAnswered ==
  (dma # NoEndpoint /\ isr # "start" /\ Undisturbed) => endEpOut[dma]

\* Without drops and resets no byte is lost, duplicated or overtaken.
NothingLost ==
  Undisturbed =>
    \A e \in Endpoint : received[e] \o InFlight(e) = [i \in 1..written[e] |-> i]

\* A chunk dropped by the guest or the reset may lose data, but what the guest
\* gets is still in order and never twice: the path is a pipe that may lose
\* items, from its old end only.
Pipe == INSTANCE BytePipe WITH
  Lane <- Endpoint, MaxPut <- MaxWrite, MayLose <- TRUE,
  put <- written, pipe <- [e \in Endpoint |-> InFlight(e)], got <- received

BulkOutIsPipe == Pipe!Spec

\* The driver waits for an ENDEPOUT that nothing will raise.
DmaStuck == dma # NoEndpoint /\ isr = "thread" /\ ~endEpOut[dma]

\* Whatever the host writes leaves the controller, unless the driver's DMA is
\* stuck (which DmaAnswered confines to drops and resets).
EverythingFetched ==
  \A e \in Endpoint : \A k \in 1..MaxBytes[e] :
    (written[e] >= k)
      ~> (DmaStuck \/ \A i \in DOMAIN InFlight(e) : InFlight(e)[i] # k)

\* SIZE.EPOUT is "the number of received bytes waiting in the endpoint buffer".
\* A reset that races with a host thread breaks this: see the findings.
SizeIsPending ==
  resetting = "no" =>
    \A e \in Endpoint : sizeEpOut[e] = Len(presentedOutChunk[e])
=============================================================================
