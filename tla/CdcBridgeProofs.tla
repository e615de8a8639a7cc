--------------------------- MODULE CdcBridgeProofs ----------------------------
(***************************************************************************)
(* The bridge on its controller, for any number of channels, chunks, bytes *)
(* and control requests, and whatever configuration descriptor.            *)
(*                                                                         *)
(* The pump alone: data comes out in order, it stays armed exactly once,   *)
(* and it implements the lossless pipe.  PumpHandling ties the progress of *)
(* HandlePacket to the armed callback and the buffer: the callback it is   *)
(* about to invoke is armed, and there is a chunk for it.                  *)
(*                                                                         *)
(* The pump in the bridge: whatever chain, clients, guest and ThreadPool   *)
(* do together, the pump's variables change by pump steps only, so that    *)
(* the pump's theorems hold here.                                          *)
(*                                                                         *)
(* The chain: ControlInvariant says whose transfer the controller is in    *)
(* the middle of, ChainInvariant how far the wiring and the class requests *)
(* have come.                                                              *)
(*                                                                         *)
(* The host's bytes: HostBytesInvariant says where each byte a client has  *)
(* written is, while a thread still holds one it has taken under the lock. *)
(*                                                                         *)
(* The parser: WalkedTo says what the walk over a configuration descriptor *)
(* holds after k entries, in terms of what the device declares: the pairs  *)
(* of the functions before the interface it is in, the endpoints of that   *)
(* interface so far, and what would control the next function.             *)
(***************************************************************************)
EXTENDS CdcBridge, DataLemmas, FiniteSetTheorems

-----------------------------------------------------------------------------
(* The pump alone.                                                         *)

\* Inside HandlePacket the callback is armed, and before it runs there is a
\* chunk for it.
PumpHandling ==
  \A c \in Channel :
    /\ BufferLocked(c) => dataCallback[c]
    /\ handling[c] = "callback" => endpointBuffer[c] # << >>

PumpInvariant ==
  /\ PumpTypeOK
  /\ PumpInOrder
  /\ PumpHandling
  /\ ArmedExactlyOnce

\* Initially nothing has been sent, and no pump is started or armed.
LEMMA PumpInitInvariant == PumpInit => PumpInvariant
<1>1. ASSUME NEW c \in Channel PROVE << >> \o << >> = [i \in 1..0 |-> i]
  OBVIOUS
<1>. QED
  BY <1>1 DEF PumpInit, PumpInvariant, PumpTypeOK, PumpInOrder, PumpHandling,
              ArmedExactlyOnce, Arms, CallbackArms, BufferLocked, Handling

\* Handing over the oldest chunk keeps the types and the order.
LEMMA DeliverKeepsOrder ==
  ASSUME PumpTypeOK, PumpInOrder, NEW c \in Channel, Deliver(c),
         endpointBuffer[c] # << >>
  PROVE  /\ delivered' \in [Channel -> Seq(Nat)]
         /\ endpointBuffer' \in [Channel -> Seq(Nat)]
         /\ reArms' = [reArms EXCEPT ![c] = @ + 1]
         /\ dataCallback' = dataCallback
         /\ \A d \in Channel : delivered'[d] \o endpointBuffer'[d]
                                 = delivered[d] \o endpointBuffer[d]
<1>1. /\ delivered[c] \in Seq(Nat)
      /\ endpointBuffer[c] \in Seq(Nat)
  BY DEF PumpTypeOK
<1>2. Head(endpointBuffer[c]) \in Nat /\ Tail(endpointBuffer[c]) \in Seq(Nat)
  BY <1>1, HeadTailProperties
<1>3. Append(delivered[c], Head(endpointBuffer[c])) \in Seq(Nat)
  BY <1>1, <1>2
<1>4. Append(delivered[c], Head(endpointBuffer[c])) \o Tail(endpointBuffer[c])
        = delivered[c] \o endpointBuffer[c]
  BY <1>1, HandHeadOn
<1>. QED
  BY <1>2, <1>3, <1>4 DEF Deliver, ReArmDeviceToHostPump, PumpTypeOK

\* A new arm for c, by a re-arm or by the callback itself.
NewArm(c) ==
  \/ /\ reArms' = [reArms EXCEPT ![c] = @ + 1]
     /\ dataCallback' = dataCallback
  \/ /\ reArms' = reArms
     /\ dataCallback' = [dataCallback EXCEPT ![c] = TRUE]

\* What SetDataReadCallbackOneShot does: either way there is one more arm.
LEMMA StartKeepsOrder ==
  ASSUME PumpTypeOK, PumpInOrder, NEW c \in Channel, StartDeviceToHostPump(c)
  PROVE  /\ delivered' \in [Channel -> Seq(Nat)]
         /\ endpointBuffer' \in [Channel -> Seq(Nat)]
         /\ NewArm(c)
         /\ \A d \in Channel : delivered'[d] \o endpointBuffer'[d]
                                 = delivered[d] \o endpointBuffer[d]
<1>1. CASE endpointBuffer[c] # << >>
  BY <1>1, DeliverKeepsOrder DEF StartDeviceToHostPump, NewArm
<1>2. CASE endpointBuffer[c] = << >>
  BY <1>2 DEF StartDeviceToHostPump, NewArm, PumpTypeOK
<1>. QED
  BY <1>1, <1>2

\* The parts of Arms are natural numbers.
LEMMA ArmsParts ==
  ASSUME PumpTypeOK, NEW c \in Channel
  PROVE  /\ CallbackArms(c) \in {0, 1}
         /\ reArms[c] \in Nat
         /\ poolThreads[c] \in Nat
BY DEF PumpTypeOK, CallbackArms

\* If c has only its pool threads to count on, a new arm adds one.
LEMMA NewArmCounts ==
  ASSUME PumpTypeOK, NEW c \in Channel, NewArm(c), ~BufferLocked(c),
         CallbackArms(c) = 0, handling' = handling
  PROVE  /\ reArms' \in [Channel -> Nat]
         /\ dataCallback' \in [Channel -> BOOLEAN]
         /\ CallbackArms(c)' + reArms'[c] = CallbackArms(c) + reArms[c] + 1
         /\ CallbackArms(c)' \in {0, 1}
         /\ \A d \in Channel \ {c} :
              CallbackArms(d)' = CallbackArms(d) /\ reArms'[d] = reArms[d]
<1>1. CASE reArms' = [reArms EXCEPT ![c] = @ + 1] /\ dataCallback' = dataCallback
  BY <1>1 DEF PumpTypeOK, CallbackArms
<1>2. CASE reArms' = reArms /\ dataCallback' = [dataCallback EXCEPT ![c] = TRUE]
  <2>1. CallbackArms(c)' = 1
    BY <1>2 DEF PumpTypeOK, CallbackArms, BufferLocked
  <2>2. reArms[c] \in Nat
    BY DEF PumpTypeOK
  <2>. QED
    BY <1>2, <2>1, <2>2 DEF PumpTypeOK, CallbackArms
<1>. QED
  BY <1>1, <1>2 DEF NewArm

\* Every step of the pump keeps the invariant.
LEMMA PumpStepInvariant ==
  PumpInvariant /\ [PumpNext]_pumpVars => PumpInvariant'
<1>. SUFFICES ASSUME PumpInvariant, [PumpNext]_pumpVars
              PROVE  PumpInvariant'
  OBVIOUS
<1>. USE DEF PumpInvariant
<1>1. ASSUME NEW c \in Channel, StartPump(c)
      PROVE  PumpInvariant'
  <2>1. pumped' = [pumped EXCEPT ![c] = TRUE] /\ ~pumped[c] /\ ~BufferLocked(c)
        /\ UNCHANGED <<sent, handling, epInDataStatus, poolThreads, running>>
    BY <1>1 DEF StartPump, StartDeviceToHostPump
  <2>2. StartDeviceToHostPump(c)
    BY <1>1 DEF StartPump
  <2>3. /\ delivered' \in [Channel -> Seq(Nat)]
        /\ endpointBuffer' \in [Channel -> Seq(Nat)]
        /\ NewArm(c)
    BY <2>2, StartKeepsOrder
  <2>a. Arms(c) = 0
    BY <2>1 DEF ArmedExactlyOnce
  <2>b. CallbackArms(c) = 0 /\ reArms[c] = 0 /\ poolThreads[c] = 0
    BY <2>a, ArmsParts DEF Arms
  <2>4. PumpTypeOK'
    BY <2>1, <2>3, <2>b, NewArmCounts DEF PumpTypeOK
  <2>5. PumpInOrder'
    BY <2>1, <2>2, StartKeepsOrder DEF PumpInOrder
  <2>6. PumpHandling'
    BY <2>1, <2>2 DEF PumpHandling, BufferLocked, StartDeviceToHostPump, Deliver,
       ReArmDeviceToHostPump, PumpTypeOK
  <2>7. ArmedExactlyOnce'
    <3>1. Arms(c)' = 1 /\ pumped'[c]
      BY <2>1, <2>3, <2>b, NewArmCounts DEF Arms, PumpTypeOK
    <3>2. \A d \in Channel \ {c} : Arms(d)' = Arms(d) /\ pumped'[d] = pumped[d]
      BY <2>1, <2>3, <2>b, NewArmCounts DEF Arms, PumpTypeOK
    <3>. QED
      BY <2>1, <3>1, <3>2 DEF ArmedExactlyOnce
  <2>. QED
    BY <2>4, <2>5, <2>6, <2>7
<1>2. ASSUME NEW c \in Channel, TakeReArm(c)
      PROVE  PumpInvariant'
  <2>1. PumpTypeOK'
    BY <1>2 DEF TakeReArm, PumpTypeOK
  <2>2. ArmedExactlyOnce'
    <3>. SUFFICES ASSUME NEW d \in Channel
                  PROVE  Arms(d)' = Arms(d)
      BY <1>2 DEF TakeReArm, ArmedExactlyOnce
    <3>1. CallbackArms(d)' = CallbackArms(d)
      BY <1>2 DEF TakeReArm, CallbackArms
    <3>2. reArms'[d] + poolThreads'[d] = reArms[d] + poolThreads[d]
      BY <1>2 DEF TakeReArm, PumpTypeOK
    <3>3. /\ reArms[d] \in Nat /\ poolThreads[d] \in Nat
          /\ reArms'[d] \in Nat /\ poolThreads'[d] \in Nat
      BY <2>1 DEF PumpTypeOK
    <3>4. CallbackArms(d) \in {0, 1}
      BY ArmsParts
    <3>. QED
      BY <3>1, <3>2, <3>3, <3>4 DEF Arms
  <2>3. PumpInOrder' /\ PumpHandling'
    BY <1>2 DEF TakeReArm, PumpInOrder, PumpHandling, BufferLocked
  <2>. QED
    BY <2>1, <2>2, <2>3
<1>3. ASSUME NEW c \in Channel, RunReArm(c)
      PROVE  PumpInvariant'
  <2>1. /\ poolThreads[c] > 0
        /\ poolThreads' = [poolThreads EXCEPT ![c] = @ - 1]
        /\ UNCHANGED <<sent, handling, epInDataStatus, pumped, running>>
    BY <1>3 DEF RunReArm
  <2>2. CASE StartDeviceToHostPump(c)
    <3>1. /\ delivered' \in [Channel -> Seq(Nat)]
          /\ endpointBuffer' \in [Channel -> Seq(Nat)]
          /\ NewArm(c)
      BY <2>2, StartKeepsOrder
    <3>5. ~BufferLocked(c)
      BY <2>2 DEF StartDeviceToHostPump
    <3>a. Arms(c) = 0 \/ Arms(c) = 1
      BY DEF ArmedExactlyOnce
    <3>b. CallbackArms(c) = 0 /\ reArms[c] = 0 /\ poolThreads[c] = 1
      BY <2>1, <3>a, ArmsParts DEF Arms
    <3>2. PumpTypeOK'
      <4>1. reArms' \in [Channel -> Nat] /\ dataCallback' \in [Channel -> BOOLEAN]
        BY <2>1, <3>1, <3>5, <3>b, NewArmCounts
      <4>2. poolThreads' \in [Channel -> Nat]
        BY <2>1, <3>b DEF PumpTypeOK
      <4>. QED
        BY <2>1, <3>1, <4>1, <4>2 DEF PumpTypeOK
    <3>3. PumpInOrder'
      BY <2>1, <2>2, StartKeepsOrder DEF PumpInOrder
    <3>4. PumpHandling'
      BY <2>1, <2>2 DEF PumpHandling, BufferLocked, StartDeviceToHostPump, Deliver,
         ReArmDeviceToHostPump, PumpTypeOK
    <3>6. ArmedExactlyOnce'
      <4>1. Arms(c)' = 1 /\ Arms(c) = 1
        BY <2>1, <3>1, <3>5, <3>b, NewArmCounts DEF Arms, PumpTypeOK
      <4>2. \A d \in Channel \ {c} : Arms(d)' = Arms(d)
        BY <2>1, <3>1, <3>5, <3>b, NewArmCounts DEF Arms, PumpTypeOK
      <4>. QED
        BY <2>1, <4>1, <4>2 DEF ArmedExactlyOnce
    <3>. QED
      BY <3>2, <3>3, <3>4, <3>6
  <2>3. CASE ~running /\ UNCHANGED endpointVars
    <3>1. PumpTypeOK' /\ ArmedExactlyOnce'
      BY <2>1, <2>3, SMTT(30) DEF endpointVars, PumpTypeOK, ArmedExactlyOnce, Arms, CallbackArms
    <3>2. PumpInOrder' /\ PumpHandling'
      BY <2>1, <2>3 DEF endpointVars, PumpInOrder, PumpHandling, BufferLocked
    <3>. QED
      BY <3>1, <3>2
  <2>. QED
    BY <1>3, <2>2, <2>3 DEF RunReArm
<1>4. ASSUME NEW c \in Channel, InvokeDataCallback(c)
      PROVE  PumpInvariant'
  <2>1. /\ handling[c] = "callback"
        /\ Deliver(c)
        /\ handling' = [handling EXCEPT ![c] = "unwind"]
        /\ UNCHANGED <<sent, epInDataStatus, poolThreads, pumped, running>>
    BY <1>4 DEF InvokeDataCallback
  <2>2. endpointBuffer[c] # << >> /\ dataCallback[c]
    BY <2>1 DEF PumpHandling, BufferLocked
  <2>3. /\ delivered' \in [Channel -> Seq(Nat)]
        /\ endpointBuffer' \in [Channel -> Seq(Nat)]
        /\ reArms' = [reArms EXCEPT ![c] = @ + 1]
        /\ dataCallback' = dataCallback
    BY <2>1, <2>2, DeliverKeepsOrder
  <2>4. PumpTypeOK'
    BY <2>1, <2>3 DEF PumpTypeOK, Handling
  <2>5. PumpInOrder'
    BY <2>1, <2>2, DeliverKeepsOrder DEF PumpInOrder
  <2>6. PumpHandling'
    BY <2>1, <2>3 DEF PumpHandling, BufferLocked, Deliver, PumpTypeOK
  <2>7. ArmedExactlyOnce'
    BY <2>1, <2>2, <2>3, SMTT(30) DEF ArmedExactlyOnce, Arms, CallbackArms, PumpTypeOK
  <2>. QED
    BY <2>4, <2>5, <2>6, <2>7
<1>5. ASSUME NEW c \in Channel, ClearDataCallback(c)
      PROVE  PumpInvariant'
  BY <1>5 DEF ClearDataCallback, PumpTypeOK, PumpInOrder, PumpHandling,
              BufferLocked, ArmedExactlyOnce, Arms, CallbackArms, Handling
<1>6. ASSUME NEW c \in Channel, DataAcknowledged(c)
      PROVE  PumpInvariant'
  BY <1>6 DEF DataAcknowledged, PumpTypeOK, PumpInOrder, PumpHandling,
              BufferLocked, ArmedExactlyOnce, Arms, CallbackArms, Handling
<1>7. ASSUME NEW c \in Channel, NEW n \in 1..2, GetData(c, n)
      PROVE  PumpInvariant'
  <2>. DEFINE more == NextOrdinals(sent[c], n)
  <2>1. /\ handling[c] = "none"
        /\ sent' = [sent EXCEPT ![c] = @ + n]
        /\ endpointBuffer' = [endpointBuffer EXCEPT ![c] = @ \o more]
        /\ handling' = [handling EXCEPT
             ![c] = IF dataCallback[c] THEN "callback" ELSE "acknowledge"]
        /\ UNCHANGED <<dataCallback, epInDataStatus, reArms, poolThreads, pumped,
                       delivered, running>>
    BY <1>7 DEF GetData, MayStartIn, CpuFree, NextOrdinals
  <2>2. /\ delivered[c] \in Seq(Nat)
        /\ endpointBuffer[c] \in Seq(Nat)
        /\ sent[c] \in Nat
        /\ n \in Nat \ {0}
    BY DEF PumpTypeOK
  <2>3. delivered[c] \o endpointBuffer[c] = FirstOrdinals(sent[c])
    BY DEF PumpInOrder, FirstOrdinals
  <2>5. /\ endpointBuffer[c] \o more \in Seq(Nat)
        /\ Len(endpointBuffer[c] \o more) = Len(endpointBuffer[c]) + n
        /\ delivered[c] \o (endpointBuffer[c] \o more) = FirstOrdinals(sent[c] + n)
    BY <2>2, <2>3, ExtendPath, ZenonT(40)
  <2>. HIDE DEF more
  <2>6. PumpTypeOK'
    BY <2>1, <2>2, <2>5, SMTT(30) DEF PumpTypeOK, Handling
  <2>7. PumpInOrder'
    BY <2>1, <2>2, <2>5 DEF PumpTypeOK, PumpInOrder, FirstOrdinals
  <2>8. endpointBuffer[c] \o more # << >>
    BY <2>2, <2>5
  <2>9. PumpHandling' /\ ArmedExactlyOnce'
    BY <2>1, <2>8 DEF PumpTypeOK, PumpHandling, BufferLocked, ArmedExactlyOnce, Arms, CallbackArms
  <2>. QED
    BY <2>6, <2>7, <2>9
<1>8. ASSUME NEW c \in Channel, GetNoData(c)
      PROVE  PumpInvariant'
  BY <1>8 DEF GetNoData, MayStartIn, CpuFree, PumpTypeOK, PumpInOrder, PumpHandling,
              BufferLocked, ArmedExactlyOnce, Arms, CallbackArms, Handling
<1>9. ASSUME NEW c \in Channel, AcknowledgeIn(c)
      PROVE  PumpInvariant'
  BY <1>9 DEF AcknowledgeIn, PumpTypeOK, PumpInOrder, PumpHandling, BufferLocked,
              ArmedExactlyOnce, Arms, CallbackArms
<1>10. CASE Teardown
  BY <1>10 DEF Teardown, PumpTypeOK, PumpInOrder, PumpHandling, BufferLocked,
               ArmedExactlyOnce, Arms, CallbackArms
<1>11. CASE UNCHANGED pumpVars
  BY <1>11 DEF pumpVars, PumpTypeOK, PumpInOrder, PumpHandling, BufferLocked,
               ArmedExactlyOnce, Arms, CallbackArms
<1>. QED
  BY <1>1, <1>2, <1>3, <1>4, <1>5, <1>6, <1>7, <1>8, <1>9, <1>10, <1>11
     DEF PumpNext, PoolStep, CpuPumpStep, StartIn

\* The invariant, in every behaviour of the pump.
THEOREM PumpAlwaysInvariant == PumpSpec => []PumpInvariant
BY PumpInitInvariant, PumpStepInvariant, PTL DEF PumpSpec

\* Every variable of the pump keeps its type, for any number of channels.
THEOREM PumpTypeCorrect == PumpSpec => []PumpTypeOK
BY PumpAlwaysInvariant, PTL DEF PumpInvariant

\* Whichever thread delivers, each channel's chunks leave the pump in the order
\* in which the guest sent them, none lost and none twice.
THEOREM PumpDeliversInOrder == PumpSpec => []PumpInOrder
BY PumpAlwaysInvariant, PTL DEF PumpInvariant

\* From its start to the teardown a pump is armed exactly once: the deferred
\* re-arm is never clobbered by HandlePacket's trailing null, never doubled.
THEOREM PumpStaysArmed == PumpSpec => []ArmedExactlyOnce
BY PumpAlwaysInvariant, PTL DEF PumpInvariant

(***************************************************************************)
(* The pump implements the lossless pipe                                   *)
(***************************************************************************)

\* Handing the oldest chunk to the callback is a Take of one item.
LEMMA DeliverIsTake ==
  ASSUME PumpTypeOK, NEW c \in Channel, Deliver(c), endpointBuffer[c] # << >>,
         sent' = sent
  PROVE  Pipe!Next
<1>1. delivered[c] \in Seq(Nat) /\ endpointBuffer[c] \in Seq(Nat)
  BY DEF PumpTypeOK
<1>2. /\ Append(delivered[c], Head(endpointBuffer[c]))
           = delivered[c] \o SubSeq(endpointBuffer[c], 1, 1)
      /\ Tail(endpointBuffer[c]) = SubSeq(endpointBuffer[c], 1 + 1, Len(endpointBuffer[c]))
  BY <1>1, HeadAsSubSeq
<1>3. Pipe!Take(c, 1, 1)
  <2>1. ~(1 < 1)
    OBVIOUS
  <2>. QED
    BY <1>2, <2>1, Zenon DEF Pipe!Take, Deliver
<1>4. 1 \in 1..Len(endpointBuffer[c]) /\ 1 \in 0..1
  BY <1>1, EmptySeq
<1>. QED
  BY <1>3, <1>4 DEF Pipe!Next

\* Arming the callback hands a queued chunk over, or leaves the data alone.
LEMMA StartIsTake ==
  ASSUME PumpTypeOK, NEW c \in Channel, StartDeviceToHostPump(c), sent' = sent
  PROVE  [Pipe!Next]_<<sent, endpointBuffer, delivered>>
BY DeliverIsTake DEF StartDeviceToHostPump

\* Every step of the pump is a step of the pipe or leaves it unchanged.
LEMMA PumpStepIsPipeStep ==
  PumpInvariant /\ [PumpNext]_pumpVars
    => [Pipe!Next]_<<sent, endpointBuffer, delivered>>
<1>. SUFFICES ASSUME PumpInvariant, [PumpNext]_pumpVars
              PROVE  [Pipe!Next]_<<sent, endpointBuffer, delivered>>
  OBVIOUS
<1>0. PumpTypeOK /\ PumpHandling
  BY DEF PumpInvariant
<1>1. ASSUME NEW c \in Channel, StartPump(c) \/ RunReArm(c)
      PROVE  [Pipe!Next]_<<sent, endpointBuffer, delivered>>
  BY <1>0, <1>1, StartIsTake DEF StartPump, RunReArm, endpointVars
<1>2. ASSUME NEW c \in Channel, InvokeDataCallback(c)
      PROVE  [Pipe!Next]_<<sent, endpointBuffer, delivered>>
  BY <1>0, <1>2, DeliverIsTake DEF InvokeDataCallback, PumpHandling
<1>3. ASSUME NEW c \in Channel, NEW n \in 1..2, GetData(c, n)
      PROVE  [Pipe!Next]_<<sent, endpointBuffer, delivered>>
  <2>1. Pipe!Put(c, n)
    BY <1>3 DEF GetData, Pipe!Put, Pipe!Ordinals
  <2>. QED
    BY <2>1 DEF Pipe!Next
<1>4. ASSUME NEW c \in Channel,
             \/ TakeReArm(c) \/ ClearDataCallback(c) \/ DataAcknowledged(c)
             \/ GetNoData(c) \/ AcknowledgeIn(c)
      PROVE  UNCHANGED <<sent, endpointBuffer, delivered>>
  BY <1>4 DEF TakeReArm, ClearDataCallback, DataAcknowledged, GetNoData, AcknowledgeIn
<1>5. CASE Teardown \/ UNCHANGED pumpVars
  BY <1>5 DEF Teardown, pumpVars
<1>. QED
  BY <1>1, <1>2, <1>3, <1>4, <1>5 DEF PumpNext, PoolStep, CpuPumpStep, StartIn

\* The bridge's pump, with its threads, locks and deferred re-arms, promises no
\* less than a pipe that loses nothing.
THEOREM PumpImplementsPipe == PumpSpec => PumpIsPipe
<1>1. PumpInit => Pipe!Init
  BY DEF PumpInit, Pipe!Init
<1>2. PumpInvariant /\ [PumpNext]_pumpVars => [Pipe!Next]_Pipe!pipeVars
  BY PumpStepIsPipeStep DEF Pipe!pipeVars
<1>. QED
  BY <1>1, <1>2, PumpAlwaysInvariant, PTL DEF PumpSpec, PumpIsPipe, Pipe!Spec

-----------------------------------------------------------------------------
(* The pump in the bridge.                                                 *)

\* Every step of the bridge is a step of the pump or leaves it alone.
LEMMA BridgeStepIsPumpStep == [Next]_vars => [PumpNext]_pumpVars
<1>. SUFFICES ASSUME [Next]_vars PROVE [PumpNext]_pumpVars
  OBVIOUS
<1>1. CASE ChainStep
  <2>1. CASE EnumerateDevice \/ DeviceEnumerated \/ HandleEp0Status
    BY <2>1 DEF EnumerateDevice, DeviceEnumerated, HandleEp0Status
  <2>2. CASE WireNext \/ FlushNext \/ WiringDone \/ PumpingDone
    BY <2>2 DEF WireNext, FlushNext, WiringDone, PumpingDone
  <2>3. CASE PumpNextChannel
    BY <2>3 DEF PumpNextChannel, PumpNext
  <2>. QED
    BY <1>1, <2>1, <2>2, <2>3 DEF ChainStep
<1>2. CASE GuestControlStep \/ GuestStalls
  BY <1>2 DEF GuestControlStep, GuestStalls
<1>3. CASE StopEmulation
  BY <1>3 DEF StopEmulation, PumpNext
<1>4. ASSUME NEW c \in Channel, ClientStep(c) PROVE UNCHANGED pumpVars
  BY <1>4 DEF ClientStep
<1>5. ASSUME NEW c \in Channel,
             PoolRuns(c) \/ GuestSends(c) \/ GuestAcknowledges(c) \/ GetDataStep(c)
      PROVE  PumpNext
  BY <1>5 DEF PoolRuns, GuestSends, GuestAcknowledges, GetDataStep, PumpNext
<1>6. CASE UNCHANGED vars
  BY <1>6 DEF vars
<1>. QED
  BY <1>1, <1>2, <1>3, <1>4, <1>5, <1>6 DEF Next

\* The bridge is a pump among other things.
THEOREM BridgeImplementsPump == Spec => PumpSpec
BY BridgeStepIsPumpStep, PTL DEF Spec, Init, PumpSpec

\* In the bridge, too, each channel's data comes out in order and complete, and a
\* started pump stays armed.
THEOREM BridgePumpCorrect == Spec => [](PumpInOrder /\ ArmedExactlyOnce)
BY BridgeImplementsPump, PumpDeliversInOrder, PumpStaysArmed, PTL

\* From the guest's IN transfers to the channels' listeners the bridge is a pipe
\* that loses nothing.
THEOREM BridgeImplementsPipe == Spec => PumpIsPipe
BY BridgeImplementsPump, PumpImplementsPipe, PTL

(***************************************************************************)
(* Data flows only after the control requests (PumpAfterControl), and an   *)
(* answer goes to the request it belongs to.  The three properties of the  *)
(* chain need each other: a callback runs with its own answer because the  *)
(* guest serves the latched packet, it runs in the stage that waits for it *)
(* because no request is issued while another is served, and the pumps are *)
(* started last because the queue of class requests is worked off first.   *)
(***************************************************************************)

\* Either no completion is awaited, and the guest has nothing to serve; or the
\* latched packet is the awaited one, the guest serves that and no other, and
\* the answer so far is that packet's.
TransferOwned ==
  \/ /\ setupPacketResultCallback = NoRequest
     /\ ~ep0Setup
     /\ guestControl = "idle"
  \/ /\ setupPacketResultCallback \in BridgeRequests
     /\ setupPacket = setupPacketResultCallback
     /\ guestControl # "idle" => ~ep0Setup /\ guestRequest = setupPacketResultCallback
     /\ Items(ep0InAccumulator) \subseteq {setupPacketResultCallback}

\* While USBHost issues its requests back to back, the guest does not run.
AttachUndisturbed ==
  /\ stage \in {"attach0", "attach1", "attach2"} => guestControl = "idle"
  /\ stage \in {"attach0", "attach1"} => setupPacketResultCallback = NoRequest

ControlInvariant ==
  /\ Ep0TypeOK
  /\ stage \in Stage
  /\ TransferOwned
  /\ AttachUndisturbed
  /\ ChainNotOrphaned

\* Both class requests of a channel.
ClassRequests(c) == {LineCoding(c), ControlState(c)}

\* The queue of SendControlSequence holds class requests of channels only.
ClassRequestsQueued ==
  \A r \in Items(controlRequests) : \E c \in Channel : r \in ClassRequests(c)

\* How far the wiring and the class requests are.
WiringProgress ==
  /\ stage \notin {"wiring", "control", "pumping", "done"}
       => controlRequests = << >> /\ \A c \in Channel : ~device[c]
  /\ stage = "wiring"
       => /\ next \in 1..ChannelCount + 1 /\ next <= Len(pairs) + 1
          /\ \A c \in Channel : device[c] <=> c < next
          /\ \A c \in Channel : device[c] => ClassRequests(c) \subseteq Items(controlRequests)
  /\ stage \in {"control", "pumping", "done"}
       => \A c \in Channel : device[c] <=> c <= Len(pairs)
  /\ stage = "control"
       => \/ setupPacketResultCallback = NoRequest
          \/ \A c \in Channel : device[c] =>
               ClassRequests(c) \subseteq answered \cup Items(controlRequests)
                                            \cup {setupPacketResultCallback}
  /\ stage \in {"pumping", "done"}
       => \A c \in Channel : device[c] => ClassRequests(c) \subseteq answered
  /\ stage = "pumping" => next \in 1..ChannelCount + 1
  /\ stage \notin {"pumping", "done"} => \A c \in Channel : ~pumped[c]
  /\ \A c \in Channel : pumped[c] => device[c]

ChainTypeOK ==
  /\ functions \in Seq(CdcDataPair) /\ pairs = functions
  /\ shortHeader \in BOOLEAN
  /\ next \in 0..ChannelCount + 1
  /\ controlRequests \in Seq(BridgeRequests)
  /\ answered \subseteq BridgeRequests

\* Before a channel's pump is started, no callback is armed and nothing leaves.
QuietUntilPumped ==
  \A c \in Channel : ~pumped[c] => ~dataCallback[c] /\ delivered[c] = << >>

ChainInvariant ==
  /\ ControlInvariant
  /\ PumpInvariant
  /\ QuietUntilPumped
  /\ ChannelTypeOK
  /\ ChainTypeOK
  /\ ClassRequestsQueued
  /\ WiringProgress

-----------------------------------------------------------------------------
(* The chain's requests.                                                   *)

\* The bridge's requests are different from each other and from "none".
LEMMA RequestsDiffer ==
  /\ NoRequest \notin BridgeRequests
  /\ {DeviceDesc, Configure, Header, Full} \subseteq BridgeRequests
  /\ \A c \in Channel : ClassRequests(c) \subseteq BridgeRequests
  /\ Configure # DeviceDesc /\ Header # DeviceDesc /\ Full # DeviceDesc
  /\ Configure # Header /\ Configure # Full /\ Header # Full
  /\ DeviceDesc[1] = "device" /\ Configure[1] = "configure"
  /\ Header[1] = "header" /\ Full[1] = "full"
  /\ \A c \in Channel : \A r \in ClassRequests(c) :
       r[1] \in {"lineCoding", "controlState"}
  /\ \A r \in BridgeRequests :
       r[1] \in {"lineCoding", "controlState"} => \E c \in Channel : r \in ClassRequests(c)
BY BridgeAssumption, Ep0Assumption DEF BridgeAssumption, Ep0Assumption, BridgeRequests,
   DeviceDesc, Configure, Header, Full, LineCoding, ControlState,
       ClassRequests

\* What each stage waits for.
LEMMA AwaitedInStage ==
  /\ stage = "enumerating" => Awaited = {Configure}
  /\ stage = "header" => Awaited = {Header}
  /\ stage = "full" => Awaited = {Full}
  /\ stage = "control" => Awaited = UNION {ClassRequests(c) : c \in Channel}
  /\ stage \notin {"enumerating", "header", "full", "control"} => Awaited = {NoRequest}
<1>1. UNION {ClassRequests(c) : c \in Channel}
        = {LineCoding(c) : c \in Channel} \cup {ControlState(c) : c \in Channel}
  BY DEF ClassRequests
<1>2. CASE stage = "enumerating"
  BY <1>2 DEF Awaited
<1>3. CASE stage = "header"
  BY <1>3 DEF Awaited
<1>4. CASE stage = "full"
  BY <1>4 DEF Awaited
<1>5. CASE stage = "control"
  BY <1>1, <1>5 DEF Awaited
<1>6. CASE stage \notin {"enumerating", "header", "full", "control"}
  BY <1>6 DEF Awaited
<1>. QED
  BY <1>2, <1>3, <1>4, <1>5, <1>6

-----------------------------------------------------------------------------
(* The control transfers.                                                  *)

\* Latching a request discards what was there and awaits that request.
LEMMA LatchKeepsControl ==
  ASSUME Ep0TypeOK, NEW r \in BridgeRequests, HandleSetupPacket(r),
         guestControl' = "idle", guestRequest' = guestRequest,
         guestMoved' = guestMoved, stalls' = stalls
  PROVE  Ep0TypeOK' /\ TransferOwned' /\ setupPacketResultCallback' = r
<1>1. ep0InAccumulator' = << >> /\ Items(ep0InAccumulator') = {}
  BY DEF HandleSetupPacket, Items
<1>. QED
  BY <1>1, Ep0Assumption, BridgeAssumption
     DEF HandleSetupPacket, Ep0TypeOK, TransferOwned, Ep0Assumption, BridgeAssumption

\* After a callback that issues nothing, nothing is awaited.
LEMMA ReturnKeepsControl ==
  ASSUME Ep0TypeOK, ~ep0Setup, CallbackReturns,
         guestControl' = "idle", guestRequest' = guestRequest,
         guestMoved' = guestMoved, stalls' = stalls
  PROVE  Ep0TypeOK' /\ TransferOwned' /\ setupPacketResultCallback' = NoRequest
BY DEF CallbackReturns, Ep0TypeOK, TransferOwned

\* The guest's data stage serves the awaited request.
LEMMA DataStepKeepsControl ==
  ASSUME ControlInvariant, GuestDataStep, GuestRuns, UNCHANGED stage
  PROVE  ControlInvariant'
<1>. USE Ep0Assumption, BridgeAssumption
     DEF ControlInvariant, Ep0Assumption, BridgeAssumption
<1>1. stage \notin {"attach0", "attach1", "attach2"}
  BY DEF GuestRuns
<1>2. setupPacketResultCallback' = setupPacketResultCallback /\ stalls' = stalls
      /\ setupPacket' = setupPacket
  BY DEF GuestDataStep, GuestReadSetup, GetControlData, HandleEp0RcvOut, StartEpOut0
<1>3. ChainNotOrphaned' /\ AttachUndisturbed' /\ (stage \in Stage)'
  BY <1>1, <1>2 DEF ChainNotOrphaned, AttachUndisturbed, Awaited
<1>4. CASE GuestReadSetup
  <2>1. setupPacket = setupPacketResultCallback /\ setupPacket \in BridgeRequests
    BY <1>4 DEF GuestReadSetup, TransferOwned
  <2>. QED
    BY <1>3, <1>4, <2>1 DEF GuestReadSetup, TransferOwned, Ep0TypeOK
<1>5. CASE GetControlData
  <2>1. /\ guestRequest = setupPacketResultCallback
        /\ guestRequest \in BridgeRequests
        /\ Items(ep0InAccumulator) \subseteq {setupPacketResultCallback}
    BY <1>5 DEF GetControlData, TransferOwned
  <2>2. /\ ep0InAccumulator' \in Seq(Request)
        /\ Items(ep0InAccumulator') \subseteq {setupPacketResultCallback}
    BY <1>5, <2>1, ItemsOfAppend DEF GetControlData, Ep0TypeOK
  <2>. QED
    BY <1>3, <1>5, <2>1, <2>2 DEF GetControlData, TransferOwned, Ep0TypeOK
<1>6. CASE HandleEp0RcvOut
  <2>1. setupPacket \in Request
    BY <1>6 DEF HandleEp0RcvOut, PayloadLeft, Ep0TypeOK
  <2>2. PayloadLeft \in Int /\ PayloadLeft > 0
    BY <1>6, <2>1 DEF HandleEp0RcvOut, PayloadLeft, Ep0TypeOK
  <2>3. Lesser(MaxPacket, PayloadLeft) \in 0..MaxPacket
    BY <2>2 DEF Lesser
  <2>. QED
    BY <1>3, <1>6, <2>3 DEF HandleEp0RcvOut, TransferOwned, Ep0TypeOK
<1>7. CASE StartEpOut0
  <2>1. setupPacket \in Request
    BY <1>7 DEF StartEpOut0, PayloadLeft, Ep0TypeOK
  <2>2. PayloadLeft \in Int /\ PayloadLeft > 0
    BY <1>7, <2>1 DEF StartEpOut0, PayloadLeft, Ep0TypeOK
  <2>3. Lesser(Lesser(MaxPacket, PayloadLeft), sizeEpOut0) \in Nat
    BY <2>2 DEF Lesser, Ep0TypeOK
  <2>. QED
    BY <1>3, <1>7, <2>3 DEF StartEpOut0, TransferOwned, Ep0TypeOK
<1>. QED
  BY <1>4, <1>5, <1>6, <1>7 DEF GuestDataStep

\* A refused request is awaited no longer, and the stall is counted.
LEMMA StallKeepsControl ==
  ASSUME ControlInvariant, HandleEp0Stall, GuestRuns, UNCHANGED stage
  PROVE  ControlInvariant'
<1>. USE Ep0Assumption DEF ControlInvariant, Ep0Assumption
<1>1. stalls' > 0 /\ stalls' \in 0..MaxStalls
  BY DEF HandleEp0Stall, Ep0TypeOK
<1>2. ~ep0Setup
  BY DEF HandleEp0Stall, TransferOwned
<1>. QED
  BY <1>1, <1>2 DEF HandleEp0Stall, Ep0TypeOK, TransferOwned, AttachUndisturbed,
     ChainNotOrphaned, GuestRuns

\* The link of the chain that runs is the one the chain waits for.
LEMMA CallbackInItsStage ==
  ASSUME ControlInvariant, HandleEp0Status
  PROVE  /\ setupPacketResultCallback \in BridgeRequests
         /\ guestControl' = "idle" /\ ~ep0Setup
         /\ UNCHANGED <<guestRequest, guestMoved, stalls>>
         /\ \/ stage = "enumerating" /\ Configured
            \/ stage = "header" /\ HeaderRead
            \/ stage = "full" /\ DescriptorRead
            \/ stage = "control" /\ ControlAnswered
<1>. USE DEF ControlInvariant
<1>1. setupPacketResultCallback # NoRequest /\ guestControl = "data"
      /\ stage \notin {"attach0", "attach1", "attach2"}
  BY DEF HandleEp0Status, CallbackInvoked, DataStageDone, GuestRuns
<1>2. setupPacketResultCallback \in Awaited
  BY <1>1 DEF ChainNotOrphaned
<1>3. setupPacketResultCallback \in BridgeRequests /\ ~ep0Setup
  BY <1>1 DEF TransferOwned
<1>4. \/ stage = "enumerating" /\ setupPacketResultCallback = Configure
      \/ stage = "header" /\ setupPacketResultCallback = Header
      \/ stage = "full" /\ setupPacketResultCallback = Full
      \/ /\ stage = "control"
         /\ \E c \in Channel : setupPacketResultCallback \in ClassRequests(c)
  BY <1>1, <1>2, AwaitedInStage
<1>5. guestControl' = "idle" /\ UNCHANGED <<guestRequest, guestMoved, stalls>>
      /\ (Configured \/ HeaderRead \/ DescriptorRead \/ ControlAnswered)
  BY DEF HandleEp0Status, CallbackInvoked
<1>6. \/ stage = "enumerating" /\ Configured
      \/ stage = "header" /\ HeaderRead
      \/ stage = "full" /\ DescriptorRead
      \/ stage = "control" /\ ControlAnswered
  BY <1>4, <1>5, RequestsDiffer DEF Configured, HeaderRead, DescriptorRead, ControlAnswered
<1>. QED
  BY <1>3, <1>5, <1>6

\* Sending the next class request, or going on to the pumps, leaves either that
\* request or none awaited.
LEMMA SendKeepsControl ==
  ASSUME Ep0TypeOK, ~ep0Setup, NEW q \in Seq(BridgeRequests), SendControlSequence(q),
         \A r \in Items(q) : \E c \in Channel : r \in ClassRequests(c),
         guestControl' = "idle", UNCHANGED <<guestRequest, guestMoved, stalls>>
  PROVE  Ep0TypeOK' /\ (stage \in Stage)' /\ TransferOwned' /\ AttachUndisturbed'
         /\ ChainNotOrphaned'
<1>1. CASE q = << >>
  <2>1. CallbackReturns /\ stage' = "pumping"
    BY <1>1 DEF SendControlSequence
  <2>2. Ep0TypeOK' /\ TransferOwned' /\ setupPacketResultCallback' = NoRequest
    BY <2>1, ReturnKeepsControl
  <2>3. Awaited' = {NoRequest}
    BY <2>1 DEF Awaited
  <2>. QED
    BY <2>1, <2>2, <2>3 DEF AttachUndisturbed, ChainNotOrphaned, Stage
<1>2. CASE q # << >>
  <2>1. HandleSetupPacket(Head(q)) /\ stage' = "control"
    BY <1>2 DEF SendControlSequence, CallbackIssues
  <2>2. Head(q) \in BridgeRequests
    BY <1>2, ItemsOfTail
  <2>3. Ep0TypeOK' /\ TransferOwned' /\ setupPacketResultCallback' = Head(q)
    BY <2>1, <2>2, LatchKeepsControl
  <2>4. Head(q) \in Items(q)
    BY <1>2 DEF Items
  <2>5. Head(q) \in {LineCoding(c) : c \in Channel} \cup {ControlState(c) : c \in Channel}
    BY <2>4 DEF ClassRequests
  <2>6. Awaited' = {LineCoding(c) : c \in Channel} \cup {ControlState(c) : c \in Channel}
    BY <2>1 DEF Awaited
  <2>. QED
    BY <2>1, <2>3, <2>5, <2>6 DEF AttachUndisturbed, ChainNotOrphaned, Stage
<1>. QED
  BY <1>1, <1>2

\* Steps that leave the control transfers and the chain alone.
LEMMA ControlUnchanged ==
  ControlInvariant /\ UNCHANGED <<ep0Vars, stage>> => ControlInvariant'
BY DEF ControlInvariant, Ep0TypeOK, TransferOwned, AttachUndisturbed, ChainNotOrphaned,
       Awaited, ep0Vars

\* Every step of the bridge keeps the control transfers in order.
LEMMA ControlStep ==
  ASSUME ControlInvariant, ClassRequestsQueued, controlRequests \in Seq(BridgeRequests),
         [Next]_vars
  PROVE  ControlInvariant'
<1>. USE DEF ControlInvariant
<1>1. CASE EnumerateDevice
  <2>1. UNCHANGED <<guestControl, guestRequest, guestMoved, stalls>>
    BY <1>1 DEF EnumerateDevice, guestVars
  <2>2. CASE stage = "attach0" /\ stage' = "attach1" /\ UNCHANGED controllerVars
    BY <2>1, <2>2 DEF controllerVars, Ep0TypeOK, Stage, TransferOwned, AttachUndisturbed,
       ChainNotOrphaned
  <2>3. CASE stage = "attach1" /\ stage' = "attach2" /\ HandleSetupPacket(DeviceDesc)
    <3>1. guestControl' = "idle"
      BY <2>1, <2>3 DEF AttachUndisturbed
    <3>2. Ep0TypeOK' /\ TransferOwned'
      BY <2>1, <2>3, <3>1, LatchKeepsControl, RequestsDiffer
    <3>. QED
      BY <2>3, <3>1, <3>2 DEF Stage, AttachUndisturbed, ChainNotOrphaned
  <2>4. CASE stage = "attach2" /\ stage' = "enumerating" /\ HandleSetupPacket(Configure)
    <3>1. guestControl' = "idle"
      BY <2>1, <2>4 DEF AttachUndisturbed
    <3>2. Ep0TypeOK' /\ TransferOwned' /\ setupPacketResultCallback' = Configure
      BY <2>1, <2>4, <3>1, LatchKeepsControl, RequestsDiffer
    <3>3. Awaited' = {Configure}
      BY <2>4 DEF Awaited
    <3>. QED
      BY <2>4, <3>1, <3>2, <3>3 DEF Stage, AttachUndisturbed, ChainNotOrphaned
  <2>. QED
    BY <1>1, <2>2, <2>3, <2>4 DEF EnumerateDevice
<1>2. CASE DeviceEnumerated
  <2>1. /\ stage = "enumerated" /\ stage' = "header" /\ HandleSetupPacket(Header)
        /\ UNCHANGED <<guestControl, guestRequest, guestMoved, stalls>>
    BY <1>2 DEF DeviceEnumerated, guestVars
  <2>2. setupPacketResultCallback = NoRequest
    BY <2>1, AwaitedInStage DEF ChainNotOrphaned
  <2>3. guestControl' = "idle"
    BY <2>1, <2>2, RequestsDiffer DEF TransferOwned
  <2>4. Ep0TypeOK' /\ TransferOwned' /\ setupPacketResultCallback' = Header
    BY <2>1, <2>3, LatchKeepsControl, RequestsDiffer
  <2>5. Awaited' = {Header}
    BY <2>1 DEF Awaited
  <2>. QED
    BY <2>1, <2>3, <2>4, <2>5 DEF Stage, AttachUndisturbed, ChainNotOrphaned
<1>3. CASE HandleEp0Status
  <2>1. /\ guestControl' = "idle" /\ ~ep0Setup
        /\ UNCHANGED <<guestRequest, guestMoved, stalls>>
    BY <1>3, CallbackInItsStage
  <2>2. CASE stage = "enumerating" /\ Configured
    <3>1. CallbackReturns /\ stage' = "enumerated"
      BY <2>2 DEF Configured
    <3>2. Ep0TypeOK' /\ TransferOwned' /\ setupPacketResultCallback' = NoRequest
      BY <2>1, <3>1, ReturnKeepsControl
    <3>3. Awaited' = {NoRequest}
      BY <3>1 DEF Awaited
    <3>. QED
      BY <2>1, <3>1, <3>2, <3>3 DEF Stage, AttachUndisturbed, ChainNotOrphaned
  <2>3. CASE stage = "header" /\ HeaderRead /\ shortHeader
    <3>1. CallbackReturns /\ stage' = "aborted"
      BY <2>3 DEF HeaderRead
    <3>2. Ep0TypeOK' /\ TransferOwned' /\ setupPacketResultCallback' = NoRequest
      BY <2>1, <3>1, ReturnKeepsControl
    <3>3. Awaited' = {NoRequest}
      BY <3>1 DEF Awaited
    <3>. QED
      BY <2>1, <3>1, <3>2, <3>3 DEF Stage, AttachUndisturbed, ChainNotOrphaned
  <2>4. CASE stage = "header" /\ HeaderRead /\ ~shortHeader
    <3>1. HandleSetupPacket(Full) /\ stage' = "full"
      BY <2>4 DEF HeaderRead, CallbackIssues
    <3>2. Ep0TypeOK' /\ TransferOwned' /\ setupPacketResultCallback' = Full
      BY <2>1, <3>1, LatchKeepsControl, RequestsDiffer
    <3>3. Awaited' = {Full}
      BY <3>1 DEF Awaited
    <3>. QED
      BY <2>1, <3>1, <3>2, <3>3 DEF Stage, AttachUndisturbed, ChainNotOrphaned
  <2>5. CASE stage = "full" /\ DescriptorRead
    <3>1. CallbackReturns /\ stage' = "wiring"
      BY <2>5 DEF DescriptorRead
    <3>2. Ep0TypeOK' /\ TransferOwned' /\ setupPacketResultCallback' = NoRequest
      BY <2>1, <3>1, ReturnKeepsControl
    <3>3. Awaited' = {NoRequest}
      BY <3>1 DEF Awaited
    <3>. QED
      BY <2>1, <3>1, <3>2, <3>3 DEF Stage, AttachUndisturbed, ChainNotOrphaned
  <2>6. CASE stage = "control" /\ ControlAnswered
    <3>1. SendControlSequence(controlRequests)
      BY <2>6 DEF ControlAnswered
    <3>. QED
      BY <2>1, <3>1, SendKeepsControl DEF ClassRequestsQueued
  <2>. QED
    BY <1>3, <2>2, <2>3, <2>4, <2>5, <2>6, CallbackInItsStage
<1>4. CASE WiringDone
  <2>1. /\ stage = "wiring" /\ SendControlSequence(controlRequests)
        /\ UNCHANGED <<guestControl, guestRequest, guestMoved, stalls>>
    BY <1>4 DEF WiringDone, guestVars
  <2>2. setupPacketResultCallback = NoRequest
    BY <2>1, AwaitedInStage DEF ChainNotOrphaned
  <2>3. guestControl' = "idle" /\ ~ep0Setup
    BY <2>1, <2>2, RequestsDiffer DEF TransferOwned
  <2>. QED
    BY <2>1, <2>3, SendKeepsControl DEF ClassRequestsQueued
<1>5. CASE PumpingDone
  <2>1. stage = "pumping" /\ stage' = "done" /\ UNCHANGED ep0Vars
    BY <1>5 DEF PumpingDone
  <2>2. Awaited = {NoRequest} /\ Awaited' = {NoRequest}
    BY <2>1 DEF Awaited
  <2>. QED
    BY <2>1, <2>2 DEF ep0Vars, Ep0TypeOK, Stage, TransferOwned, AttachUndisturbed,
       ChainNotOrphaned
<1>6. CASE GuestControlStep
  BY <1>6, DataStepKeepsControl DEF GuestControlStep, chainVars
<1>7. CASE GuestStalls
  BY <1>7, StallKeepsControl DEF GuestStalls, chainVars
<1>8. CASE WireNext \/ FlushNext \/ PumpNextChannel \/ StopEmulation \/ UNCHANGED vars
  <2>1. UNCHANGED <<ep0Vars, stage>>
    BY <1>8 DEF WireNext, FlushNext, PumpNextChannel, StopEmulation, vars, chainVars
  <2>. QED
    BY <2>1, ControlUnchanged
<1>9. ASSUME NEW c \in Channel,
             \/ ClientStep(c) \/ PoolRuns(c) \/ GuestSends(c)
             \/ GuestAcknowledges(c) \/ GetDataStep(c)
      PROVE  ControlInvariant'
  <2>1. UNCHANGED <<ep0Vars, stage>>
    BY <1>9 DEF ClientStep, PoolRuns, GuestSends, GuestAcknowledges, GetDataStep, chainVars
  <2>. QED
    BY <2>1, ControlUnchanged
<1>. QED
  BY <1>1, <1>2, <1>3, <1>4, <1>5, <1>6, <1>7, <1>8, <1>9 DEF Next, ChainStep

-----------------------------------------------------------------------------
(* The channels and the pumps.                                             *)

\* A channel whose pump has not been started stays quiet.
LEMMA QuietStep ==
  ASSUME PumpInvariant, QuietUntilPumped, [PumpNext]_pumpVars
  PROVE  QuietUntilPumped'
<1>. USE DEF PumpInvariant
<1>1. ASSUME NEW c \in Channel, StartPump(c)
      PROVE  QuietUntilPumped'
  BY <1>1 DEF StartPump, StartDeviceToHostPump, Deliver, ReArmDeviceToHostPump,
     QuietUntilPumped, PumpTypeOK
<1>2. ASSUME NEW c \in Channel, RunReArm(c)
      PROVE  QuietUntilPumped'
  <2>1. pumped[c]
    BY <1>2, ArmsParts DEF RunReArm, ArmedExactlyOnce, Arms
  <2>. QED
    BY <1>2, <2>1 DEF RunReArm, StartDeviceToHostPump, Deliver, ReArmDeviceToHostPump,
       QuietUntilPumped, PumpTypeOK, endpointVars
<1>3. ASSUME NEW c \in Channel, InvokeDataCallback(c)
      PROVE  QuietUntilPumped'
  <2>1. pumped[c]
    BY <1>3 DEF InvokeDataCallback, PumpHandling, BufferLocked, QuietUntilPumped
  <2>. QED
    BY <1>3, <2>1 DEF InvokeDataCallback, Deliver, ReArmDeviceToHostPump,
       QuietUntilPumped, PumpTypeOK
<1>4. ASSUME NEW c \in Channel,
             \/ TakeReArm(c) \/ ClearDataCallback(c) \/ DataAcknowledged(c)
             \/ StartIn(c) \/ AcknowledgeIn(c)
      PROVE  QuietUntilPumped'
  BY <1>4 DEF TakeReArm, ClearDataCallback, DataAcknowledged, StartIn, GetNoData, GetData,
     AcknowledgeIn, QuietUntilPumped, PumpTypeOK
<1>5. CASE Teardown \/ UNCHANGED pumpVars
  BY <1>5 DEF Teardown, pumpVars, QuietUntilPumped
<1>. QED
  BY <1>1, <1>2, <1>3, <1>4, <1>5 DEF PumpNext, PoolStep, CpuPumpStep

\* The types of a channel's variables.
LEMMA ChannelTypeStep ==
  ASSUME ChannelTypeOK, NEW c \in Channel,
         WriteChar(c) \/ WriteCharData(c) \/ Wire(c) \/ FlushPending(c)
  PROVE  ChannelTypeOK'
<1>1. /\ wrote[c] \in Nat /\ pendingHostData[c] \in Seq(Nat) /\ flush[c] \in Seq(Nat)
      /\ endpointData[c] \in Seq(Nat) /\ charInHand[c] \in Nat
  BY DEF ChannelTypeOK
<1>2. endpointData[c] \o flush[c] \in Seq(Nat)
  BY <1>1, ItemsOfConcat
<1>3. /\ Append(endpointData[c], charInHand[c]) \in Seq(Nat)
      /\ Append(pendingHostData[c], wrote[c] + 1) \in Seq(Nat)
  BY <1>1, ItemsOfAppend
<1>4. CASE WriteChar(c)
  <2>1. wrote' \in [Channel -> Nat] /\ UNCHANGED <<device, flush, endpointData>>
    BY <1>1, <1>4 DEF WriteChar, ChannelTypeOK
  <2>2. pendingHostData' \in [Channel -> Seq(Nat)]
    BY <1>1, <1>3, <1>4 DEF WriteChar, ChannelTypeOK
  <2>3. charInHand' \in [Channel -> Nat]
    BY <1>1, <1>4 DEF WriteChar, ChannelTypeOK
  <2>. QED
    BY <2>1, <2>2, <2>3 DEF ChannelTypeOK
<1>5. CASE WriteCharData(c)
  BY <1>1, <1>3, <1>5 DEF WriteCharData, ChannelTypeOK
<1>6. CASE Wire(c)
  BY <1>1, <1>6 DEF Wire, ChannelTypeOK
<1>7. CASE FlushPending(c)
  BY <1>1, <1>2, <1>7 DEF FlushPending, ChannelTypeOK
<1>. QED
  BY <1>4, <1>5, <1>6, <1>7

\* Wiring happens in the "wiring" stage only, for the channel whose turn it is.
WiresNext ==
  /\ stage = "wiring" /\ stage' = stage
  /\ next <= ChannelCount /\ next <= Len(pairs)
  /\ device' = [device EXCEPT ![next] = TRUE]
  /\ controlRequests' = controlRequests \o <<LineCoding(next), ControlState(next)>>
  /\ next' = next + 1
  /\ UNCHANGED <<answered, pumped, deviceVars>>

\* A wired channel stays wired, and its class requests stay queued.
LEMMA WiresNextKeeps ==
  ASSUME ChainTypeOK, ChannelTypeOK, ClassRequestsQueued, WiringProgress, WiresNext
  PROVE  ChainTypeOK' /\ ClassRequestsQueued' /\ WiringProgress'
<1>. DEFINE two == <<LineCoding(next), ControlState(next)>>
<1>1. next \in Channel
  BY DEF WiresNext, WiringProgress, Channel
<1>2. two \in Seq(BridgeRequests) /\ Items(two) = ClassRequests(next)
  <2>1. LineCoding(next) \in BridgeRequests /\ ControlState(next) \in BridgeRequests
    BY <1>1, RequestsDiffer DEF ClassRequests
  <2>. QED
    BY <2>1 DEF ClassRequests, Items
<1>3. controlRequests' = controlRequests \o two
  BY DEF WiresNext
<1>. HIDE DEF two
<1>4. /\ controlRequests' \in Seq(BridgeRequests)
      /\ Items(controlRequests') = Items(controlRequests) \cup ClassRequests(next)
  BY <1>2, <1>3, ItemsOfConcat DEF ChainTypeOK
<1>5. ChainTypeOK'
  BY <1>1, <1>4, ChannelCountAssumption
     DEF WiresNext, ChainTypeOK, deviceVars, Channel, ChannelCountAssumption
<1>6. ClassRequestsQueued'
  BY <1>1, <1>4 DEF ClassRequestsQueued
<1>7. WiringProgress'
  <2>1. next' \in 1..ChannelCount + 1 /\ next' <= Len(pairs') + 1
    BY <1>1, <1>5 DEF WiresNext, deviceVars, Channel, ChainTypeOK
  <2>2. ASSUME NEW c \in Channel
        PROVE  /\ device'[c] <=> c < next'
               /\ device'[c] => ClassRequests(c) \subseteq Items(controlRequests')
    <3>1. /\ device[c] <=> c < next
          /\ device[c] => ClassRequests(c) \subseteq Items(controlRequests)
          /\ device' = [device EXCEPT ![next] = TRUE] /\ next' = next + 1
      BY DEF WiresNext, WiringProgress
    <3>2. device'[c] <=> (device[c] \/ c = next)
      BY <1>1, <3>1 DEF ChannelTypeOK
    <3>3. c \in Nat /\ next \in Nat
      BY <1>1 DEF Channel
    <3>4. device'[c] => ClassRequests(c) \subseteq Items(controlRequests')
      BY <1>4, <3>1, <3>2
    <3>5. device'[c] <=> c < next'
      BY <3>1, <3>2, <3>3
    <3>. QED
      BY <3>4, <3>5
  <2>3. \A c \in Channel : ~pumped'[c]
    BY DEF WiresNext, WiringProgress
  <2>. QED
    BY <2>1, <2>2, <2>3 DEF WiresNext, WiringProgress
<1>. QED
  BY <1>5, <1>6, <1>7

\* Sending the next class request takes it off the queue; with none left, all of
\* them have been answered.
LEMMA SendKeepsProgress ==
  ASSUME ControlInvariant, ChainTypeOK, ClassRequestsQueued,
         SendControlSequence(controlRequests),
         UNCHANGED <<device, pumped, deviceVars>>,
         answered' \subseteq BridgeRequests,
         \A c \in Channel : ~pumped[c],
         \A c \in Channel : device[c] <=> c <= Len(pairs),
         \A c \in Channel : device[c] =>
           ClassRequests(c) \subseteq answered' \cup Items(controlRequests)
  PROVE  ChainTypeOK' /\ ClassRequestsQueued' /\ WiringProgress'
<1>1. CASE controlRequests = << >>
  <2>1. controlRequests' = << >> /\ stage' = "pumping" /\ next' = 1
    BY <1>1 DEF SendControlSequence
  <2>2. Items(controlRequests) = {} /\ Items(controlRequests') = {}
    BY <1>1, <2>1 DEF Items
  <2>3. 1 \in 0..ChannelCount + 1 /\ 1 \in 1..ChannelCount + 1
    BY ChannelCountAssumption DEF ChannelCountAssumption
  <2>. QED
    BY <2>1, <2>2, <2>3 DEF ChainTypeOK, deviceVars, ClassRequestsQueued, WiringProgress
<1>2. CASE controlRequests # << >>
  <2>1. /\ HandleSetupPacket(Head(controlRequests))
        /\ controlRequests' = Tail(controlRequests) /\ stage' = "control" /\ next' = next
    BY <1>2 DEF SendControlSequence, CallbackIssues
  <2>2. /\ controlRequests' \in Seq(BridgeRequests)
        /\ Items(controlRequests) = {Head(controlRequests)} \cup Items(controlRequests')
    BY <1>2, <2>1, ItemsOfTail DEF ChainTypeOK
  <2>4. setupPacketResultCallback' = Head(controlRequests)
    BY <2>1 DEF HandleSetupPacket
  <2>5. ChainTypeOK' /\ ClassRequestsQueued'
    BY <2>1, <2>2 DEF ChainTypeOK, deviceVars, ClassRequestsQueued
  <2>6. \A c \in Channel : device'[c] =>
          ClassRequests(c) \subseteq answered' \cup Items(controlRequests')
                                       \cup {setupPacketResultCallback'}
    BY <2>2, <2>4
  <2>. QED
    BY <2>1, <2>5, <2>6 DEF WiringProgress, deviceVars
<1>. QED
  BY <1>1, <1>2

\* Every step of the bridge keeps the invariant of the chain.
LEMMA ChainInvariantStep ==
  ASSUME ChainInvariant, [Next]_vars
  PROVE  ChainInvariant'
<1>. USE ChannelCountAssumption DEF ChainInvariant, ChannelCountAssumption
<1>1. ControlInvariant'
  BY ControlStep DEF ChainTypeOK
<1>2. PumpInvariant' /\ QuietUntilPumped'
  BY BridgeStepIsPumpStep, PumpStepInvariant, QuietStep
<1>3. SUFFICES ChannelTypeOK' /\ ChainTypeOK' /\ ClassRequestsQueued' /\ WiringProgress'
  BY <1>1, <1>2
<1>4. CASE EnumerateDevice \/ DeviceEnumerated
  <2>1. /\ stage \in {"attach0", "attach1", "attach2", "enumerated"}
        /\ stage' \in {"attach1", "attach2", "enumerating", "header"}
        /\ UNCHANGED <<pumpVars, channelVars, next, controlRequests, answered, deviceVars>>
    BY <1>4 DEF EnumerateDevice, DeviceEnumerated
  <2>. QED
    BY <2>1 DEF ChannelTypeOK, channelVars, ChainTypeOK, deviceVars, ClassRequestsQueued,
       WiringProgress, pumpVars
<1>5. CASE HandleEp0Status
  <2>1. /\ setupPacketResultCallback \in BridgeRequests
        /\ answered' = answered \cup {setupPacketResultCallback}
        /\ UNCHANGED <<pumpVars, channelVars, deviceVars>>
    BY <1>5, CallbackInItsStage DEF HandleEp0Status
  <2>2. ChannelTypeOK' /\ answered' \subseteq BridgeRequests
    BY <2>1 DEF ChannelTypeOK, channelVars, ChainTypeOK
  <2>3. CASE (stage = "enumerating" /\ Configured) \/ (stage = "header" /\ HeaderRead)
    <3>1. /\ stage' \in {"enumerated", "full", "aborted"}
          /\ UNCHANGED <<next, controlRequests>>
      BY <2>3 DEF Configured, HeaderRead
    <3>. QED
      BY <2>1, <2>2, <2>3, <3>1 DEF channelVars, ChainTypeOK, deviceVars, ClassRequestsQueued,
         WiringProgress, pumpVars
  <2>4. CASE stage = "full" /\ DescriptorRead
    <3>1. stage' = "wiring" /\ next' = 1 /\ controlRequests' = controlRequests
      BY <2>4 DEF DescriptorRead
    <3>2. controlRequests = << >> /\ \A c \in Channel : ~device[c] /\ ~pumped[c]
      BY <2>4 DEF WiringProgress
    <3>3. 1 \in 1..ChannelCount + 1 /\ 1 <= Len(pairs) + 1
          /\ \A c \in Channel : ~(c < 1)
      BY DEF ChainTypeOK, Channel
    <3>4. ChainTypeOK' /\ ClassRequestsQueued'
      BY <2>1, <2>2, <3>1, <3>3 DEF ChainTypeOK, deviceVars, ClassRequestsQueued
    <3>. QED
      BY <2>1, <2>2, <3>1, <3>2, <3>3, <3>4 DEF channelVars, deviceVars, WiringProgress, pumpVars
  <2>5. CASE stage = "control" /\ ControlAnswered
    <3>1. SendControlSequence(controlRequests)
      BY <2>5 DEF ControlAnswered
    <3>2. \A c \in Channel : ~pumped[c] /\ (device[c] <=> c <= Len(pairs))
      BY <2>5 DEF WiringProgress
    <3>3. \A c \in Channel : device[c] =>
            ClassRequests(c) \subseteq answered' \cup Items(controlRequests)
      BY <2>1, <2>5, RequestsDiffer DEF WiringProgress
    <3>4. UNCHANGED <<device, pumped, deviceVars>>
      BY <2>1 DEF channelVars, pumpVars
    <3>. QED
      BY <2>2, <3>1, <3>2, <3>3, <3>4, SendKeepsProgress
  <2>. QED
    BY <1>5, <2>3, <2>4, <2>5, CallbackInItsStage
<1>6. CASE WireNext
  <2>1. Wire(next) /\ WiresNext
    BY <1>6 DEF WireNext, Wire, WiresNext, Wirable, pumpVars
  <2>2. next \in Channel
    BY <2>1 DEF WiresNext, WiringProgress, Channel
  <2>. QED
    BY <2>1, <2>2, ChannelTypeStep, WiresNextKeeps
<1>7. CASE FlushNext
  <2>1. /\ stage = "wiring" /\ next > 1 /\ FlushPending(next - 1)
        /\ UNCHANGED <<pumpVars, stage, next, controlRequests, answered, deviceVars>>
    BY <1>7 DEF FlushNext, chainVars
  <2>2. next - 1 \in Channel
    BY <2>1 DEF WiringProgress, Channel
  <2>3. ChannelTypeOK' /\ device' = device
    BY <2>1, <2>2, ChannelTypeStep DEF FlushPending
  <2>. QED
    BY <2>1, <2>3 DEF ChainTypeOK, deviceVars, ClassRequestsQueued, WiringProgress, pumpVars
<1>8. CASE WiringDone
  <2>1. /\ stage = "wiring" /\ ~Wirable(next) /\ SendControlSequence(controlRequests)
        /\ UNCHANGED <<pumpVars, channelVars, answered, deviceVars>>
    BY <1>8 DEF WiringDone
  <2>2. \A c \in Channel : ~pumped[c]
    BY <2>1 DEF WiringProgress
  <2>3. \A c \in Channel : device[c] <=> c <= Len(pairs)
    <3>1. /\ next \in 1..ChannelCount + 1 /\ next <= Len(pairs) + 1
          /\ next > ChannelCount \/ next > Len(pairs)
          /\ \A c \in Channel : device[c] <=> c < next
      BY <2>1 DEF WiringProgress, Wirable, ChainTypeOK
    <3>. QED
      BY <3>1 DEF Channel, ChainTypeOK
  <2>4. \A c \in Channel : device[c] =>
          ClassRequests(c) \subseteq answered' \cup Items(controlRequests)
    BY <2>1 DEF WiringProgress
  <2>5. UNCHANGED <<device, pumped, deviceVars>> /\ answered' \subseteq BridgeRequests
    BY <2>1 DEF channelVars, pumpVars, ChainTypeOK
  <2>6. ChannelTypeOK'
    BY <2>1 DEF ChannelTypeOK, channelVars
  <2>. QED
    BY <2>1, <2>2, <2>3, <2>4, <2>5, <2>6, SendKeepsProgress
<1>9. CASE PumpNextChannel
  <2>1. /\ stage = "pumping" /\ next \in Channel /\ next' = next + 1
        /\ IF IsWired(next) THEN StartPump(next) ELSE UNCHANGED pumpVars
        /\ UNCHANGED <<channelVars, ep0Vars, stage, controlRequests, answered, deviceVars>>
    BY <1>9 DEF PumpNextChannel
  <2>2. \A c \in Channel : pumped'[c] => pumped[c] \/ (c = next /\ device[c])
    BY <2>1 DEF IsWired, StartPump, pumpVars, PumpInvariant, PumpTypeOK
  <2>3. next' \in 0..ChannelCount + 1 /\ next' \in 1..ChannelCount + 1
    BY <2>1 DEF Channel
  <2>. QED
    BY <2>1, <2>2, <2>3 DEF ChannelTypeOK, channelVars, ChainTypeOK, deviceVars,
       ClassRequestsQueued, WiringProgress
<1>10. CASE PumpingDone
  <2>1. /\ stage = "pumping" /\ stage' = "done"
        /\ UNCHANGED <<pumpVars, channelVars, next, controlRequests, answered, deviceVars>>
    BY <1>10 DEF PumpingDone
  <2>. QED
    BY <2>1 DEF ChannelTypeOK, channelVars, ChainTypeOK, deviceVars, ClassRequestsQueued,
       WiringProgress, pumpVars
<1>11. CASE GuestControlStep \/ GuestStalls
  <2>1. /\ UNCHANGED <<pumpVars, channelVars, chainVars, deviceVars>>
        /\ setupPacketResultCallback' \in {setupPacketResultCallback, NoRequest}
    BY <1>11 DEF GuestControlStep, GuestStalls, GuestDataStep, GuestReadSetup,
       GetControlData, HandleEp0RcvOut, StartEpOut0, HandleEp0Stall
  <2>2. \A c \in Channel : UNCHANGED <<device[c], pumped[c]>>
    BY <2>1 DEF channelVars, pumpVars
  <2>3. UNCHANGED <<stage, next, controlRequests, answered, pairs, device, pumped>>
    BY <2>1 DEF chainVars, deviceVars, channelVars, pumpVars
  <2>4. ChannelTypeOK' /\ ChainTypeOK' /\ ClassRequestsQueued'
    BY <2>1 DEF ChannelTypeOK, channelVars, ChainTypeOK, deviceVars, ClassRequestsQueued,
       chainVars
  <2>. QED
    BY <2>1, <2>3, <2>4 DEF WiringProgress
<1>12. CASE StopEmulation
  BY <1>12 DEF StopEmulation, Teardown, ChannelTypeOK, channelVars, ChainTypeOK, deviceVars,
     ClassRequestsQueued, WiringProgress, chainVars, ep0Vars
<1>13. ASSUME NEW c \in Channel, ClientStep(c)
       PROVE  ChannelTypeOK' /\ ChainTypeOK' /\ ClassRequestsQueued' /\ WiringProgress'
  <2>1. /\ WriteChar(c) \/ WriteCharData(c)
        /\ device' = device
        /\ UNCHANGED <<pumpVars, ep0Vars, chainVars, deviceVars>>
    BY <1>13 DEF ClientStep, WriteChar, WriteCharData
  <2>. QED
    BY <2>1, ChannelTypeStep DEF ChainTypeOK, deviceVars, ClassRequestsQueued,
       WiringProgress, chainVars, ep0Vars, pumpVars
<1>14. ASSUME NEW c \in Channel,
              PoolRuns(c) \/ GuestSends(c) \/ GuestAcknowledges(c) \/ GetDataStep(c)
       PROVE  ChannelTypeOK' /\ ChainTypeOK' /\ ClassRequestsQueued' /\ WiringProgress'
  <2>1. UNCHANGED <<channelVars, ep0Vars, chainVars, deviceVars, pumped>>
    BY <1>14 DEF PoolRuns, PoolStep, TakeReArm, RunReArm, GuestSends, StartIn, GetNoData,
       GetData, GuestAcknowledges, AcknowledgeIn, GetDataStep, CpuPumpStep,
       InvokeDataCallback, ClearDataCallback, DataAcknowledged
  <2>. QED
    BY <2>1 DEF ChannelTypeOK, channelVars, ChainTypeOK, deviceVars, ClassRequestsQueued,
       WiringProgress, chainVars, ep0Vars
<1>15. CASE UNCHANGED vars
  BY <1>15 DEF vars, ChannelTypeOK, channelVars, ChainTypeOK, deviceVars,
     ClassRequestsQueued, WiringProgress, chainVars, ep0Vars, pumpVars
<1>. QED
  BY <1>4, <1>5, <1>6, <1>7, <1>8, <1>9, <1>10, <1>11, <1>12, <1>13, <1>14, <1>15
     DEF Next, ChainStep

-----------------------------------------------------------------------------
(* The host's bytes.                                                       *)

InHand(c) == IF charInHand[c] = 0 THEN << >> ELSE <<charInHand[c]>>

\* The four places a byte of the client can be in.
PlacesHold(c) ==
  HoldFirst(pendingHostData[c], flush[c], endpointData[c], InHand(c), wrote[c])

HostBytesInvariant ==
  /\ ChannelTypeOK
  /\ \A c \in Channel : PlacesHold(c)
  /\ \A c \in Channel : ~device[c] => flush[c] = << >>

\* The byte in a thread's hand, as a sequence.
LEMMA InHandIsSeq ==
  ASSUME ChannelTypeOK
  PROVE  \A c \in Channel : InHand(c) \in Seq(Nat)
<1>1. \A c \in Channel : charInHand[c] \in Nat
  BY DEF ChannelTypeOK
<1>. QED
  BY <1>1 DEF InHand

\* The invariant says what HostBytesConserved says.
LEMMA PlacesAreHeld == HostBytesInvariant => HostBytesConserved
<1>. SUFFICES ASSUME HostBytesInvariant PROVE HostBytesConserved
  OBVIOUS
<1>1. ASSUME NEW c \in Channel
      PROVE  LET held == pendingHostData[c] \o flush[c] \o endpointData[c] \o InHand(c)
             IN  Len(held) = wrote[c] /\ Items(held) = 1..wrote[c]
  <2>1. /\ pendingHostData[c] \in Seq(Nat) /\ flush[c] \in Seq(Nat)
        /\ endpointData[c] \in Seq(Nat) /\ wrote[c] \in Nat
    BY DEF HostBytesInvariant, ChannelTypeOK
  <2>2. InHand(c) \in Seq(Nat)
    BY InHandIsSeq DEF HostBytesInvariant
  <2>3. HoldFirst(pendingHostData[c], flush[c], endpointData[c], InHand(c), wrote[c])
    BY DEF HostBytesInvariant, PlacesHold
  <2>. QED
    BY <2>1, <2>2, <2>3, HoldTogether, Zenon
<1>. QED
  BY <1>1 DEF HostBytesConserved, InHand, Items

\* What a step on channel c does not touch, it does not disturb.
LEMMA OtherPlaces ==
  ASSUME ChannelTypeOK, NEW c \in Channel,
         WriteChar(c) \/ WriteCharData(c) \/ Wire(c) \/ FlushPending(c),
         NEW d \in Channel \ {c}, PlacesHold(d), ~device[d] => flush[d] = << >>
  PROVE  PlacesHold(d)' /\ (~device'[d] => flush'[d] = << >>)
<1>1. /\ wrote'[d] = wrote[d] /\ device'[d] = device[d] /\ flush'[d] = flush[d]
      /\ pendingHostData'[d] = pendingHostData[d] /\ charInHand'[d] = charInHand[d]
      /\ endpointData'[d] = endpointData[d]
  BY DEF ChannelTypeOK, WriteChar, WriteCharData, Wire, FlushPending
<1>2. InHand(d)' = InHand(d)
  BY <1>1 DEF InHand
<1>. QED
  BY <1>1, <1>2 DEF PlacesHold

\* Every step of a client or of Wire moves bytes between places or adds the next.
LEMMA ChannelStepKeepsBytes ==
  ASSUME HostBytesInvariant, NEW c \in Channel,
         WriteChar(c) \/ WriteCharData(c) \/ Wire(c) \/ FlushPending(c)
  PROVE  HostBytesInvariant'
<1>1. ChannelTypeOK /\ ChannelTypeOK' /\ PlacesHold(c) /\ (~device[c] => flush[c] = << >>)
  BY ChannelTypeStep DEF HostBytesInvariant
<1>2. SUFFICES PlacesHold(c)' /\ (~device'[c] => flush'[c] = << >>)
  <2>1. \A d \in Channel \ {c} : PlacesHold(d)' /\ (~device'[d] => flush'[d] = << >>)
    BY <1>1, OtherPlaces DEF HostBytesInvariant
  <2>. QED
    BY <1>1, <1>2, <2>1 DEF HostBytesInvariant
<1>3. /\ wrote[c] \in Nat /\ pendingHostData[c] \in Seq(Nat) /\ flush[c] \in Seq(Nat)
      /\ endpointData[c] \in Seq(Nat) /\ charInHand[c] \in Nat
      /\ InHand(c) \in Seq(Nat)
  BY <1>1, InHandIsSeq DEF ChannelTypeOK
<1>4. HoldFirst(pendingHostData[c], flush[c], endpointData[c], InHand(c), wrote[c])
  BY <1>1 DEF PlacesHold
<1>5. CASE WriteChar(c) /\ ~device[c]
  <2>1. /\ wrote'[c] = wrote[c] + 1
        /\ pendingHostData'[c] = Append(pendingHostData[c], wrote[c] + 1)
        /\ charInHand'[c] = charInHand[c]
        /\ UNCHANGED <<device, flush, endpointData>>
    BY <1>1, <1>5 DEF WriteChar, ChannelTypeOK
  <2>2. InHand(c)' = InHand(c)
    BY <2>1 DEF InHand
  <2>. QED
    BY <1>1, <1>3, <1>4, <2>1, <2>2, HoldNext DEF PlacesHold
<1>6. CASE WriteChar(c) /\ device[c]
  <2>1. /\ wrote'[c] = wrote[c] + 1
        /\ charInHand[c] = 0 /\ charInHand'[c] = wrote[c] + 1
        /\ UNCHANGED <<device, flush, endpointData, pendingHostData>>
    BY <1>1, <1>6 DEF WriteChar, ChannelTypeOK
  <2>2. InHand(c) = << >> /\ InHand(c)' = <<wrote[c] + 1>>
    BY <1>3, <2>1 DEF InHand
  <2>. QED
    BY <1>1, <1>3, <1>4, <2>1, <2>2, HoldNext, ZenonT(40) DEF PlacesHold
<1>7. CASE WriteCharData(c)
  <2>1. /\ charInHand[c] # 0 /\ charInHand'[c] = 0
        /\ endpointData'[c] = Append(endpointData[c], charInHand[c])
        /\ UNCHANGED <<wrote, device, pendingHostData, flush>>
    BY <1>1, <1>7 DEF WriteCharData, ChannelTypeOK
  <2>2. InHand(c) = <<charInHand[c]>> /\ InHand(c)' = << >>
    BY <2>1 DEF InHand
  <2>. QED
    BY <1>1, <1>3, <1>4, <2>1, <2>2, HoldMoved DEF PlacesHold
<1>8. CASE Wire(c)
  <2>1. /\ device'[c] /\ flush[c] = << >> /\ flush'[c] = pendingHostData[c]
        /\ pendingHostData'[c] = << >>
        /\ UNCHANGED <<wrote, charInHand, endpointData>>
    BY <1>1, <1>8 DEF Wire, ChannelTypeOK
  <2>2. InHand(c)' = InHand(c)
    BY <2>1 DEF InHand
  <2>. QED
    BY <1>3, <1>4, <2>1, <2>2, HoldMoved DEF PlacesHold
<1>9. CASE FlushPending(c)
  <2>1. /\ endpointData'[c] = endpointData[c] \o flush[c] /\ flush'[c] = << >>
        /\ UNCHANGED <<wrote, device, pendingHostData, charInHand>>
    BY <1>1, <1>9 DEF FlushPending, ChannelTypeOK
  <2>2. InHand(c)' = InHand(c)
    BY <2>1 DEF InHand
  <2>. QED
    BY <1>3, <1>4, <2>1, <2>2, HoldMoved DEF PlacesHold
<1>. QED
  BY <1>5, <1>6, <1>7, <1>8, <1>9

\* A channel is only ever touched by its client, by Wire and by the flush.
LEMMA HostBytesStep ==
  ASSUME ChainInvariant, HostBytesInvariant, [Next]_vars
  PROVE  HostBytesInvariant'
<1>1. CASE WireNext
  <2>1. next \in Channel /\ Wire(next)
    BY <1>1 DEF WireNext, Wirable, ChainInvariant, WiringProgress, Channel
  <2>. QED
    BY <2>1, ChannelStepKeepsBytes
<1>2. CASE FlushNext
  <2>1. next - 1 \in Channel /\ FlushPending(next - 1)
    BY <1>2, ChannelCountAssumption
       DEF FlushNext, ChainInvariant, WiringProgress, Channel, ChannelCountAssumption
  <2>. QED
    BY <2>1, ChannelStepKeepsBytes
<1>3. ASSUME NEW c \in Channel, ClientStep(c)
      PROVE  HostBytesInvariant'
  BY <1>3, ChannelStepKeepsBytes DEF ClientStep
<1>4. CASE UNCHANGED channelVars
  BY <1>4 DEF channelVars, HostBytesInvariant, ChannelTypeOK, PlacesHold, InHand
<1>5. ASSUME NEW c \in Channel,
             PoolRuns(c) \/ GuestSends(c) \/ GuestAcknowledges(c) \/ GetDataStep(c)
      PROVE  UNCHANGED channelVars
  BY <1>5 DEF PoolRuns, GuestSends, GuestAcknowledges, GetDataStep
<1>6. CASE \/ EnumerateDevice \/ DeviceEnumerated \/ HandleEp0Status \/ WiringDone
           \/ PumpNextChannel \/ PumpingDone \/ GuestControlStep \/ GuestStalls
           \/ StopEmulation \/ UNCHANGED vars
  <2>1. UNCHANGED channelVars
    BY <1>6 DEF EnumerateDevice, DeviceEnumerated, HandleEp0Status, WiringDone,
       PumpNextChannel, PumpingDone, GuestControlStep, GuestStalls, StopEmulation, vars
  <2>. QED
    BY <1>4, <2>1
<1>. QED
  BY <1>1, <1>2, <1>3, <1>4, <1>5, <1>6 DEF Next, ChainStep

-----------------------------------------------------------------------------
(* The parser.                                                             *)

\* What the walk carries.
Walker ==
  [pairs : Seq(CdcDataPair), pending : (0..255) \cup {NoInterface},
   class : {"none", "comm", "data", "hid"}, in : 0..15, out : 0..15, over : BOOLEAN]

LEMMA EntryKinds ==
  ASSUME NEW e \in Entry
  PROVE  /\ e.type \in {"interface", "endpoint", "other", "end"}
         /\ e.type = "interface" => e.number \in 0..255 /\ e.class \in {"comm", "data", "hid"}
         /\ e.type = "endpoint" =>
              e.number \in 1..15 /\ e.dir \in {"in", "out"} /\ e.bulk \in BOOLEAN
         /\ e.type = "end" <=> e = End
<1>1. CASE e \in {Interface(n, class) : n \in 0..255, class \in {"comm", "data", "hid"}}
  <2>1. PICK n \in 0..255, class \in {"comm", "data", "hid"} : e = Interface(n, class)
    BY <1>1
  <2>2. e.type = "interface" /\ e.number = n /\ e.class = class
    BY <2>1 DEF Interface
  <2> QED
    BY <2>2 DEF End
<1>2. CASE e \in {Endpoint(n, dir, bulk) : n \in 1..15, dir \in {"in", "out"}, bulk \in BOOLEAN}
  <2>1. PICK n \in 1..15, dir \in {"in", "out"}, bulk \in BOOLEAN : e = Endpoint(n, dir, bulk)
    BY <1>2
  <2>2. e.type = "endpoint" /\ e.number = n /\ e.dir = dir /\ e.bulk = bulk
    BY <2>1 DEF Endpoint
  <2> QED
    BY <2>2 DEF End
<1>3. CASE e \in {Other, End}
  BY <1>3 DEF Other, End
<1> QED
  BY <1>1, <1>2, <1>3 DEF Entry

\* A data interface with both its endpoints makes a pair when it is left.
Closes(w) == w.class = "data" /\ w.in # NoEndpoint /\ w.out # NoEndpoint

LEMMA FlushIs ==
  ASSUME NEW w \in Walker
  PROVE  /\ Flush(w) \in Walker
         /\ Flush(w).in = NoEndpoint /\ Flush(w).out = NoEndpoint
         /\ Flush(w).class = w.class /\ Flush(w).over = w.over
         /\ Closes(w) => /\ Flush(w).pairs = Append(w.pairs, Pair(w.pending, w.in, w.out))
                         /\ Flush(w).pending = NoInterface
         /\ ~Closes(w) => Flush(w).pairs = w.pairs /\ Flush(w).pending = w.pending
<1>1. /\ w.pairs \in Seq(CdcDataPair) /\ w.pending \in (0..255) \cup {NoInterface}
      /\ w.class \in {"none", "comm", "data", "hid"} /\ w.in \in 0..15 /\ w.out \in 0..15
      /\ w.over \in BOOLEAN
  BY DEF Walker
<1> DEFINE kept == [w EXCEPT !.in = NoEndpoint, !.out = NoEndpoint]
           more == Append(w.pairs, Pair(w.pending, w.in, w.out))
           used == [kept EXCEPT !.pairs = more, !.pending = NoInterface]
<1>2. /\ kept \in Walker /\ kept.in = NoEndpoint /\ kept.out = NoEndpoint
      /\ kept.class = w.class /\ kept.over = w.over /\ kept.pairs = w.pairs
      /\ kept.pending = w.pending
  <2> DEFINE u == [w EXCEPT !.in = NoEndpoint]
  <2>1. u \in Walker
    BY DEF Walker, NoEndpoint
  <2>2. kept = [u EXCEPT !.out = NoEndpoint]
    BY DEF Walker
  <2>3. [u EXCEPT !.out = NoEndpoint] \in Walker
    <3>1. NoEndpoint \in 0..15
      BY DEF NoEndpoint
    <3> HIDE DEF u
    <3> QED
      BY <2>1, <3>1 DEF Walker
  <2>4. /\ kept.in = NoEndpoint /\ kept.out = NoEndpoint
        /\ kept.class = w.class /\ kept.over = w.over /\ kept.pairs = w.pairs
        /\ kept.pending = w.pending
    BY DEF Walker
  <2> QED
    BY <2>2, <2>3, <2>4
<1>3. CASE Closes(w)
  <2>1. Flush(w) = used
    <3>1. [kept EXCEPT !.pairs = Append(@, Pair(w.pending, w.in, w.out)),
                       !.pending = NoInterface] = used
      BY <1>2
    <3> QED
      BY <1>3, <3>1 DEF Flush, Closes
  <2>2. Pair(w.pending, w.in, w.out) \in CdcDataPair
    BY <1>1, <1>3 DEF Closes, Pair, CdcDataPair, NoEndpoint
  <2>3. more \in Seq(CdcDataPair)
    BY <1>1, <2>2
  <2> HIDE DEF kept, more
  <2>4. /\ used \in Walker /\ used.in = NoEndpoint /\ used.out = NoEndpoint
        /\ used.class = w.class /\ used.over = w.over /\ used.pairs = more
        /\ used.pending = NoInterface
    <3> DEFINE u == [kept EXCEPT !.pairs = more]
    <3>1. u \in Walker
      BY <1>2, <2>3 DEF Walker
    <3>2. used = [u EXCEPT !.pending = NoInterface]
      BY <1>2 DEF Walker
    <3>3. [u EXCEPT !.pending = NoInterface] \in Walker
      <4> HIDE DEF u
      <4> QED
        BY <3>1 DEF Walker
    <3>4. /\ used.in = NoEndpoint /\ used.out = NoEndpoint
          /\ used.class = w.class /\ used.over = w.over /\ used.pairs = more
          /\ used.pending = NoInterface
      BY <1>2 DEF Walker
    <3> QED
      BY <3>2, <3>3, <3>4
  <2> QED
    BY <1>3, <2>1, <2>4 DEF more
<1>4. CASE ~Closes(w)
  <2>1. Flush(w) = kept
    BY <1>4 DEF Flush, Closes
  <2> QED
    BY <1>2, <1>4, <2>1
<1> QED
  BY <1>3, <1>4

LEMMA WalkStays ==
  ASSUME NEW w \in Walker, NEW e \in Entry
  PROVE  Walk(w, e) \in Walker
<1>1. Flush(w) \in Walker
  BY FlushIs
<1>2. CASE w.over \/ e.type = "end"
  BY <1>2 DEF Walk, Walker
<1>3. CASE ~w.over /\ e.type = "interface"
  <2>1. Walk(w, e) = [Flush(w) EXCEPT !.class = e.class,
                                      !.pending = IF e.class = "comm" THEN e.number ELSE @]
    BY <1>3 DEF Walk, WalkInterface
  <2>2. e.class \in {"comm", "data", "hid"} /\ e.number \in 0..255
    BY <1>3, EntryKinds
  <2> DEFINE v == Flush(w)
  <2> HIDE DEF v
  <2> DEFINE u == [v EXCEPT !.class = e.class]
             p == IF e.class = "comm" THEN e.number ELSE v.pending
  <2>3. v \in Walker
    BY <1>1 DEF v
  <2>4. u \in Walker
    BY <2>2, <2>3 DEF Walker
  <2>5. Walk(w, e) = [u EXCEPT !.pending = p]
    BY <2>1, <2>3 DEF v, Walker
  <2>6. p \in (0..255) \cup {NoInterface}
    <3>1. CASE e.class = "comm"
      BY <2>2, <3>1
    <3>2. CASE e.class # "comm"
      BY <2>3, <3>2 DEF Walker
    <3> QED
      BY <3>1, <3>2
  <2> HIDE DEF u, p
  <2>7. [u EXCEPT !.pending = p] \in Walker
    BY <2>4, <2>6 DEF Walker
  <2> QED
    BY <2>5, <2>7
<1>4. CASE ~w.over /\ e.type = "endpoint"
  <2>1. e.number \in 0..15
    <3>1. e.number \in 1..15
      BY <1>4, EntryKinds
    <3> QED
      BY <3>1
  <2>2. e.dir \in {"in", "out"}
    BY <1>4, EntryKinds
  <2>3. Walk(w, e) = WalkEndpoint(w, e)
    BY <1>4 DEF Walk
  <2>4. \/ Walk(w, e) = w
        \/ Walk(w, e) = [w EXCEPT !.in = e.number]
        \/ Walk(w, e) = [w EXCEPT !.out = e.number]
    BY <2>2, <2>3 DEF WalkEndpoint
  <2>5. [w EXCEPT !.in = e.number] \in Walker /\ [w EXCEPT !.out = e.number] \in Walker
    BY <2>1 DEF Walker
  <2> QED
    BY <2>4, <2>5
<1>5. CASE ~w.over /\ e.type = "other"
  BY <1>5 DEF Walk
<1>6. e.type \in {"interface", "endpoint", "other", "end"}
  BY EntryKinds
<1> QED
  BY <1>2, <1>3, <1>4, <1>5, <1>6

\* The walk, entry by entry.
WalkedBy(descriptor, f) ==
  /\ f \in [0..Len(descriptor) -> Walker]
  /\ f[0] = WalkStart
  /\ \A k \in 1..Len(descriptor) : f[k] = Walk(f[k - 1], descriptor[k])

LEMMA WalkEntryByEntry ==
  ASSUME NEW descriptor \in Seq(Entry)
  PROVE  \E f : /\ WalkedBy(descriptor, f)
                /\ FoldLeft(Walk, WalkStart, descriptor) = f[Len(descriptor)]
<1> DEFINE n == Len(descriptor)
           step == [k \in 1..n |-> [w \in Walker |-> Walk(w, descriptor[k])]]
           Folded(it) == [s \in SUBSET (1..n) |->
                          IF s = {} THEN WalkStart
                          ELSE Walk(it[s \ {Max(s)}], descriptor[Max(s)])]
<1>1. n \in Nat /\ DOMAIN descriptor = 1..n /\ \A k \in 1..n : descriptor[k] \in Entry
  OBVIOUS
<1>0. WalkStart \in Walker
  <2>1. << >> \in Seq(CdcDataPair)
    OBVIOUS
  <2> QED
    BY <2>1 DEF WalkStart, Walker, NoEndpoint
<1> HIDE DEF n
<1>2. step \in [1..n -> [Walker -> Walker]]
  BY <1>1, WalkStays
<1>3. PICK g : IsFold(Walker, WalkStart, n, step, g)
  <2> HIDE DEF step
  <2> QED
    BY <1>0, <1>1, <1>2, FoldExists
<1>4. g = Folded(g)
  <2>1. /\ g \in [SUBSET (1..n) -> Walker]
        /\ g = [s \in SUBSET (1..n) |->
                  IF s = {} THEN WalkStart ELSE step[Max(s)][g[s \ {Max(s)}]]]
    <3> HIDE DEF step
    <3> QED
      BY <1>3 DEF IsFold
  <2>2. ASSUME NEW s \in SUBSET (1..n), s # {}
        PROVE  step[Max(s)][g[s \ {Max(s)}]] = Walk(g[s \ {Max(s)}], descriptor[Max(s)])
    <3>1. Max(s) \in s
      BY <1>1, <2>2, MaxOfPart
    <3> HIDE DEF n
    <3>2. Max(s) \in 1..n /\ s \ {Max(s)} \in SUBSET (1..n)
      BY <3>1
    <3>3. g[s \ {Max(s)}] \in Walker
      BY <2>1, <3>2
    <3> QED
      BY <3>2, <3>3
  <2> HIDE DEF step
  <2>3. \A s \in SUBSET (1..n) :
          g[s] = IF s = {} THEN WalkStart ELSE Walk(g[s \ {Max(s)}], descriptor[Max(s)])
    BY <2>1, <2>2
  <2> QED
    BY <2>1, <2>3
<1> DEFINE it == CHOOSE i : i = Folded(i)
<1>5. it = Folded(it)
  <2> HIDE DEF Folded
  <2> QED
    BY <1>4
<1> HIDE DEF it
<1> DEFINE f == [k \in 0..n |-> it[1..k]]
<1>6. FoldLeft(Walk, WalkStart, descriptor) = it[1..n]
  BY <1>1 DEF FoldLeft, MapThenFoldSet, it
<1>7. f[0] = WalkStart
  <2>1. 1..0 = {} /\ {} \in SUBSET (1..n) /\ 0 \in 0..n
    BY <1>1
  <2>2. it[{}] = WalkStart
    BY <1>5, <2>1
  <2> QED
    BY <2>1, <2>2
<1>8. ASSUME NEW k \in 1..n PROVE f[k] = Walk(f[k - 1], descriptor[k])
  <2>1. k \in 0..n /\ k - 1 \in 0..n
    BY <1>1
  <2>2. /\ 1..k \in SUBSET (1..n) /\ 1..k # {}
        /\ Max(1..k) = k /\ (1..k) \ {k} = 1..(k - 1)
    BY <1>1, MaxOfInterval
  <2>3. it[1..k] = Walk(it[(1..k) \ {Max(1..k)}], descriptor[Max(1..k)])
    <3>1. \A s \in SUBSET (1..n) : s # {} =>
            it[s] = Walk(it[s \ {Max(s)}], descriptor[Max(s)])
      BY <1>5
    <3> HIDE DEF Folded
    <3> QED
      BY <2>2, <3>1
  <2>4. it[1..k] = Walk(it[1..(k - 1)], descriptor[k])
    BY <2>2, <2>3
  <2> QED
    BY <2>1, <2>4
<1> HIDE DEF f
<1>9. f \in [0..n -> Walker]
  <2> DEFINE S == {k \in Nat : k <= n => f[k] \in Walker}
  <2>1. 0 \in S
    BY <1>0, <1>7
  <2>2. ASSUME NEW k \in Nat, k \in S PROVE k + 1 \in S
    <3> SUFFICES ASSUME k + 1 <= n PROVE f[k + 1] \in Walker
      OBVIOUS
    <3>1. k + 1 \in 1..n /\ (k + 1) - 1 = k /\ f[k] \in Walker
      BY <1>1, <2>2
    <3>2. f[k + 1] = Walk(f[k], descriptor[k + 1])
      BY <1>8, <3>1
    <3> QED
      BY <1>1, <3>1, <3>2, WalkStays
  <2> HIDE DEF S
  <2>3. Nat \subseteq S
    BY <2>1, <2>2, Induction
  <2>4. \A k \in 0..n : f[k] \in Walker
    BY <1>1, <2>3 DEF S
  <2>5. DOMAIN f = 0..n /\ f = [k \in 0..n |-> f[k]]
    BY DEF f
  <2> QED
    BY <2>4, <2>5
<1> QED
  <2>1. f[n] = it[1..n]
    BY <1>1 DEF f
  <2>2. WalkedBy(descriptor, f)
    BY <1>7, <1>8, <1>9 DEF WalkedBy, n
  <2> QED
    BY <1>6, <2>1, <2>2 DEF n

\* One entry of the walk.
LEMMA WalkIs ==
  ASSUME NEW w \in Walker, NEW e \in Entry, ~w.over
  PROVE  /\ e.type = "end" => Walk(w, e) = [w EXCEPT !.over = TRUE]
         /\ e.type = "interface" =>
              /\ Walk(w, e).pairs = Flush(w).pairs
              /\ Walk(w, e).in = NoEndpoint /\ Walk(w, e).out = NoEndpoint
              /\ Walk(w, e).class = e.class /\ ~Walk(w, e).over
              /\ Walk(w, e).pending = IF e.class = "comm" THEN e.number ELSE Flush(w).pending
         /\ e.type = "endpoint" =>
              /\ w.class # "data" \/ ~e.bulk => Walk(w, e) = w
              /\ w.class = "data" /\ e.bulk /\ e.dir = "in" =>
                   Walk(w, e) = [w EXCEPT !.in = e.number]
              /\ w.class = "data" /\ e.bulk /\ e.dir = "out" =>
                   Walk(w, e) = [w EXCEPT !.out = e.number]
         /\ e.type = "other" => Walk(w, e) = w
<1>1. CASE e.type = "end"
  BY <1>1 DEF Walk
<1>2. CASE e.type = "interface"
  <2> DEFINE v == Flush(w)
  <2>1. v \in Walker /\ v.in = NoEndpoint /\ v.out = NoEndpoint /\ v.over = w.over
    BY FlushIs
  <2>2. Walk(w, e) = [v EXCEPT !.class = e.class,
                               !.pending = IF e.class = "comm" THEN e.number ELSE @]
    BY <1>2 DEF Walk, WalkInterface
  <2> HIDE DEF v
  <2>3. /\ Walk(w, e).pairs = v.pairs
        /\ Walk(w, e).in = NoEndpoint /\ Walk(w, e).out = NoEndpoint
        /\ Walk(w, e).class = e.class /\ ~Walk(w, e).over
        /\ Walk(w, e).pending = IF e.class = "comm" THEN e.number ELSE v.pending
    BY <2>1, <2>2 DEF Walker
  <2> QED
    BY <1>2, <2>3 DEF v
<1>3. CASE e.type = "endpoint"
  <2>1. Walk(w, e) = WalkEndpoint(w, e)
    BY <1>3 DEF Walk
  <2> QED
    BY <1>3, <2>1 DEF WalkEndpoint
<1>4. CASE e.type = "other"
  BY <1>4 DEF Walk
<1> QED
  BY <1>1, <1>2, <1>3, <1>4, EntryKinds

\* Where the walk ends: before the first entry of length 0.
LEMMA LastDeclaredIs ==
  ASSUME NEW descriptor \in Seq(Entry)
  PROVE  /\ LastDeclared(descriptor) \in 0..Len(descriptor)
         /\ \A i \in 1..LastDeclared(descriptor) : descriptor[i] # End
         /\ LastDeclared(descriptor) < Len(descriptor) =>
              descriptor[LastDeclared(descriptor) + 1] = End
<1> DEFINE n == Len(descriptor)
           Ends == {i \in Nat : i < n /\ descriptor[i + 1] = End}
           IsLast(m) == /\ \A i \in 1..m : descriptor[i] # End
                        /\ m < n => descriptor[m + 1] = End
<1>1. n \in Nat
  OBVIOUS
<1> HIDE DEF n
<1>2. \E m \in 0..n : IsLast(m)
  <2>1. CASE Ends = {}
    <3>1. ASSUME NEW i \in 1..n PROVE descriptor[i] # End
      <4>1. i - 1 \in Nat /\ i - 1 < n /\ (i - 1) + 1 = i
        BY <1>1
      <4> QED
        BY <2>1, <4>1
    <3> QED
      BY <1>1, <3>1
  <2>2. CASE Ends # {}
    <3>1. PICK m \in Ends : \A y \in Ends : m <= y
      BY <2>2, LeastElement
    <3>2. m \in 0..n /\ (m < n => descriptor[m + 1] = End)
      BY <1>1, <3>1
    <3>3. ASSUME NEW i \in 1..m PROVE descriptor[i] # End
      <4>1. i - 1 \in Nat /\ i - 1 < n /\ (i - 1) + 1 = i /\ ~(m <= i - 1)
        BY <1>1, <3>1
      <4>2. i - 1 \notin Ends
        BY <3>1, <4>1
      <4> QED
        BY <4>1, <4>2
    <3> QED
      BY <3>2, <3>3
  <2> QED
    BY <2>1, <2>2
<1>3. LastDeclared(descriptor) = CHOOSE m \in 0..n : IsLast(m)
  BY DEF LastDeclared, n
<1>4. LastDeclared(descriptor) \in 0..n /\ IsLast(LastDeclared(descriptor))
  <2> HIDE DEF IsLast
  <2> QED
    BY <1>2, <1>3
<1> QED
  BY <1>4 DEF n

\* An entry of length 0 ends the walk: what follows it changes nothing.
LEMMA NothingAfterEnd ==
  ASSUME NEW descriptor \in Seq(Entry), NEW f, WalkedBy(descriptor, f),
         NEW m \in 0..Len(descriptor), ~f[m].over,
         m < Len(descriptor) => descriptor[m + 1] = End
  PROVE  Flush(f[Len(descriptor)]).pairs = Flush(f[m]).pairs
<1> DEFINE n == Len(descriptor)
           last == [f[m] EXCEPT !.over = TRUE]
<1>1. /\ n \in Nat /\ f \in [0..n -> Walker] /\ \A k \in 1..n : descriptor[k] \in Entry
      /\ \A k \in 1..n : f[k] = Walk(f[k - 1], descriptor[k])
      /\ m \in 0..n /\ (m < n => descriptor[m + 1] = End)
  BY DEF WalkedBy
<1> HIDE DEF n
<1>2. f[m] \in Walker
  BY <1>1
<1>3. last \in Walker /\ last.over /\ last.pairs = f[m].pairs /\ last.class = f[m].class
      /\ last.in = f[m].in /\ last.out = f[m].out /\ last.pending = f[m].pending
  BY <1>2 DEF Walker
<1>4. Flush(last).pairs = Flush(f[m]).pairs
  <2> HIDE DEF last
  <2>1. CASE Closes(f[m])
    <3>1. Closes(last)
      BY <1>3, <2>1 DEF Closes
    <3>2. Flush(last).pairs = Append(last.pairs, Pair(last.pending, last.in, last.out))
      BY <1>3, <3>1, FlushIs
    <3>3. Flush(f[m]).pairs = Append(f[m].pairs, Pair(f[m].pending, f[m].in, f[m].out))
      BY <1>2, <2>1, FlushIs
    <3> QED
      BY <1>3, <3>2, <3>3
  <2>2. CASE ~Closes(f[m])
    <3>1. ~Closes(last)
      BY <1>3, <2>2 DEF Closes
    <3> QED
      BY <1>2, <1>3, <2>2, <3>1, FlushIs
  <2> QED
    BY <2>1, <2>2
<1>5. CASE m = n
  BY <1>5 DEF n
<1>6. CASE m < n
  <2> DEFINE S == {j \in Nat : m + 1 + j <= n => f[m + 1 + j] = last}
  <2>1. 0 \in S
    <3>1. m + 1 \in 1..n /\ (m + 1) - 1 = m /\ m + 1 + 0 = m + 1
      BY <1>1, <1>6
    <3>2. f[m + 1] = Walk(f[m], End) /\ End \in Entry /\ End.type = "end"
      BY <1>1, <1>6, <3>1 DEF End, Entry
    <3>3. f[m + 1] = last
      BY <1>2, <3>2, WalkIs
    <3> HIDE DEF last
    <3> QED
      BY <3>1, <3>3
  <2>2. ASSUME NEW j \in Nat, j \in S PROVE j + 1 \in S
    <3> HIDE DEF last
    <3> SUFFICES ASSUME m + 1 + (j + 1) <= n PROVE f[m + 1 + (j + 1)] = last
      OBVIOUS
    <3> DEFINE k == m + 1 + (j + 1)
    <3>1. k \in 1..n /\ k - 1 = m + 1 + j /\ m + 1 + j <= n
      BY <1>1
    <3>2. f[m + 1 + j] = last
      BY <2>2, <3>1
    <3>3. f[k] = Walk(last, descriptor[k])
      BY <1>1, <3>1, <3>2
    <3>4. Walk(last, descriptor[k]) = [last EXCEPT !.over = TRUE]
      BY <1>3 DEF Walk
    <3>5. [last EXCEPT !.over = TRUE] = last
      BY DEF last
    <3> QED
      BY <3>3, <3>4, <3>5
  <2> HIDE DEF S, last
  <2>3. Nat \subseteq S
    BY <2>1, <2>2, Induction
  <2>4. PICK j \in Nat : m + 1 + j = n
    <3>1. n - m - 1 \in Nat /\ m + 1 + (n - m - 1) = n
      BY <1>1, <1>6
    <3> QED
      BY <3>1
  <2>5. f[n] = last
    <3>1. j \in S /\ m + 1 + j <= n
      BY <1>1, <2>3, <2>4
    <3>2. f[m + 1 + j] = last
      BY <3>1 DEF S
    <3> QED
      BY <2>4, <3>2
  <2> QED
    BY <1>4, <2>5 DEF n
<1> QED
  BY <1>1, <1>5, <1>6

\* The interface the walk is in after k entries; 0 before the first.
IsOpen(d, c, k) ==
  /\ c \in 0..k
  /\ c # 0 => d[c].type = "interface"
  /\ \A l \in (c + 1)..k : d[l].type # "interface"

\* An interface has been left: the next one, or the end, is at k.
IsLeft(d, c, k) ==
  /\ k \in 1..(Len(d) + 1) /\ IsOpen(d, c, k - 1)
  /\ k <= Len(d) => d[k].type = "interface"

\* The endpoint of a direction that the walk has in hand after k entries.
SeenBulk(d, c, dir, k) == {x \in BulkAt(d, c, dir) : x <= k}
EndpointAt(d, c, dir, k) ==
  IF c # 0 /\ d[c].class = "data" /\ SeenBulk(d, c, dir, k) # {}
  THEN d[Max(SeenBulk(d, c, dir, k))].number ELSE NoEndpoint

\* The pairs of some functions, in the order of the descriptor.
PairsOf(d, S, listed) ==
  \E places \in Seq(Nat) :
    /\ InOrder(places, S) /\ Len(listed) = Len(places)
    /\ \A j \in 1..Len(places) : listed[j] = FunctionAt(d, places[j])

FunctionsBefore(d, c) == {i \in FunctionsAt(d) : i < c}

\* What the walk holds after k entries, in interface c.
WalkedTo(d, c, k, w) ==
  /\ IsOpen(d, c, k) /\ ~w.over
  /\ w.class = IF c = 0 THEN "none" ELSE d[c].class
  /\ w.in = EndpointAt(d, c, "in", k) /\ w.out = EndpointAt(d, c, "out", k)
  /\ w.pending = IF c # 0 /\ d[c].class = "comm" THEN d[c].number ELSE ControlOf(d, c)
  /\ PairsOf(d, FunctionsBefore(d, c), w.pairs)

LEMMA EndpointSeen ==
  ASSUME NEW d \in Seq(Entry), NEW c, NEW dir, NEW k \in Nat, SeenBulk(d, c, dir, k) # {}
  PROVE  /\ Max(SeenBulk(d, c, dir, k)) \in SeenBulk(d, c, dir, k)
         /\ d[Max(SeenBulk(d, c, dir, k))].number \in 1..15
<1> DEFINE S == SeenBulk(d, c, dir, k)
<1>1. S \in SUBSET (1..Len(d)) /\ Len(d) \in Nat
  BY DEF SeenBulk, BulkAt
<1>2. Max(S) \in S
  BY <1>1, MaxOfPart
<1>3. d[Max(S)] \in Entry /\ d[Max(S)].type = "endpoint"
  BY <1>2 DEF SeenBulk, BulkAt
<1> QED
  BY <1>2, <1>3, EntryKinds

\* All the endpoints of an interface come before it is left.
LEMMA AllSeenWhenLeft ==
  ASSUME NEW d \in Seq(Entry), NEW c, NEW k, IsLeft(d, c, k), NEW dir
  PROVE  SeenBulk(d, c, dir, k - 1) = BulkAt(d, c, dir)
<1>1. k \in 1..(Len(d) + 1) /\ c \in 0..(k - 1) /\ Len(d) \in Nat
  BY DEF IsLeft, IsOpen
<1>2. ASSUME NEW x \in BulkAt(d, c, dir) PROVE x <= k - 1
  <2>1. x \in 1..Len(d) /\ \A l \in (c + 1)..x : d[l].type # "interface"
    BY DEF BulkAt
  <2>2. CASE x >= k
    <3>1. k <= Len(d) /\ k \in (c + 1)..x
      BY <1>1, <2>1, <2>2
    <3> QED
      BY <2>1, <3>1 DEF IsLeft
  <2> QED
    BY <1>1, <2>1, <2>2
<1> QED
  BY <1>2 DEF SeenBulk

\* Leaving an interface adds at most that one to the functions gone by.
LEMMA FunctionsWhenLeft ==
  ASSUME NEW d \in Seq(Entry), NEW c, NEW k, IsLeft(d, c, k)
  PROVE  /\ c \in FunctionsAt(d) => FunctionsBefore(d, k) = FunctionsBefore(d, c) \cup {c}
         /\ c \notin FunctionsAt(d) => FunctionsBefore(d, k) = FunctionsBefore(d, c)
<1>1. k \in 1..(Len(d) + 1) /\ c \in 0..(k - 1) /\ Len(d) \in Nat
  BY DEF IsLeft, IsOpen
<1>2. ASSUME NEW i \in FunctionsAt(d) PROVE i < k <=> i < c \/ i = c
  <2>1. i \in 1..Len(d) /\ d[i].type = "interface"
    BY DEF FunctionsAt, InterfacesAt
  <2>2. ~(i \in (c + 1)..(k - 1))
    BY <2>1 DEF IsLeft, IsOpen
  <2> QED
    BY <1>1, <2>1, <2>2
<1> QED
  BY <1>1, <1>2 DEF FunctionsBefore

\* A function is what makes a pair.
LEMMA ClosesFunctions ==
  ASSUME NEW d \in Seq(Entry), NEW c, NEW k, IsLeft(d, c, k),
         NEW w \in Walker, WalkedTo(d, c, k - 1, w)
  PROVE  /\ Closes(w) <=> c \in FunctionsAt(d)
         /\ Closes(w) => Pair(w.pending, w.in, w.out) = FunctionAt(d, c)
<1>1. k \in 1..(Len(d) + 1) /\ c \in 0..(k - 1) /\ Len(d) \in Nat /\ k - 1 \in Nat
  BY DEF IsLeft, IsOpen
<1>2. \A dir \in {"in", "out"} : SeenBulk(d, c, dir, k - 1) = BulkAt(d, c, dir)
  BY AllSeenWhenLeft
<1>3. w.class = "data" <=> c # 0 /\ d[c].class = "data"
  BY DEF WalkedTo
<1>4. c # 0 => d[c].type = "interface" /\ c \in DOMAIN d
  BY <1>1 DEF IsLeft, IsOpen
<1>5. ~(0 \in FunctionsAt(d))
  BY DEF FunctionsAt, InterfacesAt
<1>6. ASSUME w.class = "data"
      PROVE  /\ w.in # NoEndpoint <=> BulkAt(d, c, "in") # {}
             /\ w.out # NoEndpoint <=> BulkAt(d, c, "out") # {}
             /\ w.in # NoEndpoint => w.in = d[Max(BulkAt(d, c, "in"))].number
             /\ w.out # NoEndpoint => w.out = d[Max(BulkAt(d, c, "out"))].number
  <2>1. ASSUME NEW dir \in {"in", "out"}
        PROVE  /\ EndpointAt(d, c, dir, k - 1) # NoEndpoint <=> BulkAt(d, c, dir) # {}
               /\ BulkAt(d, c, dir) # {} =>
                    EndpointAt(d, c, dir, k - 1) = d[Max(BulkAt(d, c, dir))].number
    <3>1. BulkAt(d, c, dir) # {} => d[Max(BulkAt(d, c, dir))].number \in 1..15
      BY <1>1, <1>2, EndpointSeen
    <3>2. ~(0 \in 1..15)
      OBVIOUS
    <3>3. CASE BulkAt(d, c, dir) = {}
      BY <1>2, <3>3 DEF EndpointAt
    <3>4. CASE BulkAt(d, c, dir) # {}
      <4>1. EndpointAt(d, c, dir, k - 1) = d[Max(BulkAt(d, c, dir))].number
        BY <1>2, <1>3, <1>6, <3>4 DEF EndpointAt
      <4> QED
        BY <3>1, <3>2, <3>4, <4>1 DEF NoEndpoint
    <3> QED
      BY <3>3, <3>4
  <2> QED
    BY <2>1 DEF WalkedTo
<1>7. Closes(w) <=> c \in FunctionsAt(d)
  BY <1>3, <1>4, <1>5, <1>6 DEF Closes, FunctionsAt, InterfacesAt
<1>8. ASSUME Closes(w) PROVE Pair(w.pending, w.in, w.out) = FunctionAt(d, c)
  <2>1. w.pending = ControlOf(d, c)
    BY <1>3, <1>8 DEF Closes, WalkedTo
  <2> QED
    BY <1>6, <1>8, <2>1 DEF Closes, FunctionAt
<1> QED
  BY <1>7, <1>8

\* What controls the function that would come next.
LEMMA ControlWhenLeft ==
  ASSUME NEW d \in Seq(Entry), NEW c, NEW k, IsLeft(d, c, k),
         NEW w \in Walker, WalkedTo(d, c, k - 1, w)
  PROVE  Flush(w).pending = ControlOf(d, k)
<1> DEFINE Before(i) == {x \in InterfacesAt(d, "comm") : x < i}
           Free(i) == \E x \in Before(i) : \A f \in FunctionsAt(d) : ~(x < f /\ f < i)
<1>1. k \in 1..(Len(d) + 1) /\ c \in 0..(k - 1) /\ Len(d) \in Nat
  BY DEF IsLeft, IsOpen
<1>2. \A i : ControlOf(d, i) = IF Free(i) THEN d[Max(Before(i))].number ELSE NoInterface
  BY DEF ControlOf
<1>3. ASSUME NEW x \in DOMAIN d, d[x].type = "interface", x < k PROVE x <= c
  <2>1. ~(x \in (c + 1)..(k - 1))
    BY <1>3 DEF IsLeft, IsOpen
  <2> QED
    BY <1>1, <1>3, <2>1
<1>4. \A x \in InterfacesAt(d, "comm") \cup FunctionsAt(d) :
        x \in 1..Len(d) /\ d[x].type = "interface"
  BY DEF InterfacesAt, FunctionsAt
<1>5. CASE Closes(w)
  <2>1. c \in FunctionsAt(d)
    BY <1>5, ClosesFunctions
  <2>2. d[c].class = "data"
    BY <2>1 DEF FunctionsAt, InterfacesAt
  <2>3. ~Free(k)
    <3> SUFFICES ASSUME NEW x \in Before(k) PROVE x < c /\ c < k
      BY <2>1
    <3>1. x <= c /\ x # c
      BY <1>3, <1>4, <2>2 DEF InterfacesAt
    <3> QED
      BY <1>1, <1>4, <3>1
  <2> QED
    BY <1>2, <1>5, <2>3, FlushIs
<1>6. CASE ~Closes(w) /\ c # 0 /\ d[c].class = "comm"
  <2>1. Flush(w).pending = d[c].number
    BY <1>6, FlushIs DEF WalkedTo
  <2>2. c \in Before(k)
    BY <1>1, <1>6 DEF IsLeft, IsOpen, InterfacesAt
  <2>3. Free(k)
    <3>1. \A f \in FunctionsAt(d) : ~(c < f /\ f < k)
      BY <1>1, <1>3, <1>4
    <3> QED
      BY <2>2, <3>1
  <2>4. Max(Before(k)) = c
    <3>1. Before(k) \in SUBSET (1..Len(d)) /\ Before(k) # {}
      BY <2>2 DEF InterfacesAt
    <3>2. Max(Before(k)) \in Before(k) /\ Max(Before(k)) >= c
      BY <1>1, <2>2, <3>1, MaxOfPart
    <3>3. Max(Before(k)) <= c
      BY <1>3, <1>4, <3>2
    <3> HIDE DEF Before
    <3>4. Max(Before(k)) \in Nat
      BY <3>1, <3>2
    <3> QED
      BY <1>1, <3>2, <3>3, <3>4
  <2> HIDE DEF Before, Free
  <2> QED
    BY <1>2, <2>1, <2>3, <2>4
<1>7. CASE ~Closes(w) /\ ~(c # 0 /\ d[c].class = "comm")
  <2>1. Flush(w).pending = ControlOf(d, c)
    BY <1>7, FlushIs DEF WalkedTo
  <2>2. c \notin FunctionsAt(d)
    BY <1>7, ClosesFunctions
  <2>3. Before(k) = Before(c)
    <3>1. ASSUME NEW x \in InterfacesAt(d, "comm") PROVE x < k <=> x < c
      <4>1. x # c
        BY <1>7 DEF InterfacesAt
      <4> QED
        BY <1>1, <1>3, <1>4, <4>1
    <3> QED
      BY <3>1
  <2>4. ASSUME NEW f \in FunctionsAt(d) PROVE f < k <=> f < c
    BY <1>1, <1>3, <1>4, <2>2
  <2>5. Free(k) <=> Free(c)
    BY <2>3, <2>4
  <2> HIDE DEF Before, Free
  <2> QED
    BY <1>2, <2>1, <2>3, <2>5
<1> QED
  BY <1>5, <1>6, <1>7

LEMMA PairsWhenLeft ==
  ASSUME NEW d \in Seq(Entry), NEW c, NEW k, IsLeft(d, c, k),
         NEW w \in Walker, WalkedTo(d, c, k - 1, w)
  PROVE  PairsOf(d, FunctionsBefore(d, k), Flush(w).pairs)
<1>1. PICK places \in Seq(Nat) :
        /\ InOrder(places, FunctionsBefore(d, c)) /\ Len(w.pairs) = Len(places)
        /\ \A j \in 1..Len(places) : w.pairs[j] = FunctionAt(d, places[j])
  BY DEF WalkedTo, PairsOf
<1>2. CASE ~Closes(w)
  <2>1. Flush(w).pairs = w.pairs /\ FunctionsBefore(d, k) = FunctionsBefore(d, c)
    BY <1>2, FlushIs, ClosesFunctions, FunctionsWhenLeft
  <2> QED
    BY <1>1, <2>1 DEF PairsOf
<1>3. CASE Closes(w)
  <2> DEFINE more == Append(places, c)
             n == Len(places)
  <2>1. /\ Flush(w).pairs = Append(w.pairs, FunctionAt(d, c))
        /\ FunctionsBefore(d, k) = FunctionsBefore(d, c) \cup {c}
    BY <1>3, FlushIs, ClosesFunctions, FunctionsWhenLeft
  <2>2. c \in Nat
    BY <1>3, ClosesFunctions DEF FunctionsAt, InterfacesAt
  <2>3. /\ n \in Nat /\ more \in Seq(Nat) /\ Len(more) = n + 1 /\ more[n + 1] = c
        /\ \A j \in 1..n : more[j] = places[j] /\ places[j] \in Nat
    BY <2>2
  <2>4. DOMAIN more = 1..(n + 1) /\ DOMAIN places = 1..n
    BY <2>3
  <2> HIDE DEF more
  <2>5. ToSet(places) = FunctionsBefore(d, c)
    BY <1>1 DEF InOrder
  <2>6. \A j \in 1..n : places[j] < c
    <3>1. \A j \in 1..n : places[j] \in ToSet(places)
      BY <2>4 DEF ToSet
    <3> QED
      BY <2>5, <3>1 DEF FunctionsBefore
  <2> HIDE DEF n
  <2>7. ToSet(more) = FunctionsBefore(d, c) \cup {c}
    <3>1. n + 1 \in 1..(n + 1) /\ 1..n \subseteq 1..(n + 1)
      BY <2>3
    <3>2. ASSUME NEW x \in ToSet(more) PROVE x \in ToSet(places) \cup {c}
      <4>1. PICK j \in 1..(n + 1) : x = more[j]
        BY <2>4, <3>2 DEF ToSet
      <4>2. CASE j \in 1..n
        BY <2>3, <2>4, <4>1, <4>2 DEF ToSet
      <4>3. CASE j = n + 1
        BY <2>3, <4>1, <4>3
      <4> QED
        BY <2>3, <4>2, <4>3
    <3>3. ASSUME NEW x \in ToSet(places) PROVE x \in ToSet(more)
      <4>1. PICK j \in 1..n : x = places[j]
        BY <2>4, <3>3 DEF ToSet
      <4> QED
        BY <2>3, <2>4, <3>1, <4>1 DEF ToSet
    <3>4. c \in ToSet(more)
      BY <2>3, <2>4, <3>1 DEF ToSet
    <3> QED
      BY <2>5, <3>2, <3>3, <3>4
  <2>8. ASSUME NEW i \in 1..(n + 1), NEW j \in 1..(n + 1), i < j PROVE more[i] < more[j]
    <3>1. i \in 1..n
      BY <2>3, <2>8
    <3>2. CASE j \in 1..n
      BY <1>1, <2>3, <2>4, <2>8, <3>1, <3>2 DEF InOrder
    <3>3. CASE j = n + 1
      BY <2>3, <2>6, <3>1, <3>3
    <3> QED
      BY <2>3, <3>2, <3>3
  <2>9. InOrder(more, FunctionsBefore(d, k))
    BY <2>1, <2>4, <2>7, <2>8 DEF InOrder
  <2>10. /\ Len(Flush(w).pairs) = Len(more)
         /\ \A j \in 1..Len(more) : Flush(w).pairs[j] = FunctionAt(d, more[j])
    <3> DEFINE p == w.pairs
    <3>1. p \in Seq(CdcDataPair) /\ Len(p) = n
      BY <1>1 DEF Walker, n
    <3>2. /\ Len(Append(p, FunctionAt(d, c))) = n + 1
          /\ Append(p, FunctionAt(d, c))[n + 1] = FunctionAt(d, c)
          /\ \A j \in 1..n : Append(p, FunctionAt(d, c))[j] = p[j]
      <4> HIDE DEF p
      <4> QED
        BY <3>1
    <3>3. \A j \in 1..n : p[j] = FunctionAt(d, places[j])
      BY <1>1 DEF n
    <3>4. ASSUME NEW j \in 1..(n + 1) PROVE Flush(w).pairs[j] = FunctionAt(d, more[j])
      <4>1. CASE j \in 1..n
        BY <2>1, <2>3, <3>2, <3>3, <4>1
      <4>2. CASE j = n + 1
        BY <2>1, <2>3, <3>2, <4>2
      <4> QED
        BY <2>3, <4>1, <4>2
    <3> QED
      BY <2>1, <2>3, <3>2, <3>4
  <2> QED
    BY <2>3, <2>9, <2>10 DEF PairsOf
<1> QED
  BY <1>2, <1>3

\* What an entry that opens no interface adds to the endpoints in hand.
LEMMA EndpointTaken ==
  ASSUME NEW d \in Seq(Entry), NEW k \in 1..Len(d), NEW c, IsOpen(d, c, k - 1),
         d[k].type # "interface", NEW dir
  PROVE  EndpointAt(d, c, dir, k) =
           IF /\ c # 0 /\ d[c].class = "data"
              /\ d[k].type = "endpoint" /\ d[k].bulk /\ d[k].dir = dir
           THEN d[k].number ELSE EndpointAt(d, c, dir, k - 1)
<1>1. c \in 0..(k - 1) /\ Len(d) \in Nat /\ k \in DOMAIN d /\ k \in Nat
  BY DEF IsOpen
<1>2. \A l \in (c + 1)..k : d[l].type # "interface"
  BY <1>1 DEF IsOpen
<1>3. k \in BulkAt(d, c, dir) <=> d[k].type = "endpoint" /\ d[k].bulk /\ d[k].dir = dir
  BY <1>1, <1>2 DEF BulkAt
<1>4. BulkAt(d, c, dir) \in SUBSET (1..Len(d))
  BY DEF BulkAt
<1>5. CASE k \in BulkAt(d, c, dir)
  <2> DEFINE S == SeenBulk(d, c, dir, k)
  <2>1. S \in SUBSET (1..Len(d)) /\ k \in S /\ \A x \in S : x <= k
    BY <1>1, <1>4, <1>5 DEF SeenBulk
  <2>2. Max(S) = k
    <3>1. Max(S) \in S /\ Max(S) >= k
      BY <1>1, <2>1, MaxOfPart
    <3> HIDE DEF S
    <3>2. Max(S) <= k
      BY <2>1, <3>1
    <3>3. Max(S) \in 1..Len(d)
      BY <2>1, <3>1
    <3>4. Max(S) \in Nat
      BY <3>3
    <3> QED
      BY <1>1, <3>1, <3>2, <3>4
  <2>3. S # {}
    BY <2>1
  <2>4. EndpointAt(d, c, dir, k) =
          IF c # 0 /\ d[c].class = "data" THEN d[k].number ELSE NoEndpoint
    BY <2>2, <2>3 DEF EndpointAt
  <2>5. ~(c # 0 /\ d[c].class = "data") => EndpointAt(d, c, dir, k - 1) = NoEndpoint
    BY DEF EndpointAt
  <2> QED
    BY <1>3, <1>5, <2>4, <2>5
<1>6. CASE k \notin BulkAt(d, c, dir)
  <2>1. SeenBulk(d, c, dir, k) = SeenBulk(d, c, dir, k - 1)
    BY <1>1, <1>4, <1>6 DEF SeenBulk
  <2>2. EndpointAt(d, c, dir, k) = EndpointAt(d, c, dir, k - 1)
    BY <2>1 DEF EndpointAt
  <2> QED
    BY <1>3, <1>6, <2>2
<1> QED
  BY <1>5, <1>6

LEMMA WalkedFurther ==
  ASSUME NEW d \in Seq(Entry), NEW k \in 1..Len(d), d[k] # End,
         NEW c, NEW w \in Walker, WalkedTo(d, c, k - 1, w)
  PROVE  \E open : WalkedTo(d, open, k, Walk(w, d[k]))
<1> DEFINE e == d[k]
           v == Walk(w, e)
<1>1. e \in Entry /\ e.type # "end" /\ ~w.over /\ Len(d) \in Nat /\ k \in Nat
  BY EntryKinds DEF WalkedTo
<1>2. IsOpen(d, c, k - 1) /\ c \in 0..(k - 1)
  BY DEF WalkedTo, IsOpen
<1>3. CASE e.type = "interface"
  <2>1. IsLeft(d, c, k)
    BY <1>1, <1>2, <1>3 DEF IsLeft
  <2>2. /\ Flush(w).pending = ControlOf(d, k)
        /\ PairsOf(d, FunctionsBefore(d, k), Flush(w).pairs)
    BY <2>1, ControlWhenLeft, PairsWhenLeft
  <2>3. IsOpen(d, k, k)
    BY <1>1, <1>3 DEF IsOpen
  <2>4. ASSUME NEW dir PROVE EndpointAt(d, k, dir, k) = NoEndpoint
    <3>1. SeenBulk(d, k, dir, k) = {}
      BY <1>1 DEF SeenBulk, BulkAt
    <3> QED
      BY <3>1 DEF EndpointAt
  <2>5. k # 0
    BY <1>1
  <2> HIDE DEF e
  <2>6. /\ v.pairs = Flush(w).pairs /\ v.in = NoEndpoint /\ v.out = NoEndpoint
        /\ v.class = e.class /\ ~v.over
        /\ v.pending = IF e.class = "comm" THEN e.number ELSE Flush(w).pending
    BY <1>1, <1>3, WalkIs
  <2> HIDE DEF v
  <2>7. WalkedTo(d, k, k, v)
    BY <2>2, <2>3, <2>4, <2>5, <2>6 DEF WalkedTo, e
  <2> QED
    BY <2>7 DEF v, e
<1>4. CASE e.type # "interface"
  <2>1. IsOpen(d, c, k)
    BY <1>1, <1>2, <1>4 DEF IsOpen
  <2> DEFINE Takes(dir) == /\ c # 0 /\ d[c].class = "data"
                           /\ e.type = "endpoint" /\ e.bulk /\ e.dir = dir
  <2>2. \A dir : EndpointAt(d, c, dir, k) =
                   IF Takes(dir) THEN e.number ELSE EndpointAt(d, c, dir, k - 1)
    BY <1>2, <1>4, EndpointTaken
  <2>3. w.class = "data" <=> c # 0 /\ d[c].class = "data"
    BY DEF WalkedTo
  <2>4. /\ v.pairs = w.pairs /\ v.pending = w.pending /\ v.class = w.class /\ v.over = w.over
        /\ v.in = IF Takes("in") THEN e.number ELSE w.in
        /\ v.out = IF Takes("out") THEN e.number ELSE w.out
    <3> HIDE DEF e
    <3>1. CASE e.type = "other"
      <4>1. v = w
        BY <1>1, <3>1, WalkIs
      <4> QED
        BY <3>1, <4>1
    <3>2. CASE e.type = "endpoint" /\ (w.class # "data" \/ ~e.bulk)
      <4>1. v = w
        BY <1>1, <3>2, WalkIs
      <4> QED
        BY <2>3, <3>2, <4>1
    <3>3. CASE e.type = "endpoint" /\ w.class = "data" /\ e.bulk /\ e.dir = "in"
      <4>1. v = [w EXCEPT !.in = e.number]
        BY <1>1, <3>3, WalkIs
      <4> HIDE DEF v
      <4> QED
        BY <2>3, <3>3, <4>1 DEF Walker
    <3>4. CASE e.type = "endpoint" /\ w.class = "data" /\ e.bulk /\ e.dir = "out"
      <4>1. v = [w EXCEPT !.out = e.number]
        BY <1>1, <3>4, WalkIs
      <4> HIDE DEF v
      <4> QED
        BY <2>3, <3>4, <4>1 DEF Walker
    <3>5. \/ e.type = "other"
          \/ e.type = "endpoint" /\ e.dir \in {"in", "out"}
      BY <1>1, <1>4, EntryKinds
    <3> QED
      BY <3>1, <3>2, <3>3, <3>4, <3>5
  <2> HIDE DEF v, e, Takes
  <2>5. v.in = EndpointAt(d, c, "in", k) /\ v.out = EndpointAt(d, c, "out", k)
    BY <2>2, <2>4 DEF WalkedTo
  <2>6. WalkedTo(d, c, k, v)
    BY <2>1, <2>4, <2>5 DEF WalkedTo
  <2> QED
    BY <2>6 DEF v, e
<1> QED
  BY <1>3, <1>4

\* There is one way to put a set of numbers in order.
LEMMA OneOrder ==
  ASSUME NEW S \in SUBSET Nat, NEW n \in Nat,
         NEW p \in [1..n -> S], InOrder(p, S), NEW q \in [1..n -> S], InOrder(q, S)
  PROVE  p = q
<1> DEFINE Differ == {j \in 1..n : p[j] # q[j]}
<1>1. /\ DOMAIN p = 1..n /\ DOMAIN q = 1..n
      /\ \A j \in 1..n : p[j] \in S /\ p[j] \in Nat /\ q[j] \in S /\ q[j] \in Nat
  OBVIOUS
<1>2. /\ \A x \in S : \E j \in 1..n : x = p[j]
      /\ \A x \in S : \E j \in 1..n : x = q[j]
  BY <1>1 DEF InOrder, ToSet
<1>3. \A i, j \in 1..n : i < j => p[i] < p[j] /\ q[i] < q[j]
  BY <1>1 DEF InOrder
<1>4. SUFFICES ASSUME Differ # {} PROVE FALSE
  BY <1>1
<1>5. PICK j \in Differ : \A y \in Differ : j <= y
  <2>1. Differ \in SUBSET Nat
    OBVIOUS
  <2> QED
    BY <1>4, <2>1, LeastElement
<1>6. \A i \in 1..n : i < j => p[i] = q[i]
  BY <1>5
<1>7. j \in 1..n /\ p[j] # q[j]
  BY <1>5
<1>8. q[j] <= p[j]
  <2>1. PICK l \in 1..n : p[j] = q[l]
    BY <1>1, <1>2, <1>7
  <2>2. ~(l < j)
    <3> SUFFICES ASSUME l < j PROVE FALSE
      OBVIOUS
    <3>1. p[l] = p[j] /\ p[l] < p[j]
      BY <1>3, <1>6, <1>7, <2>1
    <3> QED
      BY <1>1, <1>7, <3>1
  <2>3. l = j \/ j < l
    BY <1>7, <2>2
  <2> QED
    BY <1>1, <1>3, <1>7, <2>1, <2>3
<1>9. p[j] <= q[j]
  <2>1. PICK l \in 1..n : q[j] = p[l]
    BY <1>1, <1>2, <1>7
  <2>2. ~(l < j)
    <3> SUFFICES ASSUME l < j PROVE FALSE
      OBVIOUS
    <3>1. q[l] = q[j] /\ q[l] < q[j]
      BY <1>3, <1>6, <1>7, <2>1
    <3> QED
      BY <1>1, <1>7, <3>1
  <2>3. l = j \/ j < l
    BY <1>7, <2>2
  <2> QED
    BY <1>1, <1>3, <1>7, <2>1, <2>3
<1> QED
  BY <1>1, <1>7, <1>8, <1>9

\* The order that PlacesInOrder chooses is any that there is.
LEMMA PlacesAre ==
  ASSUME NEW S \in SUBSET Nat, NEW places \in Seq(Nat), InOrder(places, S)
  PROVE  PlacesInOrder(S) = places
<1> DEFINE n == Len(places)
<1>1. n \in Nat /\ DOMAIN places = 1..n /\ places = [j \in 1..n |-> places[j]]
  OBVIOUS
<1> HIDE DEF n
<1>2. places \in [1..n -> S]
  <2>1. \A j \in 1..n : places[j] \in S
    BY <1>1 DEF InOrder, ToSet
  <2> QED
    BY <1>1, <2>1
<1>3. Cardinality(S) = n
  <2>1. \A i, j \in 1..n : places[i] = places[j] => i = j
    <3> SUFFICES ASSUME NEW i \in 1..n, NEW j \in 1..n, places[i] = places[j] PROVE i = j
      OBVIOUS
    <3>1. i < j => places[i] < places[j]
      BY <1>1 DEF InOrder
    <3>2. j < i => places[j] < places[i]
      BY <1>1 DEF InOrder
    <3>3. places[i] \in S /\ i \in Nat /\ j \in Nat
      BY <1>1, <1>2
    <3>4. places[i] \in Nat
      BY <3>3
    <3> QED
      BY <3>1, <3>2, <3>3, <3>4
  <2>2. \A x \in S : \E j \in 1..n : places[j] = x
    BY <1>1 DEF InOrder, ToSet
  <2>3. places \in Bijection(1..n, S)
    BY <1>2, <2>1, <2>2 DEF Bijection, Injection, Surjection, IsInjective
  <2> QED
    BY <1>1, <2>3, FS_CountingElements DEF ExistsBijection
<1>4. PlacesInOrder(S) \in [1..n -> S] /\ InOrder(PlacesInOrder(S), S)
  BY <1>2, <1>3 DEF PlacesInOrder
<1> QED
  BY <1>1, <1>2, <1>4, OneOrder

\* ParseCdcDataPairs finds the functions a device declares, whatever its
\* configuration descriptor holds.
THEOREM ParserFindsFunctions == \A descriptor \in Seq(Entry) : ParsedAsDeclared(descriptor)
<1> SUFFICES ASSUME NEW descriptor \in Seq(Entry) PROVE ParsedAsDeclared(descriptor)
  OBVIOUS
<1> DEFINE n == Len(descriptor)
           m == LastDeclared(descriptor)
           d == SubSeq(descriptor, 1, m)
<1>1. n \in Nat /\ m \in 0..n /\ (\A i \in 1..m : descriptor[i] # End)
      /\ (m < n => descriptor[m + 1] = End)
  BY LastDeclaredIs
<1>2. PICK f : /\ WalkedBy(descriptor, f)
               /\ FoldLeft(Walk, WalkStart, descriptor) = f[n]
  BY WalkEntryByEntry
<1>3. /\ f \in [0..n -> Walker] /\ f[0] = WalkStart
      /\ \A k \in 1..n : f[k] = Walk(f[k - 1], descriptor[k])
  BY <1>2 DEF WalkedBy
<1>4. d \in Seq(Entry) /\ Len(d) = m /\ \A k \in 1..m : d[k] = descriptor[k]
  <2> HIDE DEF m
  <2>1. SubSeq(descriptor, 1, m) \in Seq(Entry) /\ Len(SubSeq(descriptor, 1, m)) = m
    BY <1>1
  <2>2. ASSUME NEW k \in 1..m PROVE SubSeq(descriptor, 1, m)[k] = descriptor[k]
    BY <1>1
  <2> QED
    BY <2>1, <2>2
<1> HIDE DEF d, m, n
<1>5. ASSUME NEW k \in 0..m PROVE \E c : WalkedTo(d, c, k, f[k])
  <2> DEFINE Done == {k1 \in Nat : k1 <= m => \E c : WalkedTo(d, c, k1, f[k1])}
  <2>1. 0 \in Done
    <3>1. IsOpen(d, 0, 0)
      BY DEF IsOpen
    <3>2. ControlOf(d, 0) = NoInterface /\ FunctionsBefore(d, 0) = {}
      <4>1. \A x \in DOMAIN d : ~(x < 0)
        BY <1>1, <1>4
      <4> QED
        BY <4>1 DEF ControlOf, FunctionsBefore, FunctionsAt, InterfacesAt
    <3>3. PairsOf(d, {}, << >>)
      <4>1. << >> \in Seq(Nat) /\ Len(<< >>) = 0 /\ DOMAIN << >> = {} /\ 1..0 = {}
        OBVIOUS
      <4>2. InOrder(<< >>, {})
        BY <4>1 DEF InOrder, ToSet
      <4> QED
        BY <4>1, <4>2 DEF PairsOf
    <3>4. WalkedTo(d, 0, 0, WalkStart)
      BY <3>1, <3>2, <3>3 DEF WalkedTo, WalkStart, EndpointAt
    <3> QED
      BY <1>3, <3>4
  <2>2. ASSUME NEW j \in Nat, j \in Done PROVE j + 1 \in Done
    <3> SUFFICES ASSUME j + 1 <= m PROVE \E c : WalkedTo(d, c, j + 1, f[j + 1])
      OBVIOUS
    <3>1. j + 1 \in 1..m /\ j + 1 \in 1..n /\ (j + 1) - 1 = j /\ j <= m /\ j \in 0..n
      BY <1>1
    <3>2. PICK c : WalkedTo(d, c, j, f[j])
      BY <2>2, <3>1
    <3>3. f[j] \in Walker /\ f[j + 1] = Walk(f[j], d[j + 1]) /\ d[j + 1] # End
      BY <1>1, <1>3, <1>4, <3>1
    <3>4. j + 1 \in 1..Len(d) /\ WalkedTo(d, c, (j + 1) - 1, f[j])
      BY <1>4, <3>1, <3>2
    <3>5. \E open : WalkedTo(d, open, j + 1, Walk(f[j], d[j + 1]))
      BY <1>4, <3>3, <3>4, WalkedFurther
    <3> QED
      BY <3>3, <3>5
  <2> HIDE DEF Done
  <2>3. Nat \subseteq Done
    BY <2>1, <2>2, Induction
  <2>4. k \in Done /\ k <= m
    BY <1>1, <2>3
  <2> QED
    BY <2>4 DEF Done
<1>6. m \in 0..m /\ f[m] \in Walker
  BY <1>1, <1>3
<1>7. PICK c : WalkedTo(d, c, m, f[m])
  BY <1>5, <1>6
<1>8. IsLeft(d, c, m + 1) /\ WalkedTo(d, c, (m + 1) - 1, f[m])
  BY <1>1, <1>4, <1>7 DEF WalkedTo, IsLeft
<1>9. PairsOf(d, FunctionsBefore(d, m + 1), Flush(f[m]).pairs)
  BY <1>4, <1>6, <1>8, PairsWhenLeft
<1>10. FunctionsBefore(d, m + 1) = FunctionsAt(d) /\ FunctionsAt(d) \in SUBSET Nat
  <2>1. \A i \in FunctionsAt(d) : i \in 1..m
    BY <1>4 DEF FunctionsAt, InterfacesAt
  <2> QED
    BY <1>1, <2>1 DEF FunctionsBefore
<1>11. ParseCdcDataPairs(descriptor) = Flush(f[m]).pairs
  <2>1. Flush(f[n]).pairs = Flush(f[m]).pairs
    BY <1>1, <1>2, <1>7, NothingAfterEnd DEF n, WalkedTo
  <2> QED
    BY <1>2, <2>1 DEF ParseCdcDataPairs
<1> DEFINE found == Flush(f[m]).pairs
<1>12. found \in Seq(CdcDataPair)
  BY <1>6, FlushIs DEF Walker
<1>13. found = CdcFunctions(descriptor)
  <2>1. PICK places \in Seq(Nat) :
          /\ InOrder(places, FunctionsAt(d)) /\ Len(found) = Len(places)
          /\ \A j \in 1..Len(places) : found[j] = FunctionAt(d, places[j])
    BY <1>9, <1>10 DEF PairsOf
  <2>2. PlacesInOrder(FunctionsAt(d)) = places
    BY <1>10, <2>1, PlacesAre
  <2>3. Declared(descriptor) = d
    BY DEF Declared, d, m
  <2>4. CdcFunctions(descriptor) = [j \in DOMAIN places |-> FunctionAt(d, places[j])]
    BY <2>2, <2>3 DEF CdcFunctions
  <2>5. DOMAIN places = 1..Len(places)
    OBVIOUS
  <2> HIDE DEF found
  <2>6. found = [j \in 1..Len(found) |-> found[j]]
    BY <1>12
  <2> QED
    BY <2>1, <2>4, <2>5, <2>6
<1> QED
  BY <1>11, <1>12, <1>13 DEF ParsedAsDeclared

-----------------------------------------------------------------------------
(* The theorems.                                                           *)

LEMMA ChainInit == Init => ChainInvariant /\ HostBytesInvariant
<1>. SUFFICES ASSUME Init PROVE ChainInvariant /\ HostBytesInvariant
  OBVIOUS
<1>1. Items(<< >>) = {} /\ Len(<< >>) = 0
  BY DEF Items
<1>2. ControlInvariant
  <2>1. Ep0TypeOK
    <3>1. MaxPacket \in Nat /\ MaxStalls \in Nat
      BY Ep0Assumption DEF Ep0Assumption
    <3>2. 0 \in 0..MaxPacket /\ 0 \in 0..MaxStalls
      BY <3>1
    <3>3. << >> \in Seq(Request)
      OBVIOUS
    <3>. QED
      BY <3>2, <3>3 DEF Init, Ep0Init, Ep0TypeOK
  <2>2. TransferOwned /\ AttachUndisturbed /\ ChainNotOrphaned /\ stage \in Stage
    BY DEF Init, Ep0Init, Stage, TransferOwned, AttachUndisturbed, ChainNotOrphaned
  <2>. QED
    BY <2>1, <2>2 DEF ControlInvariant
<1>3. PumpInvariant /\ QuietUntilPumped
  BY PumpInitInvariant DEF Init, PumpInit, QuietUntilPumped
<1>4. ChannelTypeOK
  BY DEF Init, ChannelInit, ChannelTypeOK
<1>5. ChainTypeOK /\ ClassRequestsQueued
  <2>1. functions \in Seq(CdcDataPair) /\ pairs = functions
    BY ParserFindsFunctions, BridgeAssumption DEF Init, BridgeAssumption, ParsedAsDeclared
  <2>2. << >> \in Seq(BridgeRequests) /\ 0 \in 0..ChannelCount + 1
    BY ChannelCountAssumption DEF ChannelCountAssumption
  <2>. QED
    BY <1>1, <2>1, <2>2 DEF Init, ChainTypeOK, ClassRequestsQueued
<1>6. WiringProgress
  BY DEF Init, PumpInit, ChannelInit, WiringProgress
<1>7. HostBytesInvariant
  <2>1. ASSUME NEW c \in Channel PROVE PlacesHold(c) /\ flush[c] = << >>
    <3>1. /\ pendingHostData[c] = << >> /\ flush[c] = << >> /\ endpointData[c] = << >>
          /\ wrote[c] = 0 /\ charInHand[c] = 0
      BY DEF Init, ChannelInit
    <3>2. InHand(c) = << >>
      BY <3>1 DEF InHand
    <3>3. 1..0 = {}
      OBVIOUS
    <3>. QED
      BY <1>1, <3>1, <3>2, <3>3 DEF PlacesHold, HoldFirst
  <2>. QED
    BY <1>4, <2>1 DEF HostBytesInvariant
<1>. QED
  BY <1>2, <1>3, <1>4, <1>5, <1>6, <1>7 DEF ChainInvariant

\* The invariant, in every behaviour of the bridge.
THEOREM BridgeAlwaysInvariant ==
  Spec => [](ChainInvariant /\ HostBytesInvariant)
<1>1. Init => ChainInvariant /\ HostBytesInvariant
  BY ChainInit
<1>2. ChainInvariant /\ HostBytesInvariant /\ [Next]_vars
        => (ChainInvariant /\ HostBytesInvariant)'
  BY ChainInvariantStep, HostBytesStep
<1>. QED
  BY <1>1, <1>2, PTL DEF Spec

\* Types, functions and the order of things: a channel is wired to the CDC function
\* of its number, and no data is forwarded before the guest has acknowledged the
\* line coding and the control lines of every wired channel.
THEOREM DataOnlyAfterControl == Spec => []BridgeInvariant
<1>1. ChainInvariant => BridgeInvariant
  <2>. SUFFICES ASSUME ChainInvariant PROVE BridgeInvariant
    OBVIOUS
  <2>. USE DEF ChainInvariant
  <2>1. TypeOK
    BY DEF PumpInvariant, ControlInvariant, ChainTypeOK, TypeOK
  <2>2. ChannelsMeetFunctions
    <3>1. ASSUME NEW c \in Channel, device[c] PROVE c <= Len(pairs)
      BY <3>1 DEF WiringProgress, ChainTypeOK, ControlInvariant, Stage, Channel
    <3>2. ASSUME NEW c \in Channel, c <= Len(pairs) PROVE c \in DOMAIN functions
      BY <3>2 DEF ChainTypeOK, Channel
    <3>3. ASSUME NEW c \in Channel, c \in DOMAIN functions PROVE c <= Len(pairs)
      BY <3>3 DEF ChainTypeOK, Channel
    <3>. QED
      BY <3>1, <3>2, <3>3 DEF ChannelsMeetFunctions, IsWired, WiringProgress, ChainTypeOK
  <2>3. PumpAfterControl
    <3>. SUFFICES ASSUME NEW c \in Channel, pumped[c] \/ dataCallback[c] \/ delivered[c] # << >>
                  PROVE  /\ IsWired(c)
                         /\ \A d \in Channel :
                              IsWired(d) => {LineCoding(d), ControlState(d)} \subseteq answered
      BY DEF PumpAfterControl
    <3>1. pumped[c]
      BY DEF QuietUntilPumped
    <3>. QED
      BY <3>1 DEF WiringProgress, IsWired, ClassRequests
  <2>. QED
    BY <2>1, <2>2, <2>3 DEF BridgeInvariant
<1>. QED
  BY <1>1, BridgeAlwaysInvariant, PTL

\* A completion callback is handed the answer to its own request, whatever was
\* latched over whatever before.
THEOREM AnswersReachTheirRequest == Spec => []AnswerBelongsToRequest
<1>1. ChainInvariant => AnswerBelongsToRequest
  BY DEF ChainInvariant, ControlInvariant, TransferOwned, AnswerBelongsToRequest, Items
<1>. QED
  BY <1>1, BridgeAlwaysInvariant, PTL

\* The chain never waits for a request that is no longer latched, unless the guest
\* has stalled it.
THEOREM ChainIsNotOrphaned == Spec => []ChainNotOrphaned
<1>1. ChainInvariant => ChainNotOrphaned
  BY DEF ChainInvariant, ControlInvariant
<1>. QED
  BY <1>1, BridgeAlwaysInvariant, PTL

\* Between the client's WriteChar and the endpoint no byte is lost or duplicated,
\* however the wiring interleaves with the client.
THEOREM NoHostByteLost == Spec => []HostBytesConserved
BY PlacesAreHeld, BridgeAlwaysInvariant, PTL
==============================================================================
