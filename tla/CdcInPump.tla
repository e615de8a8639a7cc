------------------------------ MODULE CdcInPump ------------------------------
(***************************************************************************)
(* Device-to-host data of a CDC channel (DualCdcAcmBridge.cs): the guest's *)
(* IN transfers queue chunks in the framework's USBEndpoint, and the       *)
(* bridge's pump drains them through a one-shot read callback that has to  *)
(* be armed again after every delivery.                                    *)
(*                                                                         *)
(* Two kinds of threads meet here.  The CPU thread runs the guest, and a   *)
(* guest write to TASKS_STARTEPIN runs GetData and USBEndpoint.HandlePacket*)
(* on it.  ThreadPool threads run the deferred re-arms.  They exclude each *)
(* other with the endpoint's buffer lock, which HandlePacket holds from    *)
(* its enqueue to its trailing "dataCallback = null".                      *)
(*                                                                         *)
(* A chunk is its ordinal: the k-th chunk queued on a channel is the number*)
(* k, whatever bytes it holds.  One IN transfer queues one chunk, or two:  *)
(* the framework ends a transfer of full packets with an empty end-of-     *)
(* packet chunk, over whose bytes the pump's loop is empty.                *)
(*                                                                         *)
(* A channel's endpoint is always found: the controller registers one for  *)
(* every bulk endpoint number in both directions.                          *)
(***************************************************************************)
EXTENDS CdcChannels

CONSTANT MaxChunks    (* bound: chunks queued on a channel                 *)

ASSUME PumpAssumption == MaxChunks \in Nat

VARIABLES
  sent,             (* sent[c]: chunks the guest's transfers have queued   *)
  endpointBuffer,   (* USBEndpoint.buffer                                  *)
  dataCallback,     (* USBEndpoint.dataCallback # null: the pump is armed  *)
  handling,         (* how far the CPU thread is in GetData, see Handling  *)
  epInDataStatus,   (* EPDATASTATUS.EPIN: not yet acknowledged by the guest*)
  reArms,           (* re-arm items in the ThreadPool's queue              *)
  poolThreads,      (* pool threads about to run StartDeviceToHostPump     *)
  pumped,           (* whether the wiring has started this channel's pump  *)
  delivered,        (* what CharReceived has handed on, in order           *)
  running           (* FALSE once the emulation is being torn down         *)

endpointVars == <<endpointBuffer, dataCallback, delivered, reArms>>
pumpVars == <<sent, endpointBuffer, dataCallback, handling, epInDataStatus,
              reArms, poolThreads, pumped, delivered, running>>

\* "callback" and "unwind" are inside HandlePacket, with the buffer lock held.
Handling == {"none", "callback", "unwind", "acknowledge"}

BufferLocked(c) == handling[c] \in {"callback", "unwind"}

\* The CPU thread does one thing at a time.
CpuFree == \A c \in Channel : handling[c] = "none"

PumpTypeOK ==
  /\ sent           \in [Channel -> Nat]
  /\ endpointBuffer \in [Channel -> Seq(Nat)]
  /\ dataCallback   \in [Channel -> BOOLEAN]
  /\ handling       \in [Channel -> Handling]
  /\ epInDataStatus \in [Channel -> BOOLEAN]
  /\ reArms         \in [Channel -> Nat]
  /\ poolThreads    \in [Channel -> Nat]
  /\ pumped         \in [Channel -> BOOLEAN]
  /\ delivered      \in [Channel -> Seq(Nat)]
  /\ running        \in BOOLEAN

PumpInit ==
  /\ sent           = [c \in Channel |-> 0]
  /\ endpointBuffer = [c \in Channel |-> << >>]
  /\ dataCallback   = [c \in Channel |-> FALSE]
  /\ handling       = [c \in Channel |-> "none"]
  /\ epInDataStatus = [c \in Channel |-> FALSE]
  /\ reArms         = [c \in Channel |-> 0]
  /\ poolThreads    = [c \in Channel |-> 0]
  /\ pumped         = [c \in Channel |-> FALSE]
  /\ delivered      = [c \in Channel |-> << >>]
  /\ running        = TRUE

(***************************************************************************)
(* The pump                                                                *)
(***************************************************************************)

\* Mutant: the re-arm issued synchronously, inside the callback.
ReArmInsideCallback(c) ==
  /\ dataCallback' = [dataCallback EXCEPT ![c] = TRUE]
  /\ UNCHANGED reArms

\* Queue a work item that will call StartDeviceToHostPump again.
ReArmDeviceToHostPump(c) ==
  /\ reArms' = [reArms EXCEPT ![c] = @ + 1]
  /\ UNCHANGED dataCallback

\* Mutant: a callback that takes the newest chunk instead of the oldest.
DeliverNewest(c) ==
  LET last == Len(endpointBuffer[c]) IN
  /\ delivered' = [delivered EXCEPT ![c] = Append(@, endpointBuffer[c][last])]
  /\ endpointBuffer' = [endpointBuffer EXCEPT ![c] = SubSeq(@, 1, last - 1)]
  /\ ReArmDeviceToHostPump(c)

\* The one-shot callback: forward every byte of the oldest chunk, then re-arm.
Deliver(c) ==
  /\ delivered' = [delivered EXCEPT ![c] = Append(@, Head(endpointBuffer[c]))]
  /\ endpointBuffer' = [endpointBuffer EXCEPT ![c] = Tail(@)]
  /\ ReArmDeviceToHostPump(c)

\* SetDataReadCallbackOneShot, under the buffer lock: a queued chunk is handed
\* to the callback at once, otherwise the callback is kept for HandlePacket.
StartDeviceToHostPump(c) ==
  /\ ~BufferLocked(c)
  /\ IF endpointBuffer[c] # << >>
     THEN Deliver(c)
     ELSE /\ dataCallback' = [dataCallback EXCEPT ![c] = TRUE]
          /\ UNCHANGED <<endpointBuffer, delivered, reArms>>

\* The first arming, from WireChannels' completion action.
StartPump(c) ==
  /\ ~pumped[c]
  /\ StartDeviceToHostPump(c)
  /\ pumped' = [pumped EXCEPT ![c] = TRUE]
  /\ UNCHANGED <<sent, handling, epInDataStatus, poolThreads, running>>

\* A pool thread takes a work item off the ThreadPool's queue.
TakeReArm(c) ==
  /\ reArms[c] > 0
  /\ reArms' = [reArms EXCEPT ![c] = @ - 1]
  /\ poolThreads' = [poolThreads EXCEPT ![c] = @ + 1]
  /\ UNCHANGED <<sent, endpointBuffer, dataCallback, handling, epInDataStatus,
                 pumped, delivered, running>>

\* It runs the item.  During teardown the device or the endpoint may be gone:
\* the exception is swallowed and the pump is not armed again.
RunReArm(c) ==
  /\ poolThreads[c] > 0
  /\ poolThreads' = [poolThreads EXCEPT ![c] = @ - 1]
  /\ \/ StartDeviceToHostPump(c)
     \/ ~running /\ UNCHANGED endpointVars
  /\ UNCHANGED <<sent, handling, epInDataStatus, pumped, running>>

(***************************************************************************)
(* The controller and the framework, on the CPU thread                     *)
(***************************************************************************)

\* The guest does not start a transfer before it has acknowledged the last one.
MayStartIn(c) == running /\ CpuFree /\ ~epInDataStatus[c]

\* TASKS_STARTEPIN with a payload: GetData reads it and calls HandlePacket,
\* which takes the lock, enqueues n chunks and looks for an armed callback.
GetData(c, n) ==
  /\ MayStartIn(c)
  /\ sent[c] + n <= MaxChunks
  /\ sent' = [sent EXCEPT ![c] = @ + n]
  /\ endpointBuffer' = [endpointBuffer EXCEPT ![c] = @ \o [i \in 1..n |-> sent[c] + i]]
  /\ handling' = [handling EXCEPT
                    ![c] = IF dataCallback[c] THEN "callback" ELSE "acknowledge"]
  /\ UNCHANGED <<dataCallback, epInDataStatus, reArms, poolThreads, pumped,
                 delivered, running>>

\* TASKS_STARTEPIN without a payload: HandlePacket is not called.
GetNoData(c) ==
  /\ MayStartIn(c)
  /\ handling' = [handling EXCEPT ![c] = "acknowledge"]
  /\ UNCHANGED <<sent, endpointBuffer, dataCallback, epInDataStatus, reArms,
                 poolThreads, pumped, delivered, running>>

\* HandlePacket invokes the armed callback with the oldest chunk ...
InvokeDataCallback(c) ==
  /\ handling[c] = "callback"
  /\ Deliver(c)
  /\ handling' = [handling EXCEPT ![c] = "unwind"]
  /\ UNCHANGED <<sent, epInDataStatus, poolThreads, pumped, running>>

\* ... and then sets it to null and releases the lock.
ClearDataCallback(c) ==
  /\ handling[c] = "unwind"
  /\ dataCallback' = [dataCallback EXCEPT ![c] = FALSE]
  /\ handling' = [handling EXCEPT ![c] = "acknowledge"]
  /\ UNCHANGED <<sent, endpointBuffer, epInDataStatus, reArms, poolThreads,
                 pumped, delivered, running>>

\* GetData ends: EPDATASTATUS and the events that tell the guest.
DataAcknowledged(c) ==
  /\ handling[c] = "acknowledge"
  /\ epInDataStatus' = [epInDataStatus EXCEPT ![c] = TRUE]
  /\ handling' = [handling EXCEPT ![c] = "none"]
  /\ UNCHANGED <<sent, endpointBuffer, dataCallback, reArms, poolThreads,
                 pumped, delivered, running>>

\* The guest's interrupt handler writes the status bit back (write one to clear).
AcknowledgeIn(c) ==
  /\ CpuFree
  /\ epInDataStatus[c]
  /\ epInDataStatus' = [epInDataStatus EXCEPT ![c] = FALSE]
  /\ UNCHANGED <<sent, endpointBuffer, dataCallback, handling, reArms,
                 poolThreads, pumped, delivered, running>>

\* The emulation starts to stop.
Teardown ==
  /\ running
  /\ CpuFree
  /\ running' = FALSE
  /\ UNCHANGED <<sent, endpointBuffer, dataCallback, handling, epInDataStatus,
                 reArms, poolThreads, pumped, delivered>>

(***************************************************************************)
(* The pump on its own: any channel may be started at any time             *)
(***************************************************************************)

PoolStep(c) == TakeReArm(c) \/ RunReArm(c)

CpuPumpStep(c) ==
  \/ InvokeDataCallback(c)
  \/ ClearDataCallback(c)
  \/ DataAcknowledged(c)

\* A transfer's chunks: its data, and possibly an end-of-packet chunk.
StartIn(c) == GetNoData(c) \/ \E n \in 1..2 : GetData(c, n)

PumpNext ==
  \/ \E c \in Channel :
       \/ StartPump(c) \/ PoolStep(c) \/ CpuPumpStep(c)
       \/ StartIn(c) \/ AcknowledgeIn(c)
  \/ Teardown

PumpSpec == PumpInit /\ [][PumpNext]_pumpVars

(***************************************************************************)
(* Properties                                                              *)
(***************************************************************************)

\* What leaves the pump is what the guest sent, in order; the rest is still in
\* the endpoint's buffer.  No chunk is lost, duplicated or overtaken, whichever
\* of the CPU thread and the pool threads delivers it.
PumpInOrder ==
  \A c \in Channel :
    delivered[c] \o endpointBuffer[c] = [i \in 1..sent[c] |-> i]

\* The callback is armed, and HandlePacket has not used it up yet.
CallbackArms(c) == IF dataCallback[c] /\ handling[c] # "unwind" THEN 1 ELSE 0

\* How many ways there are for the next chunk to be delivered: the armed
\* callback, a queued re-arm, a pool thread.
Arms(c) == CallbackArms(c) + reArms[c] + poolThreads[c]

\* A pump is armed exactly once from its start to the teardown, counting the
\* re-arm under way: with none, everything the guest sends afterwards stays in
\* the buffer; this is what the deferred re-arm is for.
ArmedExactlyOnce ==
  \A c \in Channel :
    \/ Arms(c) = 1 /\ pumped[c]
    \/ Arms(c) = 0 /\ (~pumped[c] \/ ~running)

\* The abstract view: chunks in flight are those in the endpoint's buffer.
Pipe == INSTANCE BytePipe WITH
  Lane <- Channel, MaxPut <- 2, MayLose <- FALSE,
  put <- sent, pipe <- endpointBuffer, got <- delivered

\* The pump implements a pipe that never loses anything.
PumpIsPipe == Pipe!Spec

\* Once its pump runs, whatever a channel's guest function sends reaches the
\* channel's listeners, unless the emulation is torn down first.
EverythingDelivered ==
  \A c \in Channel : \A k \in 1..MaxChunks :
    (pumped[c] /\ sent[c] >= k) ~> (Len(delivered[c]) >= k \/ ~running)
=============================================================================
