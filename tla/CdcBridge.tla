------------------------------ MODULE CdcBridge ------------------------------
(***************************************************************************)
(* The whole CDC bridge (DualCdcAcmBridge.cs): once the framework's USBHost*)
(* has enumerated the device, a chain of control transfers reads the       *)
(* configuration descriptor, wires one channel per CDC function, sets the  *)
(* line coding and the control lines of each, and finally starts the       *)
(* device-to-host pumps.  Each link of the chain is the completion callback*)
(* of the one before (Ep0Control); the channels take host data meanwhile   *)
(* (CdcAcmChannel), and the guest may send as soon as it is configured     *)
(* (CdcInPump).                                                            *)
(*                                                                         *)
(* Threads: the CPU thread (the guest, and every callback of a control     *)
(* transfer, which run inside the guest's register write), one TCP client  *)
(* thread per channel, and the ThreadPool.                                 *)
(***************************************************************************)
EXTENDS CdcInPump, CdcAcmChannel, Ep0Control, CdcDescriptor

CONSTANT Descriptors  (* the configuration descriptors guests may have     *)

DeviceDesc == <<"device", 0>>
Configure  == <<"configure", 0>>
Header     == <<"header", 0>>
Full       == <<"full", 0>>
LineCoding(c)   == <<"lineCoding", c>>
ControlState(c) == <<"controlState", c>>

BridgeRequests ==
  {DeviceDesc, Configure, Header, Full}
    \cup {LineCoding(c) : c \in Channel} \cup {ControlState(c) : c \in Channel}

ASSUME BridgeAssumption ==
  /\ Descriptors \subseteq Seq(Entry)
  /\ BridgeRequests \subseteq Request

VARIABLES
  stage,            (* where the chain is, see Stage                       *)
  functions,        (* the CDC functions of the guest,                     *)
  pairs,            (* those the bridge finds in its descriptor            *)
  shortHeader,      (* the guest answers the first read with < 9 bytes     *)
  next,             (* the channel WireChannels is about to wire           *)
  controlRequests,  (* the queue WireChannels fills for SendControlSequence*)
  answered          (* the requests whose callback has been invoked        *)

chainVars == <<stage, next, controlRequests, answered>>
deviceVars == <<functions, pairs, shortHeader>>
vars == <<pumpVars, channelVars, ep0Vars, chainVars, deviceVars>>

\* "attach0" to "attach2": inside USBHost's enumeration, a synced block;
\* "wiring" and "pumping": inside a completion callback, on the CPU thread;
\* "header", "full", "control": waiting for the guest to answer.
Stage == {"attach0", "attach1", "attach2", "enumerating", "enumerated", "header",
          "full", "wiring", "control", "pumping", "done", "aborted"}

\* The CPU thread runs guest code: no register write is under way.
GuestRuns ==
  /\ running
  /\ CpuFree
  /\ stage \notin {"attach0", "attach1", "attach2", "wiring", "pumping"}

TypeOK ==
  /\ PumpTypeOK
  /\ ChannelTypeOK
  /\ Ep0TypeOK
  /\ stage \in Stage
  /\ functions \in Seq(CdcDataPair) /\ pairs \in Seq(CdcDataPair)
  /\ shortHeader \in BOOLEAN
  /\ next \in 0..ChannelCount + 1
  /\ controlRequests \in Seq(BridgeRequests)
  /\ answered \subseteq BridgeRequests

Init ==
  /\ PumpInit
  /\ ChannelInit
  /\ Ep0Init
  /\ stage = "attach0"
  /\ \E descriptor \in Descriptors :
       /\ functions = CdcFunctions(descriptor)
       /\ pairs = ParseCdcDataPairs(descriptor)
  /\ shortHeader \in BOOLEAN
  /\ next = 0
  /\ controlRequests = << >>
  /\ answered = {}

(***************************************************************************)
(* USBHost's enumeration (external): requests issued back to back, each    *)
(* latched over the one before.  SET_ADDRESS is acknowledged by the        *)
(* controller itself and latches nothing.                                  *)
(***************************************************************************)

EnumerateDevice ==
  /\ \/ /\ stage = "attach0"
        /\ stage' = "attach1"
        /\ UNCHANGED controllerVars
     \/ /\ stage = "attach1"
        /\ stage' = "attach2"
        /\ HandleSetupPacket(DeviceDesc)
     \/ /\ stage = "attach2"
        /\ stage' = "enumerating"
        /\ HandleSetupPacket(Configure)
  /\ UNCHANGED <<pumpVars, channelVars, guestVars, next, controlRequests, answered,
                 deviceVars>>

\* DeviceEnumerated runs in a synced block of its own: ask for the header.
DeviceEnumerated ==
  /\ stage = "enumerated"
  /\ GuestRuns
  /\ HandleSetupPacket(Header)
  /\ stage' = "header"
  /\ UNCHANGED <<pumpVars, channelVars, guestVars, next, controlRequests, answered,
                 deviceVars>>

(***************************************************************************)
(* The completion callbacks, run by the guest's TASKS_EP0STATUS            *)
(***************************************************************************)

Configured ==
  /\ setupPacketResultCallback = Configure
  /\ CallbackReturns
  /\ stage' = "enumerated"
  /\ UNCHANGED <<next, controlRequests>>

HeaderRead ==
  /\ setupPacketResultCallback = Header
  /\ IF shortHeader
     THEN CallbackReturns /\ stage' = "aborted"
     ELSE CallbackIssues(Full) /\ stage' = "full"
  /\ UNCHANGED <<next, controlRequests>>

\* WireChannels parses the descriptor and begins with the first channel.
DescriptorRead ==
  /\ setupPacketResultCallback = Full
  /\ CallbackReturns
  /\ stage' = "wiring"
  /\ next' = 1
  /\ UNCHANGED controlRequests

\* Mutant: the last request of the sequence is not waited for.
SendAllButLast(requests) ==
  IF Len(requests) <= 1
  THEN /\ CallbackReturns
       /\ controlRequests' = << >>
       /\ stage' = "pumping"
       /\ next' = 1
  ELSE /\ CallbackIssues(Head(requests))
       /\ controlRequests' = Tail(requests)
       /\ stage' = "control"
       /\ UNCHANGED next

\* SendControlSequence(device, requests, done), called from a callback.
SendControlSequence(requests) ==
  IF requests = << >>
  THEN /\ CallbackReturns
       /\ controlRequests' = << >>
       /\ stage' = "pumping"
       /\ next' = 1
  ELSE /\ CallbackIssues(Head(requests))
       /\ controlRequests' = Tail(requests)
       /\ stage' = "control"
       /\ UNCHANGED next

ControlAnswered ==
  /\ setupPacketResultCallback[1] \in {"lineCoding", "controlState"}
  /\ SendControlSequence(controlRequests)

HandleEp0Status ==
  /\ GuestRuns
  /\ CallbackInvoked
  /\ \/ Configured
     \/ HeaderRead
     \/ DescriptorRead
     \/ ControlAnswered
  /\ answered' = answered \cup {setupPacketResultCallback}
  /\ UNCHANGED <<pumpVars, channelVars, deviceVars>>

(***************************************************************************)
(* WireChannels and its completion action, still on the CPU thread         *)
(***************************************************************************)

Wirable(c) == c <= ChannelCount /\ c <= Len(pairs)

\* The Wire call before this one has returned.
Flushed == next > 1 => flush[next - 1] = << >>

\* Wire the next channel and queue its two class requests.
WireNext ==
  /\ stage = "wiring"
  /\ Wirable(next)
  /\ Flushed
  /\ Wire(next)
  /\ controlRequests' = controlRequests \o <<LineCoding(next), ControlState(next)>>
  /\ next' = next + 1
  /\ UNCHANGED <<pumpVars, ep0Vars, stage, answered, deviceVars>>

FlushNext ==
  /\ stage = "wiring"
  /\ next > 1
  /\ FlushPending(next - 1)
  /\ UNCHANGED <<pumpVars, ep0Vars, chainVars, deviceVars>>

\* Every channel is wired: send the first class request.
WiringDone ==
  /\ stage = "wiring"
  /\ ~Wirable(next)
  /\ Flushed
  /\ SendControlSequence(controlRequests)
  /\ UNCHANGED <<pumpVars, channelVars, guestVars, answered, deviceVars>>

\* The completion action: start the pump of each wired channel in turn.
PumpNextChannel ==
  /\ stage = "pumping"
  /\ next \in Channel
  /\ IF IsWired(next) THEN StartPump(next) ELSE UNCHANGED pumpVars
  /\ next' = next + 1
  /\ UNCHANGED <<channelVars, ep0Vars, stage, controlRequests, answered,
                 deviceVars>>

PumpingDone ==
  /\ stage = "pumping"
  /\ next \notin Channel
  /\ stage' = "done"
  /\ UNCHANGED <<pumpVars, channelVars, ep0Vars, next, controlRequests, answered,
                 deviceVars>>

ChainStep ==
  \/ EnumerateDevice
  \/ DeviceEnumerated
  \/ HandleEp0Status
  \/ WireNext \/ FlushNext \/ WiringDone
  \/ PumpNextChannel \/ PumpingDone

(***************************************************************************)
(* The other actors                                                        *)
(***************************************************************************)

\* A TCP client's thread.
ClientStep(c) ==
  /\ WriteChar(c) \/ WriteCharData(c)
  /\ UNCHANGED <<pumpVars, ep0Vars, chainVars, deviceVars>>

\* The ThreadPool.
PoolRuns(c) ==
  /\ PoolStep(c)
  /\ UNCHANGED <<channelVars, ep0Vars, chainVars, deviceVars>>

\* The guest in a control transfer.
GuestControlStep ==
  /\ GuestRuns
  /\ GuestDataStep
  /\ UNCHANGED <<pumpVars, channelVars, chainVars, deviceVars>>

GuestStalls ==
  /\ GuestRuns
  /\ HandleEp0Stall
  /\ UNCHANGED <<pumpVars, channelVars, chainVars, deviceVars>>

\* The guest has been configured: its CDC functions may send.
GuestConfigured ==
  stage \notin {"attach0", "attach1", "attach2", "enumerating"}

GuestSends(c) ==
  /\ GuestRuns
  /\ GuestConfigured
  /\ c <= Len(functions)
  /\ StartIn(c)
  /\ UNCHANGED <<channelVars, ep0Vars, chainVars, deviceVars>>

GuestAcknowledges(c) ==
  /\ GuestRuns
  /\ AcknowledgeIn(c)
  /\ UNCHANGED <<channelVars, ep0Vars, chainVars, deviceVars>>

\* GetData in progress.
GetDataStep(c) ==
  /\ CpuPumpStep(c)
  /\ UNCHANGED <<channelVars, ep0Vars, chainVars, deviceVars>>

StopEmulation ==
  /\ GuestRuns
  /\ Teardown
  /\ UNCHANGED <<channelVars, ep0Vars, chainVars, deviceVars>>

Next ==
  \/ ChainStep
  \/ GuestControlStep
  \/ GuestStalls
  \/ StopEmulation
  \/ \E c \in Channel :
       \/ ClientStep(c) \/ PoolRuns(c)
       \/ GuestSends(c) \/ GuestAcknowledges(c) \/ GetDataStep(c)

Spec == Init /\ [][Next]_vars

\* The host's threads and the framework run on.  The guest's interrupt handler
\* serves the control endpoint whenever it has an event for it, so a control
\* transfer moves on however busy the guest is with its IN transfers (strong
\* fairness: each transfer keeps the CPU thread for a while).  No fairness for
\* what the guest or the client chooses: to send, to stall, to write, to stop.
Fairness ==
  /\ SF_vars(ChainStep)
  /\ SF_vars(GuestControlStep)
  /\ \A c \in Channel :
       /\ WF_vars(PoolRuns(c))
       /\ WF_vars(GetDataStep(c))
       /\ WF_vars(WriteCharData(c)
                    /\ UNCHANGED <<pumpVars, ep0Vars, chainVars, deviceVars>>)

FairSpec == Spec /\ Fairness

(***************************************************************************)
(* Properties                                                              *)
(***************************************************************************)

\* While the guest serves a request whose completion is awaited, it serves the
\* very request whose callback is latched, and the answer accumulated so far
\* holds that request's packets only.  (HandleEp0Status hands the accumulated
\* data to whatever callback it finds.)
AnswerBelongsToRequest ==
  (guestControl # "idle" /\ setupPacketResultCallback # NoRequest)
    => /\ guestRequest = setupPacketResultCallback
       /\ \A i \in DOMAIN ep0InAccumulator :
            ep0InAccumulator[i] = setupPacketResultCallback

\* Which request the chain is waiting for.
Awaited ==
  CASE stage = "enumerating" -> {Configure}
    [] stage = "header" -> {Header}
    [] stage = "full" -> {Full}
    [] stage = "control" -> {LineCoding(c) : c \in Channel}
                              \cup {ControlState(c) : c \in Channel}
    [] OTHER -> {NoRequest}

\* The chain never waits for an answer that cannot come: whenever it waits, the
\* callback of the request it waits for is latched, unless the guest stalled
\* that request (which ends the chain: nothing retries).
ChainNotOrphaned ==
  stage \notin {"attach0", "attach1", "attach2"}
    => \/ setupPacketResultCallback \in Awaited
       \/ stalls > 0 /\ setupPacketResultCallback = NoRequest

\* No channel's data is forwarded before the guest has acknowledged the line
\* coding and the control lines of every wired channel.
PumpAfterControl ==
  \A c \in Channel :
    pumped[c] \/ dataCallback[c] \/ delivered[c] # << >>
      => /\ IsWired(c)
         /\ \A d \in Channel :
              IsWired(d) => {LineCoding(d), ControlState(d)} \subseteq answered

\* A channel is wired to the endpoints, and its requests go to the interface, of
\* the device's CDC function of that number; none is left out once all are wired.
ChannelsMeetFunctions ==
  \A c \in Channel :
    /\ IsWired(c) => /\ c \in DOMAIN functions /\ pairs[c] = functions[c]
    /\ stage \in {"control", "pumping", "done"} /\ c \in DOMAIN functions
         => IsWired(c)

\* What the run checks of the bridge's own state: its types, the functions its
\* channels stand for, and that data only flows after the control requests of
\* every wired channel.
BridgeInvariant == TypeOK /\ ChannelsMeetFunctions /\ PumpAfterControl

\* Enumeration comes to an end: the pumps of all wired channels run, or the
\* descriptor header was too short, or the guest stalled a request, or the
\* emulation was stopped.
EnumerationEnds ==
  <>(\/ stage = "done" /\ \A c \in Channel : IsWired(c) => pumped[c]
     \/ stage = "aborted"
     \/ stalls > 0
     \/ ~running)

\* A byte the client has written reaches the endpoint once the channel is wired.
HostBytesArrive ==
  \A c \in Channel : \A k \in 1..MaxHostBytes :
    (IsWired(c) /\ wrote[c] >= k)
      ~> (\E i \in DOMAIN endpointData[c] : endpointData[c][i] = k)
=============================================================================
