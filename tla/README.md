# TLA+ models of zmk-west-commands

This directory holds TLA+ specifications of the test infrastructure in this
repository: the emulated USB controller and its CDC host bridge (C#, loaded into
Renode), the fake peripherals of its BLE platforms (Python scripts inside
Renode), the simulated BLE hosts (C, Zephyr), the Renode test harness, the
BabbleSim test runner and `west zmk-build` (Python). TLC checks them on small
instances; TLAPS proves the central results for every value of the constants.
`PROJECT.json` lists the runs, the mutants that show each property can fail, the
lines each definition models, the hazards and the findings.

    tlc -workers 2 -config MCSmoke.cfg MCSmoke.tla       # model-check
    tlapm UsbBulkOutProofs.tla                           # check the proofs

## 1. The system: inventory

| Part | Source | State it keeps | What is hard |
|---|---|---|---|
| USB controller, bulk OUT | `NRF_USBD_Full.cs` | per-endpoint queue, presented chunk, SIZE, EPDATASTATUS, event registers, interrupt line | host threads against the guest's interrupt handler and DMA; a lock that covers only part of the state; drops; machine reset |
| USB controller, control endpoint | `NRF_USBD_Full.cs` | one latched SETUP packet with its callback, IN accumulator, OUT payload offset | callbacks that issue the next request from within the completion of the one before; requests latched over each other; stalls |
| CDC bridge, enumeration | `DualCdcAcmBridge.cs` | wired channels, the chain of control requests | ordering of requests and of the pumps' start; which descriptors make a function |
| CDC bridge, device to host | `DualCdcAcmBridge.cs`, framework `USBEndpoint` | one-shot read callback per channel, framework buffer | callback cleared by the framework after it returns; re-arms on pool threads |
| CDC bridge, host to device | `DualCdcAcmBridge.cs` | endpoint reference, pending bytes, `innerLock` | a decision under the lock, the write after it |
| Studio RPC framing and client | `rpc_client.py`, `renode_smoke.py` | decoder per call, socket buffer | deadlines inside a frame, late answers, unsolicited notifications |
| `ble-studio-host` | `ble-studio-host/src/main.c` | connection, discovery progress, request counters, frame decoder (all static) | state that survives a disconnection, frames split over indications, calls the stack refuses |
| `renode-ble-host` | `renode-ble-host/src/main.c` | connection, one-read flag | repeated security changes, failed pairing, dropped links |
| Encrypted-chain tests | `renode_smoke.py` (`run_ble_*`) | what the loop has read, the steady quantum | two links pairing in any order, consoles read in turns, virtual and wall clocks |
| Renode session, bridge attachment | `renode_harness.py` | the Renode process, monitor, sockets | asynchronous `pause`/`start`, half-failed boots, retries |
| Boot functions and scripts | `renode_harness.py`, `platforms/*.resc` | the machine the monitor has selected, terminals, temporary files | commands that return before they are carried out; output before a client is connected |
| Smoke drivers | `renode_smoke.py` | mode, attempt | which exception retries, what an attempt may inherit |
| BabbleSim runner | `lib/ble/runner.py`, `zmk_ble_test.py` | processes, reader threads, the case's log, results, pool | interleaved output, hung devices, timeouts, an exception in a pool |
| `west zmk-build`, tee | `zmk_build.py`, `tee_popen.py` | targets, one job and build directory each, the pool, output threads, the editor's files | results as they complete, a job that raises, equal names, an old firmware, two threads on one log |
| Fake CCM | `platforms/models/ccm.py` | per machine: registers, the pending transform | the radio and the receiver read the buffers before any event is read |
| Flash controller | `platforms/models/nvmc.py` | CONFIG, in one place for all machines | erases of one machine among the mode changes of the other |
| FICR, QSPI, USBD stub, RTT | `platforms/models/*.py`, `segger_rtt_writeskip.py` | registers | nothing: constants, and registers that answer at once |
| JSON to protobuf, command line, CI | various | none | pure data |

How the parts meet. A Renode smoke test boots an emulation (`RenodeSession`),
for the USB modes attaches the CDC bridge to the emulated controller while the
emulation is paused, and then talks Studio RPC over a TCP socket, through the
bridge's CDC channel and the controller's endpoints, to the real firmware. The
BLE modes boot `renode-ble-host` beside the keyboard, give each machine the fake
CCM and flash controller, and look for markers in the consoles. The BabbleSim
tests run the firmware, `ble-studio-host` and other siblings as native processes
around a phy, and compare their filtered output with a snapshot. `west zmk-build`
stands alone: it builds the targets of `build.yaml` in parallel and may flash one.

What makes each part correct, in short: a byte put into a data path comes out
once and in order; a data path is never left without the callback, event or
interrupt that moves it on; an answer belongs to its request; enumeration and
every run come to an end; a verdict depends on what the devices did and on
nothing else.

## 2. Modules

| Module | Models | Composed in |
|---|---|---|
| `BytePipe` | abstract: a pipe per lane that keeps order, duplicates and invents nothing, may discard only if `MayLose` | refined by `CdcInPump`, `CdcBridge`, `UsbBulkOut` |
| `UsbBulkOut` | bulk OUT half of the controller: `WriteData`, presentation, `SetEvent`, the guest's interrupt handler, DMA, drop by SIZE write, `Reset` | `MCUsbBulkOut` |
| `Ep0Control` | control transfers | `CdcBridge` |
| `CdcDescriptor` | `ParseCdcDataPairs` and, beside it, what a device declares | `CdcBridge` |
| `CdcChannels`, `CdcInPump` | the device-to-host pump: CPU thread in `HandlePacket`, pool threads, the buffer lock | `CdcBridge` |
| `CdcAcmChannel` | `WriteChar` and `Wire` | `CdcBridge` |
| `CdcBridge` | the whole bridge on a controller: enumeration chain, the four modules above, teardown | `MCCdcBridge` |
| `StudioFraming` | framing and one decoder step, shared by host app and client | `StudioHost`, `StudioRpcClient` |
| `StudioHost` | `ble-studio-host`, one action per Zephyr callback | `MCStudioHost` |
| `StudioRpcClient` | `read_frame`, device info, subsystem list, unlock burst | `Smoke`, `MCStudioRpc` |
| `RenodeBleHost` | `renode-ble-host`, one action per callback, its STAGE markers | `BleChain` |
| `BleChain` | the loops of the two- and three-machine BLE tests | `Smoke` |
| `RenodeSession` | start, attach, stop, retry | `RenodeBoot` |
| `RenodeBoot` | the five boot functions and the scripts they run, in the monitor | `Smoke` |
| `Smoke` | the smoke tests from boot to verdict, all modes | `MCSmoke` |
| `BsimRunner` | cases, processes, reader threads, evaluation, pool, exit | `MCBsimRunner` |
| `TeePopen` | a child process and the two threads that copy its output | `ZmkBuild` |
| `BuildMatrix` | targets, filters, names, the editor's entries: pure operators | `ZmkBuild` |
| `ZmkBuild` | `west zmk-build` from its arguments to its exit status | `MCZmkBuild` |
| `FakeCcm` | every register access of the CCM, the transform byte by byte | `TwoMachines` |
| `Nvmc` | CONFIG, READY, page erases | `TwoMachines` |
| `TwoMachines` | the link layers and settings stores of two machines over both | `MCTwoMachines` |
| `DataLemmas` | facts on sequences, induction, what `FoldLeft` and `FlattenSeq` compute | the proofs |
| `FramingLemmas` | what the decoder makes of framed payloads | `SmokeProofs`, `BsimProofs` |
| `CdcBridgeProofs`, `UsbBulkOutProofs`, `SmokeProofs`, `ZmkBuildProofs`, `TwoMachinesProofs` | theorems about the module of that name and what it is composed of | |
| `BsimProofs` | theorems about the BabbleSim tests: `BsimRunner` and `StudioHost` | |

Conventions. Definitions keep the source's names; an action is a whole
callback, or that part of a method that runs between two points where another
thread can intervene (a lock taken or released, an event register written). A
byte or chunk is its ordinal, so order, loss and duplication are visible
without modelling contents; only the framing, where the value of a byte
matters, has byte values. Operators marked "Mutant" are faulty variants of the
definition that follows them; they are used only to show that a property would
notice.

External parts, modelled from how the code uses them: Renode's `USBHost` and
`USBEndpoint` (the buffer lock and the trailing `dataCallback = null` are
described in the comments of `DualCdcAcmBridge.cs`), the guest's USB driver
(register accesses as the comments of `NRF_USBD_Full.cs` give them), the
Zephyr Bluetooth stack (may refuse any call; a bonded subscription survives a
disconnection and is then written again by the stack), the keyboard firmware,
the Renode process and its monitor, the simulated devices and the phy, Zephyr's
link layer, flash driver and settings store (as the comments of `ccm.py` and
`nvmc.py` describe them), `west build` and `west flash`, and the thread pool.

### State and actions, module by module

`UsbBulkOut`: `outDataQueues`, `presentedOutChunk`, `sizeEpOut`,
`epOutDataStatus` are the fields under `outLock`; `interrupt` and `epData` are
raised after the lock is released, one after the other (`hostSignal` is the
host thread's position in `SetEvent`). The guest's handler (`isr`) clears the
event, lowers the line, reads the status and acknowledges it by writing back
what it read, then starts a DMA per endpoint. `Reset` is three steps
(registers, sizes, queues) because only the last is under the lock.

`CdcInPump`: `dataCallback` is armed once per delivery. `InvokeDataCallback`
and `ClearDataCallback` are the two halves of `HandlePacket`: the callback
runs, then the framework clears it. `ReArmDeviceToHostPump` therefore only
queues an item (`reArms`), which a pool thread (`RunReArm`) executes under the
buffer lock and may then deliver what has piled up.

`Ep0Control` and `CdcBridge`: one SETUP packet is latched with its callback;
the guest reads it, moves the data stage and ends with status or stall.
`HandleEp0Status` takes the callback, nulls the field and then invokes it, in
steps of their own, since the callback issues the chain's next request.
`CdcBridge` adds the chain: configuration descriptor header, full descriptor,
line coding and control lines of each wired channel, and then the pumps. Which
functions there are is the descriptor's: `CdcDescriptor` has the walk
(`ParseCdcDataPairs`, a fold with one step per entry) and a declarative
`CdcFunctions`; `ChannelsMeetFunctions` relates the channels to the latter.

`StudioHost`: `awaiting` is the one answer of the stack that is outstanding;
`att` is the host's ATT queue; `decoder`, `requests_sent` and
`responses_received` are statics that a disconnection leaves alone.
`indicate_func` runs 1..MaxIndication bytes of the wire through the decoder.

`StudioRpcClient`: `ReadByte` and `ReadTimeout` are the two ways a round of
`read_frame` goes; `Take` is what each caller does with the outcome.

`RenodeSession`: `stage` is the position of the (single-threaded) harness,
`command` a `pause` or `start` that Renode has accepted but not completed.
`Raises` is every way an exception leaves an attempt, `Retries` the exceptions
each mode's `except` clause names. `RenodeBoot` fills the stage "boot": a boot
function connects terminals and sends commands (`BootStep`), the monitor carries
out the script's commands and those sent (`CarryOut`), one after the other, on
the machine created or selected last. A boot fails at any point (`BootFails`).
`Smoke` runs the conversation or the chain
while `stage` is "body"; devices move only while Renode is up and not paused.

`BleChain`: `drain_rtt`, `drain_host`, `judge`, `look_at_clock` are one round
of the loop; the emulated machines move between any two of them.

`BsimRunner`: one case, the focus, is simulated process by process; the other
cases only begin and end, since cases share nothing but the results. The
reader threads copy lines into one log in any interleaving and may be overtaken
by the join's timeout. A device or a phy that cannot be started raises.

`ZmkBuild`: `do_run` is everything the main thread does before the first job
(nothing runs beside it). A job moves from "queued" over "building" and
"flashing" to "over"; its process and the two threads of `TeePopen` move between.
A thread may fail on a line (`ReaderFails`), which `wait` does not notice: its log
ends before that line, and the job's verdict is its exit status all the same.
`finished` holds the completed futures `as_completed` has yet to yield: those
complete when it begins come in any order (it starts from a set), later ones as
they complete. `BuildMatrix` computes the targets; a set that Python iterates is
taken in each of its orders.

`TwoMachines`: `at` is the position in the register accesses and buffer reads a
link layer makes for one packet; the settings store runs in the same machine
while the link layer waits. `FakeCcm` keeps its state by machine (`_state`),
`Nvmc` its `config` in one place, as the scripts do.

## 3. Runs

Passing runs (distinct states and time with two workers):

| Run | States | Time | Asks |
|---|---|---|---|
| `cdc_bridge` | 177 k | 140 s | are answers matched to requests, is the chain never orphaned, do channels stand for the device's functions, do pumps start only after the control sequence and stay armed, are host bytes conserved; does the bridge refine `BytePipe`; does enumeration end, is everything delivered, do host bytes arrive |
| `usb_out` | 154 k | 22 s | is a presented chunk always announced, SIZE exact, every DMA answered; refinement of `BytePipe`; does the guest fetch everything |
| `studio_host` | 218 k | 18 s | are requests in order, once, only when ready, earned; frames as sent; how far the announcement runs ahead of the answers; every request written |
| `smoke` | 597 k | 100 s | is a started emulation whole (images, flash, links, terminals, files), the bridge set up frozen, no test frozen, one emulation at a time, OK earned, frames real, answers matched, quantum raised late enough, reads encrypted; does every run end |
| `bsim_runner` | 1.86 M | 120 s | is the verdict the devices', and no pass earned by a thread left behind, is no device left of a simulation carried through, is the exit honest; does every run end |
| `zmk_build` | 303 k | 60 s | own directories, whole logs, earned successes, an honest exit status, the user's editor entries kept; does every run end |
| `two_machines` | 765 k | 25 s | do PDUs arrive byte for byte through the transform, do settings survive the shared CONFIG |

Type invariants are conjuncts of `BridgeInvariant`, `StudioInvariant`,
`BootInvariant`, `ChainInvariant`, `BsimInvariant`, `BuildInvariant` and
`MachinesInvariant`; those of the pump, of bulk OUT and of the session, and
`NothingLost` and `PumpInOrder`, are proved and therefore not among a run's
properties. `MCCdcBridge` also has TLC compare `ParseCdcDataPairs` with
`CdcFunctions` on every descriptor of up to five entries and of up to four
fragments (`ParserMeetsDefinition`), which section 4 proves of all descriptors.

Violation runs, each one statement of the repository's own documentation or
code that the code does not keep:

| Run | Statement | What happens |
|---|---|---|
| `usb_out_reset` | SIZE, EPDATASTATUS and the presented chunk belong together, guarded by `outLock` | `Reset` clears SIZE outside the lock, then the queues: a host write in between leaves its chunk's SIZE with no chunk |
| `cdc_wire_order` | bytes buffered before the wiring leave before later ones | `Wire` flushes after the unlock: a byte written meanwhile overtakes |
| `rpc_burst` | the unlock's notification and response: "assert both are delivered" (`renode_smoke.py:234`) | a late notification of the *lock* counts |
| `ble_chain_order` | the encrypted chain "IN ORDER" (`renode_smoke.py:1188`) | the loop only asks for a conjunction |
| `zmk_build_ids` | a job is reported under its number in the list of targets (`zmk_build.py:401`, `:466`) | one that raises is reported under the count of completions and the name in that place (`:440`) |

Further differences noted while reading, without a run: the docstring of
`_run_ble_split_attempt` (`renode_smoke.py:1204`) says the attempt fails on the
peripheral's "Security failed" and on any host FAIL marker, the code (and the
note at `:1281`) only counts them; that note says the host app disconnects and
retries after a failed pairing, `renode-ble-host` only prints the failure;
`boot_ble_pair`, `boot_split_wired` and `boot_ble_split` leave Renode running
when they fail half-way, unlike `boot_single_real`, whose comment explains why
it stops it; `ble-studio-host/README.md:58` has one request sent "per received
response", the code counts every frame, a notification too; in `zmk_build.py` the
shield-less target of an `include` raises a `KeyError`, entries of `launch.json`
are looked up by artifact but stored under "Debug ZMK - ..." and so are always
made anew, both editor files lose the entries of other targets when one is added,
"Overwriting." precedes an `exit(1)`, the branch for an empty matrix with a name
of its own cannot be reached, and `docs/zmk-build.md` has `--skip-build` and
`_debug` where the code has `--skip-rebuild` and `_debug_jlink`. The CONFIG
register two machines share does no harm only because nothing enforces it.

### Bounds, and why they are enough

* Two endpoints or channels: the code treats them alike except for the shared
  interrupt, event register, DMA engine and CPU thread, and two compete for
  those. No symmetry: the runs check liveness.
* `usb_out`: `MaxPacket = 2`, `MaxWrite = 3` and the bytes each endpoint gets: a
  full packet, a short last packet, a write longer than a packet and a queue with
  two chunks all occur.
* `cdc_bridge`: `MaxChunks = 2`, `MaxHostBytes = 2`: a delivery with nothing, one
  and several chunks buffered, a re-arm that overlaps the next transfer, a byte
  before and one after the wiring. The pump is proved for every number.
* One stall, one drop, one reset: after each the system must recover or stay
  within what the properties allow; a second adds nothing new but time.
* `Descriptors`: no CDC function, one (with a HID interface between its halves,
  alternate settings and a zero-length descriptor), and more than the bridge has
  channels for.
* `studio_host`: three requests (first, middle, last), `FrameBuf = 2` with a
  response of three bytes, responses that need an escape at either end, two
  disconnections (so that state survives one and meets the next), two faults.
* `smoke`: two attempts as in the code, one lost frame, one host fault, one
  dropped link, one extra security request, one failed pairing; payloads that
  contain SOF, ESC and EOF. A second fault of a kind only repeats a retry.
* `zmk_build`: up to three targets on one or two threads, a line per stream, one
  copying thread that fails, and
  the command lines of `MCZmkBuild`: pools with and without `-p`, one target
  flashed or not, plans with equal names, filters, selections, editor files that
  are absent, filled or broken.
* `two_machines`: a packet is empty, short, or the longest whose MIC still fits a
  byte (9 stands for 255); two flash pages of two words, so that the store is
  collected and the page erased.
* `bsim_runner`: three cases with up to two threads (one runs, one waits, one
  queued), keyboard, handbrake and one sibling, which print no more lines than the
  snapshot has of them (two and one), each of two texts.

Deadlock checking is off in every run: all of these programs end, and the
bounds end the rest. That the systems do not stop early is what the liveness
properties are for.

### Fairness

* `CdcBridge`: weak fairness of the pool threads and of a thread inside
  `GetData` (the .NET scheduler), strong fairness of the guest's control
  endpoint and of the chain, which share one CPU thread with the IN transfers.
  None for what the guest or client chooses to do.
* `UsbBulkOut`: weak fairness of the guest's handler, of a `Reset` begun and of
  a host thread inside `SetEvent`. None for writes, drops and resets.
* `StudioHost`: weak fairness of the stack and the keyboard's answers; none for
  notifications and disconnections.
* `Smoke`: the harness never waits without a deadline, so it moves (weak
  fairness); a deadline that its loop re-reads forever passes at last (strong
  fairness, it is the wall clock); Renode completes a command unless it dies. A
  boot either goes on or fails, which is the harness's own step (a connection or
  the wait for the monitor times out). The devices and the radio have none.
* `BsimRunner`: weak fairness of the runner's threads, since each wait of a
  simulation has a timeout; the builds (`runner.py:137`) have none and are taken to
  end. None for devices and reader threads, which may hang.
* `ZmkBuild`: weak fairness of the main thread, the jobs, the copying threads and
  of `west` with its descendants, for which the code waits without a timeout (a descendant that keeps a pipe open for
  good is taken not to occur: the build would wait for it).
* `TwoMachines`: none, it has safety properties only.

## 4. Proofs

*Data* (`DataLemmas`, `FramingLemmas`). The models compute on sequences with
`FoldLeft` and `FlattenSeq`, which are defined by choice over sets of positions.
The library's induction theorems cannot be used here (they take a predicate), so
`Induction` is stated of a set of numbers and follows from the least number that
would be missing. `FoldExists`, `StepsExist` and `FlattenJoins` derive from it that
a fold is the function one would write down recursively, and `FlatMapJoins` that
mapping elements to sequences goes well with concatenation. The ordinals
(`HandHeadOn`, `ItemsOf...`) are for queues of consecutive numbers.
`FramingLemmas` has the central fact of the protocol: `InSync` relates a decoder,
the bytes on their way and the payloads they are the frames of. A byte taken and a
frame sent keep it, and a byte that ends a frame ends it with exactly what fits of
the next payload, whatever bytes it is made of.

*Device-to-host pump* (`CdcBridgeProofs`). `PumpInvariant` is the conjunction
of the types, `PumpHandling` (inside `HandlePacket` the callback is armed, and
before it runs there is a chunk for it), `PumpInOrder` and `ArmedExactlyOnce`.
`PumpHandling` is the strengthening: without it the clearing at the end of
`HandlePacket` might clear nothing, and a delivery might find no chunk. From it follow
`PumpTypeCorrect`, `PumpDeliversInOrder`, `PumpStaysArmed`, and
`PumpImplementsPipe`, the refinement of `BytePipe`.

*Bridge* (`CdcBridgeProofs`). Every step of `CdcBridge` is a step of the pump
or leaves it alone (`BridgeImplementsPump`), so the pump's theorems hold of the
whole bridge: `BridgePumpCorrect`, `BridgeImplementsPipe`. The control chain needs
more than is observed of it. `TransferOwned` (either nobody waits and the guest
has nothing to serve, or packet, callback, guest and accumulator are all of one
request) and `AttachUndisturbed` (the framework issues its requests before the
guest runs) make `AnswerBelongsToRequest` and `ChainNotOrphaned` inductive: a
callback taken, nulled and then invoked may issue the next request in between.
`WiringProgress` says, stage by stage, which channels are wired and that the class
requests of each are answered, latched or queued, so that none is missing when
the pumps start; a pump not started has no callback and has delivered nothing
(`QuietUntilPumped`). For the host's bytes `PlacesHold` gives each byte its one
place, with the two bytes that threads hold between a lock and their write.
Results: `AnswersReachTheirRequest`, `ChainIsNotOrphaned`, `DataOnlyAfterControl`
(with the types of the whole bridge), `NoHostByteLost`. Which functions there are
is `ParserFindsFunctions`: of every sequence of entries `ParseCdcDataPairs` returns
the functions declared, in order. The fold becomes the values it goes through
(`WalkEntryByEntry`); `WalkedTo` describes the value after k entries by the
interface the walk is in: the pairs of the functions before it, the last endpoint
of each direction seen since, and the interface that would control the next
function. An entry of length 0 freezes it (`NothingAfterEnd`), and as a set of
places has one order (`OneOrder`) the pairs are those of the definition.

*Bulk OUT* (`UsbBulkOutProofs`). `BulkOutInvariant` adds to the types:
`PointsConsistent` (the positions of host thread, handler and reset fit
together), `ChunksKnown` (a presented chunk is announced somewhere on the path
from status bit over event register and interrupt to the handler's own
variables), `SizesExact`, `ClaimsAreSound` and `DmaAnswered` (what the guest
believes is fetchable is, as long as there was no drop or reset), `NothingLost`.
The announcement is spread over six variables and three threads, which is why
`PresentedChunkIsKnown` alone is not inductive. Results: `BulkOutTypeCorrect`,
`NoChunkForgotten`, `SizeIsExact`, `EveryDmaAnswered`, `NoByteLost`,
`BulkOutImplementsPipe`.

*Smoke tests* (`SmokeProofs`), proved of the whole `SmokeSpec` for every
`max_attempts` and every number of faults.

The session: `SessionInvariant` adds to the types that the command under way
fits the stage and has not taken effect (`CommandFitsStage`), that what was
seen running runs (`SeenRunning`), that only USB modes attach, that clients
precede the attachment, and that every process is accounted for. Results:
`SessionTypeCorrect`, `BridgeIsSetUpFrozen`, `EmulationNotFrozen`,
`OnlyOneEmulation`.

The encrypted chain: `ReadsAreEncrypted` speaks of positions in a console that
holds several connections. Its strengthening `OneReadPerConnection` has a read
under way only if the current connection has reported its encryption and no read
yet. `SeenIsReal` bounds what the loop has concluded by what the machines have
printed, as it reads their consoles in turns. With both, `ChainHolds`.

The conversation: `ConversationInvariant` adds to the types that a client that is
not reading has a fresh decoder, that until a deadline has cut a frame the bytes in
the socket are in step with what the device sent (`ReadsInSync`, from `InSync`), and
that while one answer is asked for at a time nothing else is under way
(`OneAtATime`): the client compares kinds only, so an answer fits its request because
no other could be there. Results: `FramesAlwaysReal`, `AnswersAlwaysMatch`, for every
payload of every message and any number of lost frames.

The verdict: `AnsweredSoFar` and `VerdictFollows` carry the loop's conclusions to
the exit; with the conversation's answers the result is `VerdictIsEarned`, that an
OK is what the mode promises.

*BabbleSim runner* (`BsimProofs`), for every number of cases, threads and
devices. `RunnerInvariant` adds to the types that the focus and no other case is
simulated (`FocusIsSimulated`), that no case is under way before the host
applications are built or after the end (`NoneBeforeNoneAfter`), that the reaper
leaves nothing behind it (`ReapedAreGone`), and that the summary is of all cases
(`SummaryIsLast`). That the pool runs no more cases than it has threads is a
cardinality, proved from `FiniteSetTheorems`. Results: `NothingOutlivesTheRun`,
`BsimExitIsHonest`, whichever job raised. For the verdict, `ReadIsLogged` says of
the open log that it has, device by device, the lines its thread has read, and that
a thread is over only when there is nothing left to read; `JoinedAreOver` and
`LogIsComplete` bring that through the joins and the closing to the evaluation. The
log's lines of one device are a `FlattenSeq` and so is the sorted log: `SortedTells`
has the two sides equal exactly if every device's lines are. Result:
`VerdictIsDecidedByDevices`, for all devices, texts, snapshots and interleavings;
of a log closed under a thread left behind, that a pass needs what the snapshot has
to be what every device printed first.

*Host of the Studio cases* (`BsimProofs`), for every list of requests, every
payload, every buffer and every cut of the frames into indications. `indicate_func`
folds `frame_rx_byte` over an indication, so the step is an induction over its bytes:
`RpcGood` is what every byte keeps (requests taken and queued are in order and at
most those earned; unless a link dropped between an ESC and its byte, nothing was
misread and the decoder is in step with the wire). `LinkInOrder` orders scanning,
connection, encryption and the handle; `Undisturbed` has, as long as there was no
fault, notification or drop, one subscription and at most one request not yet
answered; `RpcCounted` has, whatever happened, what was received counted among the
answers and notifications, and the announcement wait for more than that. Together they are `HostInvariant`, with the results
`RequestsReadyAndEarned`, `RequestsAlwaysInOrder`, `FramesAlwaysAsSent` and
`AnnouncementIsTrue`.

*West zmk-build* (`ZmkBuildProofs`), for every number of jobs, every command
line and every size of the pool. `RunInvariant` has four parts.
`CollectInvariant` follows a job: only targets have one (`JobsAreTargets`), one
that is over waits among the completed futures or has been collected
(`OverIsAccounted`), a result tells its job's outcome (`ResultsAreOutcomes`),
and after the exit nothing is under way (`ExitedIsOver`). The exit status is
computed from the results alone, so without the accounting `BuildExitIsHonest`
is not inductive. `TeeInvariant` follows the output of a process: a log holds
the first lines of each stream, as many as its thread has copied, in order
(`Follows`), and a thread is through with its stream only when all of it is
copied and nobody writes any more, or when it failed (`PipesFollow`). `PlanInvariant` has the names
distinct and the user's editor entries kept. `DirInvariant` lets a job's
directory tell that job's history and no other's, which is where distinct names
are needed, and `SkipInvariant` has a build that was skipped leave it alone.
Results: `ExitStatusIsHonest`, `ResultsTellTheOutcome`,
`EveryJobHasItsDirectory`, `LogsAreMovedWhole`, `EverySuccessIsEarned`,
`BuildAlwaysInvariant`. That listing and filtering, which join sequences, make
sequences of targets of whatever files and command line is `ListedAreTargets`.

*Two machines* (`TwoMachinesProofs`), for all payloads, all sizes of a byte, a
buffer and a page. `StoreInvariant`: the page in use holds the newest value in its
last used word and is blank beyond, the other page is blank but while a copied
page awaits its erase; of CONFIG, shared by the machines, it says no more than its
type, so a mode change in between does no harm. `LinkInvariant`: at any moment one
machine has the turn, to send or because a frame is on its way to it, while the
other waits (`Turn`, `Waits`); what is in the air and in each buffer is the
packet's plaintext or ciphertext according to how far its machine has come, and
the two packet counters agree on it. Results: `SettingsAlwaysSurvive` and
`PdusAlwaysArriveIntact`, in order and byte for byte through the transform.

Assumptions are those the modules name (`ChannelCountAssumption`,
`PumpAssumption`, `Ep0Assumption`, `BridgeAssumption`, `BulkOutAssumption`,
`SessionAssumption`, `FramingAssumption`, `RpcAssumption`, `StudioAssumption`, `HostAssumption`, `ChainAssumption`,
`BsimAssumption`, `MatrixAssumption`, `BuildAssumption`, `CcmAssumption`,
`NvmcAssumption`, `RadioAssumption`); TLC evaluates each in a passing run. Two
more are in the modelling: when the `execute` of `start` returns, the monitor
has carried out what was sent before (`RenodeBoot`), and when the boot's wait
for the guest to settle is over, its `start` has taken effect (`RenodeSession`).

With TLC only:

* all liveness properties, which need fairness and ENABLED;
* `BootedWhole`: per mode, a boot is two fixed lists of commands, interleaved; no
  constant enters, and TLC has all of its states.

## 5. What is not modelled

* A machine reset under a wired bridge: nothing enumerates the device again,
  while the channels stay wired.
* `resolve_links`, `canonical_mode` and the rest of the command lines.
* The key relay over the wired split link and the liveness sampling are one
  step with either outcome.
* The conversion of `studio_requests.json`, the expansion of `siblings.txt`,
  `events.patterns` (every line is kept) and sim-id collisions.
* Of `zmk_build.py` the text of the commands: CMake arguments, snippets, extra
  modules, the JLink options; of the boots the options no smoke mode passes
  (`device_addr`, the RTT of `boot_single_real`). Names are sequences of words:
  two artifact names of `build.yaml`, which nobody cleans, that differ as text and
  meet in one path (`a`, `./a`) are not told apart from other different names.
* More than one host thread writing to one endpoint at a time: `UsbBulkOut` has one
  per endpoint, two in all. In the bridge a second one is there only while `Wire`
  flushes; `cdc_wire_order` is about that.
* In `RenodeBleHost` a success below `BT_SECURITY_L2`, which the stack does not
  report, and in `CdcInPump` an endpoint that is not found: the controller
  registers one for every bulk number.
* FICR, the QSPI and USBD stubs: constants, or registers stored and read back,
  with no property to tell apart; the RTT hook is one step of `RenodeBoot`. Of CCM
  and NVMC the registers that are only stored.
* `install_renode.sh`, CI, the pytest suites.

## 6. Plan

Done, in this order: `BytePipe`, `UsbBulkOut` and its proofs; `CdcInPump`,
`Ep0Control`, `CdcAcmChannel`, `CdcBridge` and the pump's proofs; `StudioFraming`,
`StudioHost`, `StudioRpcClient`; `RenodeBleHost`, `BleChain`, `RenodeSession`,
`Smoke` with the session's proofs; `BsimRunner`; `TeePopen`, `BuildMatrix`,
`ZmkBuild` with the exit status' proof; `FakeCcm`, `Nvmc`, `TwoMachines`;
`RenodeBoot` in `Smoke`; `CdcDescriptor` in `CdcBridge`; the theorems about the
control chain and the host's bytes, the encrypted chain and the verdict, the
BabbleSim runner, the directories and logs of `zmk-build`, and the two machines;
the framing, the conversation and the Studio host; the BabbleSim verdict.

Next:

1. An abstract specification of the link (a channel of PDUs, in order and
   unchanged) and `TwoMachines` as its refinement, from `LinkInvariant`.
2. The machine reset under a wired bridge in `CdcBridge`, where the control
   endpoint's state and the framework's callbacks meet a device that starts anew.
3. `resolve_links` as an operator, and simulation ids that collide in
   `BsimRunner`.
