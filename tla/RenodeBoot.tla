------------------------------ MODULE RenodeBoot -----------------------------
(***************************************************************************)
(* What the boot_* functions of renode_harness.py do between the monitor's *)
(* coming up and the start: the Renode script (platforms/*.resc) builds    *)
(* the machines while the harness connects the terminals it creates,       *)
(* selects machines, hooks the RTT, preloads the erased flash, starts, and *)
(* removes the temporary files the script has read.                        *)
(*                                                                         *)
(* External: the monitor carries commands out one by one, the script's     *)
(* first, then those sent.  execute does not wait for its command; assumed *)
(* is that the monitor has caught up when the execute of `start' returns.  *)
(***************************************************************************)
EXTENDS RenodeSession, Sequences, SequencesExt

VARIABLES
  ran,       (* commands the monitor has carried out                       *)
  bootPos,   (* what the boot function has done                            *)
  selected,  (* the machine commands apply to, "none" before the first     *)
  has,       (* <<machine, thing>> it was given                            *)
  terminals, (* server sockets that exist,                                 *)
  opened,    (* and those with the harness as their client                 *)
  files,     (* temporary files that exist                                 *)
  missing    (* a command found its file or machine missing                *)

bootVars == <<ran, bootPos, selected, has, terminals, opened, files, missing>>

Command(o, a) == [op |-> o, arg |-> a]

\* The machines in the order the script creates them, and those of a real image.
BootMachines(m) ==
  CASE m \in {"usb", "liveness"}    -> <<"single">>
    [] m \in {"wired", "usb_wired"} -> <<"central", "peripheral">>
    [] m = "ble"                    -> <<"dut", "host">>
    [] m = "ble_split"              -> <<"central", "peripheral", "host">>
RealMachines(m) ==
  CASE m = "wired" -> {} [] m = "usb_wired" -> {"central"}
    [] OTHER -> ToSet(BootMachines(m))
\* The machines with settings in flash, in the order they are preloaded.
StorageMachines(m) ==
  CASE m \in {"usb", "liveness"} -> <<"single">>
    [] m = "wired"               -> << >>
    [] m = "usb_wired"           -> <<"central">>
    [] m = "ble"                 -> <<"dut">>
    [] m = "ble_split"           -> <<"central", "peripheral">>
Uarts(m, name) ==
  IF name \in {"single", "dut"} \/ (m = "ble_split" /\ name = "central") THEN 2 ELSE 1

\* Each real machine of a BLE test has a FICR of its own, with its own address.
TemporaryFiles(m) ==
  ({"repl"} \X RealMachines(m))
    \cup (IF m \in BleModes THEN {"ficr"} \X RealMachines(m) \cup {<<"ccm", "all">>} ELSE {})
    \cup (IF m = "wired" THEN {} ELSE {<<"ff", "all">>})

-----------------------------------------------------------------------------
(* The scripts.                                                            *)

TerminalsOf(m, name) ==
  [k \in 1..Uarts(m, name) |-> Command("terminal", <<name, k>>)]

\* platform, with the CCM and the radio, or the UART that is the split link; a
\* keyboard's image does not start at 0, so its vector table is pointed at it.
MachineScript(m, name) ==
  <<Command("create", name), Command("platform", <<"repl", name>>)>>
    \o (IF m \in BleModes
        THEN <<Command("ccm", <<"ccm", "all">>), Command("link", "radio")>> ELSE << >>)
    \o TerminalsOf(m, name)
    \o (IF m \in {"wired", "usb_wired"} THEN <<Command("link", "uart1")>> ELSE << >>)
    \o <<Command("elf", name)>>
    \o (IF name = "host" THEN << >> ELSE <<Command("vtor", "load offset")>>)

ScriptOf(m) ==
  FlattenSeq([i \in DOMAIN BootMachines(m) |-> MachineScript(m, BootMachines(m)[i])])

-----------------------------------------------------------------------------
(* The boot functions: connections and commands.                           *)

Connects(ts) == [i \in DOMAIN ts |-> Command("connect", ts[i])]
\* Mutant: the machine the script has created last is preloaded.
PreloadSelected(m) ==
  [i \in DOMAIN StorageMachines(m) |-> Command("LoadBinary", <<"ff", "all">>)]

Preload(m) ==
  FlattenSeq([i \in DOMAIN StorageMachines(m) |->
    (IF Len(BootMachines(m)) = 1 THEN << >>
     ELSE <<Command("mach set", StorageMachines(m)[i])>>)
      \o <<Command("LoadBinary", <<"ff", "all">>)>>])

boot_single_real == Connects(<<<<"single", 1>>, <<"single", 2>>>>) \o Preload("usb")
boot_split_wired == Connects(<<<<"central", 1>>, <<"peripheral", 1>>>>)
boot_usb_wired_split == boot_split_wired \o Preload("usb_wired")
boot_ble_pair ==
  <<Command("logFile", "renode_log")>>
    \o Connects(<<<<"dut", 1>>, <<"dut", 2>>, <<"host", 1>>>>) \o Preload("ble")
RttConsole == 0   \* beside the UARTs 1 and 2
RttCapture ==
  <<Command("mach set", "peripheral"), Command("rtt", "hook"),
    Command("terminal", <<"peripheral", RttConsole>>),
    Command("connect", <<"peripheral", RttConsole>>)>>
boot_ble_split ==
  <<Command("logFile", "renode_log")>>
    \o Connects(<<<<"central", 1>>, <<"host", 1>>, <<"central", 2>>, <<"peripheral", 1>>>>)
    \o RttCapture \o Preload("ble_split")

BootSteps(m) ==
  (CASE m \in {"usb", "liveness"} -> boot_single_real
     [] m = "wired"               -> boot_split_wired
     [] m = "usb_wired"           -> boot_usb_wired_split
     [] m = "ble"                 -> boot_ble_pair
     [] m = "ble_split"           -> boot_ble_split) \o <<Command("start", "all")>>

\* What the monitor is to do: the script, and what was sent so far.
Sent ==
  SelectSeq(SubSeq(BootSteps(mode), 1, bootPos), LAMBDA c : c.op # "connect")
Queue == ScriptOf(mode) \o Sent

-----------------------------------------------------------------------------
BootTypeOK ==
  /\ ran \in 0..Len(Queue) /\ bootPos \in 0..Len(BootSteps(mode))
  /\ selected \in {"none"} \cup ToSet(BootMachines(mode))
  /\ opened \subseteq terminals /\ files \subseteq TemporaryFiles(mode)
  /\ missing \in BOOLEAN

\* However a boot ends, its files are removed; the next attempt writes its own,
\* before it starts Renode.
FreshBoot ==
  /\ ran' = 0 /\ bootPos' = 0 /\ selected' = "none" /\ has' = {}
  /\ terminals' = {} /\ opened' = {}
  /\ files' = IF stage' = "spawn" THEN TemporaryFiles(mode) ELSE {}
  /\ missing' = FALSE

BootInit ==
  /\ ran = 0 /\ bootPos = 0 /\ selected = "none" /\ has = {}
  /\ terminals = {} /\ opened = {}
  /\ files = TemporaryFiles(mode) /\ missing = FALSE

Reads(c) ==
  CASE c.op = "platform" -> {f \in TemporaryFiles(mode) : f[2] = c.arg[2]}
    [] c.op \in {"ccm", "LoadBinary"} -> {c.arg}
    [] OTHER -> {}

\* What a command gives the selected machine, an image by the name of the machine
\* it is for; the hook finds its symbol only in an image that is loaded.
Thing(c) ==
  CASE c.op = "platform"   -> {"platform"}
    [] c.op = "ccm"        -> {"ccm"}
    [] c.op \in {"link", "elf", "vtor"} -> {c.arg}
    [] c.op = "LoadBinary" -> {"erased"}
    [] c.op = "rtt"        -> IF <<selected, selected>> \in has THEN {"rtt"} ELSE {}
    [] OTHER -> {}

\* The monitor's next command.
CarryOut ==
  /\ process = "up" /\ ran < Len(Queue) /\ ran' = ran + 1
  /\ LET cmd == Queue[ran + 1]
     IN /\ selected' = IF cmd.op \in {"create", "mach set"} THEN cmd.arg ELSE selected
        /\ terminals' = IF cmd.op = "terminal" THEN terminals \cup {cmd.arg} ELSE terminals
        /\ has' = has \cup ({selected} \X Thing(cmd))
        /\ missing' = (missing \/ ~(Reads(cmd) \subseteq files))
  /\ UNCHANGED <<bootPos, opened, files>>

\* A connection succeeds once the terminal is there; a command is only sent.
BootStep ==
  /\ stage = "boot" /\ process = "up" /\ bootPos < Len(BootSteps(mode))
  /\ bootPos' = bootPos + 1
  /\ LET cmd == BootSteps(mode)[bootPos + 1]
     IN IF cmd.op = "connect"
        THEN cmd.arg \in terminals /\ opened' = opened \cup {cmd.arg}
        ELSE UNCHANGED opened
  /\ UNCHANGED <<ran, selected, has, terminals, files, missing>>

\* start has been carried out; the files are removed.
BootReturns ==
  /\ bootPos = Len(BootSteps(mode)) /\ ran = Len(Queue)
  /\ files' = {}
  /\ UNCHANGED <<ran, bootPos, selected, has, terminals, opened, missing>>

-----------------------------------------------------------------------------
\* The machines a test needs: each with its own image and its vector table, the
\* erased flash where there are settings and nowhere else, the link, and the RTT
\* of the peripheral.
Needs(m) ==
  LET machines == ToSet(BootMachines(m))
  IN (machines \X {"platform"}) \cup {<<name, name>> : name \in machines}
       \cup ((machines \ {"host"}) \X {"load offset"})
       \cup (ToSet(StorageMachines(m)) \X {"erased"})
       \cup (IF m \in BleModes THEN machines \X {"ccm", "radio"} ELSE {})
       \cup (IF m \in {"wired", "usb_wired"} THEN machines \X {"uart1"} ELSE {})
       \cup (IF m = "ble_split" THEN {<<"peripheral", "rtt">>} ELSE {})

\* A started emulation is the one the test is about: all machines complete and
\* on files that were still there, every terminal connected before the start, so
\* that no output is lost, the machine with the USB device selected for the
\* bridge, and no temporary file left.
BootedWhole ==
  /\ stage \in Booted =>
       /\ has = Needs(mode) /\ ~missing
       /\ opened = terminals
       /\ mode \in UsbModes => selected \in RealMachines(mode)
  /\ stage \in Booted \cup {"done"} => files = {}
=============================================================================
