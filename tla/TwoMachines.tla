----------------------------- MODULE TwoMachines -----------------------------
(***************************************************************************)
(* The fake peripherals under the firmware of two machines on one radio:   *)
(* an encrypted link through FakeCcm, register access by register access,  *)
(* and a settings store on Nvmc, which the link layer's interrupts         *)
(* preempt.                                                                *)
(*                                                                         *)
(* External: the firmware, as the comments of ccm.py and nvmc.py describe  *)
(* Zephyr's controller and flash driver, and the radio, which takes the    *)
(* bytes from the sender's buffer when it starts and puts them into the    *)
(* receiver's before the CCM is triggered.                                 *)
(***************************************************************************)
EXTENDS FakeCcm, Nvmc, SequencesExt

CONSTANTS first,       (* the machine that sends first                     *)
          Payloads,    (* bound: what each machine sends, in order         *)
          MaxVersions  (* bound: the values a machine stores               *)

CONSTANTS plain, scratch, node  (* the buffers of the link layer           *)

ASSUME RadioAssumption ==
  /\ Machine = NvmcMachine /\ first \in Machine
  /\ \E m, n \in Machine : m # n /\ Machine = {m, n}
  /\ Buffer = {plain, scratch, node}
  /\ Payloads \in [Machine -> Seq(Seq(Byte))]
  /\ \A m \in Machine : \A k \in DOMAIN Payloads[m] :
       Len(Payloads[m][k]) <= MaxByte - MIC_LEN
  /\ Pages = 2 /\ MaxVersions \in Nat /\ Value = {Blank} \cup (1..MaxVersions)
  /\ PageSize >= 2

VARIABLES
  role,     (* "transmitter" or "receiver"                                 *)
  at,       (* position in what that role does                             *)
  air,      (* the frame on its way to a machine, << >> if none            *)
  header,   (* sequence number and length as the receiver read them        *)
  toSend, sent, got,  (* payloads                                          *)
  micFailed,
  nvs       (* the store: task, position, page and words used, value       *)

pduVars == <<toSend, sent, got>>
linkVars == <<role, at, air, header, pduVars, micFailed>>
vars == <<ccmVars, nvmcVars, linkVars, nvs>>

Peer(m) == CHOOSE n \in Machine : n # m

TwoMachinesTypeOK ==
  /\ CcmTypeOK /\ NvmcTypeOK
  /\ role \in [Machine -> {"transmitter", "receiver"}] /\ at \in [Machine -> 0..12]
  /\ header \in [Machine -> Byte \X Byte] /\ micFailed \in [Machine -> BOOLEAN]
  /\ nvs \in [Machine -> [task : {"none", "store", "collect"}, at : 1..8,
                           page : 0..(Pages - 1), used : 0..PageSize,
                           value : 0..MaxVersions]]

Init ==
  /\ CcmInit /\ NvmcInit
  /\ role = [m \in Machine |-> IF m = first THEN "transmitter" ELSE "receiver"]
  /\ at = [m \in Machine |-> IF m = first THEN 0 ELSE 1]
  /\ air = [m \in Machine |-> << >>] /\ header = [m \in Machine |-> <<0, 0>>]
  /\ toSend = Payloads
  /\ sent = [m \in Machine |-> << >>] /\ got = [m \in Machine |-> << >>]
  /\ micFailed = [m \in Machine |-> FALSE]
  /\ nvs = [m \in Machine |-> [task |-> "none", at |-> 1, page |-> 0, used |-> 0, value |-> 0]]

-----------------------------------------------------------------------------
(* The link layer.  Both roles set the CCM up in steps 1 to 6, transmit or *)
(* receive in step 7, and the receiver looks at what it has got after.     *)

\* An access is <<register, value>>.
Setup(r) ==
  IF r = "transmitter"
  THEN <<<<"MODE", "encrypt">>, <<"INPTR", plain>>, <<"OUTPTR", scratch>>, <<"SHORTS", TRUE>>>>
  ELSE <<<<"MODE", "decrypt">>, <<"INPTR", scratch>>, <<"OUTPTR", node>>, <<"SHORTS", FALSE>>>>

Advances(m) == at' = [at EXCEPT ![m] = @ + 1]
Becomes(m, r, start) == role' = [role EXCEPT ![m] = r] /\ at' = [at EXCEPT ![m] = start]

Listening(m) == role[m] = "receiver" /\ at[m] = 7 /\ air[m] = << >>

\* The packet that is number k of its sender, with its one-bit sequence number.
Packet(payload, k, old) ==
  [i \in DOMAIN old |->
     CASE i = 0 -> k % 2
       [] i = 1 -> Len(payload)
       [] i \in PAY..(PAY + Len(payload) - 1) -> payload[i - PAY + 1]
       [] OTHER -> old[i]]

FillBuffer(m) ==
  /\ role[m] = "transmitter" /\ at[m] = 0 /\ toSend[m] # << >> /\ Advances(m)
  /\ ram' = [ram EXCEPT ![m][plain] = Packet(Head(toSend[m]), Len(sent[m]), @)]
  /\ sent' = [sent EXCEPT ![m] = Append(@, Head(toSend[m]))]
  /\ toSend' = [toSend EXCEPT ![m] = Tail(@)]
  /\ UNCHANGED <<regs, st, role, air, header, got, micFailed>>

SetUpCcm(m) ==
  /\ \/ /\ at[m] \in 1..4
        /\ LET access == Setup(role[m])[at[m]] IN WriteRegister(m, access[1], access[2])
     \/ at[m] = 5 /\ WriteEvent(m, "endcrypt", FALSE)
     \/ at[m] = 6 /\ WriteKsgen(m)
  /\ Advances(m)
  /\ UNCHANGED <<role, air, header, pduVars, micFailed>>

\* The frame is built from the buffer as the radio starts.
StartRadio(m) ==
  /\ role[m] = "transmitter" /\ at[m] = 7 /\ Listening(Peer(m))
  /\ air' = [air EXCEPT ![Peer(m)] = ram[m][scratch]]
  /\ Becomes(m, "receiver", 1)
  /\ UNCHANGED <<ccmVars, header, pduVars, micFailed>>

\* The bytes a frame's length covers.
Received(frame, old) ==
  [i \in DOMAIN old |-> IF i \in 0..(PAY + frame[1] - 1) THEN frame[i] ELSE old[i]]

Deposit(m) ==
  /\ role[m] = "receiver" /\ at[m] = 7 /\ air[m] # << >> /\ Advances(m)
  /\ ram' = [ram EXCEPT ![m][scratch] = Received(air[m], @)]
  /\ air' = [air EXCEPT ![m] = << >>]
  /\ UNCHANGED <<regs, st, role, header, pduVars, micFailed>>

\* CRYPT through the PPI, then the interrupt handler, which takes the header
\* from the buffer before it looks at the events.
Receive(m) ==
  /\ role[m] = "receiver" /\ Advances(m)
  /\ \/ at[m] = 8 /\ WriteCrypt(m) /\ UNCHANGED <<header, micFailed>>
     \/ /\ at[m] = 9
        /\ header' = [header EXCEPT ![m] = <<ram[m][node][0], ram[m][node][1]>>]
        /\ UNCHANGED <<ccmVars, micFailed>>
     \/ at[m] = 10 /\ ReadEvent(m) /\ UNCHANGED <<header, micFailed>>
     \/ /\ at[m] = 11 /\ ReadEvent(m)
        /\ micFailed' = [micFailed EXCEPT ![m] = @ \/ ~st'[_state(m)].micstatus]
        /\ UNCHANGED header
  /\ UNCHANGED <<role, air, pduVars>>

\* A packet with another sequence number is taken for a repetition and dropped.
Deliver(m) ==
  /\ role[m] = "receiver" /\ at[m] = 12 /\ Becomes(m, "transmitter", 0)
  /\ got' = [got EXCEPT ![m] =
       IF header[m][1] # Len(@) % 2 THEN @
       ELSE Append(@, [k \in 1..header[m][2] |-> ram[m][node][PAY + k - 1]])]
  /\ WriteStop(m)
  /\ UNCHANGED <<air, header, toSend, sent, micFailed>>

LinkStep(m) ==
  /\ FillBuffer(m) \/ SetUpCcm(m) \/ StartRadio(m) \/ Deposit(m) \/ Receive(m) \/ Deliver(m)
  /\ UNCHANGED <<nvmcVars, nvs>>

-----------------------------------------------------------------------------
(* The settings store: one value, in the next free word of one of two      *)
(* pages.  When its page is full the value is copied to the other, and the *)
(* full one is erased.                                                     *)

Script(task) ==
  CASE task = "none" -> << >>
    [] task = "store" -> <<"WEN", "store", "REN">>
    [] task = "collect" -> <<"WEN", "copy", "REN", "EEN", "erase", "READY", "REN">>

\* The thread runs while the link layer waits for the radio.
Op(m) ==
  IF nvs[m].at \in DOMAIN Script(nvs[m].task) THEN Script(nvs[m].task)[nvs[m].at] ELSE "done"
Thread(m, op) == Op(m) = op /\ (Listening(m) \/ at[m] = 0) /\ UNCHANGED <<ccmVars, linkVars>>
OpDone(m, n) == nvs' = [nvs EXCEPT ![m] = [n EXCEPT !.at = @ + 1]]

Target(m) ==
  IF Op(m) = "copy" THEN (1 - nvs[m].page) * PageSize
  ELSE nvs[m].page * PageSize + nvs[m].used

Save(m) ==
  /\ Thread(m, "done") /\ nvs[m].value < MaxVersions
  /\ nvs' = [nvs EXCEPT ![m].at = 1,
       ![m].task = IF nvs[m].used = PageSize THEN "collect" ELSE "store"]
  /\ UNCHANGED nvmcVars

SetMode(m) ==
  \E mode \in {"REN", "WEN", "EEN"} :
    Thread(m, mode) /\ WriteConfig(mode) /\ OpDone(m, nvs[m])

Store(m) ==
  /\ Thread(m, "store") /\ StoreWord(m, Target(m), nvs[m].value + 1)
  /\ OpDone(m, [nvs[m] EXCEPT !.used = @ + 1, !.value = @ + 1])

Copy(m) ==
  /\ Thread(m, "copy") /\ StoreWord(m, Target(m), nvs[m].value)
  /\ OpDone(m, [nvs[m] EXCEPT !.page = 1 - @, !.used = 1])

Erase(m) ==
  /\ Thread(m, "erase") /\ WriteErasePage(m, (1 - nvs[m].page) * PageSize)
  /\ OpDone(m, nvs[m])

PollReady(m) ==
  /\ Thread(m, "READY") /\ READY
  /\ OpDone(m, nvs[m]) /\ UNCHANGED nvmcVars

StoreStep(m) == Save(m) \/ SetMode(m) \/ Store(m) \/ Copy(m) \/ Erase(m) \/ PollReady(m)

-----------------------------------------------------------------------------
TwoMachinesNext == \E m \in Machine : LinkStep(m) \/ StoreStep(m)

Spec == Init /\ [][TwoMachinesNext]_vars
-----------------------------------------------------------------------------
\* What a machine hands up is what the other sent, in order and byte for byte,
\* and all of it but the packet under way; the MIC never fails.  So the
\* encrypted buffer is ready when the radio reads it, the decrypted one when
\* the header is read, and no machine sees the other's registers.
PdusArriveIntact ==
  \A m \in Machine :
    /\ IsPrefix(got[m], sent[Peer(m)])
    /\ Len(sent[Peer(m)]) <= Len(got[m]) + 1
    /\ ~micFailed[m]

\* A word is only ever stored where the flash is blank, and the newest value is
\* in it, whatever the other machine does to the shared CONFIG meanwhile.
SettingsSurvive ==
  \A m \in Machine :
    /\ Op(m) \in {"store", "copy"} => flash[m][Target(m)] = Blank
    /\ nvs[m].value # 0 => \E a \in Address : flash[m][a] = nvs[m].value

MachinesInvariant == TwoMachinesTypeOK /\ SettingsSurvive
=============================================================================
