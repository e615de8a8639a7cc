------------------------------- MODULE FakeCcm -------------------------------
(***************************************************************************)
(* The fake AES-CCM peripheral of the Renode BLE platforms                 *)
(* (scripts/lib/renode/platforms/models/ccm.py): one Python script serves  *)
(* the register accesses of every machine, with a state of its own for     *)
(* each.  Encrypting appends four bytes to a PDU, decrypting takes them    *)
(* off; both are done at once, when the task is triggered.                 *)
(*                                                                         *)
(* A machine's RAM is a set of packet buffers; a byte of one is at         *)
(* ram[m][buffer][offset].  The registers the script only stores are left  *)
(* out, and an access does not fail but for a length over a byte.          *)
(***************************************************************************)
EXTENDS Naturals, Sequences, FiniteSets

CONSTANTS Machine,
          Buffer,     (* the buffers the pointer registers may hold        *)
          Null,       (* the address 0                                     *)
          BufferSize, (* bytes of a buffer                                 *)
          MaxByte     (* 255                                               *)

MIC_LEN == 4
PAY == 3          \* header, length, one byte reserved, payload
MicByte == 0      \* the value is of no account

Byte == 0..MaxByte

ASSUME CcmAssumption ==
  /\ Null \notin Buffer
  /\ MaxByte \in Nat /\ BufferSize \in Nat
  /\ PAY + MaxByte < BufferSize

VARIABLES
  regs,   (* per state: MODE, INPTR, OUTPTR and SHORTS                     *)
  st,     (* per state: the events, MICSTATUS and the pending operation    *)
  ram

ccmVars == <<regs, st, ram>>

Mode == {"encrypt", "decrypt"}
Pointer == Buffer \cup {Null}
Operation == [mode : Mode, inptr : Pointer, outptr : Pointer]
None == [mode |-> "encrypt", inptr |-> Null, outptr |-> Null]

CcmTypeOK ==
  /\ regs \in [Machine -> [MODE : Mode, INPTR : Pointer, OUTPTR : Pointer, SHORTS : BOOLEAN]]
  /\ st \in [Machine -> [endksgen : BOOLEAN, endcrypt : BOOLEAN, error : BOOLEAN,
                         micstatus : BOOLEAN, waiting : BOOLEAN, pending : Operation]]
  /\ ram \in [Machine -> [Buffer -> [0..(BufferSize - 1) -> Byte]]]

CcmInit ==
  /\ regs = [m \in Machine |->
               [MODE |-> "encrypt", INPTR |-> Null, OUTPTR |-> Null, SHORTS |-> FALSE]]
  /\ st = [m \in Machine |->
             [endksgen |-> FALSE, endcrypt |-> FALSE, error |-> FALSE, micstatus |-> FALSE,
              waiting |-> FALSE, pending |-> None]]
  /\ ram = [m \in Machine |-> [b \in Buffer |-> [k \in 0..(BufferSize - 1) |-> 0]]]

\* The state is found under the machine's name.
_state(m) == m

-----------------------------------------------------------------------------
(* The transform.                                                          *)

OutLength(mode, length) ==
  CASE length = 0 -> 0
    [] length # 0 /\ mode = "encrypt" -> length + MIC_LEN
    [] length # 0 /\ mode = "decrypt" -> IF length > MIC_LEN THEN length - MIC_LEN ELSE 0

Copied(mode, length) == IF mode = "encrypt" THEN length ELSE OutLength(mode, length)

\* The bytes of the output buffer, which keeps what lies beyond the PDU.  An
\* empty PDU passes as it is.
Output(mode, in, old) ==
  LET length == in[1]
      outLength == OutLength(mode, length)
  IN [k \in DOMAIN old |->
        CASE k = 0 -> in[0]
          [] k = 1 -> outLength
          [] k = 2 /\ length # 0 -> 0
          [] k \in PAY..(PAY + Copied(mode, length) - 1) -> in[k]
          [] k \in (PAY + length)..(PAY + outLength - 1) -> MicByte
          [] OTHER -> old[k]]

Skipped(op) == Null \in {op.inptr, op.outptr}
Fits(op, memory) == OutLength(op.mode, memory[op.inptr][1]) <= MaxByte

\* Null pointers end the operation as a success; a length that does not fit a
\* byte raises after the header has been written.
StateAfter(s, op, memory) ==
  LET failed == ~Skipped(op) /\ ~Fits(op, memory)
  IN [s EXCEPT !.waiting = FALSE, !.endcrypt = TRUE, !.error = failed,
               !.micstatus = IF failed THEN @ ELSE op.mode = "decrypt"]

MemoryAfter(op, memory) ==
  CASE Skipped(op) -> memory
    [] ~Skipped(op) /\ Fits(op, memory) ->
         [memory EXCEPT ![op.outptr] = Output(op.mode, memory[op.inptr], @)]
    [] ~Skipped(op) /\ ~Fits(op, memory) ->
         [memory EXCEPT ![op.outptr][0] = memory[op.inptr][0]]

_do_transform(m, s, op) ==
  /\ st' = [st EXCEPT ![_state(m)] = StateAfter(s, op, ram[m])]
  /\ ram' = [ram EXCEPT ![m] = MemoryAfter(op, @)]

Snapshot(m) ==
  [mode |-> regs[_state(m)].MODE, inptr |-> regs[_state(m)].INPTR,
   outptr |-> regs[_state(m)].OUTPTR]

\* Mutant: the transform waits until an event is read.
ScheduleLazily(m, s) ==
  /\ st' = [st EXCEPT ![_state(m)] = [s EXCEPT !.waiting = TRUE, !.pending = Snapshot(m)]]
  /\ UNCHANGED ram

\* The registers are noted and the transform is run at once.
_schedule(m, s) ==
  _do_transform(m, [s EXCEPT !.pending = Snapshot(m)], Snapshot(m))

-----------------------------------------------------------------------------
(* The accesses.  A task is triggered by any value.                        *)

WriteKsgen(m) ==
  LET generated == [st[_state(m)] EXCEPT !.endksgen = TRUE]
  IN /\ IF regs[_state(m)].SHORTS THEN _schedule(m, generated)
        ELSE st' = [st EXCEPT ![_state(m)] = generated] /\ UNCHANGED ram
     /\ UNCHANGED regs

WriteCrypt(m) == _schedule(m, st[_state(m)]) /\ UNCHANGED regs

WriteStop(m) ==
  /\ st' = [st EXCEPT ![_state(m)].waiting = FALSE]
  /\ UNCHANGED <<regs, ram>>

WriteEvent(m, event, value) ==
  /\ st' = [st EXCEPT ![_state(m)][event] = value]
  /\ UNCHANGED <<regs, ram>>

WriteRegister(m, register, value) ==
  /\ regs' = [regs EXCEPT ![_state(m)][register] = value]
  /\ UNCHANGED <<st, ram>>

\* Reading ENDCRYPT or MICSTATUS runs what is pending: nothing, when the
\* transform was done at the trigger.
ReadEvent(m) ==
  /\ IF st[_state(m)].waiting THEN _do_transform(m, st[_state(m)], st[_state(m)].pending)
     ELSE UNCHANGED <<st, ram>>
  /\ UNCHANGED regs
=============================================================================
