------------------------------ MODULE TeePopen -------------------------------
(***************************************************************************)
(* TeePopen (scripts/lib/tee_popen.py): a child process whose stdout and   *)
(* stderr are each copied, line by line, by a thread of their own to the   *)
(* terminal and to one log file.  wait() returns when the process has      *)
(* exited and both threads have met the end of their pipe, which comes     *)
(* only when every process that inherited the pipe is gone.  A thread that *)
(* fails on a line (one that cannot be decoded, a terminal or a disk that  *)
(* does not take it) closes its pipe; wait() does not notice.              *)
(*                                                                         *)
(* External: the process and its descendants.                              *)
(***************************************************************************)
EXTENDS Naturals, Sequences, FiniteSets, SequencesExt

CONSTANTS Job,        (* the processes, one at a time each                 *)
          MaxLines,   (* bound: lines a process prints to each stream      *)
          MaxBroken   (* bound: threads that have failed at a time         *)

Stream == {"stdout", "stderr"}

VARIABLES
  proc,       (* "none", "running", "exited" (a descendant may still hold  *)
              (* the pipes) or "silent" (nobody holds them)                *)
  returncode, (* 0, or 1 for any failure; NotYet before the exit           *)
  printed,    (* lines written to each pipe                                *)
  buf,        (* how many of them the reader thread has taken              *)
  reading,    (* the streams whose thread is still at work                 *)
  broken,     (* the streams whose thread ended with an exception          *)
  log_file    (* <<stream, number>> of every line written to the log       *)

procVars == <<proc, returncode, printed>>
readerVars == <<buf, reading, broken, log_file>>
teeVars == <<procVars, readerVars>>

NotYet == 2

TeeTypeOK ==
  /\ proc \in [Job -> {"none", "running", "exited", "silent"}]
  /\ returncode \in [Job -> {0, 1, NotYet}]
  /\ printed \in [Job -> [Stream -> 0..MaxLines]]
  /\ buf \in [Job -> [Stream -> 0..MaxLines]]
  /\ reading \in [Job -> SUBSET Stream] /\ broken \in [Job -> SUBSET Stream]
  /\ log_file \in [Job -> Seq(Stream \X (1..MaxLines))]

Nothing == [s \in Stream |-> 0]

TeeInit ==
  /\ proc = [j \in Job |-> "none"] /\ returncode = [j \in Job |-> NotYet]
  /\ printed = [j \in Job |-> Nothing] /\ buf = [j \in Job |-> Nothing]
  /\ reading = [j \in Job |-> {}] /\ broken = [j \in Job |-> {}]
  /\ log_file = [j \in Job |-> << >>]

-----------------------------------------------------------------------------
(* The process.                                                            *)

\* What is written to a pipe nobody reads any more is lost.
PrintLine(j, s) ==
  /\ proc[j] \in {"running", "exited"} /\ printed[j][s] < MaxLines /\ s \notin broken[j]
  /\ printed' = [printed EXCEPT ![j][s] = @ + 1]
  /\ UNCHANGED <<proc, returncode, readerVars>>

Exit(j, code) ==
  /\ proc[j] = "running"
  /\ proc' = [proc EXCEPT ![j] = "exited"]
  /\ returncode' = [returncode EXCEPT ![j] = code]
  /\ UNCHANGED <<printed, readerVars>>

PipesClose(j) ==
  /\ proc[j] = "exited" /\ proc' = [proc EXCEPT ![j] = "silent"]
  /\ UNCHANGED <<returncode, printed, readerVars>>

-----------------------------------------------------------------------------
(* The two threads.                                                        *)

\* One round of the loop: the line goes to the log and to the buffer.  The lines
\* of the two threads do not mix: a line is one call on the file object.
CopyLine(j, s) ==
  /\ s \in reading[j] /\ buf[j][s] < printed[j][s]
  /\ buf' = [buf EXCEPT ![j][s] = @ + 1]
  /\ log_file' = [log_file EXCEPT ![j] = Append(@, <<s, buf'[j][s]>>)]
  /\ UNCHANGED <<procVars, reading, broken>>

EndOfPipe(j, s) ==
  /\ s \in reading[j] /\ proc[j] = "silent" /\ buf[j][s] = printed[j][s]
  /\ reading' = [reading EXCEPT ![j] = @ \ {s}]
  /\ UNCHANGED <<procVars, buf, broken, log_file>>

\* The next line raises; `finally' closes the pipe with what is left in it.
ReaderFails(j, s) ==
  /\ s \in reading[j] /\ buf[j][s] < printed[j][s]
  /\ Cardinality({thread \in Job \X Stream : thread[2] \in broken[thread[1]]}) < MaxBroken
  /\ reading' = [reading EXCEPT ![j] = @ \ {s}]
  /\ broken' = [broken EXCEPT ![j] = @ \cup {s}]
  /\ UNCHANGED <<procVars, buf, log_file>>

_reader(j) == \E s \in Stream : CopyLine(j, s) \/ EndOfPipe(j, s) \/ ReaderFails(j, s)

-----------------------------------------------------------------------------
(* The calls, for the program that makes them.                             *)

\* Popen and both threads; what an earlier process left is forgotten.
start(j) ==
  /\ proc' = [proc EXCEPT ![j] = "running"]
  /\ returncode' = [returncode EXCEPT ![j] = NotYet]
  /\ printed' = [printed EXCEPT ![j] = Nothing]
  /\ buf' = [buf EXCEPT ![j] = Nothing]
  /\ reading' = [reading EXCEPT ![j] = Stream]
  /\ broken' = [broken EXCEPT ![j] = {}]
  /\ log_file' = [log_file EXCEPT ![j] = << >>]

\* Mutant: the threads are not joined.
ReapedOnly(j) == proc[j] \in {"exited", "silent"}

\* wait returns: the process has been reaped and both threads joined.
wait(j) == proc[j] \in {"exited", "silent"} /\ reading[j] = {}

\* The object is dropped after the wait; only the exit status is remembered.
drop(j) ==
  /\ proc' = [proc EXCEPT ![j] = "none"]
  /\ printed' = [printed EXCEPT ![j] = Nothing]
  /\ buf' = [buf EXCEPT ![j] = Nothing]
  /\ broken' = [broken EXCEPT ![j] = {}]
  /\ log_file' = [log_file EXCEPT ![j] = << >>]
  /\ UNCHANGED <<returncode, reading>>

\* Every line anybody printed and nothing else, each stream in its order; of a
\* stream whose thread failed, the lines before the one it failed on.
LogIsWhole(j) ==
  /\ ToSet(log_file[j]) = {line \in Stream \X (1..MaxLines) : line[2] <= buf[j][line[1]]}
  /\ \A s \in Stream \ broken[j] : buf[j][s] = printed[j][s]
  /\ \A i, l \in DOMAIN log_file[j] :
       i < l /\ log_file[j][i][1] = log_file[j][l][1]
         => log_file[j][i][2] < log_file[j][l][2]
=============================================================================
