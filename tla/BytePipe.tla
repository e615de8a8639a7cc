------------------------------ MODULE BytePipe ------------------------------
(***************************************************************************)
(* What every data path of the emulated USB stack promises: on each lane   *)
(* (an endpoint, or a CDC channel) the consumer gets what the producer     *)
(* put, in the order it was put, nothing twice and nothing invented.       *)
(*                                                                         *)
(* The payload is its ordinal: the k-th item put on a lane is the number   *)
(* k.  A path that may discard data (the guest drops a packet, the machine *)
(* is reset) discards it from the old end of the lane; whether a path may  *)
(* do so is the constant MayLose.                                          *)
(***************************************************************************)
EXTENDS Naturals, Sequences

CONSTANTS Lane,     (* the independent data paths                          *)
          MaxPut,   (* how many items one put may append                   *)
          MayLose   (* whether items in flight may be discarded            *)

VARIABLES put,      (* put[l]: how many items the producer has put         *)
          pipe,     (* pipe[l]: the items in flight, oldest first          *)
          got       (* got[l]: the items the consumer has got, in order    *)

pipeVars == <<put, pipe, got>>

\* The n items that follow the k-th one.
Ordinals(k, n) == [i \in 1..n |-> k + i]

Init ==
  /\ put  = [l \in Lane |-> 0]
  /\ pipe = [l \in Lane |-> << >>]
  /\ got  = [l \in Lane |-> << >>]

\* The producer appends n items.
Put(l, n) ==
  /\ put'  = [put EXCEPT ![l] = @ + n]
  /\ pipe' = [pipe EXCEPT ![l] = @ \o Ordinals(put[l], n)]
  /\ UNCHANGED got

\* The n oldest items leave the lane, and the consumer gets the first m of them.
Take(l, m, n) ==
  /\ m < n => MayLose
  /\ got'  = [got EXCEPT ![l] = @ \o SubSeq(pipe[l], 1, m)]
  /\ pipe' = [pipe EXCEPT ![l] = SubSeq(@, n + 1, Len(@))]
  /\ UNCHANGED put

\* Everything in flight is discarded, on every lane.
Flush ==
  /\ MayLose
  /\ pipe' = [l \in Lane |-> << >>]
  /\ UNCHANGED <<put, got>>

Next ==
  \/ \E l \in Lane :
       \/ \E n \in 1..MaxPut : Put(l, n)
       \/ \E n \in 1..Len(pipe[l]) : \E m \in 0..n : Take(l, m, n)
  \/ Flush

Spec == Init /\ [][Next]_pipeVars
=============================================================================
