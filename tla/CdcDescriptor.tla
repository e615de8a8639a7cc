---------------------------- MODULE CdcDescriptor ----------------------------
(***************************************************************************)
(* A USB configuration descriptor as the CDC bridge walks it               *)
(* (ParseCdcDataPairs of DualCdcAcmBridge.cs): a sequence of interface and *)
(* endpoint descriptors and of others, which stand for anything the walk   *)
(* passes over, a descriptor cut off by a short read included.             *)
(***************************************************************************)
EXTENDS Naturals, Sequences, FiniteSets, FiniteSetsExt, SequencesExt

Interface(n, class) == [type |-> "interface", number |-> n, class |-> class]
Endpoint(n, dir, bulk) == [type |-> "endpoint", number |-> n, dir |-> dir, bulk |-> bulk]
Other == [type |-> "other"]
End == [type |-> "end"]      \* bLength 0

Entry ==
  {Interface(n, class) : n \in 0..255, class \in {"comm", "data", "hid"}}
    \cup {Endpoint(n, dir, bulk) : n \in 1..15, dir \in {"in", "out"}, bulk \in BOOLEAN}
    \cup {Other, End}

NoInterface == 65535         \* -1, in a request's 16 bits
NoEndpoint == 0

CdcDataPair == [control : (0..255) \cup {NoInterface}, in : 1..15, out : 1..15]
Pair(control, in, out) == [control |-> control, in |-> in, out |-> out]

-----------------------------------------------------------------------------
(* The walk.                                                               *)

WalkStart ==
  [pairs |-> << >>, pending |-> NoInterface, class |-> "none",
   in |-> NoEndpoint, out |-> NoEndpoint, over |-> FALSE]

\* A data interface with both its bulk endpoints makes a pair with the
\* communications interface seen last, and uses it up.
Flush(w) ==
  LET kept == [w EXCEPT !.in = NoEndpoint, !.out = NoEndpoint]
  IN IF w.class = "data" /\ NoEndpoint \notin {w.in, w.out}
     THEN [kept EXCEPT !.pairs = Append(@, Pair(w.pending, w.in, w.out)),
                       !.pending = NoInterface]
     ELSE kept

WalkInterface(w, e) ==
  [Flush(w) EXCEPT !.class = e.class, !.pending = IF e.class = "comm" THEN e.number ELSE @]

WalkEndpoint(w, e) ==
  CASE w.class # "data" \/ ~e.bulk -> w
    [] w.class = "data" /\ e.bulk /\ e.dir = "in"  -> [w EXCEPT !.in = e.number]
    [] w.class = "data" /\ e.bulk /\ e.dir = "out" -> [w EXCEPT !.out = e.number]

Walk(w, e) ==
  CASE w.over \/ e.type = "end" -> [w EXCEPT !.over = TRUE]
    [] ~w.over /\ e.type = "interface" -> WalkInterface(w, e)
    [] ~w.over /\ e.type = "endpoint" -> WalkEndpoint(w, e)
    [] ~w.over /\ e.type = "other" -> w

ParseCdcDataPairs(descriptor) == Flush(FoldLeft(Walk, WalkStart, descriptor)).pairs

-----------------------------------------------------------------------------
(* What a device declares: a CDC function is a CDC Data interface with a   *)
(* bulk endpoint in each direction, controlled by the communications       *)
(* interface before it unless that belongs to an earlier function.         *)

\* The entries before the first of length 0.
LastDeclared(descriptor) ==
  CHOOSE n \in 0..Len(descriptor) :
    /\ \A i \in 1..n : descriptor[i] # End
    /\ n < Len(descriptor) => descriptor[n + 1] = End
Declared(descriptor) == SubSeq(descriptor, 1, LastDeclared(descriptor))

\* The interfaces of a class; the bulk endpoints that are the interface's own.
InterfacesAt(d, class) ==
  {i \in DOMAIN d : d[i].type = "interface" /\ d[i].class = class}
BulkAt(d, i, dir) ==
  {k \in DOMAIN d : /\ k > i /\ \A l \in (i + 1)..k : d[l].type # "interface"
                    /\ d[k].type = "endpoint" /\ d[k].bulk /\ d[k].dir = dir}

FunctionsAt(d) ==
  {i \in InterfacesAt(d, "data") : \A dir \in {"in", "out"} : BulkAt(d, i, dir) # {}}

ControlOf(d, i) ==
  LET before == {c \in InterfacesAt(d, "comm") : c < i}
  IN IF \E c \in before : \A f \in FunctionsAt(d) : ~(c < f /\ f < i)
     THEN d[Max(before)].number ELSE NoInterface

FunctionAt(d, i) ==
  LET last(dir) == d[Max(BulkAt(d, i, dir))].number
  IN Pair(ControlOf(d, i), last("in"), last("out"))

InOrder(places, S) ==
  ToSet(places) = S /\ \A j, k \in DOMAIN places : j < k => places[j] < places[k]

PlacesInOrder(S) == CHOOSE places \in [1..Cardinality(S) -> S] : InOrder(places, S)

CdcFunctions(descriptor) ==
  LET d == Declared(descriptor)
      places == PlacesInOrder(FunctionsAt(d))
  IN [k \in DOMAIN places |-> FunctionAt(d, places[k])]

\* The walk finds exactly the functions the device declares.
ParsedAsDeclared(descriptor) ==
  /\ ParseCdcDataPairs(descriptor) = CdcFunctions(descriptor)
  /\ CdcFunctions(descriptor) \in Seq(CdcDataPair)
=============================================================================
