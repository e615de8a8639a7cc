---------------------------- MODULE FramingLemmas -----------------------------
(***************************************************************************)
(* What the decoder makes of framed payloads, for payloads and buffers of  *)
(* every size: as long as it gets the bytes of frames one after the other, *)
(* it ends each frame where the sender ended it, with what fits of its     *)
(* payload.  InSync says so of the decoder, the bytes on their way and the *)
(* payloads they are the frames of; every byte taken and every frame sent  *)
(* keeps it.                                                               *)
(***************************************************************************)
EXTENDS StudioFraming, DataLemmas

\* A frame is made of bytes.
LEMMA FramesAreBytes ==
  /\ \A b \in Byte : Escape(b) \in Seq(Byte)
  /\ \A p \in Seq(Byte) : Body(p) \in Seq(Byte) /\ Frame(p) \in Seq(Byte)
<1>1. SOF \in Byte /\ ESC \in Byte /\ EOF \in Byte
  BY DEF Byte, SPECIAL
<1>2. ASSUME NEW b \in Byte PROVE Escape(b) \in Seq(Byte)
  BY <1>1 DEF Escape
<1>3. ASSUME NEW p \in Seq(Byte) PROVE Body(p) \in Seq(Byte) /\ Frame(p) \in Seq(Byte)
  <2> DEFINE e == [i \in DOMAIN p |-> Escape(p[i])]
  <2>1. e \in Seq(Seq(Byte))
    <3>1. DOMAIN p = 1..Len(p) /\ \A i \in 1..Len(p) : p[i] \in Byte
      OBVIOUS
    <3>2. \A i \in 1..Len(p) : Escape(p[i]) \in Seq(Byte)
      BY <1>2, <3>1
    <3> QED
      BY <3>1, <3>2
  <2>2. FlattenSeq(e) \in Seq(Byte)
    <3> HIDE DEF e
    <3> QED
      BY <2>1, FlattenIsSeq
  <2>3. Body(p) \in Seq(Byte)
    <3> HIDE DEF e
    <3>1. FlattenSeq(e) \o <<EOF>> \in Seq(Byte)
      BY <1>1, <2>2
    <3> QED
      BY <3>1 DEF Body, e
  <2>4. <<SOF>> \o Body(p) \in Seq(Byte)
    BY <1>1, <2>3
  <2> QED
    BY <2>3, <2>4 DEF Frame
<1> QED
  BY <1>2, <1>3

\* What is left of a frame when its payload is used up, and before.
LEMMA BodyStepByStep ==
  /\ Body(<< >>) = <<EOF>>
  /\ \A p \in Seq(Byte) : p # << >> => Body(p) = Escape(Head(p)) \o Body(Tail(p))
<1>1. Body(<< >>) = <<EOF>>
  <2>1. [i \in DOMAIN << >> |-> Escape(<< >>[i])] = << >>
    OBVIOUS
  <2>2. FlattenSeq([i \in DOMAIN << >> |-> Escape(<< >>[i])]) = << >>
    BY <2>1, FlattenNone
  <2>3. << >> \o <<EOF>> = <<EOF>>
    OBVIOUS
  <2> QED
    BY <2>2, <2>3 DEF Body
<1>2. ASSUME NEW p \in Seq(Byte), p # << >>
      PROVE  Body(p) = Escape(Head(p)) \o Body(Tail(p))
  <2> DEFINE e == [i \in DOMAIN p |-> Escape(p[i])]
             t == [i \in DOMAIN Tail(p) |-> Escape(Tail(p)[i])]
  <2>1. /\ DOMAIN p = 1..Len(p) /\ Len(p) \in Nat \ {0} /\ Head(p) = p[1]
        /\ Tail(p) \in Seq(Byte) /\ Len(Tail(p)) = Len(p) - 1
        /\ DOMAIN Tail(p) = 1..(Len(p) - 1)
        /\ \A i \in 1..(Len(p) - 1) : Tail(p)[i] = p[i + 1]
        /\ \A i \in 1..Len(p) : p[i] \in Byte
    BY <1>2
  <2>2. \A i \in 1..Len(p) : Escape(p[i]) \in Seq(Byte)
    BY <2>1, FramesAreBytes
  <2>3. e \in Seq(Seq(Byte)) /\ e # << >> /\ Head(e) = Escape(Head(p))
    BY <2>1, <2>2
  <2>4. Tail(e) = t
    <3>1. /\ Len(e) = Len(p) /\ DOMAIN t = 1..(Len(p) - 1)
          /\ \A i \in 1..Len(p) : e[i] = Escape(p[i])
          /\ \A i \in 1..(Len(p) - 1) : t[i] = Escape(p[i + 1])
      BY <2>1
    <3>2. t \in Seq(Seq(Byte)) /\ Len(t) = Len(p) - 1
      BY <2>1, <2>2
    <3> HIDE DEF e, t
    <3>3. /\ Tail(e) \in Seq(Seq(Byte)) /\ Len(Tail(e)) = Len(p) - 1
          /\ \A i \in 1..(Len(p) - 1) : Tail(e)[i] = e[i + 1]
      BY <2>1, <2>3, <3>1
    <3>4. \A i \in 1..(Len(p) - 1) : Tail(e)[i] = t[i]
      BY <2>1, <3>1, <3>3
    <3> QED
      BY <3>2, <3>3, <3>4, SeqEqual
  <2>5. FlattenSeq(e) = Escape(Head(p)) \o FlattenSeq(t)
    <3> HIDE DEF e, t
    <3>1. FlattenSeq(e) = Head(e) \o FlattenSeq(Tail(e))
      BY <2>3, FlattenHead
    <3> QED
      BY <2>3, <2>4, <3>1
  <2>6. FlattenSeq(t) \in Seq(Byte)
    <3>1. Tail(e) \in Seq(Seq(Byte))
      <4> HIDE DEF e
      <4> QED
        BY <2>3
    <3> HIDE DEF e, t
    <3> QED
      BY <2>4, <3>1, FlattenIsSeq
  <2>7. Escape(Head(p)) \in Seq(Byte) /\ <<EOF>> \in Seq(Byte)
    BY <2>1, <2>2 DEF Byte, SPECIAL
  <2> HIDE DEF e, t
  <2>8. (Escape(Head(p)) \o FlattenSeq(t)) \o <<EOF>>
          = Escape(Head(p)) \o (FlattenSeq(t) \o <<EOF>>)
    BY <2>6, <2>7, RegroupParts
  <2> QED
    BY <2>5, <2>8 DEF Body, e, t
<1> QED
  BY <1>1, <1>2

\* Several frames: none, one more at the end, and the first.
LEMMA FramesStepByStep ==
  /\ Frames(<< >>) = << >>
  /\ \A pp \in Seq(Seq(Byte)) :
       /\ Frames(pp) \in Seq(Byte)
       /\ \A qq \in Seq(Seq(Byte)) : Frames(pp \o qq) = Frames(pp) \o Frames(qq)
       /\ \A p \in Seq(Byte) : Frames(Append(pp, p)) = Frames(pp) \o Frame(p)
       /\ pp # << >> => Frames(pp) = Frame(Head(pp)) \o Frames(Tail(pp))
<1>1. Frames(<< >>) = << >>
  <2>1. [i \in DOMAIN << >> |-> Frame(<< >>[i])] = << >>
    OBVIOUS
  <2> QED
    BY <2>1, FlattenNone DEF Frames
<1> DEFINE F(pp) == [i \in DOMAIN pp |-> Frame(pp[i])]
<1>2. ASSUME NEW pp \in Seq(Seq(Byte))
      PROVE  /\ F(pp) \in Seq(Seq(Byte)) /\ Len(F(pp)) = Len(pp)
             /\ Len(pp) \in Nat /\ DOMAIN pp = 1..Len(pp)
             /\ \A i \in 1..Len(pp) : F(pp)[i] = Frame(pp[i])
  <2>1. DOMAIN pp = 1..Len(pp) /\ \A i \in 1..Len(pp) : pp[i] \in Seq(Byte)
    OBVIOUS
  <2>2. \A i \in 1..Len(pp) : Frame(pp[i]) \in Seq(Byte)
    BY <2>1, FramesAreBytes
  <2> QED
    BY <2>1, <2>2
<1>3. \A pp \in Seq(Seq(Byte)) : Frames(pp) = FlattenSeq(F(pp))
  BY DEF Frames
<1> HIDE DEF F
<1>4. ASSUME NEW pp \in Seq(Seq(Byte)) PROVE Frames(pp) \in Seq(Byte)
  BY <1>2, <1>3, FlattenIsSeq
<1>5. ASSUME NEW pp \in Seq(Seq(Byte)), NEW qq \in Seq(Seq(Byte))
      PROVE  Frames(pp \o qq) = Frames(pp) \o Frames(qq)
  <2>1. /\ pp \o qq \in Seq(Seq(Byte)) /\ Len(pp \o qq) = Len(pp) + Len(qq)
        /\ \A i \in 1..Len(pp) : (pp \o qq)[i] = pp[i]
        /\ \A i \in (Len(pp) + 1)..(Len(pp) + Len(qq)) : (pp \o qq)[i] = qq[i - Len(pp)]
    OBVIOUS
  <2> DEFINE pq == pp \o qq
             x == F(pp)
             y == F(qq)
             z == F(pq)
             m == Len(pp)
             n == Len(qq)
  <2>2. /\ m \in Nat /\ n \in Nat
        /\ x \in Seq(Seq(Byte)) /\ Len(x) = m /\ \A i \in 1..m : x[i] = Frame(pp[i])
        /\ y \in Seq(Seq(Byte)) /\ Len(y) = n /\ \A i \in 1..n : y[i] = Frame(qq[i])
    BY <1>2
  <2>3. z \in Seq(Seq(Byte)) /\ Len(z) = m + n /\ \A i \in 1..(m + n) : z[i] = Frame(pq[i])
    BY <1>2, <2>1
  <2>4. /\ \A i \in 1..m : pq[i] = pp[i]
        /\ \A i \in (m + 1)..(m + n) : pq[i] = qq[i - m]
    BY <2>1
  <2> HIDE DEF pq, x, y, z, m, n
  <2>5. /\ x \o y \in Seq(Seq(Byte)) /\ Len(x \o y) = m + n
        /\ \A i \in 1..m : (x \o y)[i] = x[i]
        /\ \A i \in (m + 1)..(m + n) : (x \o y)[i] = y[i - m]
    <3>1. x \o y \in Seq(Seq(Byte)) /\ Len(x \o y) = m + n
      BY <2>2, ConcatProperties
    <3>2. ASSUME NEW i \in 1..m PROVE (x \o y)[i] = x[i]
      BY <2>2, <3>2
    <3>3. ASSUME NEW i \in (m + 1)..(m + n) PROVE (x \o y)[i] = y[i - m]
      BY <2>2, <3>3
    <3> QED
      BY <3>1, <3>2, <3>3
  <2>6. ASSUME NEW i \in 1..(m + n) PROVE z[i] = (x \o y)[i]
    <3>1. CASE i \in 1..m
      BY <2>2, <2>3, <2>4, <2>5, <3>1
    <3>2. CASE i \in (m + 1)..(m + n)
      <4>1. i - m \in 1..n
        BY <2>2, <3>2
      <4>2. y[i - m] = Frame(qq[i - m])
        BY <2>2, <4>1
      <4> QED
        BY <2>3, <2>4, <2>5, <3>2, <4>2
    <3> QED
      BY <2>2, <3>1, <3>2
  <2>7. z = x \o y
    BY <2>3, <2>5, <2>6, SeqEqual
  <2>8. FlattenSeq(x \o y) = FlattenSeq(x) \o FlattenSeq(y)
    BY <2>2, FlattenConcat
  <2> QED
    BY <1>3, <2>1, <2>7, <2>8 DEF x, y, z, pq
<1>6. ASSUME NEW p \in Seq(Byte) PROVE Frames(<<p>>) = Frame(p)
  <2>1. <<p>> \in Seq(Seq(Byte)) /\ Len(<<p>>) = 1 /\ <<p>>[1] = p
    OBVIOUS
  <2>2. F(<<p>>) = <<Frame(p)>>
    BY <2>1, FramesAreBytes DEF F
  <2>3. Frame(p) \in Seq(Byte)
    BY FramesAreBytes
  <2> QED
    BY <1>3, <2>1, <2>2, <2>3, FlattenOne
<1>7. ASSUME NEW pp \in Seq(Seq(Byte)), NEW p \in Seq(Byte)
      PROVE  Frames(Append(pp, p)) = Frames(pp) \o Frame(p)
  <2>1. Append(pp, p) = pp \o <<p>> /\ <<p>> \in Seq(Seq(Byte))
    OBVIOUS
  <2>2. Frames(pp \o <<p>>) = Frames(pp) \o Frames(<<p>>)
    BY <1>5, <2>1
  <2> QED
    BY <1>6, <2>1, <2>2
<1>8. ASSUME NEW pp \in Seq(Seq(Byte)), pp # << >>
      PROVE  Frames(pp) = Frame(Head(pp)) \o Frames(Tail(pp))
  <2>1. /\ pp = <<Head(pp)>> \o Tail(pp) /\ Head(pp) \in Seq(Byte)
        /\ <<Head(pp)>> \in Seq(Seq(Byte)) /\ Tail(pp) \in Seq(Seq(Byte))
    BY <1>8
  <2>2. Frames(<<Head(pp)>> \o Tail(pp)) = Frames(<<Head(pp)>>) \o Frames(Tail(pp))
    BY <1>5, <2>1
  <2> QED
    BY <1>6, <2>1, <2>2
<1> QED
  BY <1>1, <1>4, <1>5, <1>7, <1>8

-----------------------------------------------------------------------------
(* The decoder in step with the frames.                                    *)

\* What a buffer of `room' bytes holds of a payload.
Fit(payload, room) == IF Len(payload) <= room THEN payload ELSE SubSeq(payload, 1, room)

\* The decoder has the payload's bytes `taken', and `left' and the frame's end
\* are the next on the wire; behind an ESC, the byte it stands for.
InFrame(d, wire, payload, rest, room) ==
  /\ d.in_frame
  /\ \E taken, left \in Seq(Byte) :
       /\ payload = taken \o left
       /\ d.payload = Fit(taken, room)
       /\ \/ ~d.escaped /\ wire = Body(left) \o rest
          \/ /\ d.escaped /\ left # << >>
             /\ wire = <<Head(left)>> \o (Body(Tail(left)) \o rest)

\* The wire holds the rest of the frame the decoder is in, if it is in one,
\* and the frames of the other payloads.
InSync(d, wire, payloads, room) ==
  \/ ~d.escaped /\ wire = Frames(payloads)
  \/ payloads # << >> /\ InFrame(d, wire, Head(payloads), Frames(Tail(payloads)), room)

\* A byte that is stored, in a buffer that may be full.
LEMMA FitOneMore ==
  ASSUME NEW p \in Seq(Byte), NEW b \in Byte, NEW room \in Nat
  PROVE  /\ Fit(p, room) \in Seq(Byte) /\ Len(Fit(p, room)) <= Len(p)
         /\ Fit(Append(p, b), room) =
              IF Len(Fit(p, room)) < room THEN Append(Fit(p, room), b) ELSE Fit(p, room)
<1>1. Append(p, b) \in Seq(Byte) /\ Len(Append(p, b)) = Len(p) + 1 /\ Len(p) \in Nat
  OBVIOUS
<1>2. CASE Len(p) < room
  BY <1>1, <1>2 DEF Fit
<1>3. CASE Len(p) >= room
  <2> DEFINE front == SubSeq(p, 1, room)
  <2>1. front \in Seq(Byte) /\ Len(front) = room
    BY <1>1, <1>3
  <2>2. \A i \in 1..room : front[i] = p[i]
    BY <1>1, <1>3
  <2>3. Fit(p, room) = front
    <3>1. Len(p) = room => front = p
      BY <1>1, <2>1, <2>2, SeqEqual
    <3> QED
      BY <1>1, <1>3, <3>1 DEF Fit
  <2>4. SubSeq(Append(p, b), 1, room) = front
    <3> DEFINE more == SubSeq(Append(p, b), 1, room)
    <3>1. /\ more \in Seq(Byte) /\ Len(more) = room
          /\ \A i \in 1..room : more[i] = p[i]
      BY <1>1, <1>3
    <3> HIDE DEF more, front
    <3>2. more = front
      BY <2>1, <2>2, <3>1, SeqEqual
    <3> QED
      BY <3>2 DEF more
  <2> HIDE DEF front
  <2>5. Fit(Append(p, b), room) = front
    BY <1>1, <1>3, <2>4 DEF Fit
  <2> QED
    BY <1>1, <1>3, <2>1, <2>3, <2>5
<1> QED
  BY <1>1, <1>2, <1>3

\* Inside a frame every byte leads on, and only the frame's EOF ends it, with
\* what fits of the payload in the buffer.
LEMMA InFrameStep ==
  ASSUME NEW d \in Decoder, NEW wire \in Seq(Byte), NEW payload \in Seq(Byte),
         NEW rest \in Seq(Byte), NEW room \in Nat, NEW size \in Nat,
         InFrame(d, wire, payload, rest, room),
         Len(d.payload) < size <=> Len(d.payload) < room
  PROVE  /\ wire # << >>
         /\ EndsFrame(d, Head(wire)) =>
              d.payload = Fit(payload, room) /\ Tail(wire) = rest
         /\ ~EndsFrame(d, Head(wire)) =>
              InFrame(DecodeByte(d, Head(wire), size), Tail(wire), payload, rest, room)
<1> DEFINE e == DecodeByte(d, Head(wire), size)
<1>1. PICK taken \in Seq(Byte), left \in Seq(Byte) :
        /\ payload = taken \o left
        /\ d.payload = Fit(taken, room)
        /\ \/ ~d.escaped /\ wire = Body(left) \o rest
           \/ /\ d.escaped /\ left # << >>
              /\ wire = <<Head(left)>> \o (Body(Tail(left)) \o rest)
  BY DEF InFrame
<1>2. d.in_frame /\ d.in_frame \in BOOLEAN /\ d.escaped \in BOOLEAN
  BY DEF InFrame, Decoder
<1>3. SOF # ESC /\ SOF # EOF /\ ESC # EOF /\ SOF \in Byte /\ ESC \in Byte /\ EOF \in Byte
  BY FramingAssumption DEF FramingAssumption, Byte, SPECIAL
<1>4. CASE ~d.escaped /\ wire = Body(left) \o rest /\ left = << >>
  <2>1. wire = <<EOF>> \o rest
    BY <1>4, BodyStepByStep
  <2>2. wire # << >> /\ Head(wire) = EOF /\ Tail(wire) = rest
    BY <1>3, <2>1
  <2>3. EndsFrame(d, Head(wire))
    BY <1>2, <1>4, <2>2 DEF EndsFrame
  <2>4. taken = payload
    BY <1>1, <1>4
  <2> QED
    BY <1>1, <2>2, <2>3, <2>4
<1> DEFINE next == Head(left)
           more == Append(taken, next)
<1>5. ASSUME left # << >>
      PROVE  /\ next \in Byte /\ Tail(left) \in Seq(Byte) /\ more \in Seq(Byte)
             /\ payload = more \o Tail(left)
             /\ Body(left) = Escape(next) \o Body(Tail(left))
             /\ Body(Tail(left)) \in Seq(Byte)
  <2>1. next \in Byte /\ Tail(left) \in Seq(Byte) /\ more \in Seq(Byte)
    BY <1>5
  <2>2. payload = more \o Tail(left)
    BY <1>1, <1>5, HandHeadOn
  <2> QED
    BY <1>5, <2>1, <2>2, BodyStepByStep, FramesAreBytes
<1> HIDE DEF next, more
\* The payload's next byte goes into the buffer.
<1>6. ASSUME left # << >>, Head(wire) = next,
             Tail(wire) = Body(Tail(left)) \o rest,
             d.escaped \/ next \notin SPECIAL
      PROVE  ~EndsFrame(d, Head(wire)) /\ InFrame(e, Tail(wire), payload, rest, room)
  <2>1. ~EndsFrame(d, Head(wire))
    BY <1>6 DEF EndsFrame, SPECIAL
  <2>2. /\ e.in_frame /\ ~e.escaped
        /\ e.payload = IF Len(d.payload) < size THEN Append(d.payload, next) ELSE d.payload
    BY <1>2, <1>3, <1>6 DEF DecodeByte, EndsFrame, SPECIAL
  <2> HIDE DEF e
  <2>3. e.payload = Fit(more, room)
    <3>1. next \in Byte
      BY <1>5, <1>6
    <3>2. Fit(more, room) = IF Len(Fit(taken, room)) < room
                           THEN Append(Fit(taken, room), next) ELSE Fit(taken, room)
      BY <3>1, FitOneMore DEF more
    <3> QED
      BY <1>1, <2>2, <3>2
  <2>4. InFrame(e, Tail(wire), payload, rest, room)
    BY <1>5, <1>6, <2>2, <2>3 DEF InFrame
  <2> QED
    BY <2>1, <2>4
<1>7. CASE ~d.escaped /\ wire = Body(left) \o rest /\ left # << >> /\ next \in SPECIAL
  <2>1. Escape(next) = <<ESC, next>>
    BY <1>7 DEF Escape
  <2>2. wire = (<<ESC, next>> \o Body(Tail(left))) \o rest
    BY <1>5, <1>7, <2>1
  <2>3. wire = <<ESC>> \o (<<next>> \o (Body(Tail(left)) \o rest))
    <3> DEFINE b == Body(Tail(left))
    <3>1. b \in Seq(Byte) /\ next \in Byte
      BY <1>5, <1>7
    <3> HIDE DEF b
    <3>2. /\ <<ESC, next>> = <<ESC>> \o <<next>>
          /\ <<ESC>> \in Seq(Byte) /\ <<next>> \in Seq(Byte)
      BY <1>3, <3>1
    <3>3. (<<ESC>> \o <<next>>) \o b = <<ESC>> \o (<<next>> \o b)
      BY <3>1, <3>2, RegroupParts
    <3>4. <<next>> \o b \in Seq(Byte)
      BY <3>1, <3>2
    <3>5. (<<ESC>> \o (<<next>> \o b)) \o rest = <<ESC>> \o ((<<next>> \o b) \o rest)
      <4> DEFINE nb == <<next>> \o b
                 esc == <<ESC>>
      <4>1. nb \in Seq(Byte) /\ esc \in Seq(Byte)
        BY <3>2, <3>4
      <4> HIDE DEF nb, esc
      <4>2. Regroups(esc, nb, rest)
        BY <4>1, Regrouping
      <4> QED
        BY <4>2 DEF Regroups, nb, esc
    <3>6. (<<next>> \o b) \o rest = <<next>> \o (b \o rest)
      BY <3>1, <3>2, RegroupParts
    <3> QED
      BY <2>2, <3>2, <3>3, <3>5, <3>6 DEF b
  <2>4. <<next>> \o (Body(Tail(left)) \o rest) \in Seq(Byte)
    BY <1>5, <1>7
  <2>5. /\ wire # << >> /\ Head(wire) = ESC
        /\ Tail(wire) = <<next>> \o (Body(Tail(left)) \o rest)
    BY <1>3, <2>3, <2>4
  <2>6. ~EndsFrame(d, Head(wire))
    BY <1>3, <2>5 DEF EndsFrame
  <2>7. e.in_frame /\ e.escaped /\ e.payload = d.payload
    BY <1>2, <1>3, <1>7, <2>5 DEF DecodeByte, EndsFrame, SPECIAL
  <2> HIDE DEF e
  <2>8. InFrame(e, Tail(wire), payload, rest, room)
    BY <1>1, <1>7, <2>5, <2>7 DEF InFrame, next
  <2> QED
    BY <2>5, <2>6, <2>8 DEF e
<1>8. CASE ~d.escaped /\ wire = Body(left) \o rest /\ left # << >> /\ next \notin SPECIAL
  <2>1. Escape(next) = <<next>>
    BY <1>8 DEF Escape
  <2>2. wire = (<<next>> \o Body(Tail(left))) \o rest
    BY <1>5, <1>8, <2>1
  <2>3. wire = <<next>> \o (Body(Tail(left)) \o rest)
    <3> DEFINE b == Body(Tail(left))
    <3>1. b \in Seq(Byte) /\ <<next>> \in Seq(Byte)
      BY <1>5, <1>8
    <3> HIDE DEF b
    <3>2. (<<next>> \o b) \o rest = <<next>> \o (b \o rest)
      BY <3>1, RegroupParts
    <3> QED
      BY <2>2, <3>2 DEF b
  <2>4. Body(Tail(left)) \o rest \in Seq(Byte)
    BY <1>5, <1>8
  <2>5. wire # << >> /\ Head(wire) = next /\ Tail(wire) = Body(Tail(left)) \o rest
    <3> DEFINE tail == Body(Tail(left)) \o rest
    <3>1. tail \in Seq(Byte) /\ next \in Byte
      BY <1>5, <1>8, <2>4
    <3>2. wire = <<next>> \o tail
      BY <2>3
    <3> HIDE DEF tail
    <3>3. wire # << >> /\ Head(wire) = next /\ Tail(wire) = tail
      BY <3>1, <3>2
    <3> QED
      BY <3>3 DEF tail
  <2> QED
    BY <1>6, <1>8, <2>5
<1>9. CASE /\ d.escaped /\ left # << >>
           /\ wire = <<Head(left)>> \o (Body(Tail(left)) \o rest)
  <2>1. Body(Tail(left)) \o rest \in Seq(Byte)
    BY <1>5, <1>9
  <2>2. wire # << >> /\ Head(wire) = next /\ Tail(wire) = Body(Tail(left)) \o rest
    BY <1>5, <1>9, <2>1 DEF next
  <2> QED
    BY <1>6, <1>9, <2>2
<1> QED
  BY <1>1, <1>4, <1>7, <1>8, <1>9

\* The decoder holds no more than there is of the payload.
LEMMA InFrameHolds ==
  ASSUME NEW d, NEW wire, NEW payload \in Seq(Byte), NEW rest, NEW room \in Nat,
         InFrame(d, wire, payload, rest, room)
  PROVE  d.in_frame /\ d.payload \in Seq(Byte) /\ Len(d.payload) <= Len(payload)
<1>1. PICK taken \in Seq(Byte), left \in Seq(Byte) :
        payload = taken \o left /\ d.payload = Fit(taken, room)
  BY DEF InFrame
<1>2. Len(payload) = Len(taken) + Len(left) /\ Len(taken) \in Nat /\ Len(left) \in Nat
  BY <1>1
<1>3. Fit(taken, room) \in Seq(Byte) /\ Len(Fit(taken, room)) <= Len(taken)
  BY <1>2 DEF Fit
<1> QED
  BY <1>1, <1>2, <1>3 DEF InFrame

\* One byte more leaves a decoder a decoder.
LEMMA DecodeByteIsDecoder ==
  ASSUME NEW d \in Decoder, NEW byte \in Byte, NEW room
  PROVE  DecodeByte(d, byte, room) \in Decoder
<1>1. d.in_frame \in BOOLEAN /\ d.escaped \in BOOLEAN /\ d.payload \in Seq(Byte)
  BY DEF Decoder
<1>2. Append(d.payload, byte) \in Seq(Byte) /\ << >> \in Seq(Byte)
  BY <1>1
<1> QED
  BY <1>1, <1>2 DEF DecodeByte, Decoder, EndsFrame

\* In step, a byte ends a frame with what fits of the first payload, and the
\* rest is frames; or the decoder is inside the frame of the first payload.
LEMMA InSyncStep ==
  ASSUME NEW d \in Decoder, NEW wire \in Seq(Byte), NEW payloads \in Seq(Seq(Byte)),
         NEW room \in Nat, NEW size \in Nat,
         InSync(d, wire, payloads, room), wire # << >>,
         Len(d.payload) < size <=> Len(d.payload) < room
  PROVE  /\ payloads # << >>
         /\ EndsFrame(d, Head(wire)) =>
              /\ d.payload = Fit(Head(payloads), room)
              /\ Tail(wire) = Frames(Tail(payloads))
         /\ ~EndsFrame(d, Head(wire)) =>
              InFrame(DecodeByte(d, Head(wire), size), Tail(wire), Head(payloads),
                      Frames(Tail(payloads)), room)
<1> DEFINE e == DecodeByte(d, Head(wire), size)
<1>1. CASE ~d.escaped /\ wire = Frames(payloads)
  <2>1. payloads # << >>
    BY <1>1, FramesStepByStep
  <2> DEFINE p == Head(payloads)
             rest == Frames(Tail(payloads))
  <2>2. p \in Seq(Byte) /\ Tail(payloads) \in Seq(Seq(Byte))
    BY <2>1
  <2>3. rest \in Seq(Byte) /\ Body(p) \in Seq(Byte)
    BY <2>2, FramesStepByStep, FramesAreBytes
  <2>4. wire = (<<SOF>> \o Body(p)) \o rest
    BY <1>1, <2>1, FramesStepByStep DEF Frame
  <2> HIDE DEF p, rest
  <2>5. SOF \in Byte /\ SOF # EOF /\ SOF # ESC
    BY FramingAssumption DEF FramingAssumption, Byte, SPECIAL
  <2>6. <<SOF>> \in Seq(Byte) /\ Body(p) \o rest \in Seq(Byte)
    BY <2>3, <2>5
  <2>7. wire = <<SOF>> \o (Body(p) \o rest)
    BY <2>3, <2>4, <2>6, RegroupParts
  <2>8. Head(wire) = SOF /\ Tail(wire) = Body(p) \o rest
    BY <2>5, <2>6, <2>7
  <2>9. ~EndsFrame(d, Head(wire))
    BY <2>5, <2>8 DEF EndsFrame
  <2>10. e.in_frame /\ ~e.escaped /\ e.payload = << >>
    BY <1>1, <2>5, <2>8 DEF DecodeByte, EndsFrame, Decoder
  <2> HIDE DEF e
  <2>11. << >> \in Seq(Byte) /\ p = << >> \o p /\ Fit(<< >>, room) = << >>
    BY <2>2 DEF Fit, p
  <2>12. p \in Seq(Byte)
    BY <2>2 DEF p
  <2>13. InFrame(e, Tail(wire), p, rest, room)
    BY <2>8, <2>10, <2>11, <2>12 DEF InFrame
  <2> QED
    BY <2>1, <2>9, <2>13 DEF InSync, p, rest, e
<1>2. CASE /\ payloads # << >>
           /\ InFrame(d, wire, Head(payloads), Frames(Tail(payloads)), room)
  <2>1. Head(payloads) \in Seq(Byte) /\ Tail(payloads) \in Seq(Seq(Byte))
    BY <1>2
  <2>2. Frames(Tail(payloads)) \in Seq(Byte)
    BY <2>1, FramesStepByStep
  <2> HIDE DEF e
  <2>3. /\ EndsFrame(d, Head(wire)) =>
             /\ d.payload = Fit(Head(payloads), room)
             /\ Tail(wire) = Frames(Tail(payloads))
        /\ ~EndsFrame(d, Head(wire)) =>
             InFrame(e, Tail(wire), Head(payloads), Frames(Tail(payloads)), room)
    BY <1>2, <2>1, <2>2, InFrameStep DEF e
  <2> QED
    BY <1>2, <2>3 DEF InSync, e
<1> QED
  BY <1>1, <1>2 DEF InSync

\* More frames on the wire leave the decoder in step.
LEMMA InSyncMore ==
  ASSUME NEW d, NEW wire \in Seq(Byte), NEW payloads \in Seq(Seq(Byte)), NEW room,
         NEW more \in Seq(Seq(Byte)), InSync(d, wire, payloads, room)
  PROVE  InSync(d, wire \o Frames(more), payloads \o more, room)
<1>1. Frames(more) \in Seq(Byte) /\ payloads \o more \in Seq(Seq(Byte))
  BY FramesStepByStep
<1>2. CASE ~d.escaped /\ wire = Frames(payloads)
  BY <1>2, FramesStepByStep DEF InSync
<1>3. CASE /\ payloads # << >>
           /\ InFrame(d, wire, Head(payloads), Frames(Tail(payloads)), room)
  <2>1. /\ payloads \o more # << >> /\ Head(payloads \o more) = Head(payloads)
        /\ Tail(payloads \o more) = Tail(payloads) \o more
        /\ Tail(payloads) \in Seq(Seq(Byte))
    BY <1>3
  <2> DEFINE rest == Frames(Tail(payloads))
             extra == Frames(more)
  <2>2. rest \in Seq(Byte) /\ extra \in Seq(Byte)
    BY <1>1, <2>1, FramesStepByStep
  <2>3. Frames(Tail(payloads) \o more) = rest \o extra
    BY <2>1, FramesStepByStep
  <2>4. PICK taken \in Seq(Byte), left \in Seq(Byte) :
          /\ Head(payloads) = taken \o left
          /\ d.payload = Fit(taken, room)
          /\ \/ ~d.escaped /\ wire = Body(left) \o rest
             \/ /\ d.escaped /\ left # << >>
                /\ wire = <<Head(left)>> \o (Body(Tail(left)) \o rest)
    BY <1>3 DEF InFrame
  <2> HIDE DEF rest, extra
  <2>5. CASE ~d.escaped /\ wire = Body(left) \o rest
    <3>1. Body(left) \in Seq(Byte)
      BY FramesAreBytes
    <3>2. wire \o extra = Body(left) \o (rest \o extra)
      <4>1. Regroups(Body(left), rest, extra)
        BY <2>2, <3>1, Regrouping
      <4> QED
        BY <2>5, <4>1 DEF Regroups
    <3>3. InFrame(d, wire \o extra, Head(payloads), rest \o extra, room)
      BY <1>3, <2>4, <2>5, <3>2 DEF InFrame
    <3> QED
      BY <2>1, <2>3, <3>3 DEF InSync, extra
  <2>6. CASE /\ d.escaped /\ left # << >>
             /\ wire = <<Head(left)>> \o (Body(Tail(left)) \o rest)
    <3> DEFINE b == Body(Tail(left))
               h == <<Head(left)>>
    <3>1. b \in Seq(Byte) /\ h \in Seq(Byte)
      BY <2>6, FramesAreBytes
    <3> HIDE DEF b, h
    <3> DEFINE br == b \o rest
    <3>5. br \in Seq(Byte)
      BY <2>2, <3>1
    <3>3. Regroups(b, rest, extra)
      BY <2>2, <3>1, Regrouping
    <3>2. Regroups(h, br, extra)
      BY <2>2, <3>1, <3>5, Regrouping
    <3>4. wire \o extra = <<Head(left)>> \o (Body(Tail(left)) \o (rest \o extra))
      BY <2>6, <3>2, <3>3 DEF Regroups, b, h
    <3>6. InFrame(d, wire \o extra, Head(payloads), rest \o extra, room)
      BY <1>3, <2>4, <2>6, <3>4 DEF InFrame
    <3> QED
      BY <2>1, <2>3, <3>6 DEF InSync, extra
  <2> QED
    BY <2>4, <2>5, <2>6
<1> QED
  BY <1>2, <1>3 DEF InSync
=============================================================================
