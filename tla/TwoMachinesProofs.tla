-------------------------- MODULE TwoMachinesProofs --------------------------
(***************************************************************************)
(* The fake peripherals under two machines, for all payloads, all sizes of *)
(* a byte and of a page, and every interleaving of the machines and of     *)
(* their threads.                                                          *)
(*                                                                         *)
(* StoreInvariant follows the settings store from page to page.            *)
(* LinkInvariant follows the one packet under way: at any moment one of    *)
(* the machines has the turn, to send or because a frame is on its way to  *)
(* it, and what its buffers hold follows from how far it has got, while    *)
(* the other one waits.                                                    *)
(***************************************************************************)
EXTENDS TwoMachines, SequenceTheorems, TLAPS

\* The two machines.
LEMMA PeerFacts ==
  ASSUME NEW m \in Machine
  PROVE  /\ Peer(m) \in Machine /\ Peer(m) # m /\ Peer(Peer(m)) = m
         /\ \A n \in Machine : n = m \/ n = Peer(m)
<1>1. PICK p \in Machine, q \in Machine : p # q /\ Machine = {p, q}
  BY RadioAssumption DEF RadioAssumption
<1>2. ASSUME NEW n \in Machine PROVE Peer(n) \in Machine /\ Peer(n) # n
  <2>1. \E o \in Machine : o # n
    BY <1>1
  <2> QED
    BY <2>1 DEF Peer
<1> QED
  BY <1>1, <1>2

LEMMA Sizes ==
  /\ PageSize \in Nat /\ PageSize >= 2 /\ Pages = 2 /\ MaxVersions \in Nat
  /\ MaxByte \in Nat /\ BufferSize \in Nat /\ PAY + MaxByte < BufferSize
  /\ NvmcMachine = Machine /\ Buffer = {plain, scratch, node} /\ Null \notin Buffer
  /\ Value = {Blank} \cup (1..MaxVersions)
BY RadioAssumption, CcmAssumption, NvmcAssumption DEF RadioAssumption, CcmAssumption, NvmcAssumption

-----------------------------------------------------------------------------
(* The settings store.                                                     *)

\* The address of word a of a page.
At(page, a) == page * PageSize + a
Offsets == 0..(PageSize - 1)

\* The page in use holds the newest value in its last used word and is blank
\* beyond; the other page is blank but while the copied page awaits its erase.
Sound(n, f) ==
  /\ n.task = "none" => n.at = 1 /\ n.used = 0
  /\ n.task = "store" => n.at \in 1..4
  /\ n.value # 0 <=> n.used # 0
  /\ n.value # 0 => f[At(n.page, n.used - 1)] = n.value
  /\ \A a \in Offsets : a >= n.used => f[At(n.page, a)] = Blank
  /\ \/ n.task = "collect" /\ n.at \in 3..5
     \/ \A a \in Offsets : f[At(1 - n.page, a)] = Blank
  /\ n.task = "store" /\ n.at \in 1..2 => n.used < PageSize /\ n.value < MaxVersions
  /\ n.task = "collect" /\ n.at \in 1..2 => n.used = PageSize

StoreSound(m) == Sound(nvs[m], flash[m])

Task == [task : {"none", "store", "collect"}, at : 1..8, page : {0, 1},
         used : 0..PageSize, value : 0..MaxVersions]

StoreInvariant ==
  NvmcTypeOK /\ nvs \in [Machine -> Task] /\ \A m \in Machine : StoreSound(m)

\* The addresses of two pages: all that there are, and different if the page or
\* the offset is.
LEMMA AddressFacts ==
  ASSUME NEW p \in {0, 1}, NEW a \in Offsets
  PROVE  /\ At(p, a) \in Address /\ PageOf(At(p, a)) = p
         /\ \A q \in {0, 1}, b \in Offsets : At(p, a) = At(q, b) => p = q /\ a = b
<1>1. PageSize \in Nat /\ PageSize >= 2 /\ Pages = 2
  BY Sizes
<1>2. At(0, a) = a /\ At(1, a) = PageSize + a
  BY <1>1 DEF At, Offsets
<1>3. \A q \in {0, 1}, b \in Offsets : At(q, b) = IF q = 0 THEN b ELSE PageSize + b
  BY <1>1 DEF At, Offsets
<1>4. a \div PageSize = 0
  BY <1>1 DEF Offsets
<1>5. (PageSize + a) \div PageSize = 1
  BY <1>1 DEF Offsets
<1>6. 2 * PageSize = PageSize + PageSize
  BY <1>1
<1> QED
  BY <1>1, <1>2, <1>3, <1>4, <1>5, <1>6 DEF Address, PageOf, Offsets

\* The update of a task, field by field.
LEMMA BegunTask ==
  ASSUME NEW n \in Task, NEW i \in 1..8, NEW t \in {"none", "store", "collect"}
  PROVE  [n EXCEPT !.at = i, !.task = t]
           = [task |-> t, at |-> i, page |-> n.page, used |-> n.used, value |-> n.value]
<1> DEFINE r == [n EXCEPT !.at = i, !.task = t]
           q == [task |-> t, at |-> i, page |-> n.page, used |-> n.used,
                 value |-> n.value]
<1>1. /\ r \in Task /\ q \in Task
      /\ r.task = t /\ r.at = i /\ r.page = n.page /\ r.used = n.used /\ r.value = n.value
  BY DEF Task
<1>2. q.task = t /\ q.at = i /\ q.page = n.page /\ q.used = n.used /\ q.value = n.value
  OBVIOUS
<1> HIDE DEF r, q
<1>3. r = q
  BY <1>1, <1>2 DEF Task
<1> QED
  BY <1>3 DEF r, q

\* Where in its script a machine is, from what it does next.
LEMMA OpFacts ==
  ASSUME NEW m \in Machine, nvs[m] \in Task
  PROVE  /\ Op(m) = "store" => nvs[m].task = "store" /\ nvs[m].at = 2
         /\ Op(m) = "copy" => nvs[m].task = "collect" /\ nvs[m].at = 2
         /\ Op(m) = "erase" => nvs[m].task = "collect" /\ nvs[m].at = 5
         /\ Op(m) = "READY" => nvs[m].task = "collect" /\ nvs[m].at = 6
         /\ Op(m) \in {"REN", "WEN", "EEN"} =>
              \/ nvs[m].task = "store" /\ nvs[m].at \in {1, 3}
              \/ nvs[m].task = "collect" /\ nvs[m].at \in {1, 3, 4, 7}
         /\ Op(m) = "done" =>
              \/ nvs[m].task = "none"
              \/ nvs[m].task = "store" /\ nvs[m].at \in 4..8
              \/ nvs[m].task = "collect" /\ nvs[m].at = 8
<1>1. nvs[m].task \in {"none", "store", "collect"} /\ nvs[m].at \in 1..8
  BY DEF Task
<1>2. CASE nvs[m].task = "none"
  <2>1. Op(m) = "done"
    BY <1>2 DEF Op, Script
  <2> QED
    BY <1>2, <2>1
<1>3. CASE nvs[m].task = "store"
  <2>1. Op(m) = IF nvs[m].at \in 1..3 THEN <<"WEN", "store", "REN">>[nvs[m].at] ELSE "done"
    BY <1>3 DEF Op, Script
  <2>2. nvs[m].at = 1 \/ nvs[m].at = 2 \/ nvs[m].at = 3 \/ nvs[m].at \in 4..8
    BY <1>1
  <2> QED
    BY <1>3, <2>1, <2>2
<1>4. CASE nvs[m].task = "collect"
  <2>1. Op(m) = IF nvs[m].at \in 1..7
                THEN <<"WEN", "copy", "REN", "EEN", "erase", "READY", "REN">>[nvs[m].at]
                ELSE "done"
    BY <1>4 DEF Op, Script
  <2>2. \/ nvs[m].at = 1 \/ nvs[m].at = 2 \/ nvs[m].at = 3 \/ nvs[m].at = 4
        \/ nvs[m].at = 5 \/ nvs[m].at = 6 \/ nvs[m].at = 7 \/ nvs[m].at = 8
    BY <1>1
  <2> QED
    BY <1>4, <2>1, <2>2
<1> QED
  BY <1>1, <1>2, <1>3, <1>4

\* One machine's step leaves the other's store alone.
LEMMA StoresAreApart ==
  ASSUME StoreInvariant, NEW m \in Machine, NEW t \in Task, NEW f \in [Address -> Value],
         nvs' = [nvs EXCEPT ![m] = t], flash' = [flash EXCEPT ![m] = f],
         config' \in {"REN", "WEN", "EEN"}, Sound(t, f)
  PROVE  StoreInvariant'
<1>1. flash \in [Machine -> [Address -> Value]] /\ nvs \in [Machine -> Task]
  BY Sizes DEF StoreInvariant, NvmcTypeOK
<1>2. flash' \in [Machine -> [Address -> Value]] /\ nvs' \in [Machine -> Task]
  BY <1>1
<1>3. ASSUME NEW n \in Machine PROVE StoreSound(n)'
  <2>1. CASE n = m
    BY <1>1, <2>1 DEF StoreSound
  <2>2. CASE n # m
    <3>1. nvs'[n] = nvs[n] /\ flash'[n] = flash[n]
      BY <1>1, <2>2
    <3>2. StoreSound(n)
      BY DEF StoreInvariant
    <3> QED
      BY <3>1, <3>2 DEF StoreSound, Sound
  <2> QED
    BY <2>1, <2>2
<1> QED
  BY <1>2, <1>3, Sizes DEF StoreInvariant, NvmcTypeOK

LEMMA StoreInit == Init => StoreInvariant
<1> SUFFICES ASSUME Init PROVE StoreInvariant
  OBVIOUS
<1>1. NvmcTypeOK
  BY NvmcAssumption DEF Init, NvmcInit, NvmcTypeOK, NvmcAssumption
<1>2. nvs \in [Machine -> Task]
  BY Sizes DEF Init, Task
<1>3. ASSUME NEW m \in Machine PROVE StoreSound(m)
  <2>1. /\ nvs[m].task = "none" /\ nvs[m].at = 1 /\ nvs[m].page = 0
        /\ nvs[m].used = 0 /\ nvs[m].value = 0
    BY DEF Init
  <2>2. \A p \in {0, 1}, a \in Offsets : flash[m][At(p, a)] = Blank
    BY Sizes, AddressFacts DEF Init, NvmcInit
  <2> QED
    BY <2>1, <2>2 DEF StoreSound, Sound
<1> QED
  BY <1>1, <1>2, <1>3 DEF StoreInvariant

\* A task is begun, a mode set or READY read: the flash stays as it is.
LEMMA IdleStepKeepsStore ==
  ASSUME StoreInvariant, NEW m \in Machine, Save(m) \/ SetMode(m) \/ PollReady(m)
  PROVE  StoreInvariant'
<1>1. /\ nvs \in [Machine -> Task] /\ flash \in [Machine -> [Address -> Value]]
      /\ config \in {"REN", "WEN", "EEN"} /\ StoreSound(m)
      /\ nvs[m] \in Task /\ flash[m] \in [Address -> Value]
  BY Sizes DEF StoreInvariant, NvmcTypeOK
<1>2. UNCHANGED flash /\ config' \in {"REN", "WEN", "EEN"}
  BY <1>1 DEF Save, SetMode, PollReady, WriteConfig, nvmcVars
<1>3. flash' = [flash EXCEPT ![m] = flash[m]]
  BY <1>1, <1>2
<1>4. ASSUME NEW t \in Task, nvs' = [nvs EXCEPT ![m] = t], Sound(t, flash[m])
      PROVE  StoreInvariant'
  BY <1>1, <1>2, <1>3, <1>4, StoresAreApart
<1>5. CASE Save(m)
  <2> DEFINE task == IF nvs[m].used = PageSize THEN "collect" ELSE "store"
             t == [task |-> task, at |-> 1, page |-> nvs[m].page, used |-> nvs[m].used,
                   value |-> nvs[m].value]
  <2>1. Op(m) = "done" /\ nvs[m].value < MaxVersions
    BY <1>5 DEF Save, Thread
  <2>2. nvs' = [nvs EXCEPT ![m] = t]
    <3>1. nvs' = [nvs EXCEPT ![m].at = 1, ![m].task = task]
      BY <1>5 DEF Save
    <3>2. [nvs[m] EXCEPT !.at = 1, !.task = task] = t
      <4> DEFINE i == 1
      <4>1. nvs[m] \in Task /\ i \in 1..8 /\ task \in {"none", "store", "collect"}
        BY <1>1
      <4> HIDE DEF task, i
      <4>2. [nvs[m] EXCEPT !.at = i, !.task = task]
              = [task |-> task, at |-> i, page |-> nvs[m].page, used |-> nvs[m].used,
                 value |-> nvs[m].value]
        BY <4>1, BegunTask, Zenon
      <4> QED
        BY <4>2 DEF i
    <3> QED
      BY <1>1, <3>1, <3>2
  <2>3. task \in {"none", "store", "collect"} /\ task # "none"
    OBVIOUS
  <2>4. t \in Task
    BY <1>1, <2>3 DEF Task
  <2>5. ~(nvs[m].task = "collect" /\ nvs[m].at \in 3..5)
    BY <1>1, <2>1, OpFacts
  <2>6. task = "collect" => nvs[m].used = PageSize
    OBVIOUS
  <2>7. task = "store" => nvs[m].used < PageSize
    BY <1>1, Sizes DEF Task
  <2>8. Sound(t, flash[m])
    <3> HIDE DEF task
    <3> QED
      BY <1>1, <2>1, <2>3, <2>5, <2>6, <2>7 DEF StoreSound, Sound
  <2> HIDE DEF t
  <2> QED
    BY <1>4, <2>2, <2>4, <2>8
<1>6. CASE SetMode(m) \/ PollReady(m)
  <2> DEFINE t == [nvs[m] EXCEPT !.at = @ + 1]
  <2>1. Op(m) \in {"REN", "WEN", "EEN", "READY"} /\ nvs' = [nvs EXCEPT ![m] = t]
    BY <1>6 DEF SetMode, PollReady, Thread, OpDone
  <2>2. \/ nvs[m].task = "store" /\ nvs[m].at \in {1, 3}
        \/ nvs[m].task = "collect" /\ nvs[m].at \in {1, 3, 4, 6, 7}
    BY <1>1, <2>1, OpFacts
  <2>3. nvs[m].at \in 1..7
    BY <2>2
  <2>4. /\ t \in Task /\ t.at = nvs[m].at + 1 /\ t.page = nvs[m].page
        /\ t.used = nvs[m].used /\ t.value = nvs[m].value /\ t.task = nvs[m].task
    BY <1>1, <2>3 DEF Task
  <2> HIDE DEF t
  <2>5. Sound(t, flash[m])
    BY <1>1, <2>2, <2>4 DEF StoreSound, Sound
  <2> QED
    BY <1>4, <2>1, <2>4, <2>5
<1> QED
  BY <1>5, <1>6

\* A word is stored: the next version in the next word.
LEMMA StoreKeepsStore ==
  ASSUME StoreInvariant, NEW m \in Machine, Store(m)
  PROVE  StoreInvariant'
<1>1. /\ nvs \in [Machine -> Task] /\ flash \in [Machine -> [Address -> Value]]
      /\ config \in {"REN", "WEN", "EEN"} /\ StoreSound(m)
      /\ nvs[m] \in Task /\ flash[m] \in [Address -> Value]
  BY Sizes DEF StoreInvariant, NvmcTypeOK
<1>2. Op(m) = "store" /\ nvs[m].task = "store" /\ nvs[m].at = 2
  BY <1>1, OpFacts DEF Store, Thread
<1>3. /\ nvs[m].used < PageSize /\ nvs[m].value < MaxVersions /\ nvs[m].used \in Offsets
      /\ nvs[m].page \in {0, 1} /\ nvs[m].value \in Nat /\ nvs[m].used \in Nat
      /\ \A a \in Offsets : flash[m][At(1 - nvs[m].page, a)] = Blank
  BY <1>1, <1>2, Sizes DEF StoreSound, Sound, Task, Offsets
<1> DEFINE addr == At(nvs[m].page, nvs[m].used)
           f == [flash[m] EXCEPT ![addr] = nvs[m].value + 1]
           t == [task |-> "store", at |-> 3, page |-> nvs[m].page,
                 used |-> nvs[m].used + 1, value |-> nvs[m].value + 1]
<1>4. Target(m) = addr
  BY <1>2 DEF Target, At
<1>5. /\ flash' = [flash EXCEPT ![m] = f] /\ nvs' = [nvs EXCEPT ![m] = t]
      /\ UNCHANGED config
  <2>1. [[nvs[m] EXCEPT !.used = @ + 1, !.value = @ + 1] EXCEPT !.at = @ + 1] = t
    <3> DEFINE n == nvs[m]
               u == n.used + 1
               v == n.value + 1
               i == n.at + 1
    <3>1. n \in Task /\ i \in 1..8 /\ i = 3 /\ n.task = "store"
      BY <1>1, <1>2
    <3>2. u \in 0..PageSize /\ v \in 0..MaxVersions
      BY <1>3, Sizes
    <3>3. [n EXCEPT !.used = u, !.value = v].at = n.at
      BY <3>1 DEF Task
    <3> HIDE DEF n, u, v, i
    <3>4. [[n EXCEPT !.used = u, !.value = v] EXCEPT !.at = i]
            = [task |-> n.task, at |-> i, page |-> n.page, used |-> u, value |-> v]
      <4> DEFINE r == [[n EXCEPT !.used = u, !.value = v] EXCEPT !.at = i]
                 q == [task |-> n.task, at |-> i, page |-> n.page, used |-> u, value |-> v]
      <4>1. /\ r \in Task /\ q \in Task
            /\ r.task = n.task /\ r.at = i /\ r.page = n.page /\ r.used = u /\ r.value = v
        BY <3>1, <3>2 DEF Task
      <4>2. q.task = n.task /\ q.at = i /\ q.page = n.page /\ q.used = u /\ q.value = v
        OBVIOUS
      <4> HIDE DEF r, q
      <4>3. r = q
        BY <4>1, <4>2 DEF Task
      <4> QED
        BY <4>3 DEF r, q
    <3> QED
      BY <3>1, <3>3, <3>4, Zenon DEF n, u, v, i
  <2> HIDE DEF t
  <2> QED
    BY <1>1, <1>4, <2>1 DEF Store, StoreWord, OpDone
<1>6. addr \in Address /\ nvs[m].value + 1 \in Value
  BY <1>3, AddressFacts, Sizes
<1>7. f \in [Address -> Value]
  BY <1>1, <1>6
<1>8. /\ t \in Task /\ t.page = nvs[m].page /\ t.used = nvs[m].used + 1
      /\ t.value = nvs[m].value + 1 /\ t.task = "store" /\ t.at = 3
  <2>1. nvs[m].page \in {0, 1} /\ nvs[m].value \in 0..MaxVersions
    BY <1>1 DEF Task
  <2>2. nvs[m].used + 1 \in 0..PageSize /\ nvs[m].value + 1 \in 0..MaxVersions
    BY <1>3, Sizes
  <2> QED
    BY <2>1, <2>2 DEF Task
<1>9. nvs'[m] = t /\ flash'[m] = f
  BY <1>1, <1>5
<1>10. /\ f[addr] = nvs[m].value + 1
       /\ \A p \in {0, 1}, a \in Offsets :
            ~(p = nvs[m].page /\ a = nvs[m].used) => f[At(p, a)] = flash[m][At(p, a)]
  <2>1. \A p \in {0, 1}, a \in Offsets : At(p, a) \in Address
    BY AddressFacts
  <2>2. \A p \in {0, 1}, a \in Offsets : ~(p = nvs[m].page /\ a = nvs[m].used) => At(p, a) # addr
    BY <1>3, AddressFacts
  <2> QED
    BY <1>1, <1>6, <2>1, <2>2
<1> HIDE DEF f, t, addr
<1>11. Sound(t, f)
  <2>1. f[At(t.page, t.used - 1)] = t.value
    BY <1>3, <1>8, <1>9, <1>10 DEF addr
  <2>2. ASSUME NEW a \in Offsets, a >= t.used PROVE f[At(t.page, a)] = Blank
    <3>1. a >= nvs[m].used /\ a # nvs[m].used
      BY <1>3, <1>8, <2>2 DEF Offsets
    <3>2. f[At(t.page, a)] = flash[m][At(nvs[m].page, a)]
      BY <1>3, <1>8, <1>10, <3>1
    <3> QED
      BY <1>1, <1>9, <3>1, <3>2 DEF StoreSound, Sound
  <2>3. ASSUME NEW a \in Offsets PROVE f[At(1 - t.page, a)] = Blank
    <3>1. 1 - t.page \in {0, 1} /\ 1 - t.page # nvs[m].page
      BY <1>3, <1>8
    <3>2. f[At(1 - t.page, a)] = flash[m][At(1 - nvs[m].page, a)]
      BY <1>8, <1>10, <3>1
    <3> QED
      BY <1>3, <1>9, <3>2
  <2>4. t.used # 0 /\ t.value # 0
    BY <1>3, <1>8
  <2> QED
    BY <1>8, <1>9, <2>1, <2>2, <2>3, <2>4 DEF StoreSound, Sound
<1> QED
  BY <1>1, <1>5, <1>7, <1>8, <1>11, StoresAreApart

\* The value is copied to the first word of the other page.
LEMMA CopyKeepsStore ==
  ASSUME StoreInvariant, NEW m \in Machine, Copy(m)
  PROVE  StoreInvariant'
<1>1. /\ nvs \in [Machine -> Task] /\ flash \in [Machine -> [Address -> Value]]
      /\ config \in {"REN", "WEN", "EEN"} /\ StoreSound(m)
      /\ nvs[m] \in Task /\ flash[m] \in [Address -> Value]
  BY Sizes DEF StoreInvariant, NvmcTypeOK
<1>2. Op(m) = "copy" /\ nvs[m].task = "collect" /\ nvs[m].at = 2
  BY <1>1, OpFacts DEF Copy, Thread
<1>3. /\ nvs[m].page \in {0, 1} /\ 1 - nvs[m].page \in {0, 1} /\ nvs[m].used = PageSize
      /\ nvs[m].value \in Value /\ 0 \in Offsets /\ nvs[m].value # 0
      /\ nvs[m].value \in 0..MaxVersions
  BY <1>1, <1>2, Sizes DEF StoreSound, Sound, Task, Offsets
<1>4. \A a \in Offsets : flash[m][At(1 - nvs[m].page, a)] = Blank
  BY <1>1, <1>2 DEF StoreSound, Sound
<1> DEFINE addr == At(1 - nvs[m].page, 0)
           f == [flash[m] EXCEPT ![addr] = nvs[m].value]
           t == [task |-> "collect", at |-> 3, page |-> 1 - nvs[m].page, used |-> 1,
                 value |-> nvs[m].value]
<1>5. Target(m) = addr
  <2>1. Target(m) = (1 - nvs[m].page) * PageSize
    BY <1>2 DEF Target
  <2>2. (1 - nvs[m].page) * PageSize \in Nat
    BY <1>3, Sizes
  <2> QED
    BY <2>1, <2>2 DEF At
<1>6. /\ flash' = [flash EXCEPT ![m] = f] /\ nvs' = [nvs EXCEPT ![m] = t]
      /\ UNCHANGED config
  <2>1. [[nvs[m] EXCEPT !.page = 1 - @, !.used = 1] EXCEPT !.at = @ + 1] = t
    <3> DEFINE n == nvs[m]
               p == 1 - n.page
               u == 1
               i == n.at + 1
    <3>1. n \in Task /\ i \in 1..8 /\ i = 3 /\ n.task = "collect"
      BY <1>1, <1>2
    <3>2. p \in {0, 1} /\ u \in 0..PageSize
      BY <1>3, Sizes
    <3>3. [n EXCEPT !.page = p, !.used = u].at = n.at
      BY <3>1 DEF Task
    <3> HIDE DEF n, p, u, i
    <3>4. [[n EXCEPT !.page = p, !.used = u] EXCEPT !.at = i]
            = [task |-> n.task, at |-> i, page |-> p, used |-> u, value |-> n.value]
      <4> DEFINE r == [[n EXCEPT !.page = p, !.used = u] EXCEPT !.at = i]
                 q == [task |-> n.task, at |-> i, page |-> p, used |-> u, value |-> n.value]
      <4>1. /\ r \in Task /\ q \in Task
            /\ r.task = n.task /\ r.at = i /\ r.page = p /\ r.used = u /\ r.value = n.value
        BY <3>1, <3>2 DEF Task
      <4>2. q.task = n.task /\ q.at = i /\ q.page = p /\ q.used = u /\ q.value = n.value
        OBVIOUS
      <4> HIDE DEF r, q
      <4>3. r = q
        BY <4>1, <4>2 DEF Task
      <4> QED
        BY <4>3 DEF r, q
    <3> QED
      BY <3>1, <3>3, <3>4, Zenon DEF n, p, u, i
  <2> HIDE DEF t
  <2> QED
    BY <1>1, <1>5, <2>1 DEF Copy, StoreWord, OpDone
<1>7. addr \in Address
  BY <1>3, AddressFacts
<1>8. f \in [Address -> Value]
  BY <1>1, <1>3, <1>7
<1>9. /\ t \in Task /\ t.page = 1 - nvs[m].page /\ t.used = 1
      /\ t.value = nvs[m].value /\ t.task = "collect" /\ t.at = 3
  <2>1. nvs[m].page \in {0, 1} /\ nvs[m].value \in 0..MaxVersions
    BY <1>1 DEF Task
  <2>2. 1 \in 0..PageSize /\ 1 - nvs[m].page \in {0, 1}
    BY <1>3, Sizes
  <2> QED
    BY <2>1, <2>2 DEF Task
<1>10. nvs'[m] = t /\ flash'[m] = f
  BY <1>1, <1>6
<1>11. /\ f[addr] = nvs[m].value
       /\ \A a \in Offsets : a # 0 => f[At(1 - nvs[m].page, a)] = Blank
  <2>1. \A a \in Offsets : At(1 - nvs[m].page, a) \in Address
    BY <1>3, AddressFacts
  <2>2. \A a \in Offsets : a # 0 => At(1 - nvs[m].page, a) # addr
    BY <1>3, AddressFacts
  <2> QED
    BY <1>1, <1>4, <1>7, <2>1, <2>2
<1> HIDE DEF f, t, addr
<1>12. Sound(t, f)
  <2>1. f[At(t.page, t.used - 1)] = t.value
    BY <1>9, <1>10, <1>11 DEF addr
  <2>2. ASSUME NEW a \in Offsets, a >= t.used PROVE f[At(t.page, a)] = Blank
    BY <1>9, <1>10, <1>11, <2>2 DEF Offsets
  <2> QED
    BY <1>3, <1>9, <1>10, <2>1, <2>2 DEF StoreSound, Sound
<1> QED
  BY <1>1, <1>6, <1>8, <1>9, <1>12, StoresAreApart

\* The full page is erased, and the copy on the other one is not.
LEMMA EraseKeepsStore ==
  ASSUME StoreInvariant, NEW m \in Machine, Erase(m)
  PROVE  StoreInvariant'
<1>1. /\ nvs \in [Machine -> Task] /\ flash \in [Machine -> [Address -> Value]]
      /\ config \in {"REN", "WEN", "EEN"} /\ StoreSound(m)
      /\ nvs[m] \in Task /\ flash[m] \in [Address -> Value]
  BY Sizes DEF StoreInvariant, NvmcTypeOK
<1>2. Op(m) = "erase" /\ nvs[m].task = "collect" /\ nvs[m].at = 5
  BY <1>1, OpFacts DEF Erase, Thread
<1>3. /\ nvs[m].page \in {0, 1} /\ 1 - nvs[m].page \in {0, 1} /\ 0 \in Offsets
      /\ nvs[m].used \in 0..PageSize
  BY <1>1, Sizes DEF Task, Offsets
<1> DEFINE addr == (1 - nvs[m].page) * PageSize
           f == [a \in Address |-> IF PageOf(a) = PageOf(addr) THEN Blank ELSE flash[m][a]]
           t == [nvs[m] EXCEPT !.at = @ + 1]
<1>4. PageOf(addr) = 1 - nvs[m].page
  <2>1. addr = At(1 - nvs[m].page, 0)
    <3>1. addr \in Nat
      BY <1>3, Sizes
    <3> QED
      BY <3>1 DEF At
  <2> HIDE DEF addr
  <2> QED
    BY <1>3, <2>1, AddressFacts
<1>5. /\ flash' = [flash EXCEPT ![m] = f] /\ nvs' = [nvs EXCEPT ![m] = t]
      /\ UNCHANGED config
  BY <1>1 DEF Erase, WriteErasePage, _erase_page, OpDone
<1>6. f \in [Address -> Value]
  BY <1>1, NvmcAssumption DEF NvmcAssumption
<1>7. /\ t \in Task /\ t.page = nvs[m].page /\ t.used = nvs[m].used
      /\ t.value = nvs[m].value /\ t.task = "collect" /\ t.at = 6
  BY <1>1, <1>2 DEF Task
<1>8. nvs'[m] = t /\ flash'[m] = f
  BY <1>1, <1>5
<1>9. \A p \in {0, 1}, a \in Offsets :
        f[At(p, a)] = IF p = nvs[m].page THEN flash[m][At(p, a)] ELSE Blank
  <2> SUFFICES ASSUME NEW p \in {0, 1}, NEW a \in Offsets
               PROVE  f[At(p, a)] = IF p = nvs[m].page THEN flash[m][At(p, a)] ELSE Blank
    OBVIOUS
  <2>1. At(p, a) \in Address /\ PageOf(At(p, a)) = p
    BY AddressFacts
  <2>2. f[At(p, a)] = IF p = 1 - nvs[m].page THEN Blank ELSE flash[m][At(p, a)]
    BY <1>4, <2>1
  <2> HIDE DEF f
  <2> QED
    BY <1>3, <2>2
<1> HIDE DEF f, t, addr
<1>10. Sound(t, f)
  <2>1. t.value # 0 => f[At(t.page, t.used - 1)] = t.value
    <3> SUFFICES ASSUME t.value # 0 PROVE f[At(t.page, t.used - 1)] = t.value
      OBVIOUS
    <3>1. nvs[m].used # 0 /\ flash[m][At(nvs[m].page, nvs[m].used - 1)] = nvs[m].value
      BY <1>1, <1>7 DEF StoreSound, Sound
    <3>2. nvs[m].used - 1 \in Offsets
      BY <1>3, <3>1, Sizes DEF Offsets
    <3>3. f[At(nvs[m].page, nvs[m].used - 1)] = nvs[m].value
      BY <1>3, <1>9, <3>1, <3>2
    <3> QED
      BY <1>7, <1>8, <3>3
  <2>2. \A a \in Offsets : a >= t.used => f[At(t.page, a)] = Blank
    BY <1>1, <1>3, <1>7, <1>8, <1>9 DEF StoreSound, Sound
  <2>3. \A a \in Offsets : f[At(1 - t.page, a)] = Blank
    BY <1>3, <1>7, <1>8, <1>9
  <2>4. t.value # 0 <=> t.used # 0
    BY <1>1, <1>7 DEF StoreSound, Sound
  <2> QED
    BY <1>7, <1>8, <2>1, <2>2, <2>3, <2>4 DEF StoreSound, Sound
<1> QED
  BY <1>1, <1>5, <1>6, <1>7, <1>10, StoresAreApart

\* The link layer does not touch the store.
LEMMA StoreStepInduction == StoreInvariant /\ [TwoMachinesNext]_vars => StoreInvariant'
<1> SUFFICES ASSUME StoreInvariant, [TwoMachinesNext]_vars PROVE StoreInvariant'
  OBVIOUS
<1>1. CASE UNCHANGED <<nvmcVars, nvs>>
  <2>1. UNCHANGED <<config, flash, nvs>>
    BY <1>1 DEF nvmcVars
  <2> QED
    BY <2>1 DEF StoreInvariant, NvmcTypeOK, StoreSound
<1>2. ASSUME NEW m \in Machine, LinkStep(m) PROVE StoreInvariant'
  BY <1>1, <1>2 DEF LinkStep
<1>3. ASSUME NEW m \in Machine, StoreStep(m) PROVE StoreInvariant'
  BY <1>3, IdleStepKeepsStore, StoreKeepsStore, CopyKeepsStore, EraseKeepsStore DEF StoreStep
<1>4. CASE UNCHANGED vars
  BY <1>1, <1>4 DEF vars
<1> QED
  BY <1>2, <1>3, <1>4 DEF TwoMachinesNext

\* Where a word is stored the flash is blank, and the newest value is kept.
LEMMA StoreSurvives == StoreInvariant => SettingsSurvive
<1> SUFFICES ASSUME StoreInvariant, NEW m \in Machine
             PROVE  /\ Op(m) \in {"store", "copy"} => flash[m][Target(m)] = Blank
                    /\ nvs[m].value # 0 => \E a \in Address : flash[m][a] = nvs[m].value
  BY DEF SettingsSurvive
<1>1. StoreSound(m) /\ nvs[m] \in Task
  BY DEF StoreInvariant
<1>2. /\ nvs[m].page \in {0, 1} /\ 1 - nvs[m].page \in {0, 1}
      /\ nvs[m].used \in 0..PageSize /\ 0 \in Offsets
  BY <1>1, Sizes DEF Task, Offsets
<1>3. ASSUME Op(m) = "store" PROVE flash[m][Target(m)] = Blank
  <2>1. nvs[m].used \in Offsets
    BY <1>1, <1>2, <1>3, OpFacts, Sizes DEF StoreSound, Sound, Offsets
  <2>2. Target(m) = At(nvs[m].page, nvs[m].used)
    BY <1>3 DEF Target, At
  <2> QED
    BY <1>1, <1>2, <2>1, <2>2 DEF StoreSound, Sound, Offsets
<1>4. ASSUME Op(m) = "copy" PROVE flash[m][Target(m)] = Blank
  <2>1. Target(m) = At(1 - nvs[m].page, 0)
    <3>1. Target(m) = (1 - nvs[m].page) * PageSize
      BY <1>4 DEF Target
    <3>2. (1 - nvs[m].page) * PageSize \in Nat
      BY <1>2, Sizes
    <3> QED
      BY <3>1, <3>2 DEF At
  <2>2. nvs[m].at = 2
    BY <1>1, <1>4, OpFacts
  <2> QED
    BY <1>1, <1>2, <2>1, <2>2 DEF StoreSound, Sound
<1>5. ASSUME nvs[m].value # 0 PROVE \E a \in Address : flash[m][a] = nvs[m].value
  <2>1. nvs[m].used # 0 /\ flash[m][At(nvs[m].page, nvs[m].used - 1)] = nvs[m].value
    BY <1>1, <1>5 DEF StoreSound, Sound
  <2>2. nvs[m].used - 1 \in Offsets
    BY <1>2, <2>1, Sizes DEF Offsets
  <2> QED
    BY <1>2, <2>1, <2>2, AddressFacts
<1> QED
  BY <1>3, <1>4, <1>5

-----------------------------------------------------------------------------
(* The link: the packets.                                                  *)

Image == [0..(BufferSize - 1) -> Byte]
Pdu == {p \in Seq(Byte) : Len(p) <= MaxByte - MIC_LEN}

\* A buffer with the packet that is number k of its sender, and with the frame
\* made from it.
Payload(b, p) == \A i \in 1..Len(p) : b[PAY + i - 1] = p[i]
Carries(b, p, k) == b[0] = k % 2 /\ b[1] = Len(p) /\ Payload(b, p)
Encrypts(b, p, k) == b[0] = k % 2 /\ b[1] = OutLength("encrypt", Len(p)) /\ Payload(b, p)

LEMMA PduFacts ==
  ASSUME NEW p \in Pdu
  PROVE  /\ p \in Seq(Byte) /\ Len(p) \in Nat /\ Len(p) + 4 <= MaxByte
         /\ \A i \in 1..Len(p) : p[i] \in Byte /\ PAY + i - 1 \in 0..(BufferSize - 1)
                                 /\ PAY + i - 1 >= 3
<1>1. p \in Seq(Byte) /\ Len(p) \in Nat /\ Len(p) <= MaxByte - 4
  BY DEF Pdu, MIC_LEN
<1> QED
  BY <1>1, Sizes DEF PAY

\* A frame is not the empty sequence.
LEMMA FrameIsNotEmpty == ASSUME NEW b \in Image PROVE b # << >>
<1>1. 0 \in DOMAIN b
  BY Sizes DEF Image, PAY
<1>2. 0 \notin DOMAIN << >>
  OBVIOUS
<1> QED
  BY <1>1, <1>2

\* The link layer's buffer holds the packet.
LEMMA PacketCarries ==
  ASSUME NEW p \in Pdu, NEW k \in Nat, NEW old \in Image
  PROVE  Packet(p, k, old) \in Image /\ Carries(Packet(p, k, old), p, k)
<1> DEFINE b == Packet(p, k, old)
<1>1. DOMAIN old = 0..(BufferSize - 1)
  BY DEF Image
<1>2. k % 2 \in 0..1
  OBVIOUS
<1>3. \A i \in DOMAIN old :
        b[i] = CASE i = 0 -> k % 2
                 [] i = 1 -> Len(p)
                 [] i \in PAY..(PAY + Len(p) - 1) -> p[i - PAY + 1]
                 [] OTHER -> old[i]
  BY DEF Packet
<1>4. b[0] = k % 2 /\ b[1] = Len(p)
  BY <1>1, <1>3, Sizes, PduFacts, SMTT(30) DEF PAY
<1>5. ASSUME NEW i \in 1..Len(p) PROVE b[PAY + i - 1] = p[i]
  <2>1. /\ PAY + i - 1 \in DOMAIN old /\ PAY + i - 1 # 0 /\ PAY + i - 1 # 1
        /\ PAY + i - 1 \in PAY..(PAY + Len(p) - 1) /\ (PAY + i - 1) - PAY + 1 = i
    BY <1>1, PduFacts DEF PAY
  <2> QED
    BY <1>3, <2>1
<1>6. ASSUME NEW i \in DOMAIN old PROVE b[i] \in Byte
  <2>1. CASE i = 0
    BY <1>2, <1>4, <2>1, Sizes, PduFacts DEF Byte
  <2>2. CASE i = 1
    BY <1>4, <2>2, Sizes, PduFacts DEF Byte
  <2>3. CASE i # 0 /\ i # 1 /\ i \in PAY..(PAY + Len(p) - 1)
    <3>1. i - PAY + 1 \in 1..Len(p)
      BY <2>3, PduFacts DEF PAY
    <3> QED
      BY <1>3, <2>3, <3>1, PduFacts
  <2>4. CASE i # 0 /\ i # 1 /\ i \notin PAY..(PAY + Len(p) - 1)
    BY <1>3, <2>4 DEF Image
  <2> QED
    BY <2>1, <2>2, <2>3, <2>4
<1>7. b \in Image
  BY <1>1, <1>6 DEF Image, Packet
<1> QED
  BY <1>4, <1>5, <1>7 DEF Carries, Payload

\* The transform: its output fits, and takes the one buffer to the other.
LEMMA TransformWorks ==
  ASSUME NEW p \in Pdu, NEW k \in Nat, NEW in \in Image, NEW old \in Image,
         NEW mode \in {"encrypt", "decrypt"},
         IF mode = "encrypt" THEN Carries(in, p, k) ELSE Encrypts(in, p, k)
  PROVE  /\ OutLength(mode, in[1]) <= MaxByte
         /\ Output(mode, in, old) \in Image
         /\ IF mode = "encrypt" THEN Encrypts(Output(mode, in, old), p, k)
            ELSE Carries(Output(mode, in, old), p, k)
<1> DEFINE b == Output(mode, in, old)
           length == in[1]
           out == OutLength(mode, length)
           copied == Copied(mode, length)
<1>1. DOMAIN old = 0..(BufferSize - 1) /\ 0 \in DOMAIN old /\ 1 \in DOMAIN old
  BY Sizes DEF Image, PAY
<1>2. /\ length \in Nat /\ out \in Nat /\ out <= MaxByte /\ length <= MaxByte
      /\ copied = Len(p) /\ Len(p) <= length
      /\ out = IF mode = "encrypt" THEN OutLength("encrypt", Len(p)) ELSE Len(p)
  <2>1. Len(p) \in Nat /\ Len(p) + 4 <= MaxByte /\ MaxByte \in Nat
    BY PduFacts, Sizes
  <2>2. CASE mode = "encrypt"
    <3>1. length = Len(p) /\ out = OutLength("encrypt", Len(p)) /\ copied = Len(p)
      BY <2>2 DEF Carries, Copied
    <3>2. out = IF Len(p) = 0 THEN 0 ELSE Len(p) + 4
      BY <2>1, <3>1 DEF OutLength, MIC_LEN
    <3> HIDE DEF out, length, copied
    <3> QED
      BY <2>1, <2>2, <3>1, <3>2
  <2>3. CASE mode = "decrypt"
    <3>1. length = OutLength("encrypt", Len(p)) /\ copied = out
      BY <2>3 DEF Encrypts, Copied
    <3>2. length = IF Len(p) = 0 THEN 0 ELSE Len(p) + 4
      BY <2>1, <3>1 DEF OutLength, MIC_LEN
    <3>3. out = IF length = 0 THEN 0 ELSE IF length > 4 THEN length - 4 ELSE 0
      <4> HIDE DEF length
      <4> QED
        BY <2>1, <2>3, <3>2 DEF OutLength, MIC_LEN
    <3> HIDE DEF out, length, copied
    <3> QED
      BY <2>1, <2>3, <3>1, <3>2, <3>3
  <2> QED
    BY <2>2, <2>3
<1>3. \A i \in DOMAIN old :
        b[i] = CASE i = 0 -> in[0]
                 [] i = 1 -> out
                 [] i = 2 /\ length # 0 -> 0
                 [] i \in PAY..(PAY + copied - 1) -> in[i]
                 [] i \in (PAY + length)..(PAY + out - 1) -> MicByte
                 [] OTHER -> old[i]
  BY DEF Output
<1> HIDE DEF b, length, out, copied
<1>4. b[0] = in[0] /\ b[1] = out
  BY <1>1, <1>2, <1>3 DEF PAY
<1>5. ASSUME NEW i \in 1..Len(p) PROVE b[PAY + i - 1] = p[i]
  <2>1. /\ PAY + i - 1 \in DOMAIN old /\ PAY + i - 1 \notin {0, 1, 2}
        /\ PAY + i - 1 \in PAY..(PAY + copied - 1)
    BY <1>1, <1>2, PduFacts DEF PAY
  <2>2. PAY + i - 1 \notin (PAY + length)..(PAY + out - 1)
    BY <1>2, PduFacts DEF PAY
  <2>3. b[PAY + i - 1] = in[PAY + i - 1]
    BY <1>3, <2>1, <2>2
  <2> QED
    BY <2>3 DEF Carries, Encrypts, Payload
<1>6. ASSUME NEW i \in DOMAIN old PROVE b[i] \in Byte
  <2>1. in[0] \in Byte /\ in[i] \in Byte /\ old[i] \in Byte
    BY <1>1 DEF Image
  <2>2. out \in Byte /\ MicByte \in Byte /\ 0 \in Byte
    BY <1>2, Sizes DEF Byte, MicByte
  <2>3. \/ b[i] = in[0] \/ b[i] = out \/ b[i] = 0 \/ b[i] = in[i]
        \/ b[i] = MicByte \/ b[i] = old[i]
    BY <1>3
  <2> QED
    BY <2>1, <2>2, <2>3
<1>7. b \in Image
  BY <1>1, <1>6 DEF Image, Output, b
<1>8. out <= MaxByte /\ b \in Image /\ b[0] = k % 2 /\ Payload(b, p)
  BY <1>2, <1>4, <1>5, <1>7 DEF Payload, Carries, Encrypts
<1>9. b[1] = IF mode = "encrypt" THEN OutLength("encrypt", Len(p)) ELSE Len(p)
  BY <1>2, <1>4
<1>10. IF mode = "encrypt" THEN Encrypts(b, p, k) ELSE Carries(b, p, k)
  BY <1>8, <1>9 DEF Carries, Encrypts
<1> QED
  BY <1>8, <1>10 DEF b, out, length

\* What the radio puts into a buffer is the frame.
LEMMA ReceivedEncrypts ==
  ASSUME NEW p \in Pdu, NEW k \in Nat, NEW frame \in Image, NEW old \in Image,
         Encrypts(frame, p, k)
  PROVE  Received(frame, old) \in Image /\ Encrypts(Received(frame, old), p, k)
<1> DEFINE b == Received(frame, old)
<1>1. DOMAIN old = 0..(BufferSize - 1) /\ 0 \in DOMAIN old /\ 1 \in DOMAIN old
  BY Sizes DEF Image, PAY
<1>2. frame[1] \in Nat /\ Len(p) <= frame[1]
  BY PduFacts DEF Encrypts, OutLength, MIC_LEN
<1>3. \A i \in DOMAIN old : b[i] = IF i \in 0..(PAY + frame[1] - 1) THEN frame[i] ELSE old[i]
  BY DEF Received
<1>4. b \in Image
  BY <1>1, <1>3 DEF Image, Received
<1> HIDE DEF b
<1>5. b[0] = frame[0] /\ b[1] = frame[1]
  BY <1>1, <1>2, <1>3 DEF PAY
<1>6. ASSUME NEW i \in 1..Len(p) PROVE b[PAY + i - 1] = p[i]
  <2>1. PAY + i - 1 \in DOMAIN old /\ PAY + i - 1 \in 0..(PAY + frame[1] - 1)
    BY <1>1, <1>2, PduFacts DEF PAY
  <2> QED
    BY <1>3, <2>1 DEF Encrypts, Payload
<1> QED
  BY <1>4, <1>5, <1>6 DEF Encrypts, Payload, b

-----------------------------------------------------------------------------
(* The link: the turn.                                                     *)

CcmRegs == [MODE : Mode, INPTR : Pointer, OUTPTR : Pointer, SHORTS : BOOLEAN]
CcmState == [endksgen : BOOLEAN, endcrypt : BOOLEAN, error : BOOLEAN,
             micstatus : BOOLEAN, waiting : BOOLEAN, pending : Operation]

LinkTyped ==
  /\ regs \in [Machine -> CcmRegs] /\ st \in [Machine -> CcmState]
  /\ ram \in [Machine -> [Buffer -> Image]]
  /\ role \in [Machine -> {"transmitter", "receiver"}] /\ at \in [Machine -> 0..12]
  /\ air \in [Machine -> Image \cup {<< >>}] /\ header \in [Machine -> Byte \X Byte]
  /\ toSend \in [Machine -> Seq(Pdu)] /\ sent \in [Machine -> Seq(Pdu)]
  /\ got \in [Machine -> Seq(Pdu)]
  /\ micFailed = [m \in Machine |-> FALSE]

\* The registers that a machine has set up, and nothing waits for an event to
\* be read.
RegistersSet(m) ==
  LET sends == role[m] = "transmitter"
  IN /\ at[m] >= 2 => regs[m].MODE = IF sends THEN "encrypt" ELSE "decrypt"
     /\ at[m] >= 3 => regs[m].INPTR = IF sends THEN plain ELSE scratch
     /\ at[m] >= 4 => regs[m].OUTPTR = IF sends THEN scratch ELSE node
     /\ at[m] >= 5 => (regs[m].SHORTS <=> sends)
     /\ ~st[m].waiting

\* A machine whose turn it is not gets ready to receive.
Waits(m) ==
  /\ role[m] = "receiver" /\ at[m] \in 1..7 /\ air[m] = << >>
  /\ RegistersSet(m)

\* The machine has had all that its peer has sent.  Its own packet is in the
\* buffer, then encrypted in the other one.
Sends(m) ==
  /\ role[m] = "transmitter" /\ at[m] \in 0..7 /\ air[m] = << >>
  /\ got[m] = sent[Peer(m)]
  /\ at[m] = 0 => sent[m] = got[Peer(m)]
  /\ at[m] # 0 => \E p \in Pdu :
       /\ sent[m] = Append(got[Peer(m)], p)
       /\ at[m] \in 1..6 => Carries(ram[m][plain], p, Len(got[Peer(m)]))
       /\ at[m] = 7 => Encrypts(ram[m][scratch], p, Len(got[Peer(m)]))

\* The packet under way to the machine: in the air, in the one buffer, and
\* decrypted in the other.
Receives(m) ==
  /\ role[m] = "receiver" /\ at[m] \in 7..12
  /\ got[Peer(m)] = sent[m]
  /\ at[m] = 7 => air[m] \in Image
  /\ at[m] # 7 => air[m] = << >>
  /\ at[m] \in 9..11 => st[m].micstatus
  /\ \E p \in Pdu :
       /\ sent[Peer(m)] = Append(got[m], p)
       /\ at[m] = 7 => Encrypts(air[m], p, Len(got[m]))
       /\ at[m] = 8 => Encrypts(ram[m][scratch], p, Len(got[m]))
       /\ at[m] >= 9 => Carries(ram[m][node], p, Len(got[m]))
       /\ at[m] >= 10 => header[m] = <<Len(got[m]) % 2, Len(p)>>

Turn(m) == RegistersSet(m) /\ (Sends(m) \/ Receives(m))

LinkInvariant == LinkTyped /\ \E m \in Machine : Turn(m) /\ Waits(Peer(m))

LEMMA LinkInit == Init => LinkInvariant
<1> SUFFICES ASSUME Init PROVE LinkInvariant
  OBVIOUS
<1>1. regs \in [Machine -> CcmRegs]
  BY DEF Init, CcmInit, CcmRegs, Mode, Pointer
<1>2. st \in [Machine -> CcmState]
  BY DEF Init, CcmInit, CcmState, Operation, None, Mode, Pointer
<1>3. ram \in [Machine -> [Buffer -> Image]]
  BY Sizes DEF Init, CcmInit, Image, Byte
<1>4. toSend \in [Machine -> Seq(Pdu)]
  <2>1. ASSUME NEW m \in Machine PROVE Payloads[m] \in Seq(Pdu)
    <3>1. Payloads[m] \in Seq(Seq(Byte))
      BY RadioAssumption DEF RadioAssumption
    <3>2. \A k \in DOMAIN Payloads[m] : Len(Payloads[m][k]) <= MaxByte - MIC_LEN
      BY RadioAssumption DEF RadioAssumption
    <3>3. /\ DOMAIN Payloads[m] = 1..Len(Payloads[m]) /\ Len(Payloads[m]) \in Nat
          /\ \A k \in 1..Len(Payloads[m]) : Payloads[m][k] \in Seq(Byte)
      BY <3>1
    <3>4. \A k \in 1..Len(Payloads[m]) : Payloads[m][k] \in Pdu
      BY <3>2, <3>3 DEF Pdu
    <3>5. Payloads[m] = [k \in 1..Len(Payloads[m]) |-> Payloads[m][k]]
      BY <3>1
    <3> QED
      BY <3>1, <3>3, <3>4, <3>5, IsASeq
  <2>2. toSend = Payloads /\ Payloads \in [Machine -> Seq(Seq(Byte))]
    BY RadioAssumption DEF Init, RadioAssumption
  <2> QED
    BY <2>1, <2>2
<1>5. /\ role \in [Machine -> {"transmitter", "receiver"}] /\ at \in [Machine -> 0..12]
      /\ air \in [Machine -> Image \cup {<< >>}] /\ header \in [Machine -> Byte \X Byte]
      /\ sent \in [Machine -> Seq(Pdu)] /\ got \in [Machine -> Seq(Pdu)]
      /\ micFailed = [m \in Machine |-> FALSE]
  BY Sizes DEF Init, Byte
<1>6. LinkTyped
  BY <1>1, <1>2, <1>3, <1>4, <1>5 DEF LinkTyped
<1>7. first \in Machine /\ Peer(first) \in Machine /\ Peer(first) # first
  BY PeerFacts, RadioAssumption DEF RadioAssumption
<1>8. \A m \in Machine : ~st[m].waiting
  BY DEF Init, CcmInit
<1>9. Turn(first)
  <2>1. /\ role[first] = "transmitter" /\ at[first] = 0 /\ air[first] = << >>
        /\ got[first] = << >> /\ sent[first] = << >>
        /\ got[Peer(first)] = << >> /\ sent[Peer(first)] = << >>
    BY <1>7 DEF Init
  <2> QED
    BY <1>7, <1>8, <2>1 DEF Turn, Sends, RegistersSet
<1>10. Waits(Peer(first))
  <2>1. /\ role[Peer(first)] = "receiver" /\ at[Peer(first)] = 1 /\ air[Peer(first)] = << >>
    BY <1>7 DEF Init
  <2> QED
    BY <1>7, <1>8, <2>1 DEF Waits, RegistersSet
<1> QED
  BY <1>6, <1>7, <1>9, <1>10 DEF LinkInvariant

\* A machine that waits goes on waiting while its peer works.
LEMMA WaitsKept ==
  ASSUME NEW y \in Machine, Waits(y), role'[y] = role[y], at'[y] = at[y],
         air'[y] = air[y], regs'[y] = regs[y], st'[y].waiting = st[y].waiting
  PROVE  Waits(y)'
BY DEF Waits, RegistersSet

\* The packet is built in the buffer.
LEMMA FillBufferStep ==
  ASSUME LinkTyped, NEW x \in Machine, Turn(x), Waits(Peer(x)), NEW m \in Machine, FillBuffer(m)
  PROVE  LinkInvariant'
<1> DEFINE y == Peer(x)
           p == Head(toSend[x])
           b == Packet(p, Len(sent[x]), ram[x][plain])
<1>1. y \in Machine /\ y # x /\ \A n \in Machine : n = x \/ n = y
  BY PeerFacts
<1>2. m = x
  BY <1>1 DEF FillBuffer, Waits
<1>3. Sends(x) /\ at[x] = 0 /\ sent[x] = got[y] /\ got[x] = sent[y] /\ air[x] = << >>
  BY <1>2 DEF FillBuffer, Turn, Receives, Sends
<1>4. /\ toSend[x] \in Seq(Pdu) /\ toSend[x] # << >> /\ sent[x] \in Seq(Pdu)
      /\ got[y] \in Seq(Pdu) /\ plain \in Buffer /\ ram[x][plain] \in Image
  BY <1>1, <1>2, Sizes DEF FillBuffer, LinkTyped
<1>5. p \in Pdu /\ Tail(toSend[x]) \in Seq(Pdu) /\ Append(sent[x], p) \in Seq(Pdu)
      /\ Len(sent[x]) \in Nat
  BY <1>4, HeadTailProperties
<1>6. b \in Image /\ Carries(b, p, Len(sent[x]))
  BY <1>4, <1>5, PacketCarries
<1> HIDE DEF b, p
<1>7. /\ ram' = [ram EXCEPT ![x] = [ram[x] EXCEPT ![plain] = b]]
      /\ sent' = [sent EXCEPT ![x] = Append(sent[x], p)]
      /\ toSend' = [toSend EXCEPT ![x] = Tail(toSend[x])]
      /\ at' = [at EXCEPT ![x] = at[x] + 1]
      /\ UNCHANGED <<regs, st, role, air, header, got, micFailed>>
  BY <1>2, <1>4 DEF FillBuffer, Advances, LinkTyped, b, p
<1>8. ram'[x][plain] = b /\ ram' \in [Machine -> [Buffer -> Image]]
  BY <1>4, <1>6, <1>7 DEF LinkTyped
<1>9. LinkTyped'
  BY <1>3, <1>5, <1>7, <1>8 DEF LinkTyped
<1>10. /\ role'[x] = "transmitter" /\ at'[x] = 1 /\ air'[x] = << >> /\ got'[x] = sent'[y]
       /\ sent'[x] = Append(got'[y], p) /\ Len(got'[y]) = Len(sent[x])
       /\ st'[x] = st[x]
  BY <1>1, <1>3, <1>7 DEF LinkTyped, Sends
<1>11. Turn(x)'
  BY <1>5, <1>6, <1>8, <1>10 DEF Turn, Sends, RegistersSet
<1>12. Waits(y)'
  BY <1>1, <1>7, WaitsKept DEF LinkTyped
<1> QED
  BY <1>9, <1>11, <1>12 DEF LinkInvariant

\* An access has been made, and no other machine has noticed.
Accessed(m) ==
  /\ at[m] \in 1..6 /\ RegistersSet(m)' /\ UNCHANGED ram
  /\ regs' \in [Machine -> CcmRegs] /\ st' \in [Machine -> CcmState]
  /\ \A n \in Machine : n # m => regs'[n] = regs[n] /\ st'[n] = st[n]

\* An access that sets the CCM up, but for the one that runs it.
LEMMA AccessFacts ==
  ASSUME LinkTyped, NEW m \in Machine, RegistersSet(m), SetUpCcm(m),
         at[m] = 6 => role[m] = "receiver"
  PROVE  Accessed(m)
<1>1. /\ regs \in [Machine -> CcmRegs] /\ st \in [Machine -> CcmState]
      /\ regs[m] \in CcmRegs /\ st[m] \in CcmState /\ at[m] \in 0..12
      /\ role[m] \in {"transmitter", "receiver"} /\ at \in [Machine -> 0..12]
  BY DEF LinkTyped
<1>2. at' = [at EXCEPT ![m] = at[m] + 1] /\ role'[m] = role[m] /\ at'[m] = at[m] + 1
  BY <1>1 DEF SetUpCcm, Advances
<1>3. plain \in Pointer /\ scratch \in Pointer /\ node \in Pointer
  BY Sizes DEF Pointer
<1>4. ASSUME NEW r \in CcmRegs, regs' = [regs EXCEPT ![m] = r], UNCHANGED <<st, ram>>,
             at[m] \in 1..4,
             r.MODE = IF role[m] = "transmitter" THEN "encrypt" ELSE "decrypt",
             at[m] = 1 \/ r.INPTR = IF role[m] = "transmitter" THEN plain ELSE scratch,
             at[m] \in 1..2 \/ r.OUTPTR = IF role[m] = "transmitter" THEN scratch ELSE node,
             at[m] \in 1..3 \/ (r.SHORTS <=> role[m] = "transmitter")
      PROVE  Accessed(m)
  <2>1. regs'[m] = r /\ st' = st /\ ram' = ram
    BY <1>1, <1>4
  <2>2. RegistersSet(m)'
    BY <1>2, <1>4, <2>1 DEF RegistersSet
  <2> QED
    BY <1>1, <1>4, <2>1, <2>2 DEF Accessed
<1>14. ~st[m].waiting
  BY DEF RegistersSet
<1>5. CASE at[m] = 1
  <2> DEFINE mode == IF role[m] = "transmitter" THEN "encrypt" ELSE "decrypt"
             r == [regs[m] EXCEPT !.MODE = mode]
  <2>1. Setup(role[m])[at[m]] = <<"MODE", mode>>
    BY <1>1, <1>5 DEF Setup
  <2>2. regs' = [regs EXCEPT ![m] = r] /\ UNCHANGED <<st, ram>>
    BY <1>1, <1>5, <2>1 DEF SetUpCcm, WriteRegister, _state
  <2>3. mode \in Mode
    BY DEF Mode
  <2>4. r \in CcmRegs /\ r.MODE = mode
    BY <1>1, <2>3 DEF CcmRegs
  <2> HIDE DEF r
  <2>5. /\ at[m] \in 1..4
        /\ r.MODE = IF role[m] = "transmitter" THEN "encrypt" ELSE "decrypt"
        /\ at[m] = 1 \/ r.INPTR = IF role[m] = "transmitter" THEN plain ELSE scratch
        /\ at[m] \in 1..2 \/ r.OUTPTR = IF role[m] = "transmitter" THEN scratch ELSE node
        /\ at[m] \in 1..3 \/ (r.SHORTS <=> role[m] = "transmitter")
    BY <1>5, <2>4
  <2> QED
    BY <1>4, <2>2, <2>4, <2>5, Zenon
<1>6. CASE at[m] = 2
  <2> DEFINE in == IF role[m] = "transmitter" THEN plain ELSE scratch
             r == [regs[m] EXCEPT !.INPTR = in]
  <2>1. Setup(role[m])[at[m]] = <<"INPTR", in>>
    BY <1>1, <1>6 DEF Setup
  <2>2. regs' = [regs EXCEPT ![m] = r] /\ UNCHANGED <<st, ram>>
    BY <1>1, <1>6, <2>1 DEF SetUpCcm, WriteRegister, _state
  <2>3. in \in Pointer
    BY <1>3
  <2>4. r \in CcmRegs /\ r.MODE = regs[m].MODE /\ r.INPTR = in
    BY <1>1, <2>3 DEF CcmRegs
  <2> HIDE DEF r
  <2>5. /\ at[m] \in 1..4
        /\ r.MODE = IF role[m] = "transmitter" THEN "encrypt" ELSE "decrypt"
        /\ at[m] = 1 \/ r.INPTR = IF role[m] = "transmitter" THEN plain ELSE scratch
        /\ at[m] \in 1..2 \/ r.OUTPTR = IF role[m] = "transmitter" THEN scratch ELSE node
        /\ at[m] \in 1..3 \/ (r.SHORTS <=> role[m] = "transmitter")
    BY <1>6, <2>4 DEF RegistersSet
  <2> QED
    BY <1>4, <2>2, <2>4, <2>5, Zenon
<1>7. CASE at[m] = 3
  <2> DEFINE out == IF role[m] = "transmitter" THEN scratch ELSE node
             r == [regs[m] EXCEPT !.OUTPTR = out]
  <2>1. Setup(role[m])[at[m]] = <<"OUTPTR", out>>
    BY <1>1, <1>7 DEF Setup
  <2>2. regs' = [regs EXCEPT ![m] = r] /\ UNCHANGED <<st, ram>>
    BY <1>1, <1>7, <2>1 DEF SetUpCcm, WriteRegister, _state
  <2>3. out \in Pointer
    BY <1>3
  <2>4. r \in CcmRegs /\ r.MODE = regs[m].MODE /\ r.INPTR = regs[m].INPTR /\ r.OUTPTR = out
    BY <1>1, <2>3 DEF CcmRegs
  <2> HIDE DEF r
  <2>5. /\ at[m] \in 1..4
        /\ r.MODE = IF role[m] = "transmitter" THEN "encrypt" ELSE "decrypt"
        /\ at[m] = 1 \/ r.INPTR = IF role[m] = "transmitter" THEN plain ELSE scratch
        /\ at[m] \in 1..2 \/ r.OUTPTR = IF role[m] = "transmitter" THEN scratch ELSE node
        /\ at[m] \in 1..3 \/ (r.SHORTS <=> role[m] = "transmitter")
    BY <1>7, <2>4 DEF RegistersSet
  <2> QED
    BY <1>4, <2>2, <2>4, <2>5, Zenon
<1>8. CASE at[m] = 4
  <2> DEFINE shorts == role[m] = "transmitter"
             r == [regs[m] EXCEPT !.SHORTS = shorts]
  <2>1. Setup(role[m])[at[m]] = <<"SHORTS", shorts>>
    <3>1. CASE role[m] = "transmitter"
      <4>1. Setup(role[m])[at[m]] = <<"SHORTS", TRUE>>
        <5> DEFINE a == <<"MODE", "encrypt">>
                   b == <<"INPTR", plain>>
                   c == <<"OUTPTR", scratch>>
                   d == <<"SHORTS", TRUE>>
        <5>1. Setup(role[m]) = <<a, b, c, d>>
          BY <3>1, Zenon DEF Setup
        <5> HIDE DEF a, b, c, d
        <5>2. Setup(role[m])[at[m]] = d
          BY <1>8, <5>1
        <5> QED
          BY <5>2 DEF d
      <4>2. shorts = TRUE
        BY <3>1
      <4> QED
        BY <4>1, <4>2, Zenon
    <3>2. CASE role[m] = "receiver"
      <4>1. Setup(role[m])[at[m]] = <<"SHORTS", FALSE>>
        <5> DEFINE a == <<"MODE", "decrypt">>
                   b == <<"INPTR", scratch>>
                   c == <<"OUTPTR", node>>
                   d == <<"SHORTS", FALSE>>
        <5>1. Setup(role[m]) = <<a, b, c, d>>
          BY <3>2, Zenon DEF Setup
        <5> HIDE DEF a, b, c, d
        <5>2. Setup(role[m])[at[m]] = d
          BY <1>8, <5>1
        <5> QED
          BY <5>2 DEF d
      <4>2. shorts = FALSE
        BY <3>2
      <4> QED
        BY <4>1, <4>2, Zenon
    <3> QED
      BY <1>1, <3>1, <3>2
  <2>2. regs' = [regs EXCEPT ![m] = r] /\ UNCHANGED <<st, ram>>
    <3> HIDE DEF shorts
    <3> QED
      BY <1>1, <1>8, <2>1 DEF SetUpCcm, WriteRegister, _state
  <2>3. shorts \in BOOLEAN
    OBVIOUS
  <2>4. /\ r \in CcmRegs /\ r.MODE = regs[m].MODE /\ r.INPTR = regs[m].INPTR
        /\ r.OUTPTR = regs[m].OUTPTR /\ (r.SHORTS <=> shorts)
    <3> HIDE DEF shorts
    <3> QED
      BY <1>1, <2>3 DEF CcmRegs
  <2> HIDE DEF r
  <2>5. /\ at[m] \in 1..4
        /\ r.MODE = IF role[m] = "transmitter" THEN "encrypt" ELSE "decrypt"
        /\ at[m] = 1 \/ r.INPTR = IF role[m] = "transmitter" THEN plain ELSE scratch
        /\ at[m] \in 1..2 \/ r.OUTPTR = IF role[m] = "transmitter" THEN scratch ELSE node
        /\ at[m] \in 1..3 \/ (r.SHORTS <=> role[m] = "transmitter")
    BY <1>8, <2>4 DEF RegistersSet
  <2> QED
    BY <1>4, <2>2, <2>4, <2>5, Zenon
<1>9. ASSUME NEW s \in CcmState, st' = [st EXCEPT ![m] = s], ~s.waiting, UNCHANGED <<regs, ram>>,
             at[m] \in 5..6
      PROVE  Accessed(m)
  <2>1. st'[m] = s /\ regs' = regs /\ ram' = ram
    BY <1>1, <1>9
  <2>2. RegistersSet(m)'
    BY <1>2, <1>9, <2>1 DEF RegistersSet
  <2> QED
    BY <1>1, <1>9, <2>1, <2>2 DEF Accessed
<1>10. CASE at[m] = 5
  <2> DEFINE s == [st[m] EXCEPT !.endcrypt = FALSE]
  <2>1. st' = [st EXCEPT ![m] = s] /\ UNCHANGED <<regs, ram>>
    BY <1>1, <1>10 DEF SetUpCcm, WriteEvent, _state
  <2>2. s \in CcmState /\ ~s.waiting
    BY <1>1, <1>14 DEF CcmState
  <2> HIDE DEF s
  <2>5. at[m] \in 5..6
    BY <1>10
  <2> QED
    BY <1>9, <2>1, <2>2, <2>5, Zenon
<1>11. CASE at[m] = 6
  <2> DEFINE s == [st[m] EXCEPT !.endksgen = TRUE]
  <2>1. ~regs[m].SHORTS
    BY <1>11 DEF RegistersSet
  <2>2. st' = [st EXCEPT ![m] = s] /\ UNCHANGED <<regs, ram>>
    BY <1>1, <1>11, <2>1 DEF SetUpCcm, WriteKsgen, _state
  <2>3. s \in CcmState /\ ~s.waiting
    BY <1>1, <1>14 DEF CcmState
  <2> HIDE DEF s
  <2>5. at[m] \in 5..6
    BY <1>11
  <2> QED
    BY <1>9, <2>2, <2>3, <2>5, Zenon
<1>12. at[m] \in 1..4 \/ at[m] = 5 \/ at[m] = 6
  BY Zenon DEF SetUpCcm
<1>13. at[m] = 1 \/ at[m] = 2 \/ at[m] = 3 \/ at[m] = 4 \/ at[m] = 5 \/ at[m] = 6
  BY <1>12
<1> QED
  BY <1>5, <1>6, <1>7, <1>8, <1>10, <1>11, <1>13

\* The CCM is run on the registers that a machine has set up.
LEMMA TransformStep ==
  ASSUME LinkTyped, NEW m \in Machine, NEW s \in CcmState, _schedule(m, s),
         NEW p \in Pdu, NEW k \in Nat,
         NEW mode \in {"encrypt", "decrypt"}, NEW in \in Buffer, NEW out \in Buffer,
         regs[m].MODE = mode, regs[m].INPTR = in, regs[m].OUTPTR = out,
         IF mode = "encrypt" THEN Carries(ram[m][in], p, k) ELSE Encrypts(ram[m][in], p, k)
  PROVE  /\ st' \in [Machine -> CcmState] /\ ram' \in [Machine -> [Buffer -> Image]]
         /\ ~st'[m].waiting /\ (mode = "decrypt" => st'[m].micstatus)
         /\ IF mode = "encrypt" THEN Encrypts(ram'[m][out], p, k)
            ELSE Carries(ram'[m][out], p, k)
         /\ \A n \in Machine : n # m => st'[n] = st[n] /\ ram'[n] = ram[n]
<1> DEFINE op == [mode |-> mode, inptr |-> in, outptr |-> out]
           b == Output(mode, ram[m][in], ram[m][out])
           mem == [ram[m] EXCEPT ![out] = b]
           after == StateAfter([s EXCEPT !.pending = op], op, ram[m])
<1>1. /\ regs[m] \in CcmRegs /\ st \in [Machine -> CcmState]
      /\ ram \in [Machine -> [Buffer -> Image]] /\ ram[m] \in [Buffer -> Image]
      /\ ram[m][in] \in Image /\ ram[m][out] \in Image
  BY DEF LinkTyped
<1>2. Snapshot(m) = op
  BY DEF Snapshot, _state
<1>3. /\ OutLength(mode, ram[m][in][1]) <= MaxByte
      /\ b \in Image
      /\ IF mode = "encrypt" THEN Encrypts(b, p, k) ELSE Carries(b, p, k)
  BY <1>1, TransformWorks
<1>4. op.mode = mode /\ op.inptr = in /\ op.outptr = out
  OBVIOUS
<1>5. ~Skipped(op) /\ Fits(op, ram[m])
  <2> HIDE DEF op
  <2> QED
    BY <1>3, <1>4, Sizes DEF Skipped, Fits
<1>6. MemoryAfter(op, ram[m]) = mem
  <2> HIDE DEF op
  <2> QED
    BY <1>4, <1>5 DEF MemoryAfter
<1>7. after \in CcmState /\ ~after.waiting /\ (mode = "decrypt" => after.micstatus)
  <2> DEFINE r == [s EXCEPT !.pending = op]
  <2>1. op \in Operation
    BY Sizes DEF Operation, Mode, Pointer
  <2>2. r \in CcmState
    <3> HIDE DEF op
    <3> QED
      BY <2>1 DEF CcmState
  <2>3. after = [r EXCEPT !.waiting = FALSE, !.endcrypt = TRUE, !.error = FALSE,
                          !.micstatus = (mode = "decrypt")]
    <3> HIDE DEF r, op
    <3> QED
      BY <1>4, <1>5, Zenon DEF StateAfter, r
  <2> HIDE DEF r, after
  <2> QED
    BY <2>2, <2>3 DEF CcmState
<1>8. st' = [st EXCEPT ![m] = after] /\ ram' = [ram EXCEPT ![m] = mem]
  <2>1. _do_transform(m, [s EXCEPT !.pending = op], op)
    BY <1>2 DEF _schedule
  <2> HIDE DEF op
  <2> QED
    BY <1>1, <1>6, <2>1 DEF _do_transform, _state
<1> HIDE DEF b, op, after
<1>9. st'[m] = after /\ ram'[m] = mem /\ mem[out] = b /\ mem \in [Buffer -> Image]
  BY <1>1, <1>3, <1>8
<1> HIDE DEF mem
<1> QED
  BY <1>1, <1>3, <1>7, <1>8, <1>9

\* A machine whose turn it is keeps it while the other one gets ready.
LEMMA TurnKept ==
  ASSUME NEW x \in Machine, Turn(x), role'[x] = role[x], at'[x] = at[x], air'[x] = air[x],
         header'[x] = header[x], regs'[x] = regs[x], st'[x] = st[x], ram'[x] = ram[x],
         UNCHANGED <<sent, got>>
  PROVE  Turn(x)'
<1>1. RegistersSet(x)'
  BY DEF Turn, RegistersSet
<1>2. CASE Sends(x)
  <2>1. Sends(x)'
    BY <1>2 DEF Sends
  <2> QED
    BY <1>1, <2>1 DEF Turn
<1>3. CASE Receives(x)
  <2>1. Receives(x)'
    BY <1>3 DEF Receives
  <2> QED
    BY <1>1, <2>1 DEF Turn
<1> QED
  BY <1>2, <1>3 DEF Turn

\* Either machine sets its CCM up; the sender's last access encrypts its packet.
LEMMA SetUpStep ==
  ASSUME LinkTyped, NEW x \in Machine, Turn(x), Waits(Peer(x)), NEW m \in Machine, SetUpCcm(m)
  PROVE  LinkInvariant'
<1> DEFINE y == Peer(x)
<1>1. y \in Machine /\ y # x /\ \A n \in Machine : n = x \/ n = y
  BY PeerFacts
<1>2. /\ at' = [at EXCEPT ![m] = at[m] + 1]
      /\ UNCHANGED <<role, air, header, toSend, sent, got, micFailed>>
  BY DEF SetUpCcm, Advances, pduVars
<1>3. at[m] \in 1..6 /\ at \in [Machine -> 0..12]
  <2>1. at[m] \in 1..4 \/ at[m] = 5 \/ at[m] = 6
    BY Zenon DEF SetUpCcm
  <2> QED
    BY <2>1 DEF LinkTyped
<1>4. at'[m] = at[m] + 1 /\ at' \in [Machine -> 0..12] /\ \A n \in Machine : n # m => at'[n] = at[n]
  BY <1>2, <1>3
<1>5. RegistersSet(m)
  BY <1>1 DEF Turn, Waits
<1>6. CASE m = y
  <2>1. role[m] = "receiver" /\ air[m] = << >>
    BY <1>6 DEF Waits
  <2>2. Accessed(m)
    BY <1>5, <2>1, AccessFacts
  <2>3. LinkTyped'
    BY <1>2, <1>4, <2>2 DEF LinkTyped, Accessed
  <2>4. Waits(m)'
    BY <1>2, <1>3, <1>4, <2>1, <2>2 DEF Waits, Accessed
  <2>5. Turn(x)'
    BY <1>1, <1>2, <1>4, <1>6, <2>2, TurnKept DEF Accessed
  <2> QED
    BY <1>6, <2>3, <2>4, <2>5 DEF LinkInvariant
<1>7. CASE m = x
  <2>1. Sends(x)
    <3>1. at[x] \notin 7..12
      BY <1>3, <1>7
    <3> QED
      BY <3>1, Zenon DEF Turn, Receives
  <2>2. PICK p \in Pdu : /\ sent[x] = Append(got[y], p)
                         /\ Carries(ram[x][plain], p, Len(got[y]))
    BY <1>3, <1>7, <2>1 DEF Sends
  <2>3. CASE at[x] # 6
    <3>1. Accessed(x)
      BY <1>5, <1>7, <2>3, AccessFacts
    <3>2. LinkTyped'
      BY <1>2, <1>4, <3>1 DEF LinkTyped, Accessed
    <3>3. /\ role'[x] = "transmitter" /\ at'[x] \in 1..6 /\ air'[x] = << >>
          /\ got'[x] = sent'[y] /\ sent'[x] = Append(got'[y], p)
          /\ Carries(ram'[x][plain], p, Len(got'[y]))
      BY <1>2, <1>3, <1>4, <1>7, <2>1, <2>2, <2>3, <3>1 DEF Sends, Accessed
    <3>4. Turn(x)'
      BY <3>1, <3>3 DEF Turn, Sends, Accessed
    <3>5. Waits(y)'
      BY <1>1, <1>2, <1>4, <1>7, <3>1, WaitsKept DEF Accessed
    <3> QED
      BY <3>2, <3>4, <3>5 DEF LinkInvariant
  <2>4. CASE at[x] = 6
    <3> DEFINE s == [st[x] EXCEPT !.endksgen = TRUE]
    <3>1. /\ regs[x].SHORTS /\ regs[x].MODE = "encrypt" /\ regs[x].INPTR = plain
          /\ regs[x].OUTPTR = scratch /\ regs[x] \in CcmRegs /\ st[x] \in CcmState
      BY <1>5, <1>7, <2>1, <2>4 DEF RegistersSet, Sends, LinkTyped
    <3>2. s \in CcmState
      BY <3>1 DEF CcmState
    <3>3. _schedule(x, s) /\ UNCHANGED regs
      <4>1. WriteKsgen(x)
        <5>1. at[x] \notin 1..4 /\ at[x] # 5
          BY <2>4
        <5> QED
          BY <1>7, <5>1, Zenon DEF SetUpCcm
      <4> QED
        BY <3>1, <4>1, Zenon DEF WriteKsgen, _state
    <3> HIDE DEF s
    <3>4. Len(got[y]) \in Nat /\ plain \in Buffer /\ scratch \in Buffer
      BY <1>1, Sizes DEF LinkTyped
    <3>5. /\ st' \in [Machine -> CcmState] /\ ram' \in [Machine -> [Buffer -> Image]]
          /\ ~st'[x].waiting /\ Encrypts(ram'[x][scratch], p, Len(got[y]))
          /\ \A n \in Machine : n # x => st'[n] = st[n] /\ ram'[n] = ram[n]
      BY <2>2, <3>1, <3>2, <3>3, <3>4, TransformStep
    <3>6. LinkTyped'
      BY <1>2, <1>4, <3>3, <3>5 DEF LinkTyped
    <3>7. RegistersSet(x)'
      BY <1>2, <1>5, <1>7, <2>1, <2>4, <3>1, <3>3, <3>5 DEF RegistersSet, Sends
    <3>8. /\ role'[x] = "transmitter" /\ at'[x] = 7 /\ air'[x] = << >>
          /\ got'[x] = sent'[y] /\ sent'[x] = Append(got'[y], p) /\ got' = got
      BY <1>2, <1>4, <1>7, <2>1, <2>2, <2>4 DEF Sends
    <3>9. Turn(x)'
      BY <3>5, <3>7, <3>8 DEF Turn, Sends
    <3>10. Waits(y)'
      BY <1>1, <1>2, <1>4, <1>7, <3>3, <3>5, WaitsKept
    <3> QED
      BY <3>6, <3>9, <3>10 DEF LinkInvariant
  <2> QED
    BY <2>3, <2>4
<1> QED
  BY <1>1, <1>6, <1>7

\* The frame leaves, and the turn goes with it.
LEMMA StartRadioStep ==
  ASSUME LinkTyped, NEW x \in Machine, Turn(x), Waits(Peer(x)), NEW m \in Machine, StartRadio(m)
  PROVE  LinkInvariant'
<1> DEFINE y == Peer(x)
           frame == ram[x][scratch]
<1>1. y \in Machine /\ y # x /\ Peer(y) = x /\ \A n \in Machine : n = x \/ n = y
  BY PeerFacts
<1>2. m = x /\ at[x] = 7 /\ role[y] = "receiver" /\ at[y] = 7
  BY <1>1 DEF StartRadio, Listening, Waits
<1>3. Sends(x)
  BY <1>2 DEF StartRadio, Turn, Receives
<1>4. PICK p \in Pdu : sent[x] = Append(got[y], p) /\ Encrypts(frame, p, Len(got[y]))
  BY <1>2, <1>3 DEF Sends
<1>5. frame \in Image
  BY Sizes DEF LinkTyped
<1> HIDE DEF frame
<1>6. /\ air' = [air EXCEPT ![y] = frame] /\ role' = [role EXCEPT ![x] = "receiver"]
      /\ at' = [at EXCEPT ![x] = 1]
      /\ UNCHANGED <<regs, st, ram, header, toSend, sent, got, micFailed>>
  BY <1>2 DEF StartRadio, Becomes, ccmVars, pduVars, frame
<1>7. /\ air'[y] = frame /\ air'[x] = << >> /\ role'[x] = "receiver" /\ role'[y] = "receiver"
      /\ at'[x] = 1 /\ at'[y] = 7
  BY <1>1, <1>2, <1>3, <1>6 DEF LinkTyped, Sends
<1>8. LinkTyped'
  BY <1>1, <1>5, <1>6 DEF LinkTyped
<1>9. Waits(x)'
  BY <1>6, <1>7 DEF Waits, RegistersSet, Turn
<1>10. Turn(y)'
  <2>1. RegistersSet(y)'
    BY <1>2, <1>6, <1>7 DEF Waits, RegistersSet
  <2>2. Receives(y)'
    <3>1. got'[x] = sent'[y] /\ Peer(y) = x /\ UNCHANGED got
      BY <1>1, <1>3, <1>6 DEF Sends
    <3>2. sent'[x] = Append(got'[y], p) /\ Encrypts(air'[y], p, Len(got'[y]))
      BY <1>4, <1>6, <1>7
    <3>3. /\ at'[y] = 7 /\ at'[y] \in 7..12 /\ at'[y] \notin 9..11 /\ ~(at'[y] >= 9)
          /\ at'[y] # 8 /\ ~(at'[y] >= 10) /\ air'[y] \in Image
      BY <1>5, <1>7
    <3> HIDE DEF y
    <3> QED
      BY <1>7, <3>1, <3>2, <3>3, Zenon DEF Receives
  <2> QED
    BY <2>1, <2>2 DEF Turn
<1> QED
  BY <1>1, <1>8, <1>9, <1>10 DEF LinkInvariant

\* The radio puts the frame into the receiver's buffer.
LEMMA DepositStep ==
  ASSUME LinkTyped, NEW x \in Machine, Turn(x), Waits(Peer(x)), NEW m \in Machine, Deposit(m)
  PROVE  LinkInvariant'
<1> DEFINE y == Peer(x)
           b == Received(air[x], ram[x][scratch])
<1>1. y \in Machine /\ y # x /\ \A n \in Machine : n = x \/ n = y
  BY PeerFacts
<1>2. m = x
  BY <1>1 DEF Deposit, Waits
<1>3. at[x] = 7 /\ Receives(x) /\ role[x] = "receiver"
  BY <1>2 DEF Deposit, Turn, Sends
<1>4. PICK p \in Pdu : sent[y] = Append(got[x], p) /\ Encrypts(air[x], p, Len(got[x]))
  BY <1>3 DEF Receives
<1>5. /\ air[x] \in Image /\ ram[x][scratch] \in Image /\ Len(got[x]) \in Nat
      /\ scratch \in Buffer
  BY <1>3, Sizes DEF Receives, LinkTyped
<1>6. b \in Image /\ Encrypts(b, p, Len(got[x]))
  BY <1>4, <1>5, ReceivedEncrypts
<1> HIDE DEF b
<1>7. /\ ram' = [ram EXCEPT ![x] = [ram[x] EXCEPT ![scratch] = b]]
      /\ air' = [air EXCEPT ![x] = << >>] /\ at' = [at EXCEPT ![x] = at[x] + 1]
      /\ UNCHANGED <<regs, st, role, header, toSend, sent, got, micFailed>>
  BY <1>2, <1>5 DEF Deposit, Advances, pduVars, LinkTyped, b
<1>8. ram'[x][scratch] = b /\ ram' \in [Machine -> [Buffer -> Image]]
  BY <1>5, <1>6, <1>7 DEF LinkTyped
<1>9. LinkTyped'
  BY <1>3, <1>7, <1>8 DEF LinkTyped
<1>10. role'[x] = "receiver" /\ at'[x] = 8 /\ air'[x] = << >>
  BY <1>3, <1>7 DEF LinkTyped
<1>11. Turn(x)'
  <2>1. RegistersSet(x)'
    BY <1>3, <1>7, <1>10 DEF Turn, RegistersSet
  <2>2. Receives(x)'
    <3>1. got'[y] = sent'[x]
      BY <1>3, <1>7 DEF Receives
    <3>2. sent'[y] = Append(got'[x], p) /\ Encrypts(ram'[x][scratch], p, Len(got'[x]))
      BY <1>4, <1>6, <1>7, <1>8
    <3>3. /\ at'[x] = 8 /\ at'[x] \in 7..12 /\ at'[x] \notin 9..11 /\ ~(at'[x] >= 9)
          /\ at'[x] # 7 /\ ~(at'[x] >= 10)
      BY <1>10
    <3> QED
      BY <1>10, <3>1, <3>2, <3>3, Zenon DEF Receives
  <2> QED
    BY <2>1, <2>2 DEF Turn
<1>12. Waits(y)'
  BY <1>1, <1>7, WaitsKept DEF LinkTyped
<1> QED
  BY <1>9, <1>11, <1>12 DEF LinkInvariant

\* The receiver decrypts what it has got, takes the header, and reads the events.
LEMMA ReceiveStep ==
  ASSUME LinkTyped, NEW x \in Machine, Turn(x), Waits(Peer(x)), NEW m \in Machine, Receive(m)
  PROVE  LinkInvariant'
<1> DEFINE y == Peer(x)
           k == Len(got[x])
<1>1. y \in Machine /\ y # x /\ \A n \in Machine : n = x \/ n = y
  BY PeerFacts
<1>2. \/ at[m] = 8 /\ WriteCrypt(m) /\ UNCHANGED <<header, micFailed>>
      \/ /\ at[m] = 9
         /\ header' = [header EXCEPT ![m] = <<ram[m][node][0], ram[m][node][1]>>]
         /\ UNCHANGED <<ccmVars, micFailed>>
      \/ at[m] = 10 /\ ReadEvent(m) /\ UNCHANGED <<header, micFailed>>
      \/ /\ at[m] = 11 /\ ReadEvent(m)
         /\ micFailed' = [micFailed EXCEPT ![m] = @ \/ ~st'[_state(m)].micstatus]
         /\ UNCHANGED header
  BY Zenon DEF Receive
<1>3. /\ at' = [at EXCEPT ![m] = at[m] + 1]
      /\ UNCHANGED <<role, air, toSend, sent, got>>
  BY DEF Receive, Advances, pduVars
<1>4. at[m] = 8 \/ at[m] = 9 \/ at[m] = 10 \/ at[m] = 11
  BY <1>2, Zenon
<1>5. m = x
  <2>1. at[y] \in 1..7
    BY DEF Waits
  <2> QED
    BY <1>1, <1>4, <2>1
<1>6. Receives(x) /\ RegistersSet(x) /\ role[x] = "receiver"
  <2>1. at[x] \notin 0..7
    BY <1>4, <1>5
  <2> QED
    BY <2>1, Zenon DEF Turn, Sends, Receives
<1>7. PICK p \in Pdu :
        /\ sent[y] = Append(got[x], p)
        /\ at[x] = 7 => Encrypts(air[x], p, k)
        /\ at[x] = 8 => Encrypts(ram[x][scratch], p, k)
        /\ at[x] >= 9 => Carries(ram[x][node], p, k)
        /\ at[x] >= 10 => header[x] = <<k % 2, Len(p)>>
  BY <1>6 DEF Receives
<1>8. /\ got[y] = sent[x] /\ air[x] = << >> /\ (at[x] \in 9..11 => st[x].micstatus)
      /\ ~st[x].waiting /\ regs[x].MODE = "decrypt" /\ regs[x].INPTR = scratch
      /\ regs[x].OUTPTR = node
  BY <1>4, <1>5, <1>6 DEF Receives, RegistersSet
<1>9. /\ at'[x] = at[x] + 1 /\ at' \in [Machine -> 0..12] /\ k \in Nat
      /\ at'[y] = at[y] /\ role' = role /\ air' = air /\ got' = got /\ sent' = sent
      /\ at \in [Machine -> 0..12]
  BY <1>1, <1>3, <1>4, <1>5 DEF LinkTyped
<1> HIDE DEF k
\* It is enough that the packet is where it belongs after the step.
<1>10. ASSUME LinkTyped', ~st'[x].waiting, UNCHANGED regs,
              at'[x] \in 9..11 => st'[x].micstatus, st'[y].waiting = st[y].waiting,
              Carries(ram'[x][node], p, k),
              at'[x] >= 10 => header'[x] = <<k % 2, Len(p)>>
       PROVE  LinkInvariant'
  <2>1. at'[x] = 9 \/ at'[x] = 10 \/ at'[x] = 11 \/ at'[x] = 12
    BY <1>4, <1>5, <1>9
  <2>2. /\ at'[x] \in 7..12 /\ at'[x] # 7 /\ at'[x] # 8 /\ at'[x] >= 9
        /\ (at[x] >= 8 /\ at[x] >= 5)
    BY <1>4, <1>5, <2>1
  <2>3. /\ got'[y] = sent'[x] /\ air'[x] = << >> /\ sent'[y] = Append(got'[x], p)
        /\ k = Len(got'[x]) /\ role'[x] = "receiver"
    BY <1>6, <1>7, <1>8, <1>9 DEF k
  <2>4. Carries(ram'[x][node], p, Len(got'[x]))
    BY <1>10, <2>3
  <2>5. at'[x] >= 10 => header'[x] = <<Len(got'[x]) % 2, Len(p)>>
    BY <1>10, <2>3
  <2>6. Receives(x)'
    BY <1>10, <2>2, <2>3, <2>4, <2>5, Zenon DEF Receives
  <2>7. RegistersSet(x)'
    BY <1>6, <1>9, <1>10, <2>1, <2>2 DEF RegistersSet
  <2>8. Waits(y)'
    BY <1>1, <1>9, <1>10, WaitsKept
  <2> QED
    BY <1>10, <2>6, <2>7, <2>8 DEF LinkInvariant, Turn
<1>11. CASE at[x] = 8
  <2>1. WriteCrypt(x) /\ UNCHANGED <<header, micFailed>>
    BY <1>2, <1>5, <1>11
  <2>2. _schedule(x, st[x]) /\ regs' = regs /\ header' = header /\ micFailed' = micFailed
    BY <2>1, Zenon DEF WriteCrypt, _state
  <2>3. st[x] \in CcmState /\ scratch \in Buffer /\ node \in Buffer
    BY Sizes DEF LinkTyped
  <2>4. Encrypts(ram[x][scratch], p, k)
    BY <1>7, <1>11
  <2>5. /\ st' \in [Machine -> CcmState] /\ ram' \in [Machine -> [Buffer -> Image]]
        /\ ~st'[x].waiting /\ st'[x].micstatus /\ Carries(ram'[x][node], p, k)
        /\ \A n \in Machine : n # x => st'[n] = st[n] /\ ram'[n] = ram[n]
    BY <1>8, <1>9, <2>2, <2>3, <2>4, TransformStep
  <2>6. LinkTyped'
    BY <1>3, <1>9, <2>2, <2>5 DEF LinkTyped
  <2>7. at'[x] = 9 /\ ~(at'[x] >= 10)
    BY <1>9, <1>11
  <2>8. st'[y].waiting = st[y].waiting
    BY <1>1, <2>5
  <2> QED
    BY <1>10, <2>2, <2>5, <2>6, <2>7, <2>8, Zenon
<1>12. CASE at[x] = 9
  <2>1. /\ header' = [header EXCEPT ![x] = <<ram[x][node][0], ram[x][node][1]>>]
        /\ regs' = regs /\ st' = st /\ ram' = ram /\ micFailed' = micFailed
    BY <1>2, <1>5, <1>12 DEF ccmVars
  <2>2. Carries(ram[x][node], p, k) /\ st[x].micstatus
    BY <1>7, <1>8, <1>12
  <2>3. ram[x][node] \in Image /\ 0 \in 0..(BufferSize - 1) /\ 1 \in 0..(BufferSize - 1)
    BY Sizes DEF LinkTyped, PAY
  <2>4. <<ram[x][node][0], ram[x][node][1]>> \in Byte \X Byte
    BY <2>3 DEF Image
  <2>5. header' \in [Machine -> Byte \X Byte] /\ header'[x] = <<k % 2, Len(p)>>
    BY <2>1, <2>2, <2>4 DEF LinkTyped, Carries
  <2>6. LinkTyped'
    BY <1>3, <1>9, <2>1, <2>5 DEF LinkTyped
  <2> QED
    BY <1>8, <1>10, <2>1, <2>2, <2>5, <2>6
<1>13. CASE at[x] = 10 \/ at[x] = 11
  <2>1. ReadEvent(x) /\ header' = header
    BY <1>2, <1>5, <1>13
  <2>2. regs' = regs /\ st' = st /\ ram' = ram
    BY <1>8, <2>1, Zenon DEF ReadEvent, _state
  <2>3. Carries(ram[x][node], p, k) /\ st[x].micstatus /\ header[x] = <<k % 2, Len(p)>>
    BY <1>7, <1>8, <1>13
  <2>4. micFailed' = micFailed
    <3>1. CASE at[x] = 10
      BY <1>2, <1>5, <3>1
    <3>2. CASE at[x] = 11
      <4>1. micFailed' = [micFailed EXCEPT ![x] = @ \/ ~st'[x].micstatus]
        BY <1>2, <1>5, <3>2 DEF _state
      <4>2. micFailed[x] = FALSE /\ st'[x].micstatus
        BY <2>2, <2>3 DEF LinkTyped
      <4>3. (micFailed[x] \/ ~st'[x].micstatus) = FALSE
        BY <4>2
      <4>4. micFailed' = [micFailed EXCEPT ![x] = FALSE]
        BY <4>1, <4>3, Zenon
      <4> QED
        BY <4>2, <4>4 DEF LinkTyped
    <3> QED
      BY <1>13, <3>1, <3>2
  <2>5. LinkTyped'
    BY <1>3, <1>9, <2>1, <2>2, <2>4 DEF LinkTyped
  <2> QED
    BY <1>8, <1>10, <2>1, <2>2, <2>3, <2>5, Zenon
<1> QED
  BY <1>4, <1>5, <1>11, <1>12, <1>13

\* The packet is handed up, and the turn to send is the receiver's.
LEMMA DeliverStep ==
  ASSUME LinkTyped, NEW x \in Machine, Turn(x), Waits(Peer(x)), NEW m \in Machine, Deliver(m)
  PROVE  LinkInvariant'
<1> DEFINE y == Peer(x)
           k == Len(got[x])
<1>1. y \in Machine /\ y # x /\ \A n \in Machine : n = x \/ n = y
  BY PeerFacts
<1>2. m = x /\ at[x] = 12
  <2>1. at[y] \in 1..7 /\ at[m] = 12
    BY DEF Waits, Deliver
  <2> QED
    BY <1>1, <2>1
<1>3. Receives(x) /\ RegistersSet(x)
  <2>1. at[x] \notin 0..7
    BY <1>2
  <2> QED
    BY <2>1, Zenon DEF Turn, Sends
<1>4. PICK p \in Pdu :
        /\ sent[y] = Append(got[x], p) /\ Carries(ram[x][node], p, k)
        /\ header[x] = <<k % 2, Len(p)>>
  <2>1. at[x] >= 9 /\ at[x] >= 10
    BY <1>2
  <2> QED
    BY <1>3, <2>1, Zenon DEF Receives
<1>5. got[y] = sent[x] /\ air[x] = << >> /\ got[x] \in Seq(Pdu) /\ k \in Nat
  BY <1>2, <1>3 DEF Receives, LinkTyped
<1>6. [i \in 1..header[x][2] |-> ram[x][node][PAY + i - 1]] = p
  <2>1. header[x][2] = Len(p) /\ p \in Seq(Byte)
    BY <1>4, PduFacts
  <2>2. p = [i \in 1..Len(p) |-> p[i]]
    BY <2>1
  <2>3. \A i \in 1..Len(p) : ram[x][node][PAY + i - 1] = p[i]
    BY <1>4 DEF Carries, Payload
  <2> QED
    BY <2>1, <2>2, <2>3
<1>7. header[x][1] = k % 2
  BY <1>4
<1>8. got' = [got EXCEPT ![x] = Append(got[x], p)]
  <2> DEFINE q == [i \in 1..header[x][2] |-> ram[x][node][PAY + i - 1]]
  <2>1. got' = [got EXCEPT ![x] = IF header[x][1] # k % 2 THEN got[x] ELSE Append(got[x], q)]
    BY <1>2 DEF Deliver, LinkTyped
  <2> HIDE DEF q, k
  <2> QED
    BY <1>6, <1>7, <2>1 DEF q
<1> DEFINE s == [st[x] EXCEPT !.waiting = FALSE]
<1>9. /\ st' = [st EXCEPT ![x] = s] /\ role' = [role EXCEPT ![x] = "transmitter"]
      /\ at' = [at EXCEPT ![x] = 0]
      /\ UNCHANGED <<regs, ram, air, header, toSend, sent, micFailed>>
  BY <1>2 DEF Deliver, Becomes, WriteStop, _state, LinkTyped
<1>10. s \in CcmState /\ ~s.waiting
  BY ZenonT(40) DEF CcmState, LinkTyped
<1> HIDE DEF s
<1>11. Append(got[x], p) \in Seq(Pdu)
  BY <1>5
<1>12. LinkTyped'
  BY <1>8, <1>9, <1>10, <1>11 DEF LinkTyped
<1>13. /\ role'[x] = "transmitter" /\ at'[x] = 0 /\ air'[x] = << >> /\ st'[x] = s
       /\ got'[x] = sent'[y] /\ sent'[x] = got'[y]
       /\ at'[y] = at[y] /\ role'[y] = role[y] /\ st'[y] = st[y]
  BY <1>1, <1>4, <1>5, <1>8, <1>9 DEF LinkTyped
<1>14. Turn(x)'
  BY <1>10, <1>13 DEF Turn, Sends, RegistersSet
<1>15. Waits(y)'
  BY <1>1, <1>9, <1>13, WaitsKept
<1> QED
  BY <1>12, <1>14, <1>15 DEF LinkInvariant

\* The threads do not touch the link.
LEMMA LinkStepInduction == LinkInvariant /\ [TwoMachinesNext]_vars => LinkInvariant'
<1> SUFFICES ASSUME LinkInvariant, [TwoMachinesNext]_vars PROVE LinkInvariant'
  OBVIOUS
<1>1. LinkTyped
  BY DEF LinkInvariant
<1>2. PICK x \in Machine : Turn(x) /\ Waits(Peer(x))
  BY DEF LinkInvariant
<1>3. Peer(x) \in Machine
  BY PeerFacts
<1>4. CASE UNCHANGED <<ccmVars, linkVars>>
  <2>1. UNCHANGED <<regs, st, ram, role, at, air, header, toSend, sent, got, micFailed>>
    BY <1>4 DEF ccmVars, linkVars, pduVars
  <2>2. LinkTyped'
    BY <1>1, <2>1 DEF LinkTyped
  <2>3. Turn(x)'
    BY <1>2, <2>1, TurnKept
  <2>4. Waits(Peer(x))'
    BY <1>2, <1>3, <2>1, WaitsKept
  <2> QED
    BY <2>2, <2>3, <2>4 DEF LinkInvariant
<1>5. ASSUME NEW m \in Machine, LinkStep(m) PROVE LinkInvariant'
  <2>1. \/ FillBuffer(m) \/ SetUpCcm(m) \/ StartRadio(m)
        \/ Deposit(m) \/ Receive(m) \/ Deliver(m)
    BY <1>5, Zenon DEF LinkStep
  <2> QED
    BY <1>1, <1>2, <2>1, FillBufferStep, SetUpStep, StartRadioStep, DepositStep,
       ReceiveStep, DeliverStep
<1>6. ASSUME NEW m \in Machine, StoreStep(m) PROVE LinkInvariant'
  <2>1. UNCHANGED <<ccmVars, linkVars>>
    BY <1>6 DEF StoreStep, Save, SetMode, Store, Copy, Erase, PollReady, Thread
  <2> QED
    BY <1>4, <2>1
<1>7. CASE UNCHANGED vars
  BY <1>4, <1>7 DEF vars
<1> QED
  BY <1>5, <1>6, <1>7, Zenon DEF TwoMachinesNext

\* What has been handed up is the beginning of what was sent.
LEMMA TurnDelivers == LinkInvariant => PdusArriveIntact
<1> SUFFICES ASSUME LinkInvariant PROVE PdusArriveIntact
  OBVIOUS
<1>1. PICK x \in Machine : Turn(x) /\ Waits(Peer(x))
  BY DEF LinkInvariant
<1> DEFINE y == Peer(x)
<1>2. /\ y \in Machine /\ y # x /\ Peer(y) = x /\ \A n \in Machine : n = x \/ n = y
  BY PeerFacts
<1>3. /\ sent[x] \in Seq(Pdu) /\ sent[y] \in Seq(Pdu) /\ got[x] \in Seq(Pdu) /\ got[y] \in Seq(Pdu)
      /\ ~micFailed[x] /\ ~micFailed[y]
  BY <1>2 DEF LinkInvariant, LinkTyped
<1>4. ASSUME NEW s \in Seq(Pdu), NEW t \in Seq(Pdu), s = t \/ \E p \in Pdu : t = Append(s, p)
      PROVE  IsPrefix(s, t) /\ Len(t) <= Len(s) + 1
  <2>1. CASE s = t
    <3>1. Len(s) \in Nat
      OBVIOUS
    <3> QED
      BY <2>1, <3>1 DEF IsPrefix
  <2>2. ASSUME NEW p \in Pdu, t = Append(s, p) PROVE IsPrefix(s, t) /\ Len(t) <= Len(s) + 1
    <3>1. Len(t) = Len(s) + 1 /\ Len(s) \in Nat /\ \A i \in 1..Len(s) : t[i] = s[i]
      BY <2>2
    <3>2. SubSeq(s, 1, Len(s)) = SubSeq(t, 1, Len(s))
      BY <3>1
    <3> QED
      BY <3>1, <3>2 DEF IsPrefix
  <2> QED
    BY <1>4, <2>1, <2>2
<1>5. /\ got[x] = sent[y] \/ \E p \in Pdu : sent[y] = Append(got[x], p)
      /\ got[y] = sent[x] \/ \E p \in Pdu : sent[x] = Append(got[y], p)
  BY <1>1 DEF Turn, Sends, Receives
<1>6. /\ IsPrefix(got[x], sent[y]) /\ Len(sent[y]) <= Len(got[x]) + 1
      /\ IsPrefix(got[y], sent[x]) /\ Len(sent[x]) <= Len(got[y]) + 1
  BY <1>3, <1>4, <1>5
<1> QED
  BY <1>2, <1>3, <1>6 DEF PdusArriveIntact

-----------------------------------------------------------------------------
\* Everything keeps its type, and the settings survive: the store writes blank
\* words only, and the newest value is never lost to an erase.
THEOREM SettingsAlwaysSurvive == Spec => []MachinesInvariant
<1>1. Init => StoreInvariant /\ LinkInvariant
  BY StoreInit, LinkInit
<1>2. StoreInvariant /\ LinkInvariant /\ [TwoMachinesNext]_vars
        => StoreInvariant' /\ LinkInvariant'
  BY StoreStepInduction, LinkStepInduction
<1>3. StoreInvariant /\ LinkInvariant => MachinesInvariant
  <2> SUFFICES ASSUME StoreInvariant, LinkInvariant PROVE MachinesInvariant
    OBVIOUS
  <2>1. LinkTyped /\ NvmcTypeOK /\ nvs \in [Machine -> Task]
    BY DEF LinkInvariant, StoreInvariant
  <2>2. CcmTypeOK
    BY <2>1 DEF LinkTyped, CcmTypeOK, CcmRegs, CcmState, Image
  <2>3. nvs \in [Machine -> [task : {"none", "store", "collect"}, at : 1..8,
                              page : 0..(Pages - 1), used : 0..PageSize,
                              value : 0..MaxVersions]]
    <3>1. 0..(Pages - 1) = {0, 1}
      BY Sizes
    <3> QED
      BY <2>1, <3>1, Zenon DEF Task
  <2>4. micFailed \in [Machine -> BOOLEAN]
    BY <2>1 DEF LinkTyped
  <2> QED
    BY <2>1, <2>2, <2>3, <2>4, StoreSurvives DEF MachinesInvariant, TwoMachinesTypeOK, LinkTyped
<1> QED
  BY <1>1, <1>2, <1>3, PTL DEF Spec

\* What a machine hands up is what the other sent, in order and byte for byte,
\* and all of it but the packet under way; the MIC never fails.
THEOREM PdusAlwaysArriveIntact == Spec => []PdusArriveIntact
<1>1. LinkInvariant /\ [TwoMachinesNext]_vars => LinkInvariant'
  BY LinkStepInduction
<1> QED
  BY <1>1, LinkInit, TurnDelivers, PTL DEF Spec
=============================================================================
