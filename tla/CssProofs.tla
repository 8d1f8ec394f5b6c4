------------------------------ MODULE CssProofs -------------------------------
(***************************************************************************)
(* Theorems about CssRequests, for every set of clients and devices and    *)
(* every patience.                                                         *)
(*                                                                         *)
(* They are about clients that delete the latest request first, and a pool *)
(* whose unused storage does not say DONE: for others request::destroy     *)
(* moves a request under its owner's pointer, and a request that is new is *)
(* answered already.  Then the pool is a stack: destroying moves nothing,  *)
(* every element below the pool's size belongs to the one client that      *)
(* points at it, and the driver, which keeps the CPU, has the last one.    *)
(***************************************************************************)
EXTENDS CssRequests, FiniteSetTheorems, TLAPS

Orderly == InOrder /\ Fresh = {FALSE}

Program    == [owner : Client \cup {Nobody}, ccws : Slot \cup {NoCcws}]
Irb        == [attention : BOOLEAN, cpa : Slot \cup {NoCcws, Elsewhere}]
\* A device that is gone has nothing to tell, and runs nothing.
Subchannel == {s \in [present : BOOLEAN, program : Program, pending : BOOLEAN, irb : Irb,
                      interrupt : BOOLEAN] :
                  s.present \/ (~s.pending /\ s.program = NoProgram)}
Request    == [flags : SUBSET Flag, dev : Devices, ccws : Slot \cup {NoCcws},
               retcode : Retcode, owner : Client \cup {Nobody}]
Place      == {"pick", "modify", "test", "attend", "attest", "start", "wait", "end"}
Performer  == [by : {"nobody", "spooler", "driver"}, io : BOOLEAN, at : Place,
               req : Slot \cup {NoSlot}, irb : Irb, tries : 0 .. Patience + 1]

\* The types, the length of the queue apart: QueueInv bounds it.
TypesInv ==
    /\ slot \in [Slot -> Request]
    /\ size \in 0 .. MaxPool
    /\ queue \in Seq(Slot)
    /\ ptr \in [Client -> Slot \cup {NoSlot}]
    /\ step \in [Client -> {"idle", "made", "ready", "sent", "awaited"}]
    /\ run \in Performer
    /\ is_io_fire \in BOOLEAN /\ late \in BOOLEAN
    /\ chan \in [Devices -> Subchannel]
    /\ fate \in [Client -> {"none", "completed"}]
    /\ run.at \in {"pick", "modify", "test", "attend"} => run.tries <= Patience

\* The pool is a stack of requests, each with one client that points at it.
PoolInv ==
    /\ \A s \in Slot : s < size => slot[s].owner \in Client /\ ptr[slot[s].owner] = s
    /\ \A c \in Client :
          IF step[c] = "idle" THEN ptr[c] = NoSlot
          ELSE ptr[c] \in Slot /\ ptr[c] < size /\ slot[ptr[c]].owner = c
    /\ step[Driver] \in {"idle", "sent"}
    /\ run.by = "driver" <=> step[Driver] = "sent"
    /\ step[Driver] = "sent" => ptr[Driver] = size - 1

\* Nothing says DONE before it is sent.
FlagInv ==
    /\ \A s \in Slot : s >= size => "DONE" \notin slot[s].flags
    /\ \A c \in Client : step[c] \in {"made", "ready"} => "DONE" \notin slot[ptr[c]].flags
    /\ \A c \in Client : step[c] = "awaited" => "DONE" \in slot[ptr[c]].flags

Unanswered(c) == step[c] = "sent" /\ "DONE" \notin slot[ptr[c]].flags

\* What is performed is the last element of the queue.
QueueInv ==
    /\ \A i, k \in 1 .. Len(queue) : queue[i] = queue[k] => i = k
    /\ \A i \in 1 .. Len(queue) : queue[i] < size /\ Unanswered(slot[queue[i]].owner)
    /\ \A c \in Client : Unanswered(c) => \E i \in 1 .. Len(queue) : queue[i] = ptr[c]
    /\ run.at # "pick" =>
          run.by # "nobody" /\ Len(queue) # 0 /\ run.req = queue[Len(queue)]

\* Until a wait has ended too early a device runs only the program of the
\* request that is performed, and only while it is waited for; what the device
\* then tells is about that program.
LateInv ==
    ~late =>
        /\ \A d \in Devices : chan[d].program # NoProgram =>
              /\ run.at = "wait" /\ req.dev = d
              /\ chan[d].program = [owner |-> req.owner, ccws |-> req.ccws]
        /\ \A d \in Devices : chan[d].pending /\ chan[d].irb.cpa # Elsewhere =>
              /\ run.at \in {"wait", "end"} /\ req.dev = d
              /\ chan[d].irb.cpa = req.ccws /\ fate[req.owner] = "completed"
        /\ run.irb.cpa = Elsewhere
        /\ \A c \in Client : Succeeded(c) => fate[c] = "completed"

CssInv == TypesInv /\ PoolInv /\ FlagInv /\ QueueInv /\ LateInv

-----------------------------------------------------------------------------
\* There are as many slots as clients, and the marks are none of them.
LEMMA SlotFacts ==
    /\ IsFiniteSet(Client) /\ MaxPool \in Nat
    /\ NoSlot \notin Slot /\ NoCcws \notin Slot /\ Elsewhere \notin Slot \cup {NoCcws}
    /\ \A s : s \in Slot <=> s \in Nat /\ s < MaxPool
<1>1. IsFiniteSet(Client)
  BY CssAssumption, FS_AddElement DEF Client
<1>2. MaxPool \in Nat
  BY <1>1, FS_CardinalityType DEF MaxPool
<1> QED BY <1>1, <1>2 DEF Slot, NoSlot, NoCcws, Elsewhere

\* A slot that has no channel program yet finds storage that no slot uses.
LEMMA UnusedCcws ==
    ASSUME NEW f \in [Slot -> Slot \cup {NoCcws}], NEW s \in Slot, f[s] = NoCcws
    PROVE  \E a \in Slot : \A t \in Slot : f[t] # a
<1> SUFFICES ASSUME \A a \in Slot : \E t \in Slot : f[t] = a PROVE FALSE
  OBVIOUS
<1> DEFINE others == Slot \ {s}
           g == [a \in Slot |-> CHOOSE t \in Slot : f[t] = a]
<1>1. IsFiniteSet(Slot) /\ Cardinality(Slot) \in Nat
  <2>1. MaxPool - 1 \in Int
    BY SlotFacts
  <2>2. IsFiniteSet(Slot)
    BY <2>1, FS_Interval DEF Slot
  <2> QED BY <2>2, FS_CardinalityType
<1>2. IsFiniteSet(others) /\ Cardinality(others) = Cardinality(Slot) - 1
  BY <1>1, FS_RemoveElement
<1>3. \A a \in Slot : g[a] \in Slot /\ f[g[a]] = a
  OBVIOUS
<1>4. g \in [Slot -> others]
  <2>1. \A a \in Slot : g[a] # s
    <3> HIDE DEF g
    <3>1. NoCcws \notin Slot
      BY SlotFacts
    <3>2. ASSUME NEW a \in Slot, g[a] = s PROVE FALSE
      <4>1. f[s] = a
        BY <1>3, <3>2
      <4> QED BY <3>1, <4>1
    <3> QED BY <3>2
  <2>2. \A a \in Slot : g[a] \in others
    BY <1>3, <2>1
  <2> QED BY <2>2
<1> HIDE DEF g, others
<1>5. Cardinality(others) < Cardinality(Slot)
  BY <1>1, <1>2
<1>6. \E x, y \in Slot : x # y /\ g[x] = g[y]
  BY <1>1, <1>2, <1>4, <1>5, FS_PigeonHole
<1> QED BY <1>3, <1>6

\* A request that is made keeps the slot's flags, and gets storage for its
\* channel program.
LEMMA CreatedWhat ==
    ASSUME TypesInv, size < MaxPool, NEW c \in Client, NEW d \in Devices
    PROVE  /\ size \in Slot
           /\ Created(c, d) \in [Slot -> Request]
           /\ Created(c, d)[size].owner = c
           /\ Created(c, d)[size].flags = slot[size].flags
           /\ \A s \in Slot : s # size => Created(c, d)[s] = slot[s]
<1>1. size \in Slot /\ slot[size] \in Request
  <2>1. size \in Nat
    BY SlotFacts DEF TypesInv
  <2>2. size \in Slot
    BY <2>1, SlotFacts
  <2> QED BY <2>2 DEF TypesInv
<1>2. Ccws(size) \in Slot \cup {NoCcws}
  <2>1. CASE slot[size].ccws # NoCcws
    BY <1>1, <2>1 DEF Ccws, Request
  <2>2. CASE slot[size].ccws = NoCcws
    <3> DEFINE f == [t \in Slot |-> slot[t].ccws]
    <3>1. f \in [Slot -> Slot \cup {NoCcws}] /\ f[size] = NoCcws
      BY <1>1, <2>2 DEF TypesInv, Request
    <3>2. \E a \in Slot : \A t \in Slot : f[t] # a
      BY <1>1, <3>1, UnusedCcws
    <3>3. \E a \in Slot : \A t \in Slot : slot[t].ccws # a
      BY <3>2
    <3> QED BY <2>2, <3>3 DEF Ccws
  <2> QED BY <2>1, <2>2
<1> DEFINE r == [slot[size] EXCEPT !.dev = d, !.ccws = Ccws(size), !.owner = c]
<1>3. Created(c, d) = [slot EXCEPT ![size] = r]
  BY <1>1 DEF Created, Inserted, TypesInv
<1>4. r \in Request /\ r.owner = c /\ r.flags = slot[size].flags
  BY <1>1, <1>2 DEF Request
<1> HIDE DEF r
<1> QED BY <1>1, <1>3, <1>4 DEF TypesInv

\* Whoever holds a request holds a slot of the pool, and nobody else does.
LEMMA Holds ==
    ASSUME TypesInv, PoolInv, NEW c \in Client, step[c] # "idle"
    PROVE  /\ ptr[c] \in Slot /\ ptr[c] \in Nat /\ ptr[c] < size /\ slot[ptr[c]] \in Request
           /\ slot[ptr[c]].owner = c
           /\ \A d \in Client : ptr[d] = ptr[c] => d = c
           /\ step[c] \in {"made", "ready", "sent", "awaited"}
<1>1. ptr[c] \in Slot /\ ptr[c] < size /\ slot[ptr[c]].owner = c
  BY DEF PoolInv
<1>2. \A d \in Client : ptr[d] \in Slot => slot[ptr[d]].owner = d
  BY SlotFacts DEF PoolInv
<1> QED BY <1>1, <1>2, SlotFacts DEF TypesInv

\* A new request on top of the stack.
LEMMA Insertion ==
    ASSUME TypesInv, PoolInv, FlagInv, TypesInv', NEW c \in Client, NEW st,
           step[c] = "idle", size < MaxPool,
           \A s \in Slot : s # size => slot'[s] = slot[s],
           slot'[size].owner = c, "DONE" \notin slot'[size].flags,
           size' = size + 1, ptr' = [ptr EXCEPT ![c] = size], step' = [step EXCEPT ![c] = st],
           st \in {"made", "sent"},
           IF c = Driver THEN st = "sent" /\ run'.by = "driver"
           ELSE st = "made" /\ run'.by = run.by /\ run.by # "driver"
    PROVE  PoolInv' /\ FlagInv'
<1>1. size \in Slot /\ size \in Nat /\ Driver \in Client
  BY SlotFacts, SMTT(30) DEF TypesInv, Client
<1>2. /\ ptr \in [Client -> Slot \cup {NoSlot}] /\ ptr' \in [Client -> Slot \cup {NoSlot}]
      /\ step \in [Client -> {"idle", "made", "ready", "sent", "awaited"}]
  BY DEF TypesInv
<1>3. ptr[c] = NoSlot /\ ptr'[c] = size /\ step'[c] = st
  BY <1>2 DEF PoolInv
<1>4. \A d \in Client : d # c => ptr'[d] = ptr[d] /\ step'[d] = step[d]
  BY <1>2
<1>5. \A s \in Slot : s < size' => slot'[s].owner \in Client /\ ptr'[slot'[s].owner] = s
  <2> TAKE s \in Slot
  <2>1. CASE s = size
    BY <1>3, <2>1
  <2>2. CASE s # size
    <3>1. s < size' => s < size
      BY <1>1, <2>2, SlotFacts
    <3>2. s < size => slot[s].owner # c
      BY <1>3, SlotFacts DEF PoolInv
    <3> QED BY <1>4, <2>2, <3>1, <3>2 DEF PoolInv
  <2> QED BY <2>1, <2>2
<1>6. \A d \in Client :
          IF step'[d] = "idle" THEN ptr'[d] = NoSlot
          ELSE ptr'[d] \in Slot /\ ptr'[d] < size' /\ slot'[ptr'[d]].owner = d
  <2> TAKE d \in Client
  <2>1. CASE d = c
    BY <1>1, <1>3, <2>1
  <2>2. CASE d # c
    <3>1. CASE step[d] = "idle"
      BY <1>4, <2>2, <3>1 DEF PoolInv
    <3>2. CASE step[d] # "idle"
      <4>1. ptr[d] \in Slot /\ ptr[d] \in Nat /\ ptr[d] < size /\ slot[ptr[d]].owner = d
        BY <3>2, Holds
      <4>2. slot'[ptr[d]] = slot[ptr[d]] /\ ptr[d] < size'
        BY <1>1, <4>1
      <4> QED BY <1>4, <2>2, <3>2, <4>1, <4>2
    <3> QED BY <3>1, <3>2
  <2> QED BY <2>1, <2>2
<1>7. /\ step'[Driver] \in {"idle", "sent"}
      /\ run'.by = "driver" <=> step'[Driver] = "sent"
      /\ step'[Driver] = "sent" => ptr'[Driver] = size' - 1
  <2>1. CASE c = Driver
    BY <1>1, <1>3, <2>1
  <2>2. CASE c # Driver
    BY <1>1, <1>4, <2>2 DEF PoolInv
  <2> QED BY <2>1, <2>2
<1>8. \A s \in Slot : s >= size' => "DONE" \notin slot'[s].flags
  <2> TAKE s \in Slot
  <2>1. s >= size' => s >= size /\ s # size
    BY <1>1, SlotFacts
  <2> QED BY <2>1 DEF FlagInv
<1>9. \A d \in Client :
          /\ step'[d] \in {"made", "ready"} => "DONE" \notin slot'[ptr'[d]].flags
          /\ step'[d] = "awaited" => "DONE" \in slot'[ptr'[d]].flags
  <2> TAKE d \in Client
  <2>1. CASE d = c
    BY <1>3, <2>1
  <2>2. CASE d # c
    <3>1. CASE step[d] = "idle"
      BY <1>4, <2>2, <3>1
    <3>2. CASE step[d] # "idle"
      <4>1. ptr[d] \in Slot /\ ptr[d] \in Nat /\ ptr[d] < size
        BY <3>2, Holds
      <4>2. slot'[ptr[d]] = slot[ptr[d]]
        BY <1>1, <4>1
      <4> QED BY <1>4, <2>2, <4>2 DEF FlagInv
    <3> QED BY <3>1, <3>2
  <2> QED BY <2>1, <2>2
<1> QED BY <1>5, <1>6, <1>7, <1>8, <1>9 DEF PoolInv, FlagInv

\* Destroying the request on top of the stack moves no other.
LEMMA Removal ==
    ASSUME TypesInv, PoolInv, FlagInv, NEW c \in Client, step[c] # "idle",
           ptr[c] = size - 1, Destroy(c), run'.by # "driver",
           c # Driver => run.by # "driver"
    PROVE  /\ slot' \in [Slot -> Request] /\ size' \in 0 .. MaxPool
           /\ ptr' \in [Client -> Slot \cup {NoSlot}]
           /\ step' \in [Client -> {"idle", "made", "ready", "sent", "awaited"}]
           /\ fate' \in [Client -> {"none", "completed"}]
           /\ PoolInv' /\ FlagInv'
           /\ size' = size - 1 /\ step'[c] = "idle" /\ ptr'[c] = NoSlot
           /\ \A s \in Slot : s # ptr[c] => slot'[s] = slot[s]
           /\ \A d \in Client : d # c => ptr'[d] = ptr[d] /\ step'[d] = step[d] /\ fate'[d] = fate[d]
<1> DEFINE p == ptr[c]
           cleared == [slot EXCEPT ![p].flags = {}, ![p].owner = Nobody]
<1>1. /\ p \in Slot /\ p \in Nat /\ p < size /\ slot[p] \in Request /\ slot[p].owner = c
      /\ \A d \in Client : ptr[d] = p => d = c
  BY Holds
<1>2. /\ slot' = [s \in Slot |-> IF p <= s /\ s + 1 < size THEN cleared[s + 1] ELSE cleared[s]]
      /\ size' = IF p < size THEN size - 1 ELSE size
      /\ ptr' = [ptr EXCEPT ![c] = NoSlot]
      /\ step' = [step EXCEPT ![c] = "idle"]
      /\ fate' = [fate EXCEPT ![c] = "none"]
  BY DEF Destroy
<1>3. /\ size \in Nat /\ size' = size - 1 /\ p = size - 1 /\ size' \in 0 .. MaxPool
      /\ MaxPool \in Nat
  BY <1>1, <1>2, SlotFacts DEF TypesInv
<1>4. slot \in [Slot -> Request]
  BY DEF TypesInv
<1>5. /\ cleared[p] = [slot[p] EXCEPT !.flags = {}, !.owner = Nobody]
      /\ \A s \in Slot : s # p => cleared[s] = slot[s]
  BY <1>1, <1>4
<1>6. \A s \in Slot : slot'[s] = cleared[s]
  BY <1>2, <1>3, SlotFacts
<1> HIDE DEF cleared
<1>7. cleared[p] \in Request /\ cleared[p].flags = {}
  <2> DEFINE r == slot[p]
  <2>1. r \in Request
    BY <1>1
  <2> HIDE DEF r
  <2>2. [r EXCEPT !.flags = {}, !.owner = Nobody] \in Request
    BY <2>1 DEF Request
  <2>3. [r EXCEPT !.flags = {}, !.owner = Nobody].flags = {}
    BY <2>1 DEF Request
  <2> QED BY <1>5, <2>2, <2>3 DEF r
<1>8. slot' \in [Slot -> Request]
  <2>1. \A s \in Slot : slot'[s] \in Request
    BY <1>4, <1>5, <1>6, <1>7
  <2> QED BY <1>2, <2>1
<1>9. \A s \in Slot : s # p => slot'[s] = slot[s]
  BY <1>5, <1>6
<1>10. /\ ptr \in [Client -> Slot \cup {NoSlot}] /\ fate \in [Client -> {"none", "completed"}]
       /\ step \in [Client -> {"idle", "made", "ready", "sent", "awaited"}]
  BY DEF TypesInv
<1>11. \A d \in Client : d # c => ptr'[d] = ptr[d] /\ step'[d] = step[d] /\ fate'[d] = fate[d]
  BY <1>2, <1>10
<1>12. step'[c] = "idle" /\ ptr'[c] = NoSlot
  BY <1>2, <1>10
<1>13. \A s \in Slot : s < size' => slot'[s].owner \in Client /\ ptr'[slot'[s].owner] = s
  <2> TAKE s \in Slot
  <2>1. s < size' => s < size /\ s # p
    BY <1>3, SlotFacts
  <2>2. s < size /\ s # p => slot[s].owner # c
    BY DEF PoolInv
  <2> QED BY <1>9, <1>11, <2>1, <2>2 DEF PoolInv
<1>14. \A d \in Client :
          /\ IF step'[d] = "idle" THEN ptr'[d] = NoSlot
             ELSE ptr'[d] \in Slot /\ ptr'[d] < size' /\ slot'[ptr'[d]].owner = d
          /\ step'[d] \in {"made", "ready"} => "DONE" \notin slot'[ptr'[d]].flags
          /\ step'[d] = "awaited" => "DONE" \in slot'[ptr'[d]].flags
  <2> TAKE d \in Client
  <2>1. CASE d = c
    BY <1>12, <2>1
  <2>2. CASE d # c /\ step[d] = "idle"
    BY <1>11, <2>2 DEF PoolInv
  <2>3. CASE d # c /\ step[d] # "idle"
    <3>1. ptr[d] \in Slot /\ ptr[d] \in Nat /\ ptr[d] < size /\ slot[ptr[d]].owner = d
      BY <2>3, Holds
    <3>2. ptr[d] # p
      BY <1>1, <2>3
    <3>3. slot'[ptr[d]] = slot[ptr[d]] /\ ptr[d] < size'
      BY <1>3, <1>9, <3>1, <3>2
    <3> QED BY <1>11, <2>3, <3>1, <3>3 DEF FlagInv
  <2> QED BY <2>1, <2>2, <2>3
<1>15. /\ step'[Driver] \in {"idle", "sent"}
       /\ run'.by = "driver" <=> step'[Driver] = "sent"
       /\ step'[Driver] = "sent" => ptr'[Driver] = size' - 1
  <2>1. CASE c = Driver
    BY <1>12, <2>1
  <2>2. CASE c # Driver
    <3>1. step[Driver] = "idle" /\ Driver \in Client
      BY <2>2 DEF PoolInv, Client
    <3> QED BY <1>11, <2>2, <3>1
  <2> QED BY <2>1, <2>2
<1>16. \A s \in Slot : s >= size' => "DONE" \notin slot'[s].flags
  <2> TAKE s \in Slot
  <2>1. CASE s = p
    BY <1>6, <1>7, <2>1
  <2>2. CASE s # p
    <3>1. s >= size' => s >= size
      BY <1>3, <2>2, SlotFacts
    <3> QED BY <1>9, <2>2, <3>1 DEF FlagInv
  <2> QED BY <2>1, <2>2
<1>17. PoolInv' /\ FlagInv'
  BY <1>13, <1>14, <1>15, <1>16 DEF PoolInv, FlagInv
<1>18. /\ ptr' \in [Client -> Slot \cup {NoSlot}] /\ fate' \in [Client -> {"none", "completed"}]
       /\ step' \in [Client -> {"idle", "made", "ready", "sent", "awaited"}]
  BY <1>2, <1>10
<1> QED BY <1>3, <1>8, <1>9, <1>11, <1>12, <1>17, <1>18

\* Answers given stay, whatever else a step does.
AnswersKept ==
    \A c \in Client : Answered(c) /\ ptr'[c] # NoSlot
        => Answered(c)' /\ slot'[ptr'[c]].retcode = slot[ptr[c]].retcode

\* The pool is as it was if no request changes hands.
LEMMA PoolStays ==
    ASSUME PoolInv, UNCHANGED <<size, ptr>>,
           \A s \in Slot : slot'[s].owner = slot[s].owner,
           \A c \in Client : step'[c] = "idle" <=> step[c] = "idle",
           step'[Driver] = step[Driver], run'.by = "driver" <=> run.by = "driver"
    PROVE  PoolInv'
BY DEF PoolInv

\* The queue is as it was if what is unanswered is.
LEMMA QueueStays ==
    ASSUME TypesInv, PoolInv, QueueInv, UNCHANGED queue, size' \in Nat,
           \A c \in Client : Unanswered(c)' <=> Unanswered(c),
           \A c \in Client : Unanswered(c) => /\ ptr'[c] = ptr[c] /\ ptr[c] < size'
                                              /\ slot'[ptr[c]].owner = slot[ptr[c]].owner,
           run'.at # "pick" =>
              run'.by # "nobody" /\ Len(queue) # 0 /\ run'.req = queue[Len(queue)]
    PROVE  QueueInv'
<1>1. \A i \in 1 .. Len(queue) : queue'[i] < size' /\ (Unanswered(slot[queue[i]].owner))'
  <2> TAKE i \in 1 .. Len(queue)
  <2>1. queue[i] \in Slot
    BY DEF TypesInv
  <2>2. queue[i] < size /\ Unanswered(slot[queue[i]].owner)
    BY DEF QueueInv
  <2>3. slot[queue[i]].owner \in Client /\ ptr[slot[queue[i]].owner] = queue[i]
    BY <2>1, <2>2 DEF PoolInv
  <2>4. PICK c \in Client : c = slot[queue[i]].owner /\ ptr[c] = queue[i]
    BY <2>3
  <2>5. queue[i] < size' /\ slot'[queue[i]].owner = c
    BY <2>2, <2>4
  <2>6. Unanswered(c)'
    BY <2>2, <2>4
  <2>7. slot'[queue'[i]].owner = c
    BY <2>5
  <2>8. (Unanswered(slot[queue[i]].owner))'
    BY <2>6, <2>7 DEF Unanswered
  <2> QED BY <2>5, <2>8
<1>2. \A c \in Client : Unanswered(c)' => \E i \in 1 .. Len(queue') : queue'[i] = ptr'[c]
  BY DEF QueueInv
<1> QED BY <1>1, <1>2 DEF QueueInv

\* Of the answers a step touches, those stand that it leaves in place.
LEMMA AnswersStay ==
    ASSUME \A c \in Client : Answered(c) /\ ptr'[c] # NoSlot =>
              /\ ptr'[c] = ptr[c] /\ step'[c] \in {"sent", "awaited"}
              /\ slot'[ptr[c]] = slot[ptr[c]]
    PROVE  AnswersKept
BY DEF AnswersKept, Answered

\* A step of the performer or of a device that answers nothing.
LEMMA StaysPut ==
    ASSUME TypesInv, PoolInv, FlagInv, QueueInv,
           UNCHANGED <<slot, size, queue, ptr, step>>,
           run'.by = "driver" <=> run.by = "driver",
           run'.at # "pick" =>
              run'.by # "nobody" /\ Len(queue) # 0 /\ run'.req = queue[Len(queue)]
    PROVE  /\ PoolInv' /\ FlagInv' /\ QueueInv' /\ AnswersKept
           /\ \A c \in Client : Succeeded(c)' <=> Succeeded(c)
<1>1. PoolInv'
  BY PoolStays
<1>2. FlagInv'
  BY DEF FlagInv
<1>3. \A c : (Unanswered(c)' <=> Unanswered(c)) /\ (Succeeded(c)' <=> Succeeded(c))
  BY DEF Unanswered, Succeeded, Answered
<1>4. \A c \in Client : Unanswered(c) => ptr[c] < size /\ size' = size
  BY Holds DEF Unanswered
<1>5. size' \in Nat
  BY SlotFacts DEF TypesInv
<1>6. QueueInv'
  BY <1>3, <1>4, <1>5, QueueStays
<1>7. AnswersKept
  BY AnswersStay DEF Answered
<1> QED BY <1>1, <1>2, <1>3, <1>6, <1>7

\* What is being performed: the last of the queue, sent by its owner and not
\* answered.
LEMMA Performing ==
    ASSUME TypesInv, PoolInv, QueueInv, run.at # "pick"
    PROVE  /\ run.by # "nobody" /\ Len(queue) \in Nat /\ Len(queue) # 0
           /\ run.req = queue[Len(queue)] /\ run.req \in Slot /\ run.req < size
           /\ req \in Request /\ req.dev \in Devices /\ req.owner \in Client
           /\ req.ccws \in Slot \cup {NoCcws}
           /\ ptr[req.owner] = run.req
           /\ step[req.owner] = "sent" /\ "DONE" \notin req.flags
<1>1. /\ run.by # "nobody" /\ Len(queue) \in Nat /\ Len(queue) # 0
      /\ run.req = queue[Len(queue)]
  BY DEF TypesInv, QueueInv
<1>2. Len(queue) \in 1 .. Len(queue)
  BY <1>1
<1>3. run.req \in Slot /\ run.req < size /\ Unanswered(req.owner)
  BY <1>1, <1>2 DEF TypesInv, QueueInv, req
<1>4. req \in Request
  BY <1>3 DEF TypesInv, req
<1>5. req.owner \in Client /\ ptr[req.owner] = run.req
  BY <1>3 DEF PoolInv, req
<1>6. step[req.owner] = "sent" /\ "DONE" \notin req.flags
  BY <1>3, <1>5 DEF Unanswered, req
<1> QED BY <1>1, <1>3, <1>4, <1>5, <1>6 DEF Request

\* The queue without its last element.
LEMMA FrontWhat ==
    ASSUME NEW S, NEW q \in Seq(S), Len(q) # 0
    PROVE  /\ Front(q) \in Seq(S) /\ Len(Front(q)) = Len(q) - 1
           /\ \A i \in 1 .. Len(q) - 1 : Front(q)[i] = q[i]
BY DEF Front

\* The end of a request: it leaves the queue and is answered, and no other is.
LEMMA FinishWhat ==
    ASSUME TypesInv, PoolInv, FlagInv, QueueInv, run.at # "pick", NEW r \in Retcode, Finish(r)
    PROVE  /\ slot' \in [Slot -> Request] /\ queue' \in Seq(Slot) /\ run' \in Performer
           /\ PoolInv' /\ FlagInv' /\ QueueInv' /\ AnswersKept
           /\ run'.at = "pick" /\ run'.irb = NoIrb /\ run'.tries = 0
           /\ \A c \in Client : Succeeded(c)' => Succeeded(c) \/ (c = req.owner /\ r >= 0)
<1>1. /\ run.by # "nobody" /\ Len(queue) \in Nat /\ Len(queue) # 0
      /\ run.req = queue[Len(queue)] /\ run.req \in Slot /\ run.req < size
      /\ req \in Request /\ req.owner \in Client
      /\ ptr[req.owner] = run.req /\ step[req.owner] = "sent" /\ "DONE" \notin req.flags
  BY Performing
<1>2. /\ slot' = [slot EXCEPT ![run.req].flags = {"DONE"}, ![run.req].retcode = r]
      /\ queue' = Front(queue)
      /\ run' = IF run.by = "spooler" /\ Front(queue) = <<>> THEN Idle
                ELSE [Idle EXCEPT !.by = run.by, !.io = run.io]
      /\ UNCHANGED <<size, ptr, step>>
  BY DEF Finish, Remaining, clients
<1>3. /\ slot \in [Slot -> Request] /\ queue \in Seq(Slot) /\ run \in Performer
      /\ size \in Nat /\ step \in [Client -> {"idle", "made", "ready", "sent", "awaited"}]
  BY SlotFacts DEF TypesInv
<1>4. /\ queue' \in Seq(Slot) /\ Len(queue') = Len(queue) - 1
      /\ \A i \in 1 .. Len(queue) - 1 : queue'[i] = queue[i]
  BY <1>1, <1>2, <1>3, FrontWhat
<1>5. \A s \in Slot : s # run.req => slot'[s] = slot[s]
  BY <1>2, <1>3
<1>6. /\ slot'[run.req] \in Request /\ slot'[run.req].flags = {"DONE"}
      /\ slot'[run.req].retcode = r /\ slot'[run.req].owner = req.owner
  <2> DEFINE q == req
  <2>1. slot'[run.req] = [q EXCEPT !.flags = {"DONE"}, !.retcode = r]
    BY <1>1, <1>2, <1>3 DEF req
  <2>2. q \in Request /\ q.owner = req.owner
    BY <1>1
  <2> HIDE DEF q
  <2>3. {"DONE"} \in SUBSET Flag
    BY DEF Flag
  <2> QED BY <2>1, <2>2, <2>3 DEF Request
<1>7. slot' \in [Slot -> Request]
  <2>1. \A s \in Slot : slot'[s] \in Request
    BY <1>3, <1>5, <1>6
  <2> QED BY <1>2, <1>3, <2>1
<1>8. /\ run' \in Performer /\ run'.at = "pick" /\ run'.irb = NoIrb /\ run'.tries = 0
      /\ run'.by = "driver" <=> run.by = "driver"
  <2>1. Idle \in Performer
    BY CssAssumption DEF Idle, Performer, Place, NoIrb, Irb
  <2>2. [Idle EXCEPT !.by = run.by, !.io = run.io] \in Performer
    BY <1>3, <2>1 DEF Performer
  <2> QED BY <1>1, <1>2, <1>3, <2>1, <2>2 DEF Idle, Performer
<1>9. \A s \in Slot : slot'[s].owner = slot[s].owner
  BY <1>5, <1>6 DEF req
<1>10. PoolInv'
  BY <1>2, <1>8, <1>9, PoolStays
<1>11. \A c \in Client : ptr[c] = run.req => c = req.owner
  BY <1>1, Holds
<1>12. FlagInv'
  <2>1. \A s \in Slot : s >= size' => "DONE" \notin slot'[s].flags
    BY <1>1, <1>2, <1>3, <1>5, SlotFacts DEF FlagInv
  <2>2. ASSUME NEW c \in Client, step[c] \in {"made", "ready", "awaited"}
        PROVE  slot'[ptr'[c]] = slot[ptr[c]]
    <3>1. ptr[c] \in Slot
      BY <2>2, Holds
    <3>2. ptr[c] # run.req
      BY <1>1, <1>11, <2>2
    <3> QED BY <1>2, <1>5, <3>1, <3>2
  <2> QED BY <1>2, <2>1, <2>2 DEF FlagInv
<1>13. \A c \in Client : step[c] \in {"sent", "awaited"} /\ c # req.owner
          => ptr'[c] = ptr[c] /\ slot'[ptr'[c]] = slot[ptr[c]] /\ step'[c] = step[c]
  <2> TAKE c \in Client
  <2> HAVE step[c] \in {"sent", "awaited"} /\ c # req.owner
  <2>1. ptr[c] \in Slot
    BY Holds
  <2>2. ptr[c] # run.req
    BY <1>11
  <2> QED BY <1>2, <1>5, <2>1, <2>2
<1>14. AnswersKept
  <2>1. \A c \in Client : Answered(c) => c # req.owner /\ step[c] \in {"sent", "awaited"}
    BY <1>1 DEF Answered, req
  <2> QED BY <1>13, <2>1, AnswersStay
<1>15. \A c \in Client : Unanswered(c)' <=> Unanswered(c) /\ c # req.owner
  <2> TAKE c \in Client
  <2>1. CASE c = req.owner
    BY <1>1, <1>2, <1>6, <2>1 DEF Unanswered
  <2>2. CASE c # req.owner
    BY <1>2, <1>13, <2>2 DEF Unanswered
  <2> QED BY <2>1, <2>2
<1>16. QueueInv'
  <2>1. \A i, k \in 1 .. Len(queue') : queue'[i] = queue'[k] => i = k
    <3>1. \A i, k \in 1 .. Len(queue) : queue[i] = queue[k] => i = k
      BY DEF QueueInv
    <3>2. \A i \in 1 .. Len(queue') : i \in 1 .. Len(queue) /\ queue'[i] = queue[i]
      BY <1>1, <1>4
    <3> QED BY <3>1, <3>2, Zenon
  <2>2. \A i \in 1 .. Len(queue') : queue'[i] < size' /\ (Unanswered(slot[queue[i]].owner))'
    <3> TAKE i \in 1 .. Len(queue')
    <3>1. i \in 1 .. Len(queue) /\ i # Len(queue) /\ queue'[i] = queue[i]
      BY <1>1, <1>4
    <3>2. queue[i] \in Slot /\ queue[i] < size /\ Unanswered(slot[queue[i]].owner)
      BY <1>3, <3>1 DEF QueueInv
    <3>3. queue[i] # run.req
      BY <1>1, <3>1 DEF QueueInv
    <3>4. slot[queue[i]].owner \in Client /\ ptr[slot[queue[i]].owner] = queue[i]
      BY <3>2 DEF PoolInv
    <3>5. PICK c \in Client : c = slot[queue[i]].owner /\ ptr[c] = queue[i]
      BY <3>4
    <3>6. Unanswered(c)'
      BY <1>1, <1>15, <3>2, <3>3, <3>5
    <3>7. c = (slot[queue[i]].owner)'
      BY <1>9, <3>1, <3>2, <3>5
    <3> QED BY <1>2, <3>1, <3>2, <3>6, <3>7 DEF Unanswered
  <2>3. \A c \in Client : Unanswered(c)' => \E i \in 1 .. Len(queue') : queue'[i] = ptr'[c]
    <3> SUFFICES ASSUME NEW c \in Client, Unanswered(c)'
                 PROVE  \E i \in 1 .. Len(queue') : queue'[i] = ptr'[c]
      OBVIOUS
    <3>1. Unanswered(c) /\ c # req.owner
      BY <1>15
    <3>2. PICK i \in 1 .. Len(queue) : queue[i] = ptr[c]
      BY <3>1 DEF QueueInv
    <3>3. i # Len(queue)
      BY <1>1, <1>11, <3>1, <3>2
    <3>4. i \in 1 .. Len(queue') /\ queue'[i] = ptr'[c]
      BY <1>1, <1>2, <1>4, <3>2, <3>3
    <3> QED BY <3>4
  <2> QED BY <1>8, <2>1, <2>2, <2>3 DEF QueueInv
<1>17. \A c \in Client : Succeeded(c)' => Succeeded(c) \/ (c = req.owner /\ r >= 0)
  <2> TAKE c \in Client
  <2>1. CASE c = req.owner
    BY <1>1, <1>2, <1>6, <2>1 DEF Succeeded
  <2>2. CASE c # req.owner
    BY <1>2, <1>13, <2>2 DEF Succeeded, Answered
  <2> QED BY <2>1, <2>2
<1> QED BY <1>4, <1>7, <1>8, <1>10, <1>12, <1>14, <1>16, <1>17

\* While no request waits for its device, a step that starts nothing and lets
\* no device tell of a program keeps LateInv.
LEMMA LateQuiet ==
    ASSUME LateInv, late => late', run.at \notin {"wait", "end"},
           \A d \in Devices : chan'[d].program # NoProgram => chan[d].program # NoProgram,
           \A d \in Devices : chan'[d].pending /\ chan'[d].irb.cpa # Elsewhere
               => chan[d].pending /\ chan[d].irb.cpa # Elsewhere,
           run'.irb.cpa \in {run.irb.cpa, Elsewhere},
           \A c \in Client : Succeeded(c)' =>
               fate'[c] = "completed" \/ (Succeeded(c) /\ fate'[c] = fate[c])
    PROVE  LateInv'
<1> SUFFICES ASSUME ~late' PROVE LateInv'
  BY DEF LateInv
<1>1. ~late
  OBVIOUS
<1>2. \A d \in Devices : chan'[d].program = NoProgram
  BY <1>1 DEF LateInv
<1>3. \A d \in Devices : ~(chan'[d].pending /\ chan'[d].irb.cpa # Elsewhere)
  BY <1>1 DEF LateInv
<1>4. run'.irb.cpa = Elsewhere
  BY <1>1 DEF LateInv
<1>5. \A c \in Client : Succeeded(c)' => fate'[c] = "completed"
  BY <1>1 DEF LateInv
<1>6. NoProgram' = NoProgram /\ Elsewhere' = Elsewhere
  BY DEF NoProgram, Elsewhere, NoCcws
<1> QED BY <1>2, <1>3, <1>4, <1>5, <1>6 DEF LateInv

\* What one client does to its own request changes no other client's.
LEMMA OthersStay ==
    ASSUME TypesInv, PoolInv, NEW c \in Client,
           \A d \in Client : d # c => ptr'[d] = ptr[d] /\ step'[d] = step[d],
           \A s \in Slot : s < size /\ s # ptr[c] => slot'[s] = slot[s]
    PROVE  \A d \in Client : d # c =>
              /\ Unanswered(d)' <=> Unanswered(d)
              /\ Succeeded(d)' <=> Succeeded(d)
              /\ Answered(d) => Answered(d)' /\ slot'[ptr'[d]].retcode = slot[ptr[d]].retcode
              /\ step[d] # "idle" => slot'[ptr[d]] = slot[ptr[d]]
<1> SUFFICES ASSUME NEW d \in Client, d # c
             PROVE  /\ Unanswered(d)' <=> Unanswered(d)
                    /\ Succeeded(d)' <=> Succeeded(d)
                    /\ Answered(d) => Answered(d)' /\ slot'[ptr'[d]].retcode = slot[ptr[d]].retcode
                    /\ step[d] # "idle" => slot'[ptr[d]] = slot[ptr[d]]
  OBVIOUS
<1>1. CASE step[d] = "idle"
  BY <1>1 DEF Unanswered, Succeeded, Answered
<1>2. CASE step[d] # "idle"
  <2>1. ptr[d] \in Slot /\ ptr[d] < size
    BY <1>2, Holds
  <2>2. ptr[d] # ptr[c]
    BY <1>2, Holds
  <2>3. slot'[ptr[d]] = slot[ptr[d]]
    BY <2>1, <2>2
  <2> QED BY <2>3 DEF Unanswered, Succeeded, Answered
<1> QED BY <1>1, <1>2

\* No request is performed while a client has the CPU.
LEMMA CpuFreeWhat ==
    ASSUME PoolInv, QueueInv, CpuFree
    PROVE  run.at = "pick" /\ run.by = "nobody" /\ step[Driver] = "idle"
BY DEF CpuFree, QueueInv, PoolInv

\* A step of a client that leaves the performer and the devices alone.
LEMMA ClientLate ==
    ASSUME LateInv, run.at = "pick", UNCHANGED <<run, chan, fate, late>>,
           \A c \in Client : Succeeded(c)' => Succeeded(c)
    PROVE  LateInv'
BY LateQuiet

\* SVC_CSS_REQ_CREAT
LEMMA CreateInv ==
    ASSUME CssInv, NEW c \in Users, Create(c)
    PROVE  CssInv' /\ AnswersKept
<1> USE DEF CssInv
<1>1. c \in Client /\ c # Driver
  BY CssAssumption DEF Client
<1>2. run.at = "pick" /\ run.by = "nobody"
  BY CpuFreeWhat DEF Create
<1>3. /\ step[c] = "idle" /\ size < MaxPool
      /\ size' = size + 1 /\ ptr' = [ptr EXCEPT ![c] = size] /\ step' = [step EXCEPT ![c] = "made"]
      /\ UNCHANGED <<queue, run, is_io_fire, chan, attentions, fate, late>>
  BY DEF Create, Inserted, devices
<1>4. PICK d \in Devices : slot' = Created(c, d)
  BY DEF Create
<1>5. /\ size \in Slot /\ slot' \in [Slot -> Request] /\ slot'[size].owner = c
      /\ slot'[size].flags = slot[size].flags
      /\ \A s \in Slot : s # size => slot'[s] = slot[s]
  BY <1>1, <1>3, <1>4, CreatedWhat
<1>6. TypesInv'
  <2>1. size' \in 0 .. MaxPool
    BY <1>3, SlotFacts DEF TypesInv
  <2>2. ptr' \in [Client -> Slot \cup {NoSlot}]
    BY <1>3, <1>5 DEF TypesInv
  <2>3. step' \in [Client -> {"idle", "made", "ready", "sent", "awaited"}]
    BY <1>3 DEF TypesInv
  <2> QED BY <1>3, <1>5, <2>1, <2>2, <2>3 DEF TypesInv
<1>7. "DONE" \notin slot'[size].flags
  BY <1>5, SlotFacts DEF FlagInv
<1>8. PoolInv' /\ FlagInv'
  BY <1>1, <1>2, <1>3, <1>5, <1>6, <1>7, Insertion
<1>9. ptr[c] = NoSlot /\ ptr \in [Client -> Slot \cup {NoSlot}]
      /\ step \in [Client -> {"idle", "made", "ready", "sent", "awaited"}]
      /\ size \in Nat /\ size' \in Nat
  BY <1>1, <1>3, SlotFacts DEF PoolInv, TypesInv
<1>10. /\ \A x \in Client : x # c => ptr'[x] = ptr[x] /\ step'[x] = step[x]
       /\ \A s \in Slot : s < size /\ s # ptr[c] => slot'[s] = slot[s]
       /\ step'[c] = "made"
  BY <1>1, <1>3, <1>5, <1>9
<1>11. \A x \in Client : x # c =>
          /\ Unanswered(x)' <=> Unanswered(x)
          /\ Succeeded(x)' <=> Succeeded(x)
          /\ Answered(x) => Answered(x)' /\ slot'[ptr'[x]].retcode = slot[ptr[x]].retcode
          /\ step[x] # "idle" => slot'[ptr[x]] = slot[ptr[x]]
  BY <1>1, <1>10, OthersStay
<1>12. ~Unanswered(c) /\ ~Unanswered(c)' /\ ~Answered(c) /\ ~Succeeded(c) /\ ~Succeeded(c)'
  BY <1>3, <1>10 DEF Unanswered, Answered, Succeeded
<1>13. QueueInv'
  <2>1. \A x \in Client : Unanswered(x)' <=> Unanswered(x)
    BY <1>11, <1>12
  <2>2. ASSUME NEW x \in Client, Unanswered(x)
        PROVE  /\ ptr'[x] = ptr[x] /\ ptr[x] < size' /\ slot'[ptr[x]].owner = slot[ptr[x]].owner
    <3>1. x # c /\ step[x] # "idle"
      BY <1>12, <2>2 DEF Unanswered
    <3>2. ptr[x] < size /\ ptr[x] \in Nat
      BY <3>1, Holds
    <3> QED BY <1>3, <1>9, <1>10, <1>11, <3>1, <3>2
  <2> QED BY <1>2, <1>3, <1>9, <2>1, <2>2, QueueStays
<1>14. AnswersKept
  BY <1>11, <1>12 DEF AnswersKept
<1>15. LateInv'
  BY <1>2, <1>3, <1>11, <1>12, ClientLate
<1> QED BY <1>6, <1>8, <1>13, <1>14, <1>15

\* SVC_CSS_REQ_XCHG_FLAGS
LEMMA SetFlagsInv ==
    ASSUME CssInv, NEW c \in Users, SetFlags(c)
    PROVE  CssInv' /\ AnswersKept
<1> USE DEF CssInv
<1>1. c \in Client /\ c # Driver
  BY CssAssumption DEF Client
<1>2. run.at = "pick" /\ run.by = "nobody"
  BY CpuFreeWhat DEF SetFlags
<1>3. /\ step[c] = "made" /\ step' = [step EXCEPT ![c] = "ready"]
      /\ UNCHANGED <<size, queue, ptr, run, is_io_fire, chan, attentions, fate, late>>
  BY DEF SetFlags, devices
<1>4. PICK f \in Asks : slot' = [slot EXCEPT ![ptr[c]].flags = f]
  BY DEF SetFlags
<1>5. /\ ptr[c] \in Slot /\ ptr[c] < size /\ slot[ptr[c]] \in Request
      /\ f \in SUBSET Flag /\ "DONE" \notin f
  BY <1>1, <1>3, Holds, CssAssumption DEF Flag
<1>6. /\ slot \in [Slot -> Request] /\ ptr \in [Client -> Slot \cup {NoSlot}]
      /\ step \in [Client -> {"idle", "made", "ready", "sent", "awaited"}]
      /\ size \in Nat
  BY SlotFacts DEF TypesInv
<1>7. /\ slot'[ptr[c]] = [slot[ptr[c]] EXCEPT !.flags = f]
      /\ \A s \in Slot : s # ptr[c] => slot'[s] = slot[s]
  BY <1>4, <1>5, <1>6
<1>8. /\ slot'[ptr[c]] \in Request /\ slot'[ptr[c]].flags = f
      /\ slot'[ptr[c]].owner = slot[ptr[c]].owner
  BY <1>5, <1>7 DEF Request
<1>9. slot' \in [Slot -> Request]
  <2>1. \A s \in Slot : slot'[s] \in Request
    BY <1>6, <1>7, <1>8
  <2> QED BY <1>4, <1>6, <2>1
<1>10. TypesInv'
  <2>1. step' \in [Client -> {"idle", "made", "ready", "sent", "awaited"}]
    BY <1>3, <1>6
  <2> QED BY <1>3, <1>9, <2>1 DEF TypesInv
<1>11. /\ step'[c] = "ready"
       /\ \A x \in Client : x # c => ptr'[x] = ptr[x] /\ step'[x] = step[x]
  BY <1>1, <1>3, <1>6
<1>12. \A x \in Client : x # c =>
          /\ Unanswered(x)' <=> Unanswered(x)
          /\ Succeeded(x)' <=> Succeeded(x)
          /\ Answered(x) => Answered(x)' /\ slot'[ptr'[x]].retcode = slot[ptr[x]].retcode
          /\ step[x] # "idle" => slot'[ptr[x]] = slot[ptr[x]]
  BY <1>1, <1>7, <1>11, OthersStay
<1>13. ~Unanswered(c) /\ ~Unanswered(c)' /\ ~Answered(c) /\ ~Succeeded(c) /\ ~Succeeded(c)'
  BY <1>3, <1>11 DEF Unanswered, Answered, Succeeded
<1>14. PoolInv'
  <2>1. \A s \in Slot : slot'[s].owner = slot[s].owner
    BY <1>7, <1>8
  <2>2. \A x \in Client : step'[x] = "idle" <=> step[x] = "idle"
    BY <1>3, <1>11
  <2>3. step'[Driver] = step[Driver]
    BY <1>1, <1>11 DEF Client
  <2> QED BY <1>3, <2>1, <2>2, <2>3, PoolStays
<1>15. FlagInv'
  <2>1. \A s \in Slot : s >= size' => "DONE" \notin slot'[s].flags
    BY <1>3, <1>5, <1>7, <1>8 DEF FlagInv
  <2>2. \A x \in Client : /\ step'[x] \in {"made", "ready"} => "DONE" \notin slot'[ptr'[x]].flags
                          /\ step'[x] = "awaited" => "DONE" \in slot'[ptr'[x]].flags
    <3> TAKE x \in Client
    <3>1. CASE x = c
      BY <1>3, <1>5, <1>8, <1>11, <3>1
    <3>2. CASE x # c
      BY <1>11, <1>12, <3>2 DEF FlagInv
    <3> QED BY <3>1, <3>2
  <2> QED BY <2>1, <2>2 DEF FlagInv
<1>16. QueueInv'
  <2>1. \A x \in Client : Unanswered(x)' <=> Unanswered(x)
    BY <1>12, <1>13
  <2>2. ASSUME NEW x \in Client, Unanswered(x)
        PROVE  /\ ptr'[x] = ptr[x] /\ ptr[x] < size' /\ slot'[ptr[x]].owner = slot[ptr[x]].owner
    <3>1. x # c /\ step[x] # "idle"
      BY <1>13, <2>2 DEF Unanswered
    <3>2. ptr[x] < size
      BY <3>1, Holds
    <3> QED BY <1>3, <1>11, <1>12, <3>1, <3>2
  <2> QED BY <1>2, <1>3, <1>6, <2>1, <2>2, QueueStays
<1>17. AnswersKept
  BY <1>12, <1>13 DEF AnswersKept
<1>18. LateInv'
  BY <1>2, <1>3, <1>12, <1>13, ClientLate
<1> QED BY <1>10, <1>14, <1>15, <1>16, <1>17, <1>18

\* A request joins the queue, of which it was no element.
LEMMA Queued ==
    ASSUME TypesInv, PoolInv, QueueInv, TypesInv', PoolInv', NEW c \in Client, NEW s \in Slot,
           queue' = Append(queue, s), ptr'[c] = s, Unanswered(c)', ~Unanswered(c),
           run'.at = "pick", size' \in Nat, s < size',
           \A x \in Client : x # c => (Unanswered(x)' <=> Unanswered(x)),
           \A x \in Client : Unanswered(x) =>
               ptr'[x] = ptr[x] /\ ptr[x] < size' /\ slot'[ptr[x]].owner = slot[ptr[x]].owner
    PROVE  QueueInv'
<1>1. /\ queue \in Seq(Slot) /\ Len(queue) \in Nat /\ Len(queue') = Len(queue) + 1
      /\ queue'[Len(queue) + 1] = s
      /\ \A i \in 1 .. Len(queue) : queue'[i] = queue[i]
  BY DEF TypesInv
<1>2. ASSUME NEW i \in 1 .. Len(queue)
      PROVE  \E x \in Client : /\ x = slot[queue[i]].owner /\ ptr[x] = queue[i] /\ Unanswered(x)
                               /\ queue[i] \in Slot
  BY DEF TypesInv, PoolInv, QueueInv
<1>3. \A i \in 1 .. Len(queue) : queue[i] # s
  <2> TAKE i \in 1 .. Len(queue)
  <2>1. PICK x \in Client : x = slot[queue[i]].owner /\ ptr[x] = queue[i] /\ Unanswered(x)
    BY <1>2
  <2>2. x # c /\ ptr'[x] = queue[i] /\ Unanswered(x)'
    BY <2>1
  <2>3. step'[x] # "idle" /\ step'[c] # "idle"
    BY <2>2 DEF Unanswered
  <2>4. slot'[ptr'[x]].owner = x /\ slot'[ptr'[c]].owner = c
    BY <2>3 DEF PoolInv
  <2> QED BY <2>2, <2>4
<1>4. \A i, k \in 1 .. Len(queue') : queue'[i] = queue'[k] => i = k
  <2>1. \A i \in 1 .. Len(queue') : i \in 1 .. Len(queue) \/ i = Len(queue) + 1
    BY <1>1
  <2> QED BY <1>1, <1>3, <2>1 DEF QueueInv
<1>5. \A i \in 1 .. Len(queue') : queue'[i] < size' /\ (Unanswered(slot[queue[i]].owner))'
  <2> TAKE i \in 1 .. Len(queue')
  <2>1. CASE i = Len(queue) + 1
    <3>1. queue'[i] = s
      BY <1>1, <2>1
    <3>2. slot'[s].owner = c
      <4>1. step'[c] # "idle"
        BY DEF Unanswered
      <4> QED BY <4>1 DEF PoolInv
    <3> QED BY <3>1, <3>2 DEF Unanswered
  <2>2. CASE i # Len(queue) + 1
    <3>1. i \in 1 .. Len(queue) /\ queue'[i] = queue[i]
      BY <1>1, <2>2
    <3>2. PICK x \in Client : x = slot[queue[i]].owner /\ ptr[x] = queue[i] /\ Unanswered(x)
      BY <1>2, <3>1
    <3>3. Unanswered(x)' /\ queue[i] < size' /\ slot'[queue[i]].owner = x
      BY <3>2
    <3> QED BY <3>1, <3>3 DEF Unanswered
  <2> QED BY <2>1, <2>2
<1>6. \A x \in Client : Unanswered(x)' => \E i \in 1 .. Len(queue') : queue'[i] = ptr'[x]
  <2> TAKE x \in Client
  <2>1. CASE x = c
    <3>1. Len(queue) + 1 \in 1 .. Len(queue') /\ queue'[Len(queue) + 1] = ptr'[x]
      BY <1>1, <2>1
    <3> QED BY <3>1
  <2>2. CASE x # c
    <3> HAVE Unanswered(x)'
    <3>1. Unanswered(x) /\ ptr'[x] = ptr[x]
      BY <2>2
    <3>2. PICK i \in 1 .. Len(queue) : queue[i] = ptr[x]
      BY <3>1 DEF QueueInv
    <3>3. i \in 1 .. Len(queue') /\ queue'[i] = ptr'[x]
      BY <1>1, <3>1, <3>2
    <3> QED BY <3>3
  <2> QED BY <2>1, <2>2
<1> QED BY <1>4, <1>5, <1>6 DEF QueueInv

\* SVC_CSS_REQ_SEND
LEMMA SendInv ==
    ASSUME CssInv, NEW c \in Users, Send(c)
    PROVE  CssInv' /\ AnswersKept
<1> USE DEF CssInv
<1>1. c \in Client /\ c # Driver
  BY CssAssumption DEF Client
<1>2. run.at = "pick" /\ run.by = "nobody"
  BY CpuFreeWhat DEF Send
<1>3. /\ step[c] \in {"made", "ready"} /\ step' = [step EXCEPT ![c] = "sent"]
      /\ queue' = Append(queue, ptr[c])
      /\ UNCHANGED <<slot, size, ptr, run, is_io_fire, chan, attentions, fate, late>>
  BY DEF Send, devices
<1>4. /\ ptr[c] \in Slot /\ ptr[c] < size /\ "DONE" \notin slot[ptr[c]].flags
  BY <1>1, <1>3, Holds DEF FlagInv
<1>5. /\ queue \in Seq(Slot) /\ size \in Nat
      /\ step \in [Client -> {"idle", "made", "ready", "sent", "awaited"}]
  BY SlotFacts DEF TypesInv
<1>6. /\ step'[c] = "sent"
      /\ \A x \in Client : x # c => ptr'[x] = ptr[x] /\ step'[x] = step[x]
  BY <1>1, <1>3, <1>5
<1>7. TypesInv'
  <2>1. step' \in [Client -> {"idle", "made", "ready", "sent", "awaited"}]
    BY <1>3, <1>5
  <2>2. queue' \in Seq(Slot)
    BY <1>3, <1>4, <1>5
  <2> QED BY <1>3, <2>1, <2>2 DEF TypesInv
<1>8. PoolInv'
  <2>1. \A x \in Client : step'[x] = "idle" <=> step[x] = "idle"
    BY <1>3, <1>6
  <2>2. step'[Driver] = step[Driver]
    BY <1>1, <1>6 DEF Client
  <2> QED BY <1>3, <2>1, <2>2, PoolStays
<1>9. FlagInv'
  <2>1. \A x \in Client : /\ step'[x] \in {"made", "ready"} => step[x] \in {"made", "ready"}
                          /\ step'[x] = "awaited" => step[x] = "awaited"
    BY <1>6
  <2> QED BY <1>3, <2>1 DEF FlagInv
<1>10. \A x \in Client : x # c =>
          /\ Unanswered(x)' <=> Unanswered(x)
          /\ Succeeded(x)' <=> Succeeded(x)
          /\ Answered(x) => Answered(x)' /\ slot'[ptr'[x]].retcode = slot[ptr[x]].retcode
  BY <1>1, <1>3, <1>6, OthersStay
<1>11. /\ ~Unanswered(c) /\ Unanswered(c)' /\ ~Answered(c) /\ ~Succeeded(c) /\ ~Succeeded(c)'
  BY <1>3, <1>4, <1>6 DEF Unanswered, Answered, Succeeded
<1>12. QueueInv'
  <2>1. \A x \in Client : Unanswered(x) =>
            ptr'[x] = ptr[x] /\ ptr[x] < size' /\ slot'[ptr[x]].owner = slot[ptr[x]].owner
    BY <1>3, Holds DEF Unanswered
  <2> QED BY <1>1, <1>2, <1>3, <1>4, <1>5, <1>7, <1>8, <1>10, <1>11, <2>1, Queued
<1>13. AnswersKept
  BY <1>10, <1>11 DEF AnswersKept
<1>14. LateInv'
  BY <1>2, <1>3, <1>10, <1>11, ClientLate
<1> QED BY <1>7, <1>8, <1>9, <1>12, <1>13, <1>14

\* SVC_CSS_REQ_AWAIT
LEMMA AwaitInv ==
    ASSUME CssInv, NEW c \in Users, Await(c)
    PROVE  CssInv' /\ AnswersKept
<1> USE DEF CssInv
<1>1. c \in Client /\ c # Driver
  BY CssAssumption DEF Client
<1>2. run.at = "pick" /\ run.by = "nobody"
  BY CpuFreeWhat DEF Await
<1>3. /\ step[c] = "sent" /\ "DONE" \in slot[ptr[c]].flags
      /\ step' = [step EXCEPT ![c] = "awaited"]
      /\ UNCHANGED <<slot, size, queue, ptr, run, is_io_fire, chan, attentions, fate, late>>
  BY DEF Await, devices
<1>4. size \in Nat /\ step \in [Client -> {"idle", "made", "ready", "sent", "awaited"}]
  BY SlotFacts DEF TypesInv
<1>5. /\ step'[c] = "awaited"
      /\ \A x \in Client : x # c => ptr'[x] = ptr[x] /\ step'[x] = step[x]
  BY <1>1, <1>3, <1>4
<1>6. TypesInv'
  <2>1. step' \in [Client -> {"idle", "made", "ready", "sent", "awaited"}]
    BY <1>3, <1>4
  <2> QED BY <1>3, <2>1 DEF TypesInv
<1>7. PoolInv'
  <2>1. \A x \in Client : step'[x] = "idle" <=> step[x] = "idle"
    BY <1>3, <1>5
  <2>2. step'[Driver] = step[Driver]
    BY <1>1, <1>5 DEF Client
  <2> QED BY <1>3, <2>1, <2>2, PoolStays
<1>8. FlagInv'
  <2>1. \A x \in Client : /\ step'[x] \in {"made", "ready"} => step[x] \in {"made", "ready"}
                          /\ step'[x] = "awaited" => step[x] = "awaited" \/ x = c
    BY <1>5
  <2> QED BY <1>3, <2>1 DEF FlagInv
<1>9. \A x \in Client :
          /\ Unanswered(x)' <=> Unanswered(x)
          /\ Succeeded(x)' <=> Succeeded(x)
          /\ Answered(x) => Answered(x)' /\ slot'[ptr'[x]].retcode = slot[ptr[x]].retcode
  BY <1>3, <1>5 DEF Unanswered, Succeeded, Answered
<1>10. QueueInv'
  <2>1. \A x \in Client : Unanswered(x) =>
            ptr'[x] = ptr[x] /\ ptr[x] < size' /\ slot'[ptr[x]].owner = slot[ptr[x]].owner
    BY <1>3, Holds DEF Unanswered
  <2> QED BY <1>2, <1>3, <1>4, <1>9, <2>1, QueueStays
<1>11. AnswersKept
  BY <1>9 DEF AnswersKept
<1>12. LateInv'
  BY <1>2, <1>3, <1>9, ClientLate
<1> QED BY <1>6, <1>7, <1>8, <1>10, <1>11, <1>12

\* Taking the programs of a client for nobody's starts none.
LEMMA ForgetWhat ==
    ASSUME TypesInv, NEW c \in Client
    PROVE  /\ Forget(c) \in [Devices -> Subchannel]
           /\ \A d \in Devices : /\ Forget(c)[d].pending = chan[d].pending
                                 /\ Forget(c)[d].irb = chan[d].irb
                                 /\ chan[d].program = NoProgram => Forget(c)[d] = chan[d]
<1> SUFFICES ASSUME NEW d \in Devices
             PROVE  /\ Forget(c)[d] \in Subchannel
                    /\ Forget(c)[d].pending = chan[d].pending
                    /\ Forget(c)[d].irb = chan[d].irb
                    /\ chan[d].program = NoProgram => Forget(c)[d] = chan[d]
  BY DEF Forget
<1>1. chan[d] \in Subchannel
  BY DEF TypesInv
<1>2. CASE chan[d].program.owner = c
  <2>1. Forget(c)[d] = [chan[d] EXCEPT !.program.owner = Nobody]
    BY <1>2 DEF Forget
  <2>2. chan[d].program # NoProgram
    BY <1>2, CssAssumption DEF NoProgram
  <2>3. chan[d].program \in Program /\ [chan[d].program EXCEPT !.owner = Nobody] \in Program
    BY <1>1 DEF Subchannel, Program
  <2>4. Forget(c)[d] = [chan[d] EXCEPT !.program = [chan[d].program EXCEPT !.owner = Nobody]]
    BY <2>1
  <2> QED BY <1>1, <2>2, <2>3, <2>4 DEF Subchannel
<1>3. CASE chan[d].program.owner # c
  <2>1. Forget(c)[d] = chan[d]
    BY <1>3 DEF Forget
  <2> QED BY <1>1, <2>1
<1> QED BY <1>2, <1>3

\* What destroying the last request does to the queue, the answers and LateInv.
LEMMA RemovalRest ==
    ASSUME CssInv, NEW c \in Client, ~Unanswered(c), step[c] # "idle", run.at = "pick",
           run'.at = "pick", run'.irb.cpa \in {run.irb.cpa, Elsewhere}, UNCHANGED <<queue, late>>,
           size' = size - 1, ptr[c] = size - 1, step'[c] = "idle", ptr'[c] = NoSlot,
           \A s \in Slot : s # ptr[c] => slot'[s] = slot[s],
           \A d \in Client : d # c => ptr'[d] = ptr[d] /\ step'[d] = step[d] /\ fate'[d] = fate[d],
           \A d \in Devices : /\ chan'[d].pending = chan[d].pending
                              /\ chan'[d].irb = chan[d].irb
                              /\ chan[d].program = NoProgram => chan'[d].program = NoProgram
    PROVE  QueueInv' /\ LateInv' /\ AnswersKept
<1> USE DEF CssInv
<1>1. \A x \in Client : x # c =>
          /\ Unanswered(x)' <=> Unanswered(x)
          /\ Succeeded(x)' <=> Succeeded(x)
          /\ Answered(x) => Answered(x)' /\ slot'[ptr'[x]].retcode = slot[ptr[x]].retcode
          /\ step[x] # "idle" => slot'[ptr[x]] = slot[ptr[x]]
  BY OthersStay
<1>2. ~Unanswered(c)' /\ ~Succeeded(c)'
  BY DEF Unanswered, Succeeded, Answered
<1>3. /\ size \in Nat /\ ptr[c] \in Nat /\ size' \in Nat
      /\ \A x \in Client : ptr[x] = ptr[c] => x = c
  BY Holds, SlotFacts DEF TypesInv
<1>4. QueueInv'
  <2>1. \A x \in Client : Unanswered(x)' <=> Unanswered(x)
    BY <1>1, <1>2
  <2>2. ASSUME NEW x \in Client, Unanswered(x)
        PROVE  /\ ptr'[x] = ptr[x] /\ ptr[x] < size' /\ slot'[ptr[x]].owner = slot[ptr[x]].owner
    <3>1. x # c /\ step[x] # "idle"
      BY <2>2 DEF Unanswered
    <3>2. ptr[x] < size /\ ptr[x] \in Nat /\ ptr[x] # ptr[c]
      BY <1>3, <3>1, Holds
    <3> QED BY <1>1, <1>3, <3>1, <3>2
  <2> QED BY <1>3, <2>1, <2>2, QueueStays
<1>5. AnswersKept
  BY <1>1 DEF AnswersKept
<1>6. LateInv'
  <2>1. \A x \in Client : Succeeded(x)' => Succeeded(x) /\ fate'[x] = fate[x]
    BY <1>1, <1>2
  <2>2. \A d \in Devices : /\ chan'[d].program # NoProgram => chan[d].program # NoProgram
                           /\ chan'[d].pending = chan[d].pending /\ chan'[d].irb = chan[d].irb
    OBVIOUS
  <2> QED BY <2>1, <2>2, LateQuiet
<1> QED BY <1>4, <1>5, <1>6

\* SVC_CSS_REQ_DELETE: with InOrder the request is the last of the pool.
LEMMA DeleteInv ==
    ASSUME Orderly, CssInv, NEW c \in Users, Delete(c)
    PROVE  CssInv' /\ AnswersKept
<1> USE DEF CssInv
<1>1. c \in Client /\ c # Driver
  BY CssAssumption DEF Client
<1>2. run.at = "pick" /\ run.by = "nobody"
  BY CpuFreeWhat DEF Delete
<1>3. /\ step[c] = "awaited" /\ Destroy(c) /\ chan' = Forget(c)
      /\ \A d \in Client \ {c} : ptr[d] = NoSlot \/ ptr[d] < ptr[c]
      /\ UNCHANGED <<queue, run, is_io_fire, attentions, late>>
  BY DEF Delete, MayDelete, Orderly
<1>4. ptr[c] = size - 1
  <2>1. ptr[c] \in Slot /\ ptr[c] \in Nat /\ ptr[c] < size /\ size \in Nat
    BY <1>1, <1>3, Holds, SlotFacts DEF TypesInv
  <2>2. size - 1 \in Slot /\ size - 1 < size
    <3>1. size <= MaxPool /\ MaxPool \in Nat
      BY SlotFacts DEF TypesInv
    <3>2. size - 1 \in Nat /\ size - 1 < MaxPool /\ size - 1 < size
      BY <2>1, <3>1
    <3> QED BY <3>2, SlotFacts
  <2>3. PICK d \in Client : ptr[d] = size - 1
    BY <2>2 DEF PoolInv
  <2>4. d = c \/ ptr[d] < ptr[c]
    BY <1>3, <2>2, <2>3, SlotFacts
  <2> QED BY <2>1, <2>3, <2>4
<1>5. /\ slot' \in [Slot -> Request] /\ size' \in 0 .. MaxPool
      /\ ptr' \in [Client -> Slot \cup {NoSlot}]
      /\ step' \in [Client -> {"idle", "made", "ready", "sent", "awaited"}]
      /\ fate' \in [Client -> {"none", "completed"}]
      /\ PoolInv' /\ FlagInv'
      /\ size' = size - 1 /\ step'[c] = "idle" /\ ptr'[c] = NoSlot
      /\ \A s \in Slot : s # ptr[c] => slot'[s] = slot[s]
      /\ \A d \in Client : d # c => ptr'[d] = ptr[d] /\ step'[d] = step[d] /\ fate'[d] = fate[d]
  BY <1>1, <1>2, <1>3, <1>4, Removal
<1>6. /\ chan' \in [Devices -> Subchannel]
      /\ \A d \in Devices : /\ chan'[d].pending = chan[d].pending
                            /\ chan'[d].irb = chan[d].irb
                            /\ chan[d].program = NoProgram => chan'[d].program = NoProgram
  BY <1>1, <1>3, ForgetWhat
<1>7. TypesInv'
  BY <1>3, <1>5, <1>6 DEF TypesInv
<1>8. ~Unanswered(c)
  BY <1>3 DEF Unanswered
<1>9. QueueInv' /\ LateInv' /\ AnswersKept
  BY <1>1, <1>2, <1>3, <1>4, <1>5, <1>6, <1>8, RemovalRest
<1> QED BY <1>5, <1>7, <1>9

\* The destroy of the driver: nobody has made a request after its own.
LEMMA DriverReturnInv ==
    ASSUME CssInv, DriverReturn
    PROVE  CssInv' /\ AnswersKept
<1> USE DEF CssInv
<1>1. Driver \in Client
  BY DEF Client
<1>2. /\ run.by = "driver" /\ run.at = "pick" /\ "DONE" \in slot[ptr[Driver]].flags
      /\ Destroy(Driver) /\ run' = Idle
      /\ chan' = [d \in Devices |-> [Forget(Driver)[d] EXCEPT !.interrupt = FALSE]]
      /\ is_io_fire' = (is_io_fire \/ \E d \in Devices : chan[d].interrupt)
      /\ UNCHANGED <<queue, attentions, late>>
  BY DEF DriverReturn
<1>3. step[Driver] = "sent" /\ ptr[Driver] = size - 1
  BY <1>2 DEF PoolInv
<1>4. /\ run' \in Performer /\ run'.at = "pick" /\ run'.by = "nobody" /\ run'.irb.cpa = Elsewhere
      /\ run'.tries = 0
  BY <1>2, CssAssumption DEF Idle, Performer, Place, NoIrb, Irb
<1>5. /\ slot' \in [Slot -> Request] /\ size' \in 0 .. MaxPool
      /\ ptr' \in [Client -> Slot \cup {NoSlot}]
      /\ step' \in [Client -> {"idle", "made", "ready", "sent", "awaited"}]
      /\ fate' \in [Client -> {"none", "completed"}]
      /\ PoolInv' /\ FlagInv'
      /\ size' = size - 1 /\ step'[Driver] = "idle" /\ ptr'[Driver] = NoSlot
      /\ \A s \in Slot : s # ptr[Driver] => slot'[s] = slot[s]
      /\ \A d \in Client : d # Driver => ptr'[d] = ptr[d] /\ step'[d] = step[d] /\ fate'[d] = fate[d]
  BY <1>1, <1>2, <1>3, <1>4, Removal
<1>6. /\ chan' \in [Devices -> Subchannel]
      /\ \A d \in Devices : /\ chan'[d].pending = chan[d].pending
                            /\ chan'[d].irb = chan[d].irb
                            /\ chan[d].program = NoProgram => chan'[d].program = NoProgram
  <2>1. ASSUME NEW d \in Devices
        PROVE  /\ chan'[d] \in Subchannel /\ chan'[d].pending = chan[d].pending
               /\ chan'[d].irb = chan[d].irb
               /\ chan[d].program = NoProgram => chan'[d].program = NoProgram
    <3> DEFINE f == Forget(Driver)[d]
    <3>1. /\ f \in Subchannel /\ f.pending = chan[d].pending /\ f.irb = chan[d].irb
          /\ chan[d].program = NoProgram => f = chan[d]
      BY <1>1, ForgetWhat
    <3>2. chan'[d] = [f EXCEPT !.interrupt = FALSE]
      BY <1>2
    <3> HIDE DEF f
    <3> QED BY <3>1, <3>2 DEF Subchannel
  <2> QED BY <1>2, <2>1
<1>7. TypesInv'
  <2>1. is_io_fire' \in BOOLEAN /\ run'.tries <= Patience
    BY <1>2, <1>4, CssAssumption
  <2> QED BY <1>2, <1>4, <1>5, <1>6, <2>1 DEF TypesInv
<1>8. ~Unanswered(Driver)
  BY <1>2 DEF Unanswered
<1>9. QueueInv' /\ LateInv' /\ AnswersKept
  BY <1>1, <1>2, <1>3, <1>4, <1>5, <1>6, <1>8, RemovalRest
<1> QED BY <1>5, <1>7, <1>9

\* read_single, write_single and the like make, send and then wait for one
\* request.
LEMMA DriverCallInv ==
    ASSUME CssInv, DriverCall
    PROVE  CssInv' /\ AnswersKept
<1> USE DEF CssInv
<1>1. Driver \in Client
  BY DEF Client
<1>2. run.at = "pick" /\ run.by = "nobody"
  BY CpuFreeWhat DEF DriverCall
<1>3. /\ step[Driver] = "idle" /\ size < MaxPool
      /\ size' = size + 1 /\ queue' = Append(queue, size)
      /\ ptr' = [ptr EXCEPT ![Driver] = size] /\ step' = [step EXCEPT ![Driver] = "sent"]
      /\ UNCHANGED <<is_io_fire, chan, attentions, fate, late>>
  BY DEF DriverCall, Inserted, devices
<1>4. PICK d \in Devices, f \in Asks \cup {slot[size].flags}, io \in BOOLEAN :
          /\ slot' = [Created(Driver, d) EXCEPT ![size].flags = f]
          /\ run' = [Idle EXCEPT !.by = "driver", !.io = io]
  BY DEF DriverCall, Inserted
<1>5. /\ size \in Slot /\ Created(Driver, d) \in [Slot -> Request]
      /\ Created(Driver, d)[size].owner = Driver
      /\ \A s \in Slot : s # size => Created(Driver, d)[s] = slot[s]
  BY <1>1, <1>3, CreatedWhat
<1>6. f \in SUBSET Flag /\ "DONE" \notin f
  <2>1. slot[size].flags \in SUBSET Flag /\ "DONE" \notin slot[size].flags
    BY <1>5, SlotFacts DEF TypesInv, Request, FlagInv
  <2> QED BY <2>1, CssAssumption DEF Flag
<1>7. /\ slot' \in [Slot -> Request] /\ slot'[size].owner = Driver /\ slot'[size].flags = f
      /\ \A s \in Slot : s # size => slot'[s] = slot[s]
  <2> DEFINE g == Created(Driver, d)
             r == g[size]
  <2>1. r \in Request /\ r.owner = Driver /\ g \in [Slot -> Request]
    BY <1>5
  <2>2. slot' = [g EXCEPT ![size] = [r EXCEPT !.flags = f]]
    BY <1>4
  <2> HIDE DEF r, g
  <2>3. /\ [r EXCEPT !.flags = f] \in Request /\ [r EXCEPT !.flags = f].owner = Driver
        /\ [r EXCEPT !.flags = f].flags = f
    BY <1>6, <2>1 DEF Request
  <2>4. /\ slot' \in [Slot -> Request] /\ slot'[size].owner = Driver /\ slot'[size].flags = f
        /\ \A s \in Slot : s # size => slot'[s] = g[s]
    BY <1>5, <2>1, <2>2, <2>3
  <2> QED BY <1>5, <2>4 DEF g
<1>8. /\ run' \in Performer /\ run'.at = "pick" /\ run'.by = "driver" /\ run'.irb.cpa = Elsewhere
      /\ run'.tries = 0
  <2>1. Idle \in Performer /\ Idle.at = "pick" /\ Idle.irb.cpa = Elsewhere /\ Idle.tries = 0
    BY CssAssumption DEF Idle, Performer, Place, NoIrb, Irb
  <2> QED BY <1>4, <2>1 DEF Performer
<1>9. TypesInv'
  <2>1. size' \in 0 .. MaxPool
    BY <1>3, SlotFacts DEF TypesInv
  <2>2. ptr' \in [Client -> Slot \cup {NoSlot}]
    BY <1>3, <1>5 DEF TypesInv
  <2>3. step' \in [Client -> {"idle", "made", "ready", "sent", "awaited"}]
    BY <1>3 DEF TypesInv
  <2>4. queue' \in Seq(Slot)
    BY <1>3, <1>5 DEF TypesInv
  <2>5. run'.tries <= Patience
    BY <1>8, CssAssumption
  <2> QED BY <1>3, <1>7, <1>8, <2>1, <2>2, <2>3, <2>4, <2>5 DEF TypesInv
<1>10. PoolInv' /\ FlagInv'
  BY <1>1, <1>3, <1>6, <1>7, <1>8, <1>9, Insertion
<1>11. ptr[Driver] = NoSlot /\ ptr \in [Client -> Slot \cup {NoSlot}]
      /\ step \in [Client -> {"idle", "made", "ready", "sent", "awaited"}]
      /\ size \in Nat /\ size' \in Nat /\ size < size'
  BY <1>1, <1>3, SlotFacts DEF PoolInv, TypesInv
<1>12. /\ \A x \in Client : x # Driver => ptr'[x] = ptr[x] /\ step'[x] = step[x]
       /\ \A s \in Slot : s < size /\ s # ptr[Driver] => slot'[s] = slot[s]
       /\ step'[Driver] = "sent" /\ ptr'[Driver] = size
  BY <1>1, <1>3, <1>7, <1>11
<1>13. \A x \in Client : x # Driver =>
          /\ Unanswered(x)' <=> Unanswered(x)
          /\ Succeeded(x)' <=> Succeeded(x)
          /\ Answered(x) => Answered(x)' /\ slot'[ptr'[x]].retcode = slot[ptr[x]].retcode
          /\ step[x] # "idle" => slot'[ptr[x]] = slot[ptr[x]]
  BY <1>1, <1>12, OthersStay
<1>14. Driver' = Driver
  OBVIOUS
<1>15. /\ ~Unanswered(Driver) /\ Unanswered(Driver)' /\ ~Answered(Driver)
       /\ ~Succeeded(Driver) /\ ~Succeeded(Driver)'
  BY <1>3, <1>6, <1>7, <1>12, <1>14 DEF Unanswered, Answered, Succeeded
<1>16. QueueInv'
  <2>1. ASSUME NEW x \in Client, Unanswered(x)
        PROVE  /\ ptr'[x] = ptr[x] /\ ptr[x] < size' /\ slot'[ptr[x]].owner = slot[ptr[x]].owner
    <3>1. x # Driver /\ step[x] # "idle"
      BY <1>15, <2>1 DEF Unanswered
    <3>2. ptr[x] < size /\ ptr[x] \in Nat
      BY <3>1, Holds
    <3> QED BY <1>11, <1>12, <1>13, <3>1, <3>2
  <2> QED BY <1>1, <1>3, <1>5, <1>8, <1>9, <1>10, <1>11, <1>12, <1>13, <1>15, <2>1, Queued
<1>17. AnswersKept
  BY <1>13, <1>15 DEF AnswersKept
<1>18. LateInv'
  <2>1. \A x \in Client : Succeeded(x)' => Succeeded(x) /\ fate'[x] = fate[x]
    BY <1>3, <1>13, <1>15
  <2> QED BY <1>2, <1>3, <1>8, <2>1, LateQuiet
<1> QED BY <1>9, <1>10, <1>16, <1>17, <1>18

-----------------------------------------------------------------------------
\* What a TSCH finds and leaves.
LEMMA TestedWhat ==
    ASSUME TypesInv, req.dev \in Devices
    PROVE  /\ sub \in Subchannel /\ TestCc \in Retcode /\ TestIrb \in Irb
           /\ Tested \in [Devices -> Subchannel]
           /\ ~Tested[req.dev].pending /\ Tested[req.dev].program = sub.program
           /\ \A d \in Devices : d # req.dev => Tested[d] = chan[d]
           /\ TestIrb.cpa \in {run.irb.cpa, Elsewhere} \/ (sub.pending /\ TestIrb.cpa = sub.irb.cpa)
<1> DEFINE d == req.dev
<1>1. d \in Devices /\ sub = chan[d]
  BY DEF sub
<1> HIDE DEF d
<1>2. sub \in Subchannel /\ chan \in [Devices -> Subchannel] /\ run.irb \in Irb
  BY <1>1 DEF TypesInv, Performer
<1>3. NoIrb \in Irb /\ NoIrb.cpa = Elsewhere
  BY DEF NoIrb, Irb
<1>4. TestCc \in Retcode
  BY DEF TestCc, Retcode, OK, NOT_PRESENT
<1>5. sub.irb \in Irb
  BY <1>2 DEF Subchannel
<1>6. TestIrb \in Irb
  BY <1>2, <1>3, <1>5 DEF TestIrb
<1>7. TestIrb.cpa \in {run.irb.cpa, Elsewhere} \/ (sub.pending /\ TestIrb.cpa = sub.irb.cpa)
  BY <1>3 DEF TestIrb
<1> DEFINE r == [sub EXCEPT !.pending = FALSE, !.irb = NoIrb, !.interrupt = FALSE]
<1>8. r \in Subchannel /\ ~r.pending /\ r.program = sub.program
  BY <1>2, <1>3 DEF Subchannel
<1>9. Tested = [chan EXCEPT ![d] = r]
  BY <1>1, <1>2 DEF Tested, d
<1> HIDE DEF r
<1>10. /\ Tested \in [Devices -> Subchannel] /\ Tested[d] = r
       /\ \A e \in Devices : e # d => Tested[e] = chan[e]
  BY <1>1, <1>2, <1>8, <1>9
<1> QED BY <1>1, <1>2, <1>4, <1>6, <1>7, <1>8, <1>10 DEF d

\* A step of the performer that neither ends the request nor starts or waits
\* for its program.
LEMMA PerformerMoves ==
    ASSUME CssInv, run.at \notin {"wait", "end"}, run' \in Performer, run'.by # "nobody",
           Len(queue) # 0, run'.req = queue[Len(queue)],
           run'.by = "driver" <=> run.by = "driver",
           run'.at \in {"pick", "modify", "test", "attend"} => run'.tries <= Patience,
           run'.irb.cpa \in {run.irb.cpa, Elsewhere} \/
               \E d \in Devices : chan[d].pending /\ run'.irb.cpa = chan[d].irb.cpa,
           chan' \in [Devices -> Subchannel],
           \A d \in Devices :
               chan'[d] = chan[d] \/ (chan'[d].program = chan[d].program /\ ~chan'[d].pending),
           is_io_fire' \in BOOLEAN,
           UNCHANGED <<slot, size, queue, ptr, step, fate, late>>
    PROVE  CssInv' /\ AnswersKept
<1> USE DEF CssInv
<1>1. TypesInv'
  BY DEF TypesInv
<1>2. /\ PoolInv' /\ FlagInv' /\ QueueInv' /\ AnswersKept
      /\ \A c \in Client : Succeeded(c)' <=> Succeeded(c)
  BY StaysPut
<1>3. LateInv'
  <2>1. CASE late
    BY <2>1 DEF LateInv
  <2>2. CASE ~late
    <3>1. \A d \in Devices : chan[d].pending => chan[d].irb.cpa = Elsewhere
      BY <2>2 DEF LateInv
    <3>2. run'.irb.cpa \in {run.irb.cpa, Elsewhere}
      BY <3>1
    <3>3. \A d \in Devices :
            /\ chan'[d].program # NoProgram => chan[d].program # NoProgram
            /\ chan'[d].pending /\ chan'[d].irb.cpa # Elsewhere
                  => chan[d].pending /\ chan[d].irb.cpa # Elsewhere
      OBVIOUS
    <3> QED BY <1>2, <3>2, <3>3, LateQuiet
  <2> QED BY <2>1, <2>2
<1> QED BY <1>1, <1>2, <1>3

\* The head of request_perform.
LEMMA PickInv == CssInv /\ Pick => CssInv' /\ AnswersKept
<1> SUFFICES ASSUME CssInv, Pick PROVE CssInv' /\ AnswersKept
  OBVIOUS
<1> USE DEF CssInv
<1>1. /\ run.at = "pick" /\ queue # <<>>
      /\ UNCHANGED <<slot, size, queue, ptr, step, is_io_fire, chan, attentions, fate, late>>
  BY DEF Pick, clients, devices
<1>2. queue \in Seq(Slot) /\ Len(queue) \in Nat /\ Len(queue) # 0 /\ run \in Performer
      /\ chan \in [Devices -> Subchannel] /\ is_io_fire \in BOOLEAN
  BY <1>1 DEF TypesInv
<1>3. Last(queue) = queue[Len(queue)] /\ Last(queue) \in Slot
  BY <1>2 DEF Last
<1>4. run' = [run EXCEPT !.by = IF @ = "nobody" THEN "spooler" ELSE @, !.req = Last(queue),
                         !.at = IF "MODIFY" \in slot[Last(queue)].flags THEN "modify" ELSE "test"]
  BY DEF Pick
<1>5. /\ run' \in Performer /\ run'.by # "nobody" /\ run'.req = Last(queue)
      /\ run'.irb = run.irb /\ run'.tries = run.tries
      /\ run'.by = "driver" <=> run.by = "driver"
  BY <1>2, <1>3, <1>4 DEF Performer, Place
<1>6. run.tries <= Patience
  BY <1>1 DEF TypesInv
<1> QED BY <1>1, <1>2, <1>3, <1>5, <1>6, PerformerMoves

\* Where Goto leads.
LEMMA GotoWhat ==
    ASSUME TypesInv, req.dev \in Devices, NEW l \in Place, Goto(l)
    PROVE  /\ run' \in Performer /\ run'.at = l /\ run'.by = run.by /\ run'.req = run.req
           /\ run'.tries = run.tries /\ run'.irb = TestIrb
<1>1. run \in Performer /\ TestIrb \in Irb
  BY TestedWhat DEF TypesInv
<1>2. run' = [run EXCEPT !.at = l, !.irb = TestIrb]
  BY DEF Goto
<1> HIDE DEF TestIrb
<1> QED BY <1>1, <1>2 DEF Performer

\* A TSCH that lets the request go on.
LEMMA GoesOn ==
    ASSUME CssInv, run.at \in {"modify", "test", "attest"}, NEW l \in Place \ {"pick"}, Goto(l),
           chan' = Tested, l \in {"modify", "test", "attend"} => run.tries <= Patience,
           UNCHANGED <<slot, size, queue, ptr, step, is_io_fire, fate, late>>
    PROVE  CssInv' /\ AnswersKept
<1> USE DEF CssInv
<1>1. /\ run.by # "nobody" /\ Len(queue) # 0 /\ run.req = queue[Len(queue)]
      /\ req.dev \in Devices
  BY Performing
<1>2. /\ run' \in Performer /\ run'.at = l /\ run'.by = run.by /\ run'.req = run.req
      /\ run'.tries = run.tries /\ run'.irb = TestIrb
  BY <1>1, GotoWhat
<1>3. /\ chan' \in [Devices -> Subchannel]
      /\ ~chan'[req.dev].pending /\ chan'[req.dev].program = chan[req.dev].program
      /\ \A d \in Devices : d # req.dev => chan'[d] = chan[d]
      /\ TestIrb.cpa \in {run.irb.cpa, Elsewhere} \/
            (chan[req.dev].pending /\ TestIrb.cpa = chan[req.dev].irb.cpa)
  BY <1>1, TestedWhat DEF sub
<1>4. is_io_fire' \in BOOLEAN
  BY DEF TypesInv
<1>5. \A d \in Devices :
         chan'[d] = chan[d] \/ (chan'[d].program = chan[d].program /\ ~chan'[d].pending)
  BY <1>3
<1>6. run'.irb.cpa \in {run.irb.cpa, Elsewhere} \/
         \E d \in Devices : chan[d].pending /\ run'.irb.cpa = chan[d].irb.cpa
  BY <1>1, <1>2, <1>3
<1> QED BY <1>1, <1>2, <1>3, <1>4, <1>5, <1>6, PerformerMoves

\* A request that is not performed to its end ends with a negative code.
LEMMA Fails ==
    ASSUME CssInv, run.at \notin {"pick", "wait"}, NEW r \in Retcode, r < 0, Finish(r),
           chan' = chan \/ chan' = Tested, run.at = "end" => chan' = Tested \/ ~sub.pending,
           UNCHANGED <<is_io_fire, fate, late>>
    PROVE  CssInv' /\ AnswersKept
<1> USE DEF CssInv
<1>1. /\ slot' \in [Slot -> Request] /\ queue' \in Seq(Slot) /\ run' \in Performer
      /\ PoolInv' /\ FlagInv' /\ QueueInv' /\ AnswersKept
      /\ run'.at = "pick" /\ run'.irb = NoIrb /\ run'.tries = 0
      /\ \A c \in Client : Succeeded(c)' => Succeeded(c) \/ (c = req.owner /\ r >= 0)
  BY FinishWhat
<1>2. \A c \in Client : Succeeded(c)' => Succeeded(c)
  BY <1>1 DEF Retcode, OK, NOT_PRESENT, EXPLICIT_FAILURE, TIMEOUT
<1>3. UNCHANGED <<size, ptr, step>>
  BY DEF Finish, clients
<1>4. req.dev \in Devices
  BY Performing
<1>5. /\ Tested \in [Devices -> Subchannel] /\ ~Tested[req.dev].pending
      /\ Tested[req.dev].program = chan[req.dev].program
      /\ \A d \in Devices : d # req.dev => Tested[d] = chan[d]
  BY <1>4, TestedWhat DEF sub
<1>6. /\ chan' \in [Devices -> Subchannel]
      /\ \A d \in Devices : /\ chan'[d].program = chan[d].program
                            /\ chan'[d].pending => chan'[d] = chan[d]
      /\ run.at = "end" => ~chan'[req.dev].pending
  BY <1>4, <1>5 DEF TypesInv, sub
<1>7. TypesInv'
  <2>1. run'.tries <= Patience
    BY <1>1, CssAssumption
  <2> QED BY <1>1, <1>3, <1>6, <2>1 DEF TypesInv
<1>8. LateInv'
  <2> SUFFICES ASSUME ~late PROVE LateInv'
    BY DEF LateInv
  <2>1. \A d \in Devices : chan'[d].program = NoProgram
    BY <1>6 DEF LateInv
  <2>2. \A d \in Devices : ~(chan'[d].pending /\ chan'[d].irb.cpa # Elsewhere)
    BY <1>6 DEF LateInv
  <2>3. run'.irb.cpa = Elsewhere
    BY <1>1 DEF NoIrb
  <2>4. \A c \in Client : Succeeded(c)' => fate'[c] = "completed"
    BY <1>2 DEF LateInv
  <2>5. NoProgram' = NoProgram /\ Elsewhere' = Elsewhere
    BY DEF NoProgram, Elsewhere, NoCcws
  <2> QED BY <2>1, <2>2, <2>3, <2>4, <2>5 DEF LateInv
<1> QED BY <1>1, <1>7, <1>8

\* A device that is not there.
LEMMA RefuseInv == CssInv /\ Refuse => CssInv' /\ AnswersKept
<1> SUFFICES ASSUME CssInv, Refuse PROVE CssInv' /\ AnswersKept
  OBVIOUS
<1>1. /\ run.at \in {"modify", "test", "attest", "start", "end"} /\ ~sub.present
      /\ Finish(EXPLICIT_FAILURE) /\ UNCHANGED <<is_io_fire, chan, attentions, fate, late>>
  BY DEF Refuse, Refused, devices
<1>2. ~sub.pending
  <2>1. req.dev \in Devices
    BY <1>1, Performing DEF CssInv
  <2>2. sub \in Subchannel
    BY <2>1, TestedWhat DEF CssInv
  <2> QED BY <1>1, <2>2 DEF Subchannel
<1>3. EXPLICIT_FAILURE \in Retcode /\ EXPLICIT_FAILURE < 0
  BY DEF Retcode, EXPLICIT_FAILURE
<1> QED BY <1>1, <1>2, <1>3, Fails

LEMMA ModifyInv == CssInv /\ Modify => CssInv' /\ AnswersKept
<1> SUFFICES ASSUME CssInv, Modify PROVE CssInv' /\ AnswersKept
  OBVIOUS
<1>1. /\ run.at = "modify" /\ Goto("test") /\ chan' = Tested
      /\ UNCHANGED <<slot, size, queue, ptr, step, is_io_fire, fate, late>>
  BY DEF Modify, clients
<1>2. run.tries <= Patience
  BY <1>1 DEF CssInv, TypesInv
<1>3. "test" \in Place \ {"pick"}
  BY DEF Place
<1> QED BY <1>1, <1>2, <1>3, GoesOn

LEMMA TestInv == CssInv /\ Test => CssInv' /\ AnswersKept
<1> SUFFICES ASSUME CssInv, Test PROVE CssInv' /\ AnswersKept
  OBVIOUS
<1>1. /\ run.at = "test" /\ chan' = Tested
      /\ UNCHANGED <<slot, size, queue, ptr, step, is_io_fire, fate, late>>
  BY DEF Test, clients
<1>2. PICK l \in {"attend", "start"} : Goto(l)
  <2>1. Goto(IF "WAIT_ATTENTION" \in req.flags /\ ~TestIrb.attention THEN "attend" ELSE "start")
    BY DEF Test
  <2>2. CASE "WAIT_ATTENTION" \in req.flags /\ ~TestIrb.attention
    BY <2>1, <2>2
  <2>3. CASE ~("WAIT_ATTENTION" \in req.flags /\ ~TestIrb.attention)
    BY <2>1, <2>3
  <2> QED BY <2>2, <2>3
<1>3. run.tries <= Patience
  BY <1>1 DEF CssInv, TypesInv
<1>4. l \in Place \ {"pick"}
  BY <1>2 DEF Place
<1> QED BY <1>1, <1>2, <1>3, <1>4, GoesOn

\* A wait of the attention loop counts: the bound is passed once at most.
LEMMA AttendInv == CssInv /\ Attend => CssInv' /\ AnswersKept
<1> SUFFICES ASSUME CssInv, Attend PROVE CssInv' /\ AnswersKept
  OBVIOUS
<1>1. /\ run.at = "attend" /\ run' = [run EXCEPT !.at = "attest", !.tries = @ + 1]
      /\ is_io_fire' = FALSE
      /\ UNCHANGED <<slot, size, queue, ptr, step, chan, fate, late>>
  BY DEF Attend, WaitIo, clients
<1>2. /\ run \in Performer /\ run.tries <= Patience /\ chan \in [Devices -> Subchannel]
  BY <1>1 DEF CssInv, TypesInv
<1>3. run.by # "nobody" /\ Len(queue) # 0 /\ run.req = queue[Len(queue)]
  BY <1>1 DEF CssInv, QueueInv
<1>4. run.tries + 1 \in 0 .. Patience + 1
  BY <1>2, CssAssumption DEF Performer
<1>5. /\ run' \in Performer /\ run'.by = run.by /\ run'.req = run.req /\ run'.irb = run.irb
      /\ run'.at = "attest"
  BY <1>1, <1>2, <1>4 DEF Performer, Place
<1> QED BY <1>1, <1>2, <1>3, <1>5, PerformerMoves

LEMMA AttestInv == CssInv /\ Attest => CssInv' /\ AnswersKept
<1> SUFFICES ASSUME CssInv, Attest PROVE CssInv' /\ AnswersKept
  OBVIOUS
<1>1. run.at = "attest" /\ chan' = Tested /\ UNCHANGED <<is_io_fire, attentions, fate, late>>
  BY DEF Attest
<1>2. CASE OutOfPatience /\ Finish(TIMEOUT)
  <2>1. TIMEOUT \in Retcode /\ TIMEOUT < 0
    BY DEF Retcode, TIMEOUT
  <2> QED BY <1>1, <1>2, <2>1, Fails
<1>3. CASE /\ ~OutOfPatience
           /\ Goto(IF TestIrb.attention THEN "start" ELSE "attend")
           /\ UNCHANGED <<slot, size, queue, clients>>
  <2>1. PICK l \in {"attend", "start"} : Goto(l)
    <3>1. CASE TestIrb.attention
      BY <1>3, <3>1
    <3>2. CASE ~TestIrb.attention
      BY <1>3, <3>2
    <3> QED BY <3>1, <3>2
  <2>2. run.tries <= Patience
    BY <1>3, CssAssumption DEF OutOfPatience, CssInv, TypesInv, Performer
  <2>3. l \in Place \ {"pick"}
    BY <2>1 DEF Place
  <2>4. UNCHANGED <<slot, size, queue, ptr, step>>
    BY <1>3 DEF clients
  <2> QED BY <1>1, <2>1, <2>2, <2>3, <2>4, GoesOn
<1> QED BY <1>2, <1>3 DEF Attest

\* A program starts on a device that runs none, and is the request's own.
LEMMA StartInv == CssInv /\ Start => CssInv' /\ AnswersKept
<1> SUFFICES ASSUME CssInv, Start PROVE CssInv' /\ AnswersKept
  OBVIOUS
<1> USE DEF CssInv
<1> DEFINE dev == req.dev
           prog == [owner |-> req.owner, ccws |-> req.ccws]
           accepted == sub.present /\ ~sub.pending /\ sub.program = NoProgram
<1>1. /\ run.at = "start" /\ run' = [run EXCEPT !.at = "wait"]
      /\ chan' = IF accepted THEN [chan EXCEPT ![dev].program = prog] ELSE chan
      /\ UNCHANGED <<slot, size, queue, ptr, step, is_io_fire, fate, late>>
  BY DEF Start, clients
<1>2. /\ run.by # "nobody" /\ Len(queue) # 0 /\ run.req = queue[Len(queue)]
      /\ dev \in Devices /\ prog \in Program
  BY <1>1, Performing DEF Program
<1>3. /\ run' \in Performer /\ run'.at = "wait" /\ run'.by = run.by /\ run'.req = run.req
      /\ run'.irb = run.irb
  <2>1. run \in Performer
    BY DEF TypesInv
  <2> QED BY <1>1, <2>1 DEF Performer, Place
<1>4. req' = req /\ sub = chan[dev]
  BY <1>1, <1>3 DEF req, sub
<1> HIDE DEF prog, dev
<1>5. /\ chan' \in [Devices -> Subchannel]
      /\ \A d \in Devices : /\ chan'[d].program = chan[d].program \/ (d = dev /\ chan'[d].program = prog)
                            /\ chan'[d].pending = chan[d].pending /\ chan'[d].irb = chan[d].irb
  <2>1. chan \in [Devices -> Subchannel]
    BY DEF TypesInv
  <2>2. CASE accepted
    <3> DEFINE r == [chan[dev] EXCEPT !.program = prog]
    <3>1. /\ r \in Subchannel /\ r.program = prog /\ r.pending = chan[dev].pending
          /\ r.irb = chan[dev].irb
      BY <1>2, <1>4, <2>1, <2>2 DEF Subchannel
    <3>2. chan' = [chan EXCEPT ![dev] = r]
      BY <1>1, <2>1, <2>2
    <3> HIDE DEF r
    <3> QED BY <1>2, <2>1, <3>1, <3>2
  <2>3. CASE ~accepted
    BY <1>1, <2>1, <2>3
  <2> QED BY <2>2, <2>3
<1>6. TypesInv'
  BY <1>1, <1>3, <1>5 DEF TypesInv
<1>7. PoolInv' /\ FlagInv' /\ QueueInv' /\ AnswersKept /\ \A c \in Client : Succeeded(c)' <=> Succeeded(c)
  BY <1>1, <1>2, <1>3, StaysPut
<1>8. LateInv'
  <2> SUFFICES ASSUME ~late PROVE LateInv'
    BY <1>1 DEF LateInv
  <2>1. \A d \in Devices : chan'[d].program # NoProgram =>
           run'.at = "wait" /\ req'.dev = d /\ chan'[d].program = [owner |-> req'.owner, ccws |-> req'.ccws]
    BY <1>1, <1>3, <1>4, <1>5 DEF LateInv, prog, dev
  <2>2. \A d \in Devices : ~(chan'[d].pending /\ chan'[d].irb.cpa # Elsewhere)
    BY <1>1, <1>5 DEF LateInv
  <2>3. run'.irb.cpa = Elsewhere
    BY <1>3 DEF LateInv
  <2>4. \A c \in Client : Succeeded(c)' => fate'[c] = "completed"
    BY <1>1, <1>7 DEF LateInv
  <2>5. NoProgram' = NoProgram /\ Elsewhere' = Elsewhere
    BY DEF NoProgram, Elsewhere, NoCcws
  <2> QED BY <2>1, <2>2, <2>3, <2>4, <2>5 DEF LateInv
<1> QED BY <1>6, <1>7, <1>8

\* A wait is late if it ends before the program.
LEMMA WaitInv == CssInv /\ Wait => CssInv' /\ AnswersKept
<1> SUFFICES ASSUME CssInv, Wait PROVE CssInv' /\ AnswersKept
  OBVIOUS
<1> USE DEF CssInv
<1>1. /\ run.at = "wait" /\ run' = [run EXCEPT !.at = "end"] /\ is_io_fire' = FALSE
      /\ late' = (late \/ sub.program # NoProgram)
      /\ UNCHANGED <<slot, size, queue, ptr, step, chan, fate>>
  BY DEF Wait, WaitIo, clients
<1>2. run.by # "nobody" /\ Len(queue) # 0 /\ run.req = queue[Len(queue)] /\ req.dev \in Devices
  BY <1>1, Performing
<1>3. /\ run' \in Performer /\ run'.at = "end" /\ run'.by = run.by /\ run'.req = run.req
      /\ run'.irb = run.irb
  <2>1. run \in Performer
    BY DEF TypesInv
  <2> QED BY <1>1, <2>1 DEF Performer, Place
<1>4. req' = req
  BY <1>1, <1>3 DEF req
<1>5. TypesInv'
  BY <1>1, <1>3 DEF TypesInv
<1>6. PoolInv' /\ FlagInv' /\ QueueInv' /\ AnswersKept /\ \A c \in Client : Succeeded(c)' <=> Succeeded(c)
  BY <1>1, <1>2, <1>3, StaysPut
<1>7. LateInv'
  <2> SUFFICES ASSUME ~late' PROVE LateInv'
    BY DEF LateInv
  <2>1. ~late /\ sub.program = NoProgram
    BY <1>1
  <2>2. \A d \in Devices : chan'[d].program = NoProgram
    BY <1>1, <2>1 DEF LateInv, sub
  <2>3. \A d \in Devices : chan'[d].pending /\ chan'[d].irb.cpa # Elsewhere =>
           /\ run'.at = "end" /\ req'.dev = d
           /\ chan'[d].irb.cpa = req'.ccws /\ fate'[req'.owner] = "completed"
    BY <1>1, <1>3, <1>4, <2>1 DEF LateInv
  <2>4. run'.irb.cpa = Elsewhere
    BY <1>3, <2>1 DEF LateInv
  <2>5. \A c \in Client : Succeeded(c)' => fate'[c] = "completed"
    BY <1>1, <1>6, <2>1 DEF LateInv
  <2>6. NoProgram' = NoProgram /\ Elsewhere' = Elsewhere
    BY DEF NoProgram, Elsewhere, NoCcws
  <2> QED BY <2>2, <2>3, <2>4, <2>5, <2>6 DEF LateInv
<1> QED BY <1>5, <1>6, <1>7

\* The address that ends the request's program was told by its own program.
LEMMA EndInv == CssInv /\ End => CssInv' /\ AnswersKept
<1> SUFFICES ASSUME CssInv, End PROVE CssInv' /\ AnswersKept
  OBVIOUS
<1> USE DEF CssInv
<1>1. /\ run.at = "end" /\ chan' = Tested
      /\ Finish(IF Completed THEN TestCc ELSE EXPLICIT_FAILURE)
      /\ UNCHANGED <<is_io_fire, attentions, fate, late>>
  BY DEF End
<1>2. CASE ~Completed
  <2>1. EXPLICIT_FAILURE \in Retcode /\ EXPLICIT_FAILURE < 0
    BY DEF Retcode, EXPLICIT_FAILURE
  <2>2. Finish(EXPLICIT_FAILURE)
    BY <1>1, <1>2
  <2> QED BY <1>1, <2>1, <2>2, Fails
<1>3. CASE Completed
  <2>1. /\ req.dev \in Devices /\ req.owner \in Client /\ req.ccws \in Slot \cup {NoCcws}
    BY <1>1, Performing
  <2>2. /\ TestCc \in Retcode /\ chan' \in [Devices -> Subchannel]
        /\ ~chan'[req.dev].pending /\ chan'[req.dev].program = chan[req.dev].program
        /\ \A d \in Devices : d # req.dev => chan'[d] = chan[d]
        /\ TestIrb.cpa \in {run.irb.cpa, Elsewhere} \/
              (chan[req.dev].pending /\ TestIrb.cpa = chan[req.dev].irb.cpa)
    BY <1>1, <2>1, TestedWhat DEF sub
  <2>3. PICK r \in Retcode : Finish(r)
    BY <1>1, <1>3, <2>2
  <2>4. /\ slot' \in [Slot -> Request] /\ queue' \in Seq(Slot) /\ run' \in Performer
        /\ PoolInv' /\ FlagInv' /\ QueueInv' /\ AnswersKept
        /\ run'.at = "pick" /\ run'.irb = NoIrb /\ run'.tries = 0
        /\ \A c \in Client : Succeeded(c)' => Succeeded(c) \/ c = req.owner
    BY <1>1, <2>3, FinishWhat
  <2>5. TypesInv'
    <3>1. run'.tries <= Patience
      BY <2>4, CssAssumption
    <3>2. UNCHANGED <<size, ptr, step>>
      BY <2>3 DEF Finish, clients
    <3> QED BY <1>1, <2>2, <2>4, <3>1, <3>2 DEF TypesInv
  <2>6. LateInv'
    <3> SUFFICES ASSUME ~late PROVE LateInv'
      BY <1>1 DEF LateInv
    <3>1. \A d \in Devices : chan'[d].program = NoProgram
      BY <1>1, <2>2 DEF LateInv
    <3>2. \A d \in Devices : ~(chan'[d].pending /\ chan'[d].irb.cpa # Elsewhere)
      BY <1>1, <2>2 DEF LateInv
    <3>3. run'.irb.cpa = Elsewhere
      BY <2>4 DEF NoIrb
    <3>4. fate[req.owner] = "completed"
      <4>1. TestIrb.cpa = req.ccws /\ req.ccws # Elsewhere /\ run.irb.cpa = Elsewhere
        BY <1>3, <2>1, SlotFacts DEF Completed, LateInv
      <4>2. chan[req.dev].pending /\ chan[req.dev].irb.cpa # Elsewhere
        BY <2>2, <4>1
      <4> QED BY <2>1, <4>2 DEF LateInv
    <3>5. \A c \in Client : Succeeded(c)' => fate'[c] = "completed"
      BY <1>1, <2>4, <3>4 DEF LateInv
    <3>6. NoProgram' = NoProgram /\ Elsewhere' = Elsewhere
      BY DEF NoProgram, Elsewhere, NoCcws
    <3> QED BY <3>1, <3>2, <3>3, <3>5, <3>6 DEF LateInv
  <2> QED BY <2>4, <2>5, <2>6
<1> QED BY <1>2, <1>3

-----------------------------------------------------------------------------
\* What a device does is not seen by the clients, nor by the queue.
LEMMA DeviceMoves ==
    ASSUME CssInv, UNCHANGED <<slot, size, queue, ptr, step, run, late>>,
           chan' \in [Devices -> Subchannel], is_io_fire' \in BOOLEAN,
           fate' \in [Client -> {"none", "completed"}], LateInv'
    PROVE  CssInv' /\ AnswersKept
<1> USE DEF CssInv
<1>1. TypesInv'
  BY DEF TypesInv
<1>2. PoolInv' /\ FlagInv' /\ QueueInv' /\ AnswersKept
  <2>1. run'.at # "pick" => run'.by # "nobody" /\ Len(queue) # 0 /\ run'.req = queue[Len(queue)]
    BY DEF QueueInv
  <2> QED BY <2>1, StaysPut
<1> QED BY <1>1, <1>2

\* What an interruption leaves in the subchannel.
LEMMA InterruptWhat ==
    ASSUME TypesInv, NEW d \in Devices, NEW irb \in Irb, chan[d].present, Interrupt(d, irb)
    PROVE  /\ chan' \in [Devices -> Subchannel] /\ is_io_fire' \in BOOLEAN
           /\ chan'[d].program = NoProgram /\ chan'[d].irb = irb
           /\ \A e \in Devices : e # d => chan'[e] = chan[e]
<1>1. chan \in [Devices -> Subchannel] /\ run.io \in BOOLEAN /\ is_io_fire \in BOOLEAN
  BY DEF TypesInv, Performer
<1>2. NoProgram \in Program
  BY DEF NoProgram, Program
<1> DEFINE io == ~run.io
           r == [chan[d] EXCEPT !.program = NoProgram, !.pending = TRUE, !.irb = irb, !.interrupt = io]
<1>3. io \in BOOLEAN
  OBVIOUS
<1>4. /\ chan' = [chan EXCEPT ![d] = r]
      /\ is_io_fire' = (is_io_fire \/ run.io)
  BY <1>1 DEF Interrupt
<1> HIDE DEF io
<1>5. r \in Subchannel /\ r.program = NoProgram /\ r.irb = irb
  BY <1>1, <1>2, <1>3 DEF Subchannel
<1> HIDE DEF r
<1> QED BY <1>1, <1>4, <1>5

\* A program that ends, if no wait was late, is the one that is waited for.
LEMMA DeviceEndsInv ==
    ASSUME CssInv, NEW d \in Devices, DeviceEnds(d)
    PROVE  CssInv' /\ AnswersKept
<1> USE DEF CssInv
<1>1. /\ chan[d].program # NoProgram /\ chan[d] \in Subchannel
      /\ UNCHANGED <<slot, size, queue, ptr, step, run, late>>
  BY DEF DeviceEnds, clients, TypesInv
<1>2. PICK whole \in BOOLEAN :
        /\ Interrupt(d, [attention |-> FALSE,
                         cpa |-> IF whole THEN chan[d].program.ccws ELSE Elsewhere])
        /\ fate' = [c \in Client |->
                        IF whole /\ c = chan[d].program.owner THEN "completed" ELSE fate[c]]
  BY DEF DeviceEnds
<1> DEFINE irb == [attention |-> FALSE, cpa |-> IF whole THEN chan[d].program.ccws ELSE Elsewhere]
<1>3. chan[d].present /\ chan[d].program \in Program
  BY <1>1 DEF Subchannel
<1>4. irb \in Irb /\ irb.cpa = (IF whole THEN chan[d].program.ccws ELSE Elsewhere)
  BY <1>3 DEF Irb, Program
<1>5. Interrupt(d, irb)
  BY <1>2
<1> HIDE DEF irb
<1>6. /\ chan' \in [Devices -> Subchannel] /\ is_io_fire' \in BOOLEAN
      /\ chan'[d].program = NoProgram /\ chan'[d].irb = irb
      /\ \A e \in Devices : e # d => chan'[e] = chan[e]
  BY <1>3, <1>4, <1>5, InterruptWhat
<1>7. /\ fate' \in [Client -> {"none", "completed"}]
      /\ \A c \in Client : fate'[c] = "completed" \/ fate'[c] = fate[c]
      /\ \A c \in Client : whole /\ c = chan[d].program.owner => fate'[c] = "completed"
  BY <1>2 DEF TypesInv
<1>8. LateInv'
  <2> SUFFICES ASSUME ~late PROVE LateInv'
    BY <1>1 DEF LateInv
  <2>1. /\ run.at = "wait" /\ req.dev = d
        /\ chan[d].program = [owner |-> req.owner, ccws |-> req.ccws]
    BY <1>1 DEF LateInv
  <2>2. \A e \in Devices : chan'[e].program = NoProgram
    BY <1>6, <2>1 DEF LateInv
  <2>3. req' = req /\ run' = run
    BY <1>1 DEF req
  <2>4. \A e \in Devices : chan'[e].pending /\ chan'[e].irb.cpa # Elsewhere =>
          /\ run.at = "wait" /\ req.dev = e
          /\ chan'[e].irb.cpa = req.ccws /\ fate'[req.owner] = "completed"
    <3> TAKE e \in Devices
    <3>1. CASE e = d
      <4>1. req.owner \in Client
        BY <2>1, Performing
      <4>2. irb.cpa # Elsewhere => whole /\ irb.cpa = req.ccws
        BY <1>4, <2>1
      <4> QED BY <1>6, <1>7, <2>1, <3>1, <4>1, <4>2
    <3>2. CASE e # d
      BY <1>6, <2>1, <3>2 DEF LateInv
    <3> QED BY <3>1, <3>2
  <2>5. run'.irb.cpa = Elsewhere
    BY <2>3 DEF LateInv
  <2>6. \A c \in Client : Succeeded(c)' => fate'[c] = "completed"
    BY <1>1, <1>7 DEF LateInv, Succeeded, Answered
  <2>7. NoProgram' = NoProgram /\ Elsewhere' = Elsewhere
    BY DEF NoProgram, Elsewhere, NoCcws
  <2> QED BY <2>2, <2>3, <2>4, <2>5, <2>6, <2>7 DEF LateInv
<1> QED BY <1>1, <1>6, <1>7, <1>8, DeviceMoves

\* What an idle device tells is never about a program.
LEMMA QuietLate ==
    ASSUME LateInv, NEW d \in Devices, UNCHANGED <<slot, ptr, step, run, fate, late>>,
           chan'[d].program = NoProgram, chan'[d].irb.cpa = Elsewhere,
           \A e \in Devices : e # d => chan'[e] = chan[e]
    PROVE  LateInv'
<1> SUFFICES ASSUME ~late PROVE LateInv'
  BY DEF LateInv
<1>1. req' = req /\ run' = run /\ fate' = fate
  BY DEF req
<1>2. \A e \in Devices : chan'[e].program # NoProgram =>
         /\ run.at = "wait" /\ req.dev = e
         /\ chan'[e].program = [owner |-> req.owner, ccws |-> req.ccws]
  BY DEF LateInv
<1>3. \A e \in Devices : chan'[e].pending /\ chan'[e].irb.cpa # Elsewhere =>
         /\ run.at \in {"wait", "end"} /\ req.dev = e
         /\ chan'[e].irb.cpa = req.ccws /\ fate[req.owner] = "completed"
  BY DEF LateInv
<1>4. run.irb.cpa = Elsewhere /\ \A c \in Client : Succeeded(c)' => fate[c] = "completed"
  BY DEF LateInv, Succeeded, Answered
<1>5. NoProgram' = NoProgram /\ Elsewhere' = Elsewhere
  BY DEF NoProgram, Elsewhere, NoCcws
<1> QED BY <1>1, <1>2, <1>3, <1>4, <1>5 DEF LateInv

LEMMA AttentionInv ==
    ASSUME CssInv, NEW d \in Devices, Attention(d)
    PROVE  CssInv' /\ AnswersKept
<1> USE DEF CssInv
<1> DEFINE irb == [attention |-> TRUE, cpa |-> Elsewhere]
<1>1. /\ chan[d].present /\ Interrupt(d, irb)
      /\ UNCHANGED <<slot, size, queue, ptr, step, run, fate, late>>
  BY DEF Attention, clients
<1>2. irb \in Irb /\ irb.cpa = Elsewhere
  BY DEF Irb
<1> HIDE DEF irb
<1>3. /\ chan' \in [Devices -> Subchannel] /\ is_io_fire' \in BOOLEAN
      /\ chan'[d].program = NoProgram /\ chan'[d].irb = irb
      /\ \A e \in Devices : e # d => chan'[e] = chan[e]
  BY <1>1, <1>2, InterruptWhat
<1>4. LateInv'
  BY <1>1, <1>2, <1>3, QuietLate
<1>5. fate' \in [Client -> {"none", "completed"}]
  BY <1>1 DEF TypesInv
<1> QED BY <1>1, <1>3, <1>4, <1>5, DeviceMoves

LEMMA UnplugInv ==
    ASSUME CssInv, NEW d \in Devices, Unplug(d)
    PROVE  CssInv' /\ AnswersKept
<1> USE DEF CssInv
<1> DEFINE gone == [present |-> FALSE, program |-> NoProgram, pending |-> FALSE,
                    irb |-> NoIrb, interrupt |-> FALSE]
<1>1. /\ chan' = [chan EXCEPT ![d] = gone]
      /\ UNCHANGED <<slot, size, queue, ptr, step, run, is_io_fire, fate, late>>
  BY DEF Unplug, clients
<1>2. gone \in Subchannel /\ gone.program = NoProgram /\ gone.irb.cpa = Elsewhere
  <2>1. NoProgram \in Program /\ NoIrb \in Irb /\ NoIrb.cpa = Elsewhere
    BY DEF NoProgram, Program, NoIrb, Irb
  <2> QED BY <2>1 DEF Subchannel
<1> HIDE DEF gone
<1>3. /\ chan' \in [Devices -> Subchannel] /\ chan'[d] = gone
      /\ \A e \in Devices : e # d => chan'[e] = chan[e]
  BY <1>1, <1>2 DEF TypesInv
<1>4. LateInv'
  BY <1>1, <1>2, <1>3, QuietLate
<1>5. fate' \in [Client -> {"none", "completed"}] /\ is_io_fire' \in BOOLEAN
  BY <1>1 DEF TypesInv
<1> QED BY <1>1, <1>3, <1>4, <1>5, DeviceMoves

-----------------------------------------------------------------------------
LEMMA InitInv == Orderly /\ Init => CssInv
<1> SUFFICES ASSUME Orderly, Init PROVE CssInv
  OBVIOUS
<1> DEFINE x == CHOOSE d \in Devices : TRUE
           new == [flags |-> {}, dev |-> x, ccws |-> NoCcws, retcode |-> OK, owner |-> Nobody]
<1>1. x \in Devices
  BY CssAssumption
<1>2. slot \in [Slot -> {new}]
  <2>1. slot \in [Slot -> {[flags |-> IF d THEN {"DONE"} ELSE {}, dev |-> x,
                            ccws |-> NoCcws, retcode |-> OK, owner |-> Nobody] : d \in Fresh}]
    BY DEF Init
  <2>2. {[flags |-> IF d THEN {"DONE"} ELSE {}, dev |-> x,
          ccws |-> NoCcws, retcode |-> OK, owner |-> Nobody] : d \in Fresh} = {new}
    BY DEF Orderly
  <2> QED BY <2>1, <2>2
<1> HIDE DEF x
<1>3. new \in Request /\ new.flags = {}
  BY <1>1 DEF Request, Retcode, OK
<1> HIDE DEF new
<1>4. /\ size = 0 /\ queue = <<>>
      /\ ptr = [c \in Client |-> NoSlot] /\ step = [c \in Client |-> "idle"]
      /\ run = Idle /\ is_io_fire = FALSE /\ late = FALSE
      /\ fate = [c \in Client |-> "none"]
      /\ chan = [d \in Devices |-> [present |-> TRUE, program |-> NoProgram, pending |-> FALSE,
                                    irb |-> NoIrb, interrupt |-> FALSE]]
  BY DEF Init
<1>5. NoProgram \in Program /\ NoIrb \in Irb /\ Driver \in Client
  BY DEF NoProgram, Program, NoIrb, Irb, Client
<1>6. Idle \in Performer /\ Idle.at = "pick" /\ Idle.by = "nobody" /\ Idle.tries <= Patience
      /\ Idle.irb.cpa = Elsewhere
  BY <1>5, CssAssumption DEF Idle, Performer, Place, NoIrb
<1>7. chan \in [Devices -> Subchannel]
  BY <1>4, <1>5 DEF Subchannel
<1>8. TypesInv
  <2>1. slot \in [Slot -> Request]
    BY <1>2, <1>3
  <2>2. size \in 0 .. MaxPool
    BY <1>4, SlotFacts
  <2>3. /\ queue \in Seq(Slot) /\ is_io_fire \in BOOLEAN /\ late \in BOOLEAN
        /\ run \in Performer /\ run.tries <= Patience
    <3>1. <<>> \in Seq(Slot)
      OBVIOUS
    <3> QED BY <1>4, <1>6, <3>1
  <2>4. /\ ptr \in [Client -> Slot \cup {NoSlot}] /\ fate \in [Client -> {"none", "completed"}]
        /\ step \in [Client -> {"idle", "made", "ready", "sent", "awaited"}]
    BY <1>4
  <2> QED BY <1>7, <2>1, <2>2, <2>3, <2>4 DEF TypesInv
<1>9. PoolInv
  <2>1. \A s \in Slot : ~(s < size)
    BY <1>4, SlotFacts
  <2> QED BY <1>4, <1>5, <1>6, <2>1 DEF PoolInv
<1>10. FlagInv
  BY <1>2, <1>3, <1>4 DEF FlagInv
<1>11. QueueInv
  BY <1>4, <1>6 DEF QueueInv, Unanswered
<1>12. LateInv
  BY <1>4, <1>6 DEF LateInv, Succeeded, Answered
<1> QED BY <1>8, <1>9, <1>10, <1>11, <1>12 DEF CssInv

LEMMA StutterInv == CssInv /\ UNCHANGED vars => CssInv'
<1> SUFFICES ASSUME CssInv, UNCHANGED vars PROVE CssInv'
  OBVIOUS
<1> USE DEF CssInv
<1>1. UNCHANGED <<slot, size, queue, ptr, step, run, is_io_fire, chan, fate, late>>
  BY DEF vars
<1>2. TypesInv'
  BY <1>1 DEF TypesInv
<1>3. PoolInv' /\ FlagInv' /\ QueueInv'
  <2>1. run'.at # "pick" => run'.by # "nobody" /\ Len(queue) # 0 /\ run'.req = queue[Len(queue)]
    BY <1>1 DEF QueueInv
  <2> QED BY <1>1, <2>1, StaysPut
<1>4. LateInv'
  BY <1>1 DEF LateInv, Succeeded, Answered, req, NoProgram, Elsewhere, NoCcws
<1> QED BY <1>2, <1>3, <1>4

\* Every step keeps the invariant, and the answers.
LEMMA StepInv == Orderly /\ CssInv /\ Next => CssInv' /\ AnswersKept
<1> SUFFICES ASSUME Orderly, CssInv, Next PROVE CssInv' /\ AnswersKept
  OBVIOUS
<1>1. ASSUME NEW c \in Users, User(c) PROVE CssInv' /\ AnswersKept
  BY <1>1, CreateInv, SetFlagsInv, SendInv, AwaitInv, DeleteInv DEF User
<1>2. ASSUME DriverCall PROVE CssInv' /\ AnswersKept
  BY <1>2, DriverCallInv
<1>3. ASSUME DriverReturn PROVE CssInv' /\ AnswersKept
  BY <1>3, DriverReturnInv
<1>4. ASSUME Perform PROVE CssInv' /\ AnswersKept
  BY <1>4, PickInv, RefuseInv, ModifyInv, TestInv, AttendInv, AttestInv, StartInv, WaitInv, EndInv
     DEF Perform
<1>5. ASSUME NEW d \in Devices, DeviceEnds(d) \/ Attention(d) \/ Unplug(d)
      PROVE  CssInv' /\ AnswersKept
  BY <1>5, DeviceEndsInv, AttentionInv, UnplugInv
<1> QED BY <1>1, <1>2, <1>3, <1>4, <1>5 DEF Next

LEMMA Inductive == Orderly => (Spec => []CssInv)
<1> SUFFICES ASSUME Orderly PROVE Spec => []CssInv
  OBVIOUS
<1>1. Init => CssInv
  BY InitInv
<1>2. CssInv /\ [Next]_vars => CssInv'
  BY StepInv, StutterInv
<1> QED BY <1>1, <1>2, PTL DEF Spec

\* The queue has no more elements than the pool: no request is in it twice.
LEMMA QueueFits == CssInv => Len(queue) <= MaxPool
<1> SUFFICES ASSUME CssInv, ~(Len(queue) <= MaxPool) PROVE FALSE
  OBVIOUS
<1>1. queue \in Seq(Slot) /\ Len(queue) \in Nat /\ MaxPool \in Nat
  BY SlotFacts DEF CssInv, TypesInv
<1> DEFINE I == 1 .. Len(queue)
<1>2. IsFiniteSet(I) /\ Cardinality(I) = Len(queue)
  <2>1. IsFiniteSet(I) /\ Cardinality(I) = IF 1 > Len(queue) THEN 0 ELSE Len(queue) - 1 + 1
    BY <1>1, FS_Interval
  <2> QED BY <1>1, <2>1
<1>3. IsFiniteSet(Slot) /\ Cardinality(Slot) = MaxPool
  <2>1. MaxPool - 1 \in Int
    BY <1>1
  <2>2. IsFiniteSet(Slot) /\ Cardinality(Slot) = IF 0 > MaxPool - 1 THEN 0 ELSE MaxPool - 1 - 0 + 1
    BY <2>1, FS_Interval, SMTT(30) DEF Slot
  <2> QED BY <1>1, <2>2
<1>4. queue \in [I -> Slot]
  BY <1>1
<1> HIDE DEF I
<1>5. \E i, k \in I : i # k /\ queue[i] = queue[k]
  <2>1. Cardinality(Slot) < Cardinality(I)
    BY <1>1, <1>2, <1>3
  <2> QED BY <1>2, <1>3, <1>4, <2>1, FS_PigeonHole
<1> QED BY <1>5 DEF CssInv, QueueInv, I

\* Every pointer, flag and return code is one the code can have, and the queue
\* has no more elements than there are clients (css.cxx:35-78), so it never
\* outgrows the storage it was made with.
THEOREM TypeCorrect == Orderly => (Spec => []TypeOK)
<1> SUFFICES ASSUME Orderly PROVE Spec => []TypeOK
  OBVIOUS
<1>1. CssInv => TypeOK
  BY QueueFits DEF CssInv, TypesInv, TypeOK, Request, Performer
<1> QED BY <1>1, Inductive, PTL

\* request::destroy never moves a request from under its owner when the latest
\* is destroyed first (css.cxx:35-62): a client's pointer is its own request
\* for as long as it has it.
THEOREM RequestsAreOwn == Orderly => (Spec => []OwnRequest)
<1> SUFFICES ASSUME Orderly PROVE Spec => []OwnRequest
  OBVIOUS
<1>1. CssInv => OwnRequest
  BY DEF CssInv, PoolInv, OwnRequest
<1> QED BY <1>1, Inductive, PTL

\* The queue holds each request that was sent and not answered once, and
\* nothing else (css.cxx:71-78, 281), however the performer, the drivers and
\* the devices interleave.
THEOREM QueueIsWhatIsUnanswered == Orderly => (Spec => []QueueIsUnanswered)
<1> SUFFICES ASSUME Orderly PROVE Spec => []QueueIsUnanswered
  OBVIOUS
<1>1. CssInv => QueueIsUnanswered
  <2> SUFFICES ASSUME CssInv PROVE QueueIsUnanswered
    OBVIOUS
  <2>1. queue \in Seq(Slot) /\ DOMAIN queue = 1 .. Len(queue)
    BY DEF CssInv, TypesInv
  <2>2. IsInjective(queue)
    BY <2>1 DEF CssInv, QueueInv, IsInjective
  <2> DEFINE U == {ptr[c] : c \in {d \in Client :
                       step[d] = "sent" /\ "DONE" \notin slot[ptr[d]].flags}}
  <2>3. ASSUME NEW i \in 1 .. Len(queue) PROVE queue[i] \in U
    <3>1. queue[i] \in Slot /\ queue[i] < size /\ Unanswered(slot[queue[i]].owner)
      BY <2>1 DEF CssInv, TypesInv, QueueInv
    <3>2. slot[queue[i]].owner \in Client /\ ptr[slot[queue[i]].owner] = queue[i]
      BY <3>1 DEF CssInv, PoolInv
    <3> QED BY <3>1, <3>2 DEF Unanswered
  <2>4. ASSUME NEW p \in U PROVE \E i \in 1 .. Len(queue) : queue[i] = p
    <3>1. PICK c \in Client : Unanswered(c) /\ p = ptr[c]
      BY DEF Unanswered
    <3> QED BY <3>1 DEF CssInv, QueueInv
  <2>5. ToSet(queue) = U
    BY <2>1, <2>3, <2>4 DEF ToSet
  <2> QED BY <2>2, <2>5 DEF QueueIsUnanswered
<1> QED BY <1>1, Inductive, PTL

\* "Return code set by spooler, not valid until DONE is set" (css.hxx:214):
\* once it is, no step of another client, the performer or a device changes it
\* while the client holds the request.
THEOREM AnswersStand == Orderly => (Spec => AnswerStands)
<1> SUFFICES ASSUME Orderly PROVE Spec => AnswerStands
  OBVIOUS
<1>1. CssInv /\ [Next]_vars => [AnswersKept]_vars
  BY StepInv
<1>2. [][AnswersKept]_vars => AnswerStands
  <2>1. [AnswersKept]_vars =>
          [\A c \in Client : Answered(c) /\ ptr'[c] # NoSlot
              => Answered(c)' /\ slot'[ptr'[c]].retcode = slot[ptr[c]].retcode]_vars
    BY DEF AnswersKept
  <2> QED BY <2>1, PTL DEF AnswerStands
<1> QED BY <1>1, <1>2, Inductive, PTL DEF Spec

\* Until a wait ends with the device still running, a request reported as a
\* success has had its own channel program run to its end (css.cxx:240-273),
\* whatever devices are shared, unplugged or raise attentions.
THEOREM SuccessIsTrue == Orderly => (Spec => []SuccessUntilLate)
<1> SUFFICES ASSUME Orderly PROVE Spec => []SuccessUntilLate
  OBVIOUS
<1>1. CssInv => SuccessUntilLate
  BY DEF CssInv, LateInv, SuccessUntilLate
<1> QED BY <1>1, Inductive, PTL

=============================================================================
