---------------------------- MODULE CssRequests ------------------------------
(***************************************************************************)
(* Channel requests of the s390 kernel (kernel/s390/css.cxx): the pool they *)
(* live in, the queue they are sent to, css::request_perform that takes    *)
(* them to the channel subsystem, and those who make them: problem-state   *)
(* threads by SVC (kernel/service.cxx, sys/libio/css.cxx) and the DASD and *)
(* 3270 drivers, which spin inside one system call.                        *)
(*                                                                         *)
(* One CPU.  The SPOOLER performs with the timer masked and an SVC handler *)
(* is not preempted, so a request is performed without any client moving;  *)
(* the devices and their interruptions are what interleaves with it.  At   *)
(* boot the KERNEL thread calls the drivers enabled for I/O; it may be     *)
(* preempted, but then the queue's lock keeps the SPOOLER out.             *)
(*                                                                         *)
(* The lists stay below the 16 elements of their first allocation, so they *)
(* never move; and each allocation succeeds.                               *)
(***************************************************************************)
EXTENDS Integers, Sequences, SequencesExt

CONSTANTS
    Users,          \* problem-state threads that use requests
    Driver,         \* the kernel's own drivers: one call at a time
    Nobody,         \* no client
    Devices,
    Slow,           \* devices that may still be busy when wait_io gives up
    MaxAttentions,  \* bound on the attentions the operator raises
    Patience,       \* the bound of the attention loop, 65535 in the code
    Asks,           \* the flags the clients set
    Fresh,          \* what DONE may be in storage no request has used
    InOrder         \* TRUE: clients delete the latest request first

Client == Users \cup {Driver}

ASSUME CssAssumption ==
    /\ IsFiniteSet(Users)
    /\ Driver \notin Users /\ Nobody \notin Client
    /\ Devices # {}
    /\ Slow \subseteq Devices
    /\ MaxAttentions \in Nat /\ Patience \in Nat
    /\ Asks \subseteq SUBSET {"MODIFY", "IGNORE_CC", "WAIT_ATTENTION"}
    /\ Fresh \subseteq BOOLEAN /\ Fresh # {}
    /\ InOrder \in BOOLEAN

MaxPool == Cardinality(Client)   \* each client has one request at a time
Slot    == 0 .. MaxPool - 1
NoSlot  == MaxPool
NoCcws  == MaxPool               \* a null ccws._ptr
Elsewhere == MaxPool + 1         \* a CPA that is the end of no program

Flag == {"MODIFY", "IGNORE_CC", "WAIT_ATTENTION", "DONE"}

OK == 0
NOT_PRESENT == 3
EXPLICIT_FAILURE == -9
TIMEOUT == -10
Retcode == {OK, 1, NOT_PRESENT, EXPLICIT_FAILURE, TIMEOUT}

VARIABLES
    slot,        \* the storage of g_request_pool, beyond its size too
    size,        \* g_request_pool.size()
    queue,       \* g_queue: pointers into the pool
    ptr,         \* the request each client holds
    step,        \* how far each client is
    run,         \* who is in css::request_perform, and where
    is_io_fire,  \* set by asc_io_handler, consumed by wait_io
    chan,        \* the subchannel of each device
    attentions,  \* how many the operator has raised
    fate,        \* what became of the channel program of each client
    late         \* a wait has ended with the device still running

vars == <<slot, size, queue, ptr, step, run, is_io_fire, chan, attentions, fate, late>>
clients == <<ptr, step>>
devices == <<is_io_fire, chan, attentions>>

NoIrb == [attention |-> FALSE, cpa |-> Elsewhere]   \* css::irb{}
Idle == [by |-> "nobody", io |-> TRUE, at |-> "pick", req |-> NoSlot,
         irb |-> NoIrb, tries |-> 0]
NoProgram == [owner |-> Nobody, ccws |-> NoCcws]

Init ==
    /\ slot \in [Slot -> {[flags |-> IF d THEN {"DONE"} ELSE {}, dev |-> CHOOSE x \in Devices : TRUE,
                           ccws |-> NoCcws, retcode |-> OK, owner |-> Nobody] : d \in Fresh}]
    /\ size = 0 /\ queue = <<>>
    /\ ptr = [c \in Client |-> NoSlot]
    /\ step = [c \in Client |-> "idle"]
    /\ run = Idle
    /\ is_io_fire = FALSE
    /\ chan = [d \in Devices |-> [present |-> TRUE, program |-> NoProgram, pending |-> FALSE,
                                  irb |-> NoIrb, interrupt |-> FALSE]]
    /\ attentions = 0
    /\ fate = [c \in Client |-> "none"]
    /\ late = FALSE

-----------------------------------------------------------------------------
(* The pool.                                                               *)

\* Mutant of Inserted: the slot of the last element instead of a new one.
InsertedOver == IF size = 0 THEN 0 ELSE size - 1

\* insert(): the slot behind the last, with what it held before.
Inserted == size

\* resize of a list that has storage keeps it; one that has none gets its own.
Ccws(s) ==
    IF slot[s].ccws # NoCcws THEN slot[s].ccws
    ELSE CHOOSE a \in Slot : \A t \in Slot : slot[t].ccws # a

\* css::request::create: neither the flags nor the return code are set.
Created(c, d) ==
    [slot EXCEPT ![Inserted].dev = d, ![Inserted].ccws = Ccws(Inserted),
                 ![Inserted].owner = c]

\* The devices with the programs of client c taken for nobody's.
Forget(c) ==
    [d \in Devices |->
        IF chan[d].program.owner = c THEN [chan[d] EXCEPT !.program.owner = Nobody]
        ELSE chan[d]]

\* css::request::destroy: the requests behind it move down by one; the last
\* slot keeps a copy.  A pointer to outside the list removes nothing.
Destroy(c) ==
    LET p == ptr[c]
        cleared == [slot EXCEPT ![p].flags = {}, ![p].owner = Nobody]
    IN  /\ slot' = [s \in Slot |-> IF p <= s /\ s + 1 < size THEN cleared[s + 1] ELSE cleared[s]]
        /\ size' = IF p < size THEN size - 1 ELSE size
        /\ ptr' = [ptr EXCEPT ![c] = NoSlot]
        /\ step' = [step EXCEPT ![c] = "idle"]
        /\ fate' = [fate EXCEPT ![c] = "none"]

\* With InOrder, c may delete: it has the latest request.
MayDelete(c) == ~InOrder \/ \A d \in Client \ {c} : ptr[d] = NoSlot \/ ptr[d] < ptr[c]

-----------------------------------------------------------------------------
(* A problem-state thread: one action for each SVC of sys/libio/css.cxx.   *)
(* In the code the branches of SEND, XCHG_FLAGS and DELETE run into the    *)
(* kpanic behind them; here they return, as the library expects.           *)

CpuFree == run.by = "nobody"

\* SVC_CSS_REQ_CREAT
Create(c) ==
    /\ CpuFree /\ step[c] = "idle" /\ size < MaxPool
    /\ \E d \in Devices : slot' = Created(c, d)
    /\ size' = Inserted + 1
    /\ ptr' = [ptr EXCEPT ![c] = Inserted]
    /\ step' = [step EXCEPT ![c] = "made"]
    /\ UNCHANGED <<queue, run, devices, fate, late>>

\* SVC_CSS_REQ_XCHG_FLAGS
SetFlags(c) ==
    /\ CpuFree /\ step[c] = "made"
    /\ \E f \in Asks : slot' = [slot EXCEPT ![ptr[c]].flags = f]
    /\ step' = [step EXCEPT ![c] = "ready"]
    /\ UNCHANGED <<size, queue, ptr, run, devices, fate, late>>

\* SVC_CSS_REQ_SEND
Send(c) ==
    /\ CpuFree /\ step[c] \in {"made", "ready"}
    /\ queue' = Append(queue, ptr[c])
    /\ step' = [step EXCEPT ![c] = "sent"]
    /\ UNCHANGED <<slot, size, ptr, run, devices, fate, late>>

\* The SVC_CSS_REQ_AWAIT of css_request_await that answers 1.
Await(c) ==
    /\ CpuFree /\ step[c] = "sent" /\ "DONE" \in slot[ptr[c]].flags
    /\ step' = [step EXCEPT ![c] = "awaited"]
    /\ UNCHANGED <<slot, size, queue, ptr, run, devices, fate, late>>

\* SVC_CSS_REQ_DELETE
Delete(c) ==
    /\ CpuFree /\ step[c] = "awaited" /\ MayDelete(c)
    /\ Destroy(c)
    /\ chan' = Forget(c)
    /\ UNCHANGED <<queue, run, is_io_fire, attentions, late>>

User(c) == Create(c) \/ SetFlags(c) \/ Send(c) \/ Await(c) \/ Delete(c)

-----------------------------------------------------------------------------
(* A driver: read_single, write_single, and the calls of x3270.cxx.  It    *)
(* keeps the CPU until its own request is done.  In an SVC it is disabled  *)
(* for I/O interruptions, at boot (no user yet) it is enabled.             *)

Booting == \A c \in Users : step[c] = "idle"

DriverCall ==
    /\ CpuFree /\ step[Driver] = "idle" /\ size < MaxPool
    /\ \E d \in Devices, f \in Asks \cup {slot[Inserted].flags}, io \in BOOLEAN :
        /\ io => Booting
        /\ slot' = [Created(Driver, d) EXCEPT ![Inserted].flags = f]
        /\ run' = [Idle EXCEPT !.by = "driver", !.io = io]
    /\ size' = Inserted + 1
    /\ queue' = Append(queue, Inserted)
    /\ ptr' = [ptr EXCEPT ![Driver] = Inserted]
    /\ step' = [step EXCEPT ![Driver] = "sent"]
    /\ UNCHANGED <<devices, fate, late>>

\* The loop ends, the request is destroyed; the interruptions that were held
\* back come when the SVC returns.
DriverReturn ==
    /\ run.by = "driver" /\ run.at = "pick"
    /\ "DONE" \in slot[ptr[Driver]].flags
    /\ Destroy(Driver)
    /\ chan' = [d \in Devices |-> [Forget(Driver)[d] EXCEPT !.interrupt = FALSE]]
    /\ is_io_fire' = (is_io_fire \/ \E d \in Devices : chan[d].interrupt)
    /\ run' = Idle
    /\ UNCHANGED <<queue, attentions, late>>

-----------------------------------------------------------------------------
(* css::request_perform.                                                   *)

req == slot[run.req]
sub == chan[req.dev]

\* TSCH: the condition code, the IRB and the subchannel it leaves.  Without
\* status pending the CPA it stores is not the end of a program.
TestCc  == IF ~sub.present THEN NOT_PRESENT ELSE IF sub.pending THEN OK ELSE 1
TestIrb == IF ~sub.present THEN run.irb ELSE IF sub.pending THEN sub.irb ELSE NoIrb
Tested  == [chan EXCEPT ![req.dev].pending = FALSE, ![req.dev].irb = NoIrb,
                        ![req.dev].interrupt = FALSE]

\* "r == NOT_PRESENT && !(req->flags & IGNORE_CC)", after every instruction.
Refused == ~sub.present /\ "IGNORE_CC" \notin req.flags

\* Mutant of Remaining: the first of the queue is removed.
RemainingTail == Tail(queue)
\* Mutant of Remaining: as css.cxx:153 has it, the request stays.
RemainingAll == queue

\* request_queue.remove(req_queue_idx), the last.
Remaining == Front(queue)

\* The end label.  The SPOOLER goes on until nothing remains.
Finish(r) ==
    /\ slot' = [slot EXCEPT ![run.req].flags = {"DONE"}, ![run.req].retcode = r]
    /\ queue' = Remaining
    /\ run' = IF run.by = "spooler" /\ Remaining = <<>> THEN Idle
              ELSE [Idle EXCEPT !.by = run.by, !.io = run.io]
    /\ UNCHANGED <<size, clients>>

Goto(l) == run' = [run EXCEPT !.at = l, !.irb = TestIrb]

\* The head: try_lock, the last request, and the SPOOLER when it gets the CPU.
Pick ==
    /\ run.at = "pick" /\ queue # <<>>
    /\ run.by = "driver" => "DONE" \notin slot[ptr[Driver]].flags
    /\ LET p == Last(queue)
       IN  run' = [run EXCEPT !.by = IF @ = "nobody" THEN "spooler" ELSE @, !.req = p,
                              !.at = IF "MODIFY" \in slot[p].flags THEN "modify" ELSE "test"]
    /\ UNCHANGED <<slot, size, queue, clients, devices, fate, late>>

\* A TSCH, an MSCH or an SSCH that finds no device.
Refuse ==
    /\ run.at \in {"modify", "test", "attest", "start", "end"}
    /\ Refused
    /\ Finish(EXPLICIT_FAILURE)
    /\ UNCHANGED <<devices, fate, late>>

\* TSCH and MSCH of a request with MODIFY.
Modify ==
    /\ run.at = "modify" /\ ~Refused
    /\ Goto("test")
    /\ chan' = Tested
    /\ UNCHANGED <<slot, size, queue, clients, is_io_fire, attentions, fate, late>>

\* The TSCH before the start.
Test ==
    /\ run.at = "test" /\ ~Refused
    /\ Goto(IF "WAIT_ATTENTION" \in req.flags /\ ~TestIrb.attention THEN "attend" ELSE "start")
    /\ chan' = Tested
    /\ UNCHANGED <<slot, size, queue, clients, is_io_fire, attentions, fate, late>>

\* Mutant of GivesUp: wait_io without its bound.
WaitsOn == FALSE

\* wait_io has counted to its bound: whoever answers in time has answered.
GivesUp == ~is_io_fire /\ (req.dev \in Slow \/ sub.program = NoProgram)

\* wait_io
WaitIo ==
    /\ is_io_fire \/ GivesUp
    /\ is_io_fire' = FALSE

\* A wait of the attention loop.
Attend ==
    /\ run.at = "attend"
    /\ WaitIo
    /\ run' = [run EXCEPT !.at = "attest", !.tries = @ + 1]
    /\ UNCHANGED <<slot, size, queue, clients, chan, attentions, fate, late>>

OutOfPatience == run.tries > Patience

\* The TSCH of the attention loop; the bound comes before the attention.
Attest ==
    /\ run.at = "attest" /\ ~Refused
    /\ chan' = Tested
    /\ \/ OutOfPatience /\ Finish(TIMEOUT)
       \/ /\ ~OutOfPatience
          /\ Goto(IF TestIrb.attention THEN "start" ELSE "attend")
          /\ UNCHANGED <<slot, size, queue, clients>>
    /\ UNCHANGED <<is_io_fire, attentions, fate, late>>

\* SSCH.  A device that runs or has status pending starts nothing: condition
\* codes 1 and 2 are taken for success.
Start ==
    LET accepted == sub.present /\ ~sub.pending /\ sub.program = NoProgram
    IN  /\ run.at = "start" /\ ~Refused
        /\ run' = [run EXCEPT !.at = "wait"]
        /\ chan' = IF accepted
                   THEN [chan EXCEPT ![req.dev].program = [owner |-> req.owner, ccws |-> req.ccws]]
                   ELSE chan
        /\ UNCHANGED <<slot, size, queue, clients, is_io_fire, attentions, fate, late>>

\* The wait for the program.
Wait ==
    /\ run.at = "wait"
    /\ WaitIo
    /\ run' = [run EXCEPT !.at = "end"]
    /\ late' = (late \/ sub.program # NoProgram)
    /\ UNCHANGED <<slot, size, queue, clients, chan, attentions, fate>>

\* Mutant of Completed: the address the program stopped at is not compared.
CompletedAnyway == TRUE

\* "irb.scsw.cpa_addr != end_ccw"
Completed == TestIrb.cpa = req.ccws

\* The last TSCH and the comparison.
End ==
    /\ run.at = "end" /\ ~Refused
    /\ chan' = Tested
    /\ Finish(IF Completed THEN TestCc ELSE EXPLICIT_FAILURE)
    /\ UNCHANGED <<is_io_fire, attentions, fate, late>>

Perform == Pick \/ Refuse \/ Modify \/ Test \/ Attend \/ Attest \/ Start \/ Wait \/ End

-----------------------------------------------------------------------------
(* The devices.                                                            *)

\* Device d makes status pending; asc_io_handler runs if the CPU is enabled.
Interrupt(d, irb) ==
    /\ chan' = [chan EXCEPT ![d].program = NoProgram, ![d].pending = TRUE, ![d].irb = irb,
                            ![d].interrupt = ~run.io]
    /\ is_io_fire' = (is_io_fire \/ run.io)

\* The channel program of d comes to its end, or stops short of it.
DeviceEnds(d) ==
    /\ chan[d].program # NoProgram
    /\ \E whole \in BOOLEAN :
        /\ Interrupt(d, [attention |-> FALSE,
                         cpa |-> IF whole THEN chan[d].program.ccws ELSE Elsewhere])
        /\ fate' = [c \in Client |->
                        IF whole /\ c = chan[d].program.owner THEN "completed" ELSE fate[c]]
    /\ UNCHANGED <<slot, size, queue, clients, run, attentions, late>>

\* The operator presses ENTER.
Attention(d) ==
    /\ chan[d].present /\ ~chan[d].pending /\ chan[d].program = NoProgram
    /\ attentions < MaxAttentions
    /\ attentions' = attentions + 1
    /\ Interrupt(d, [attention |-> TRUE, cpa |-> Elsewhere])
    /\ UNCHANGED <<slot, size, queue, clients, run, fate, late>>

\* Device d is gone for good.
Unplug(d) ==
    /\ chan[d].present
    /\ chan' = [chan EXCEPT ![d] = [present |-> FALSE, program |-> NoProgram, pending |-> FALSE,
                                    irb |-> NoIrb, interrupt |-> FALSE]]
    /\ UNCHANGED <<slot, size, queue, clients, run, is_io_fire, attentions, fate, late>>

-----------------------------------------------------------------------------
Next ==
    \/ \E c \in Users : User(c)
    \/ DriverCall
    \/ DriverReturn
    \/ Perform
    \/ \E d \in Devices : DeviceEnds(d) \/ Attention(d) \/ Unplug(d)

Spec == Init /\ [][Next]_vars

\* A performer that has the CPU runs on; the SPOOLER gets the CPU again and
\* again (EveryThreadRuns of Scheduler), whatever the drivers do in between;
\* a device that is not slow answers.  Nothing is assumed of the users but
\* that they look for the answer.
Fairness ==
    /\ SF_vars(CpuFree /\ Pick)
    /\ WF_vars(Perform)
    /\ WF_vars(DriverReturn)
    /\ \A c \in Users : SF_vars(Await(c))
    /\ \A d \in Devices \ Slow : WF_vars(DeviceEnds(d))

FairSpec == Spec /\ Fairness

-----------------------------------------------------------------------------
\* Every pointer, flag and return code is one the code can have.
TypeOK ==
    /\ slot \in [Slot -> [flags : SUBSET Flag, dev : Devices, ccws : Slot \cup {NoCcws},
                          retcode : Retcode, owner : Client \cup {Nobody}]]
    /\ size \in 0 .. MaxPool
    /\ queue \in Seq(Slot) /\ Len(queue) <= MaxPool
    /\ ptr \in [Client -> Slot \cup {NoSlot}]
    /\ step \in [Client -> {"idle", "made", "ready", "sent", "awaited"}]
    /\ run.tries \in 0 .. Patience + 1 /\ run.req \in Slot \cup {NoSlot}
    /\ is_io_fire \in BOOLEAN /\ late \in BOOLEAN

\* The request a client holds is its own for as long as it holds it: it is in
\* the pool, no other client has it, and deleting another request has not put
\* a different one in its place (css.cxx:35-62).
OwnRequest ==
    \A c \in Client : ptr[c] # NoSlot => ptr[c] < size /\ slot[ptr[c]].owner = c

\* What waits in the queue are the requests that were sent and not answered,
\* each of them once: none is forgotten, performed twice, or performed after
\* its owner has destroyed it (css.cxx:71-78, 281).
QueueIsUnanswered ==
    /\ IsInjective(queue)
    /\ ToSet(queue) = {ptr[c] : c \in {d \in Client :
                          step[d] = "sent" /\ "DONE" \notin slot[ptr[d]].flags}}

Answered(c) == step[c] \in {"sent", "awaited"} /\ "DONE" \in slot[ptr[c]].flags

\* "Return code set by spooler, not valid until DONE is set" (css.hxx:214):
\* from then on it is valid, whatever else is performed or destroyed.
AnswerStands ==
    [][\A c \in Client : Answered(c) /\ ptr'[c] # NoSlot
          => Answered(c)' /\ slot'[ptr'[c]].retcode = slot[ptr[c]].retcode]_vars

Succeeded(c) == Answered(c) /\ slot[ptr[c]].retcode >= 0

\* "this must be set accordingly to know if the request was completed or not"
\* (css.cxx:262-263): a request reported as a success has had its own channel
\* program run to its end.
SuccessMeansCompleted ==
    \A c \in Client : Succeeded(c) => fate[c] = "completed"

\* A success is one as long as no wait has ended with the device still
\* running: late answers, of this device's or any other request, are all that
\* css::request_perform can mistake for an answer (css.cxx:240-273).
SuccessUntilLate ==
    \A c \in Client : ~late /\ Succeeded(c) => fate[c] = "completed"

\* Every request that is sent is answered, in whatever order others are sent
\* and however long a device keeps silent (css.cxx:160-284).
EverySentIsAnswered ==
    \A c \in Client : (step[c] = "sent") ~> (step[c] # "sent")
=============================================================================
