-------------------------------- MODULE Locks --------------------------------
(***************************************************************************)
(* base::mutex (kernel/mutex.hxx) and those who take it.  Three flows take *)
(* locks: the kernel thread KERNEL, which the timer preempts; the SPOOLER, *)
(* which performs requests with interruptions off; and the SVC and program *)
(* check handlers on behalf of a problem-state thread, which are never     *)
(* preempted.  A lock is a word that is tested and then set, so that a     *)
(* flow may lose the CPU between the two, and whoever finds it set spins.  *)
(*                                                                         *)
(* What a flow does is the sequence of the steps on locks that its call    *)
(* makes, in `work'; what it does to the data in between is in the modules *)
(* of the data.  `print' and `panic' locks are only tried, never waited    *)
(* for.  The other regions of real storage, all alike, are left out.       *)
(***************************************************************************)
EXTENDS Integers, Sequences, FiniteSets, SequencesExt

CONSTANT
    BootProgramRuns  \* whether a problem-state thread runs before exec_user ends

ASSUME LocksAssumption == BootProgramRuns \in BOOLEAN

VARIABLES
    cpu,         \* the flow that runs
    work,        \* what each flow still has to do in its call
    word,        \* _lock of each mutex: whether it is LOCKED
    inside,      \* history: the locks each flow has taken and not given back
    requests,    \* g_queue, by the flow whose request each is
    done,        \* the flows whose request has DONE
    booted       \* exec_user has woken the command processor's job

locksVars == <<cpu, work, word, inside, requests, done, booted>>

Flows == {"KERNEL", "SPOOLER", "PROBLEM"}

\* The lock of a flow's request.
ReqLock(f) == CASE f = "KERNEL" -> "kernel's req" [] OTHER -> "problem's req"

Mutexes == {"region", "pool", "queue", "device", "vspace", "users", "print", "pc_handler"}
             \cup {ReqLock(f) : f \in Flows}

Do(op, l) == [op |-> op, on |-> l]

\* base::mutex::lock, unlock and try_lock: the word is set in a step of its own.
Lock(l) == <<Do("test", l)>>
Unlock(l) == <<Do("unlock", l)>>

\* A scoped_mutex around some steps.
Scoped(l, steps) == Lock(l) \o steps \o Unlock(l)

-----------------------------------------------------------------------------
(* The calls, as the steps on locks they make.                             *)

\* real_storage::alloc, free and get_stats
Alloc == Scoped("region", <<>>)
Free == Scoped("region", <<>>)

\* Mutant of Realloc: the lock is still held over alloc.
ReallocHolds == Scoped("region", Alloc \o Free)

\* real_storage::realloc: the lock is given back by hand, and again at the end.
Realloc == Scoped("region", Unlock("region") \o Alloc \o Free)

\* dynamic_list::insert: the list has room, has no storage yet, or must grow.
Growths == {<<>>, Alloc, Realloc}

\* user::create, group::create, get_by_name
ListedUser(g) == Scoped("users", g)

\* address_space::map_page, virtual_to_real
Mapped(g) == Scoped("vspace", g)

\* css::request::create: the pool, then the request's own ccws.
Create(g) == Scoped("pool", g \o Alloc)

\* css::request::send
Send(f, g) == Scoped("queue", g \o <<Do("insert", f)>>)

\* css::request::destroy
Destroy(f) == Scoped(ReqLock(f), <<>>) \o Scoped("pool", <<>>)

\* A driver's read or write: it performs requests until its own is done.
DriverCall(f, g) == Create(g) \o Send(f, g) \o <<Do("await", f)>> \o Destroy(f)

\* x3270::init holds the device's lock over all it does.
AddTerminal(g) == Scoped("device", DriverCall("KERNEL", g) \o Alloc)

\* kprintf gives up when somebody prints.
Kprintf == <<Do("try", "print")>>

\* asc_pc_handler: the loop over try_lock ends at its first turn, the lock being held.
PcHandler == Scoped("pc_handler", <<Do("while", "pc_handler")>>)

\* What both a kernel thread and an SVC may call.
Calls(f) ==
    {Alloc, Realloc, Kprintf} \cup {Mapped(g) : g \in {<<>>, Alloc}}
        \cup {ListedUser(g) : g \in Growths} \cup {DriverCall(f, g) : g \in Growths}

\* Mutant of Perform: the queue is waited for.
PerformWaits == <<Do("test", "queue"), Do("pick", "queue")>>

\* css::request_perform up to the choice of the request.
Perform == <<Do("try", "queue"), Do("pick", "queue")>>

\* The rest of it, with the last request of the queue or with none.
Performed(f, q) ==
    IF q = <<>>
    THEN Unlock("queue")
    ELSE Lock(ReqLock(Last(q))) \o <<Do("answer", Last(q))>>
           \o Unlock("queue") \o Unlock(ReqLock(Last(q)))
           \o (IF f = "SPOOLER" /\ Len(q) > 1 THEN Perform ELSE <<>>)

-----------------------------------------------------------------------------
(* Steps.                                                                  *)

LocksInit ==
    /\ cpu = "KERNEL"
    /\ work = [f \in Flows |-> <<>>]
    /\ word = [l \in Mutexes |-> FALSE]
    /\ inside = [f \in Flows |-> {}]
    /\ requests = <<>>
    /\ done = {}
    /\ booted = FALSE

\* The flow f goes on with the given steps.
Continue(f, steps) == work' = [work EXCEPT ![f] = steps]

Facing(f, op) == cpu = f /\ work[f] # <<>> /\ Head(work[f]).op = op

\* lock() tests the word until it is UNLOCKED.
Test(f) ==
    /\ Facing(f, "test")
    /\ ~word[Head(work[f]).on]
    /\ Continue(f, <<Do("set", Head(work[f]).on)>> \o Tail(work[f]))
    /\ UNCHANGED <<cpu, word, inside, requests, done, booted>>

\* try_lock: what depends on the lock is skipped when somebody has it.
Try(f) ==
    /\ Facing(f, "try")
    /\ LET l == Head(work[f]).on
           rest == Tail(work[f])
           given == IF l = "print" THEN Unlock(l) \o rest ELSE rest
       IN  IF word[l]
           THEN Continue(f, IF l = "print" THEN rest ELSE Tail(rest))
           ELSE Continue(f, <<Do("set", l)>> \o given)
    /\ UNCHANGED <<cpu, word, inside, requests, done, booted>>

Set(f) ==
    /\ Facing(f, "set")
    /\ word' = [word EXCEPT ![Head(work[f]).on] = TRUE]
    /\ inside' = [inside EXCEPT ![f] = @ \cup {Head(work[f]).on}]
    /\ Continue(f, Tail(work[f]))
    /\ UNCHANGED <<cpu, requests, done, booted>>

\* Nobody asks whose the lock is.
Release(f) ==
    /\ Facing(f, "unlock")
    /\ word' = [word EXCEPT ![Head(work[f]).on] = FALSE]
    /\ inside' = [inside EXCEPT ![f] = @ \ {Head(work[f]).on}]
    /\ Continue(f, Tail(work[f]))
    /\ UNCHANGED <<cpu, requests, done, booted>>

\* while(try_lock()): it goes on as soon as the lock is not to be had.
While(f) ==
    /\ Facing(f, "while")
    /\ word[Head(work[f]).on]
    /\ Continue(f, Tail(work[f]))
    /\ UNCHANGED <<cpu, word, inside, requests, done, booted>>

\* g_queue->insert
Enqueue(f) ==
    /\ Facing(f, "insert")
    /\ requests' = Append(requests, f)
    /\ done' = done \ {f}
    /\ Continue(f, Tail(work[f]))
    /\ UNCHANGED <<cpu, word, inside, booted>>

\* request_perform has the queue.
PickRequest(f) ==
    /\ Facing(f, "pick")
    /\ Continue(f, Performed(f, requests) \o Tail(work[f]))
    /\ UNCHANGED <<cpu, word, inside, requests, done, booted>>

\* The request is performed, and taken off the queue as DONE.
Answer(f) ==
    /\ Facing(f, "answer")
    /\ done' = done \cup {Head(work[f]).on}
    /\ requests' = Front(requests)
    /\ Continue(f, Tail(work[f]))
    /\ UNCHANGED <<cpu, word, inside, booted>>

\* A driver looks whether its request is done, and performs one if not.
AwaitDone(f) ==
    /\ Facing(f, "await")
    /\ Continue(f, IF f \in done THEN Tail(work[f]) ELSE Perform \o work[f])
    /\ UNCHANGED <<cpu, word, inside, requests, done, booted>>

\* main and what it calls; exec_user's last act ends its work.
KernelCalls ==
    /\ cpu = "KERNEL" /\ work["KERNEL"] = <<>> /\ ~booted
    /\ \/ \E steps \in Calls("KERNEL") \cup {AddTerminal(g) : g \in Growths} :
              Continue("KERNEL", steps) /\ UNCHANGED booted
       \/ booted' = TRUE /\ UNCHANGED work
    /\ UNCHANGED <<cpu, word, inside, requests, done>>

\* An SVC, or a program check.
HandlerEntered ==
    /\ cpu = "PROBLEM" /\ work["PROBLEM"] = <<>>
    /\ \E steps \in Calls("PROBLEM") \cup {PcHandler} : Continue("PROBLEM", steps)
    /\ UNCHANGED <<cpu, word, inside, requests, done, booted>>

\* Mutant of Masked: the SPOOLER is preempted while it performs.
MaskedButSpooler(f) == f = "PROBLEM" /\ work[f] # <<>>

\* Flows that the timer does not interrupt.
Masked(f) == f \in {"SPOOLER", "PROBLEM"} /\ work[f] # <<>>

\* The threads' turns, as Scheduler gives them.
Following(f) ==
    CASE f = "KERNEL" -> "SPOOLER"
      [] f = "SPOOLER" /\ (booted \/ BootProgramRuns) -> "PROBLEM"
      [] OTHER -> "KERNEL"

\* A tick, or the SPOOLER's yield: it performs again as soon as it has its turn.
Switch ==
    /\ ~Masked(cpu)
    /\ cpu' = Following(cpu)
    /\ IF cpu' = "SPOOLER" /\ work["SPOOLER"] = <<>>
       THEN Continue("SPOOLER", Perform)
       ELSE UNCHANGED work
    /\ UNCHANGED <<word, inside, requests, done, booted>>

LockStep(f) ==
    \/ Test(f) \/ Try(f) \/ Set(f) \/ Release(f) \/ While(f)
    \/ Enqueue(f) \/ PickRequest(f) \/ Answer(f) \/ AwaitDone(f)

LocksNext == (\E f \in Flows : LockStep(f)) \/ KernelCalls \/ HandlerEntered \/ Switch

\* The timer fires, and leaves a flow the time for a step in some of its turns.
LocksFairness == (\A f \in Flows : SF_locksVars(LockStep(f))) /\ WF_locksVars(Switch)

LocksSpec == LocksInit /\ [][LocksNext]_locksVars /\ LocksFairness

-----------------------------------------------------------------------------
(* Properties.                                                             *)

LocksTypeOK ==
    /\ cpu \in Flows
    /\ DOMAIN work = Flows
    /\ word \in [Mutexes -> BOOLEAN]
    /\ inside \in [Flows -> SUBSET Mutexes]
    /\ ToSet(requests) \cup done \subseteq Flows
    /\ booted \in BOOLEAN

\* A lock is held by one flow at a time and is set while it is, although it is
\* tested and set in two steps and realloc gives it back twice.
MutualExclusion ==
    \A f \in Flows : \A l \in inside[f] :
        word[l] /\ \A g \in Flows \ {f} : l \notin inside[g]

\* "mutexes deadlock because the SVC can't switch tasks" (entry.cxx:251): who
\* cannot be preempted never finds a lock set that it would have to wait for.
NobodySpinsMasked ==
    Masked(cpu) /\ Facing(cpu, "test") => ~word[Head(work[cpu]).on]

\* Every call of the kernel thread comes to its end: it finds no lock of its
\* own set, nor one that was left set, and its requests are performed.
KernelCallsEnd == work["KERNEL"] # <<>> ~> work["KERNEL"] = <<>>
=============================================================================
