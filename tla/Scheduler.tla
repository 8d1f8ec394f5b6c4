------------------------------ MODULE Scheduler ------------------------------
(***************************************************************************)
(* The timesharing scheduler of the s390 kernel: the job/task/thread table *)
(* of kernel/timeshr.cxx, the interruption handlers that drive it          *)
(* (kernel/s390/handlers.cxx, kernel/service.cxx) and the kernel thread    *)
(* that fills it (kernel/s390/entry.cxx, kernel/kmain.cxx).                *)
(*                                                                         *)
(* One CPU.  Handlers run with external and I/O interruptions disabled, so *)
(* the entry of a handler, each turn of the while(1) of timeshare::next    *)
(* and the final switch are steps that nothing else interleaves with; the  *)
(* kernel thread is interruptible between any two of its own steps.        *)
(*                                                                         *)
(* Register sets and PSWs are abstracted to their owner: the value t       *)
(* stands for "what thread t had when it last ran (or was given when it    *)
(* was made)", NoThread for storage that holds no thread's state.          *)
(*                                                                         *)
(* Init takes the SVC that ends timeshare::init as returned.  Every yield  *)
(* after it is modelled as the code has it, kpanic included.               *)
(***************************************************************************)
EXTENDS Naturals, Sequences

CONSTANTS
    MaxJobs,      \* bound on g_scheduler->jobs
    MaxTasks,     \* bound on the tasks ever created
    MaxThreads,   \* bound on the threads ever created
    Interrupts    \* the classes of events that call timeshare::schedule

Causes == {"ext", "pc", "await", "yield"}

ASSUME SchedulerAssumption ==
    /\ MaxJobs \in Nat \ {0}
    /\ MaxTasks \in Nat \ {0}
    /\ MaxThreads \in Nat \ {0, 1}
    /\ Interrupts \subseteq Causes

Job    == 0 .. MaxJobs - 1
Task   == 1 .. MaxTasks
Thread == 1 .. MaxThreads

NoThread == 0
Kern     == 1      \* the KERNEL thread: the flow of init() and main()
Spooler  == 2      \* the SPOOLER thread
Token    == Thread \cup {NoThread}
Context  == [regs : Token, psw : Token]

VARIABLES
    nJobs,      \* g_scheduler->jobs.size()
    nTasks,     \* tasks created so far: the next task's identity
    nThreads,   \* threads created so far
    asleep,     \* job::flags & SLEEP
    tasks,      \* job::tasks
    threads,    \* task::threads
    curJob,     \* g_scheduler->current_job
    curTask,    \* job::current_task
    curThread,  \* task::current_thread
    ctx,        \* thread::context
    cpu,        \* the registers and the PSW the CPU runs with
    psa,        \* FLCGRSAV and the old PSWs in the prefixed storage area
    mode,       \* "run": a thread; "scan": timeshare::next; "halted": kpanic
    cause,      \* why timeshare::schedule was called
    oldThread,  \* timeshare::next's old_thread
    build,      \* the kernel thread's progress
    timerOn     \* the timer is set and the PSW lets it interrupt

table  == <<nJobs, nTasks, nThreads, asleep, tasks, threads>>
cursor == <<curJob, curTask, curThread>>
vars   == <<table, cursor, ctx, cpu, psa, mode, cause, oldThread, build, timerOn>>

-----------------------------------------------------------------------------
(* The list operations of storage::dynamic_list the table is made of.      *)

\* remove(idx): the later elements move down by one.  i counts from 1.
Without(s, i) == [k \in 1 .. Len(s) - 1 |-> IF k < i THEN s[k] ELSE s[k + 1]]

\* Mutants of Advance: ">" for ">="; a cursor that stays at the end.
AdvancePastEnd(cur, size) == IF cur + 1 > size THEN 0 ELSE cur + 1
AdvanceStuck(cur, size) == IF cur + 1 >= size THEN cur ELSE cur + 1

\* "current++; if(current >= size) current = 0"
Advance(cur, size) == IF cur + 1 >= size THEN 0 ELSE cur + 1

\* Every list of the table that is not empty has its cursor inside it.
CurrentTask   == tasks[curJob][curTask[curJob] + 1]
CurrentThread == threads[CurrentTask][curThread[CurrentTask] + 1]

\* &task->threads[task->current_thread] of the current task.  A list that a
\* kill has emptied still has its storage: the slot of a thread that is gone.
OldThread(ts, cur) ==
    IF ts = <<>> \/ threads[ts[cur + 1]] = <<>> THEN NoThread
    ELSE threads[ts[cur + 1]][curThread[ts[cur + 1]] + 1]

-----------------------------------------------------------------------------
\* init_smp after timeshare::init has made SYSMAIN, KERNEL and its thread.
Init ==
    /\ nJobs = 1 /\ nTasks = 1 /\ nThreads = 1
    /\ asleep = [j \in Job |-> j # 0]
    /\ tasks = [j \in Job |-> IF j = 0 THEN <<1>> ELSE <<>>]
    /\ threads = [t \in Task |-> IF t = 1 THEN <<Kern>> ELSE <<>>]
    /\ curJob = 0
    /\ curTask = [j \in Job |-> 0]
    /\ curThread = [t \in Task |-> 0]
    /\ ctx = [t \in Thread |-> [regs |-> NoThread, psw |-> NoThread]]
    /\ cpu = [regs |-> Kern, psw |-> Kern]
    /\ psa = [grsav |-> NoThread, ext |-> NoThread, svc |-> NoThread, pc |-> NoThread]
    /\ mode = "run" /\ cause = "ext" /\ oldThread = NoThread
    /\ build = "spooler_task" /\ timerOn = FALSE

-----------------------------------------------------------------------------
(* Making jobs, tasks and threads.                                         *)

\* Mutant of JobCreate: the job is not put to sleep while it is being made.
JobCreateAwake ==
    /\ nJobs < MaxJobs
    /\ nJobs' = nJobs + 1
    /\ asleep' = [asleep EXCEPT ![nJobs] = FALSE]

\* job::create: the job is inserted asleep, between disable() and enable().
JobCreate ==
    /\ nJobs < MaxJobs
    /\ nJobs' = nJobs + 1
    /\ asleep' = [asleep EXCEPT ![nJobs] = TRUE]

\* task::create in job j
TaskCreate(j) ==
    /\ nTasks < MaxTasks
    /\ nTasks' = nTasks + 1
    /\ tasks' = [tasks EXCEPT ![j] = Append(@, nTasks + 1)]

\* thread::create in task t: the stack pointer is set, the PSW is still zero
ThreadCreate(t) ==
    /\ nThreads < MaxThreads
    /\ nThreads' = nThreads + 1
    /\ threads' = [threads EXCEPT ![t] = Append(@, nThreads + 1)]

\* thread::create followed by set_pc: the context it leaves in the new thread
NewContext(psw) == [regs |-> nThreads + 1, psw |-> psw]

\* The kernel thread runs, as itself.
InKernelThread == mode = "run" /\ cpu = [regs |-> Kern, psw |-> Kern]

\* init_smp: the SPOOLER is added to SYSMAIN, which is awake.  Only then is the
\* timer set (set_timer_delta) and are external interruptions let through
\* (enable_io): up to here the PSW of the boot flow masks them.
MakeSpoolerTask ==
    /\ InKernelThread /\ build = "spooler_task"
    /\ TaskCreate(0)
    /\ build' = "spooler_thread"
    /\ UNCHANGED <<nJobs, nThreads, asleep, threads, cursor, ctx, cpu, psa,
                   mode, cause, oldThread, timerOn>>

MakeSpoolerThread ==
    /\ InKernelThread /\ build = "spooler_thread"
    /\ ThreadCreate(nTasks)
    /\ ctx' = [ctx EXCEPT ![nThreads + 1] = NewContext(NoThread)]
    /\ build' = "spooler_pc"
    /\ UNCHANGED <<nJobs, nTasks, asleep, tasks, cursor, cpu, psa,
                   mode, cause, oldThread, timerOn>>

SetSpoolerPc ==
    /\ InKernelThread /\ build = "spooler_pc"
    /\ ctx' = [ctx EXCEPT ![Spooler].psw = Spooler]
    /\ build' = "kickstart"
    /\ UNCHANGED <<table, cursor, cpu, psa, mode, cause, oldThread, timerOn>>

Kickstart ==
    /\ InKernelThread /\ build = "kickstart"
    /\ timerOn' = TRUE
    /\ build' = "job"
    /\ UNCHANGED <<table, cursor, ctx, cpu, psa, mode, cause, oldThread>>

\* exec_user (and boot::init): a job, its task, its thread, the thread's PC,
\* and only then is the job woken.
MakeUserJob ==
    /\ InKernelThread /\ build = "job"
    /\ JobCreate
    /\ build' = "task"
    /\ UNCHANGED <<nTasks, nThreads, tasks, threads, cursor, ctx, cpu, psa,
                   mode, cause, oldThread, timerOn>>

MakeUserTask ==
    /\ InKernelThread /\ build = "task"
    /\ TaskCreate(nJobs - 1)
    /\ build' = "thread"
    /\ UNCHANGED <<nJobs, nThreads, asleep, threads, cursor, ctx, cpu, psa,
                   mode, cause, oldThread, timerOn>>

MakeUserThread ==
    /\ InKernelThread /\ build = "thread"
    /\ ThreadCreate(tasks[nJobs - 1][1])
    /\ ctx' = [ctx EXCEPT ![nThreads + 1] = NewContext(NoThread)]
    /\ build' = "pc"
    /\ UNCHANGED <<nJobs, nTasks, asleep, tasks, cursor, cpu, psa,
                   mode, cause, oldThread, timerOn>>

\* The thread the kernel thread made last for the job it is building.
UserThread == threads[tasks[nJobs - 1][1]][1]

SetUserPc ==
    /\ InKernelThread /\ build = "pc"
    /\ ctx' = [ctx EXCEPT ![UserThread].psw = UserThread]
    /\ build' = "wake"
    /\ UNCHANGED <<table, cursor, cpu, psa, mode, cause, oldThread, timerOn>>

WakeUserJob ==
    /\ InKernelThread /\ build = "wake"
    /\ asleep' = [asleep EXCEPT ![nJobs - 1] = FALSE]
    /\ build' = "job"
    /\ UNCHANGED <<nJobs, nTasks, nThreads, tasks, threads, cursor, ctx, cpu, psa,
                   mode, cause, oldThread, timerOn>>

KernelThread ==
    \/ MakeSpoolerTask \/ MakeSpoolerThread \/ SetSpoolerPc \/ Kickstart
    \/ MakeUserJob \/ MakeUserTask \/ MakeUserThread \/ SetUserPc \/ WakeUserJob

\* A problem-state thread runs, as itself.
InUserThread ==
    /\ mode = "run"
    /\ cpu.regs = cpu.psw
    /\ cpu.psw \notin {NoThread, Kern, Spooler}

\* SVC_EXEC_AT: a task and a thread in the current job, in one handler.
ExecAt ==
    /\ InUserThread
    /\ TaskCreate(curJob)
    /\ nThreads < MaxThreads
    /\ nThreads' = nThreads + 1
    /\ threads' = [threads EXCEPT ![nTasks + 1] = Append(@, nThreads + 1)]
    /\ ctx' = [ctx EXCEPT ![nThreads + 1] = NewContext(nThreads + 1)]
    /\ psa' = [psa EXCEPT !.grsav = cpu.regs, !.svc = cpu.psw]
    /\ UNCHANGED <<nJobs, asleep, cursor, cpu, mode, cause, oldThread, build, timerOn>>

\* SVC_THREAD_AT: a thread in the current task.
ThreadAt ==
    /\ InUserThread
    /\ ThreadCreate(CurrentTask)
    /\ ctx' = [ctx EXCEPT ![nThreads + 1] = NewContext(nThreads + 1)]
    /\ psa' = [psa EXCEPT !.grsav = cpu.regs, !.svc = cpu.psw]
    /\ UNCHANGED <<nJobs, nTasks, asleep, tasks, cursor, cpu, mode, cause, oldThread,
                   build, timerOn>>

-----------------------------------------------------------------------------
(* The events that call timeshare::schedule.                               *)

\* The old PSW an event of cause c is stored in.
OldPsw(c) == CASE c = "ext" -> "ext" [] c = "pc" -> "pc" [] OTHER -> "svc"

\* The CPU stores the PSW, the first-level handler the registers, and the
\* handler calls schedule.
Enter(c) ==
    /\ c \in Interrupts
    /\ mode = "run"
    /\ psa' = [psa EXCEPT !.grsav = cpu.regs, ![OldPsw(c)] = cpu.psw]
    /\ mode' = "scan"
    /\ cause' = c
    /\ UNCHANGED <<nJobs, nTasks, nThreads, asleep, threads, curJob, curThread,
                   ctx, cpu, build, timerOn>>

\* asc_external_handler
External ==
    /\ timerOn
    /\ Enter("ext")
    /\ oldThread' = OldThread(tasks[curJob], curTask[curJob])
    /\ UNCHANGED <<tasks, curTask>>

\* service::common, SVC_SCHED_YIELD and SVC_CSS_REQ_AWAIT
Yield(c) ==
    /\ c \in {"await", "yield"}
    /\ Enter(c)
    /\ oldThread' = OldThread(tasks[curJob], curTask[curJob])
    /\ UNCHANGED <<tasks, curTask>>

\* Mutant of ProgramCheck: job::remove leaves current_task where it was.
ProgramCheckKeepsCursor ==
    /\ Enter("pc")
    /\ LET left == Without(tasks[curJob], curTask[curJob] + 1)
       IN  /\ tasks' = [tasks EXCEPT ![curJob] = left]
           /\ oldThread' = IF curTask[curJob] < Len(left)
                           THEN OldThread(left, curTask[curJob]) ELSE NoThread
    /\ UNCHANGED curTask

\* asc_pc_handler: the current task leaves its job's list (job::remove), then
\* schedule.
ProgramCheck ==
    /\ Enter("pc")
    /\ LET left == Without(tasks[curJob], curTask[curJob] + 1)
           cur  == IF curTask[curJob] >= Len(left) THEN 0 ELSE curTask[curJob]
       IN  /\ tasks' = [tasks EXCEPT ![curJob] = left]
           /\ curTask' = [curTask EXCEPT ![curJob] = cur]
           /\ oldThread' = OldThread(left, cur)

-----------------------------------------------------------------------------
(* timeshare::next, one turn of its loop, and switch_context.              *)

\* A sleeping job or one with an empty task list is passed over.
SkipJob(j) ==
    /\ asleep[j] \/ tasks[j] = <<>>
    /\ UNCHANGED <<curTask, curThread, ctx, cpu, psa, mode>>

\* A task with no thread is passed over, after the job's cursor has moved.
SkipTask(j) ==
    LET cur == Advance(curTask[j], Len(tasks[j]))
    IN  /\ ~asleep[j] /\ tasks[j] # <<>>
        /\ threads[tasks[j][cur + 1]] = <<>>
        /\ curTask' = [curTask EXCEPT ![j] = cur]
        /\ UNCHANGED <<curThread, ctx, cpu, psa, mode>>

\* Mutants of SwitchContext: the new thread's state is loaded before the old
\* one's is saved over it; the state is saved into the new thread's context.
SwitchContextLoadsFirst(old, new) ==
    LET loaded == [psa EXCEPT !.grsav = ctx[new].regs, !.ext = ctx[new].psw]
    IN  /\ ctx' = IF old = NoThread THEN ctx
                  ELSE [ctx EXCEPT ![old] = [regs |-> loaded.grsav, psw |-> loaded.ext]]
        /\ psa' = loaded
        /\ cpu' = [regs |-> loaded.grsav, psw |-> loaded[OldPsw(cause)]]
        /\ mode' = IF cause = "yield" THEN "halted" ELSE "run"
SwitchContextSavesIntoNew(old, new) ==
    /\ ctx' = [ctx EXCEPT ![new] = [regs |-> psa.grsav, psw |-> psa.ext]]
    /\ cpu' = [regs |-> psa.grsav, psw |-> psa[OldPsw(cause)]]
    /\ mode' = IF cause = "yield" THEN "halted" ELSE "run"
    /\ UNCHANGED psa

\* switch_context is always given the external old PSW; the handler then
\* loads the PSW of its own class.  SVC_SCHED_YIELD does not return from
\* service::common: it falls through to kpanic("Invalid syscall").
SwitchContext(old, new) ==
    LET saved == IF old = NoThread THEN ctx
                 ELSE [ctx EXCEPT ![old] = [regs |-> psa.grsav, psw |-> psa.ext]]
        out   == [psa EXCEPT !.grsav = saved[new].regs, !.ext = saved[new].psw]
    IN  /\ ctx' = saved
        /\ psa' = out
        /\ cpu' = [regs |-> out.grsav, psw |-> out[OldPsw(cause)]]
        /\ mode' = IF cause = "yield" THEN "halted" ELSE "run"

\* Mutant of Dispatch: the job goes on with the task it was at.
DispatchSameTask(j) ==
    LET t == tasks[j][curTask[j] + 1]
        n == Advance(curThread[t], Len(threads[t]))
    IN  /\ ~asleep[j] /\ tasks[j] # <<>>
        /\ threads[t] # <<>>
        /\ curThread' = [curThread EXCEPT ![t] = n]
        /\ SwitchContext(oldThread, threads[t][n + 1])
        /\ UNCHANGED curTask

\* The next thread of the next task of job j gets the CPU.
Dispatch(j) ==
    LET cur == Advance(curTask[j], Len(tasks[j]))
        t   == tasks[j][cur + 1]
        n   == Advance(curThread[t], Len(threads[t]))
    IN  /\ ~asleep[j] /\ tasks[j] # <<>>
        /\ threads[t] # <<>>
        /\ curTask' = [curTask EXCEPT ![j] = cur]
        /\ curThread' = [curThread EXCEPT ![t] = n]
        /\ SwitchContext(oldThread, threads[t][n + 1])

ScanStep ==
    /\ mode = "scan"
    /\ LET j == Advance(curJob, nJobs)
       IN  /\ curJob' = j
           /\ SkipJob(j) \/ SkipTask(j) \/ Dispatch(j)
    /\ UNCHANGED <<table, cause, oldThread, build, timerOn>>

-----------------------------------------------------------------------------
Next ==
    \/ KernelThread
    \/ ExecAt \/ ThreadAt
    \/ External \/ ProgramCheck
    \/ \E c \in {"await", "yield"} : Yield(c)
    \/ ScanStep

Spec == Init /\ [][Next]_vars

\* The boot code runs on when it has the CPU; the CPU timer, once started, is
\* re-armed by every external interruption; a handler is not preempted.
Fairness == WF_vars(KernelThread) /\ WF_vars(External) /\ WF_vars(ScanStep)

FairSpec == Spec /\ Fairness

-----------------------------------------------------------------------------
TypeOK ==
    /\ nJobs \in 1 .. MaxJobs /\ nTasks \in 1 .. MaxTasks /\ nThreads \in 1 .. MaxThreads
    /\ asleep \in [Job -> BOOLEAN]
    /\ tasks \in [Job -> Seq(Task)]
    /\ threads \in [Task -> Seq(Thread)]
    /\ curJob \in 0 .. nJobs - 1
    /\ curTask \in [Job -> Nat]
    /\ curThread \in [Task -> Nat]
    /\ ctx \in [Thread -> Context]
    /\ cpu \in Context
    /\ psa \in [grsav : Token, ext : Token, svc : Token, pc : Token]
    /\ mode \in {"run", "scan", "halted"}
    /\ cause \in Causes
    /\ oldThread \in Token
    /\ build \in {"spooler_task", "spooler_thread", "spooler_pc", "kickstart",
                  "job", "task", "thread", "pc", "wake"}
    /\ timerOn \in BOOLEAN

\* The cursors that next, job::remove and service::common index with are
\* inside the lists or, for an empty list, zero, and while a thread runs the
\* current job has a current task with a current thread: no handler indexes a
\* list out of its bounds.  (The bounds check of operator[] exists only in
\* DEBUG builds.)
CursorsInRange ==
    /\ \A j \in Job : curTask[j] = 0 \/ curTask[j] < Len(tasks[j])
    /\ \A t \in Task : curThread[t] = 0 \/ curThread[t] < Len(threads[t])
    /\ mode = "run" => tasks[curJob] # <<>> /\ threads[CurrentTask] # <<>>

\* The CPU runs the thread the table says is current, with that thread's
\* registers and PSW.
RunsCurrent ==
    mode = "run" => cpu = [regs |-> CurrentThread, psw |-> CurrentThread]

\* The threads timeshare::next can dispatch.
Runnable(th) ==
    \E j \in 0 .. nJobs - 1 :
        /\ ~asleep[j]
        /\ \E i \in DOMAIN tasks[j] : \E k \in DOMAIN threads[tasks[j][i]] :
               threads[tasks[j][i]][k] = th

\* Once the timer runs, a thread that can be dispatched and is not the current
\* one has its own registers and its own PSW in its context: timeshare::next
\* may pick it at the next tick, so no thread is half made at that moment.
ReadyToRun ==
    (timerOn /\ mode = "run") => \A th \in Thread :
        (Runnable(th) /\ th # CurrentThread) => ctx[th] = [regs |-> th, psw |-> th]

\* A save never stores one thread's registers into another thread's context.
SavesOwnContext ==
    [][mode = "scan" =>
        \A th \in Thread : ctx'[th] # ctx[th] => ctx'[th].regs = th]_vars

\* After a program check the CPU goes to the next task, and a waiting SVC
\* yields to the other threads: the CPU goes on in the thread that
\* timeshare::next has made the current one.
GoesToNextTask ==
    [][(mode = "scan" /\ mode' = "run" /\ cause \in {"pc", "await"})
        => cpu'.psw = CurrentThread']_vars

\* SVC_SCHED_YIELD comes back to a thread: giving up the CPU is no error, and
\* does not take the CPU down.
YieldReturns == mode # "halted"

\* Every thread that can be dispatched gets the CPU again.
EveryThreadRuns ==
    \A th \in Thread : Runnable(th) ~> (mode = "run" /\ cpu.psw = th)

\* timeshare::next leaves its loop if there is a thread to find.
ScanEnds ==
    (mode = "scan" /\ \E th \in Thread : Runnable(th)) ~> (mode # "scan")
=============================================================================
