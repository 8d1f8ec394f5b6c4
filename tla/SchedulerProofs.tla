--------------------------- MODULE SchedulerProofs ----------------------------
(***************************************************************************)
(* Theorems about Scheduler, for every number of jobs, tasks and threads   *)
(* and every set of interruption classes.                                  *)
(*                                                                         *)
(* TypeOK is not inductive by itself: what timeshare::next finds in a list *)
(* is a thread only if the cursor it indexes with is inside the list.      *)
(* Together with CursorsInRange it is.                                     *)
(***************************************************************************)
EXTENDS Scheduler, TLAPS

SchedInv == TypeOK /\ CursorsInRange

-----------------------------------------------------------------------------
\* The next cursor value lies inside a list that is not empty.
LEMMA AdvanceInRange ==
    ASSUME NEW cur \in Nat, NEW size \in Nat, size # 0
    PROVE  Advance(cur, size) \in Nat /\ Advance(cur, size) < size
BY DEF Advance

\* dynamic_list::remove shortens the list by one and keeps its element type.
LEMMA WithoutType ==
    ASSUME NEW S, NEW s \in Seq(S), NEW i \in 1 .. Len(s)
    PROVE  Without(s, i) \in Seq(S) /\ Len(Without(s, i)) = Len(s) - 1
<1>1. Len(s) \in Nat /\ Len(s) - 1 \in Nat
  OBVIOUS
<1>2. \A k \in 1 .. Len(s) - 1 : (IF k < i THEN s[k] ELSE s[k + 1]) \in S
  <2> TAKE k \in 1 .. Len(s) - 1
  <2>1. k \in 1 .. Len(s) /\ k + 1 \in 1 .. Len(s)
    BY <1>1
  <2>2. s[k] \in S /\ s[k + 1] \in S
    BY <2>1
  <2> QED BY <2>2
<1>3. Without(s, i) \in [1 .. Len(s) - 1 -> S]
  BY <1>2 DEF Without
<1> QED BY <1>1, <1>3

\* One list of lists extends another: no list is shorter, emptied or reordered.
Extends(g, f, D) ==
    \A x \in D : /\ Len(g[x]) >= Len(f[x])
                 /\ f[x] # <<>> => g[x] # <<>>
                 /\ \A i \in 1 .. Len(f[x]) : g[x][i] = f[x][i]

\* Appending to one list of a family of lists extends the family and keeps its
\* type.
LEMMA AppendOne ==
    ASSUME NEW D, NEW S, NEW f \in [D -> Seq(S)], NEW d, NEW e \in S
    PROVE  /\ [f EXCEPT ![d] = Append(@, e)] \in [D -> Seq(S)]
           /\ Extends([f EXCEPT ![d] = Append(@, e)], f, D)
<1> DEFINE g == [f EXCEPT ![d] = Append(@, e)]
<1>1. ASSUME NEW x \in D
      PROVE  /\ g[x] \in Seq(S)
             /\ Len(g[x]) >= Len(f[x])
             /\ f[x] # <<>> => g[x] # <<>>
             /\ \A i \in 1 .. Len(f[x]) : g[x][i] = f[x][i]
  <2>1. f[x] \in Seq(S) /\ Len(f[x]) \in Nat
    OBVIOUS
  <2>2. CASE x = d
    <3>1. g[x] = Append(f[x], e)
      BY <2>2
    <3> QED BY <2>1, <3>1
  <2>3. CASE x # d
    <3>1. g[x] = f[x]
      BY <2>3
    <3> QED BY <2>1, <3>1
  <2> QED BY <2>2, <2>3
<1>2. g \in [D -> Seq(S)]
  BY <1>1
<1> QED BY <1>1, <1>2 DEF Extends

-----------------------------------------------------------------------------
\* timeshare::init leaves a table whose cursors are inside its lists.
LEMMA InitInv == Init => SchedInv
<1> SUFFICES ASSUME Init PROVE SchedInv
  OBVIOUS
<1> USE SchedulerAssumption
<1>1. <<1>> \in Seq(Task) /\ <<Kern>> \in Seq(Thread)
  BY DEF Task, Thread, Kern
<1>2. <<>> \in Seq(Task) /\ <<>> \in Seq(Thread)
  OBVIOUS
<1>3. 0 \in Job /\ 1 \in Task
  BY DEF Job, Task
<1>4. tasks \in [Job -> Seq(Task)] /\ threads \in [Task -> Seq(Thread)]
  BY <1>1, <1>2 DEF Init
<1>5. ctx \in [Thread -> Context] /\ cpu \in Context
  BY DEF Init, Context, Token, Kern, NoThread, Thread
<1>6. psa \in [grsav : Token, ext : Token, svc : Token, pc : Token]
  BY DEF Init, Token, NoThread
<1>7. /\ nJobs \in 1 .. MaxJobs /\ nTasks \in 1 .. MaxTasks
       /\ nThreads \in 1 .. MaxThreads /\ curJob \in 0 .. nJobs - 1
  BY DEF Init
<1>8. /\ asleep \in [Job -> BOOLEAN] /\ curTask \in [Job -> Nat]
       /\ curThread \in [Task -> Nat]
  BY DEF Init
<1>9. /\ mode \in {"run", "scan", "halted"} /\ cause \in Causes
       /\ oldThread \in Token /\ build = "spooler_task" /\ timerOn \in BOOLEAN
  BY DEF Init, Causes, Token
<1>10. TypeOK
  BY <1>4, <1>5, <1>6, <1>7, <1>8, <1>9 DEF TypeOK
<1>11. tasks[0] = <<1>> /\ threads[1] = <<Kern>> /\ curTask[0] = 0
  BY <1>3 DEF Init
<1>12. CurrentTask = 1
  BY <1>11 DEF CurrentTask, Init
<1>13. CursorsInRange
  BY <1>11, <1>12, SMTT(30) DEF CursorsInRange, Init
<1> QED BY <1>10, <1>13 DEF SchedInv

\* While a thread runs, the current task and the current thread exist.
LEMMA CurrentExists ==
    ASSUME SchedInv, mode = "run"
    PROVE  /\ curJob \in Job
           /\ tasks[curJob] \in Seq(Task) /\ tasks[curJob] # <<>>
           /\ curTask[curJob] + 1 \in 1 .. Len(tasks[curJob])
           /\ CurrentTask \in Task
           /\ curThread[CurrentTask] + 1 \in 1 .. Len(threads[CurrentTask])
           /\ CurrentThread \in Thread
<1> USE SchedulerAssumption DEF SchedInv
<1>1. curJob \in Job
  BY DEF TypeOK, Job
<1>2. /\ tasks[curJob] \in Seq(Task) /\ tasks[curJob] # <<>>
      /\ Len(tasks[curJob]) \in Nat /\ Len(tasks[curJob]) # 0
  BY <1>1 DEF TypeOK, CursorsInRange
<1>3. curTask[curJob] + 1 \in 1 .. Len(tasks[curJob])
  BY <1>1, <1>2, SMTT(30) DEF TypeOK, CursorsInRange
<1>4. CurrentTask \in Task
  BY <1>2, <1>3 DEF CurrentTask
<1>5. /\ threads[CurrentTask] \in Seq(Thread) /\ threads[CurrentTask] # <<>>
      /\ Len(threads[CurrentTask]) \in Nat /\ Len(threads[CurrentTask]) # 0
  BY <1>4 DEF TypeOK, CursorsInRange
<1>6. curThread[CurrentTask] + 1 \in 1 .. Len(threads[CurrentTask])
  <2>1. curThread[CurrentTask] \in Nat
    BY <1>4 DEF TypeOK
  <2>2. curThread[CurrentTask] = 0 \/ curThread[CurrentTask] < Len(threads[CurrentTask])
    BY <1>4 DEF CursorsInRange
  <2> QED BY <2>1, <2>2, <1>5
<1>7. CurrentThread \in Thread
  BY <1>5, <1>6 DEF CurrentThread
<1> QED BY <1>1, <1>2, <1>3, <1>4, <1>6, <1>7

\* What schedule takes for the old thread is a thread, or none.
LEMMA OldThreadType ==
    ASSUME SchedInv, NEW ts \in Seq(Task), NEW cur \in Nat,
           cur = 0 \/ cur < Len(ts)
    PROVE  OldThread(ts, cur) \in Token
<1> USE DEF SchedInv
<1>1. CASE ts = <<>> \/ threads[ts[cur + 1]] = <<>>
  BY <1>1 DEF OldThread, Token
<1>2. CASE ~(ts = <<>> \/ threads[ts[cur + 1]] = <<>>)
  <2>1. Len(ts) \in Nat /\ Len(ts) # 0
    BY <1>2
  <2>2. cur + 1 \in 1 .. Len(ts)
    BY <2>1
  <2> DEFINE t == ts[cur + 1]
  <2>3. t \in Task
    BY <2>2
  <2>4. /\ threads[t] \in Seq(Thread) /\ Len(threads[t]) \in Nat
        /\ Len(threads[t]) # 0
    BY <1>2, <2>3, SMTT(30) DEF TypeOK
  <2>5. curThread[t] + 1 \in 1 .. Len(threads[t])
    <3>1. curThread[t] \in Nat
      BY <2>3 DEF TypeOK
    <3>2. curThread[t] = 0 \/ curThread[t] < Len(threads[t])
      BY <2>3 DEF CursorsInRange
    <3> QED BY <3>1, <3>2, <2>4
  <2>6. threads[t][curThread[t] + 1] \in Thread
    BY <2>4, <2>5
  <2> QED BY <1>2, <2>6 DEF OldThread, Token
<1> QED BY <1>1, <1>2

\* Creating jobs, tasks and threads only extends the lists, and so leaves
\* every cursor where it was and inside its list.
LEMMA GrowthKeepsCursors ==
    ASSUME SchedInv, mode = "run",
           tasks' \in [Job -> Seq(Task)], threads' \in [Task -> Seq(Thread)],
           Extends(tasks', tasks, Job), Extends(threads', threads, Task),
           UNCHANGED <<curJob, curTask, curThread, mode>>
    PROVE  CursorsInRange'
<1>1. \A j \in Job : Len(tasks[j]) \in Nat /\ Len(tasks'[j]) \in Nat /\ curTask[j] \in Nat
  BY DEF SchedInv, TypeOK
<1>2. \A t \in Task :
         Len(threads[t]) \in Nat /\ Len(threads'[t]) \in Nat /\ curThread[t] \in Nat
  BY DEF SchedInv, TypeOK
<1>3. \A j \in Job : curTask'[j] = 0 \/ curTask'[j] < Len(tasks'[j])
  <2> TAKE j \in Job
  <2>1. curTask[j] = 0 \/ curTask[j] < Len(tasks[j])
    BY DEF SchedInv, CursorsInRange
  <2>2. Len(tasks'[j]) >= Len(tasks[j])
    BY DEF Extends
  <2> QED BY <1>1, <2>1, <2>2
<1>4. \A t \in Task : curThread'[t] = 0 \/ curThread'[t] < Len(threads'[t])
  <2> TAKE t \in Task
  <2>1. curThread[t] = 0 \/ curThread[t] < Len(threads[t])
    BY DEF SchedInv, CursorsInRange
  <2>2. Len(threads'[t]) >= Len(threads[t])
    BY DEF Extends
  <2> QED BY <1>2, <2>1, <2>2
<1>5. CurrentTask' = CurrentTask
  BY CurrentExists DEF CurrentTask, Extends
<1>6. tasks'[curJob'] # <<>> /\ threads'[CurrentTask'] # <<>>
  BY CurrentExists, <1>5 DEF SchedInv, CursorsInRange, Extends
<1> QED BY <1>3, <1>4, <1>6 DEF CursorsInRange

\* A family of lists that does not change extends itself.
LEMMA ExtendsItself ==
    /\ SchedInv => Extends(tasks, tasks, Job)
    /\ SchedInv => Extends(threads, threads, Task)
BY DEF Extends, SchedInv, TypeOK

\* task::create adds one task to one job's list.
LEMMA TaskCreateExtends ==
    ASSUME SchedInv, NEW j, TaskCreate(j)
    PROVE  /\ nTasks' \in 1 .. MaxTasks
           /\ tasks' \in [Job -> Seq(Task)]
           /\ Extends(tasks', tasks, Job)
<1>1. nTasks + 1 \in Task /\ nTasks' \in 1 .. MaxTasks
  BY SchedulerAssumption DEF TaskCreate, SchedInv, TypeOK, Task
<1>2. tasks \in [Job -> Seq(Task)]
  BY DEF SchedInv, TypeOK
<1>3. tasks' = [tasks EXCEPT ![j] = Append(@, nTasks + 1)] /\ nTasks' \in 1 .. MaxTasks
  BY <1>1 DEF TaskCreate
<1>4. tasks' \in [Job -> Seq(Task)] /\ Extends(tasks', tasks, Job)
  BY <1>1, <1>2, <1>3, AppendOne, Zenon
<1> QED BY <1>3, <1>4

\* thread::create adds one thread to one task's list.
LEMMA ThreadCreateExtends ==
    ASSUME SchedInv, NEW t,
           nThreads < MaxThreads, nThreads' = nThreads + 1,
           threads' = [threads EXCEPT ![t] = Append(@, nThreads + 1)]
    PROVE  /\ nThreads' \in 1 .. MaxThreads
           /\ nThreads + 1 \in Thread
           /\ threads' \in [Task -> Seq(Thread)]
           /\ Extends(threads', threads, Task)
<1>1. nThreads + 1 \in Thread /\ nThreads' \in 1 .. MaxThreads
  BY SchedulerAssumption DEF SchedInv, TypeOK, Thread
<1>2. threads \in [Task -> Seq(Thread)]
  BY DEF SchedInv, TypeOK
<1> DEFINE g == [threads EXCEPT ![t] = Append(@, nThreads + 1)]
<1>3. g \in [Task -> Seq(Thread)] /\ Extends(g, threads, Task)
  BY <1>1, <1>2, AppendOne
<1>4. threads' \in [Task -> Seq(Thread)] /\ Extends(threads', threads, Task)
  BY <1>3
<1> QED BY <1>1, <1>4

\* The context a new thread starts from.
LEMMA NewContextType ==
    ASSUME SchedInv, nThreads + 1 \in Thread, NEW psw \in Token
    PROVE  [ctx EXCEPT ![nThreads + 1] = NewContext(psw)] \in [Thread -> Context]
<1>1. NewContext(psw) \in Context
  BY DEF NewContext, Context, Token
<1> QED BY <1>1 DEF SchedInv, TypeOK

\* set_pc changes the PSW of one context, to a thread's.
LEMMA SetPcType ==
    ASSUME SchedInv, NEW th, th \in Thread => th \in Token
    PROVE  [ctx EXCEPT ![th].psw = th] \in [Thread -> Context]
<1> DEFINE g == [ctx EXCEPT ![th].psw = th]
<1>1. ctx \in [Thread -> Context]
  BY DEF SchedInv, TypeOK
<1>2. ASSUME NEW x \in Thread PROVE g[x] \in Context
  <2>1. ctx[x] \in Context
    BY <1>1
  <2>2. CASE x = th
    <3>1. g[x] = [ctx[x] EXCEPT !.psw = th]
      BY <1>1, <2>2
    <3>2. th \in Token
      BY <2>2
    <3> QED BY <2>1, <3>1, <3>2 DEF Context
  <2>3. CASE x # th
    BY <1>1, <2>1, <2>3
  <2> QED BY <2>2, <2>3
<1> QED BY <1>1, <1>2

\* Each step of init_smp and exec_user keeps the types and the cursors.
LEMMA KernelThreadInv == SchedInv /\ KernelThread => SchedInv'
<1> SUFFICES ASSUME SchedInv, KernelThread PROVE SchedInv'
  OBVIOUS
<1> USE DEF InKernelThread
<1>1. /\ tasks \in [Job -> Seq(Task)] /\ threads \in [Task -> Seq(Thread)]
      /\ NoThread \in Token
      /\ Extends(tasks, tasks, Job) /\ Extends(threads, threads, Task)
  BY ExtendsItself DEF SchedInv, TypeOK, Token
<1>2. CASE MakeSpoolerTask
  <2>1. /\ nTasks' \in 1 .. MaxTasks /\ tasks' \in [Job -> Seq(Task)]
        /\ Extends(tasks', tasks, Job)
    BY <1>2, TaskCreateExtends DEF MakeSpoolerTask
  <2>2. TypeOK'
    BY <1>2, <2>1 DEF SchedInv, TypeOK, MakeSpoolerTask, cursor
  <2>3. CursorsInRange'
    BY <1>1, <1>2, <2>1, GrowthKeepsCursors DEF MakeSpoolerTask, cursor
  <2> QED BY <2>2, <2>3 DEF SchedInv
<1>3. CASE MakeSpoolerThread
  <2>1. /\ nThreads' \in 1 .. MaxThreads /\ nThreads + 1 \in Thread
        /\ threads' \in [Task -> Seq(Thread)] /\ Extends(threads', threads, Task)
    BY <1>3, ThreadCreateExtends DEF MakeSpoolerThread, ThreadCreate
  <2>2. ctx' \in [Thread -> Context]
    BY <1>1, <1>3, <2>1, NewContextType DEF MakeSpoolerThread
  <2>3. TypeOK'
    BY <1>3, <2>1, <2>2 DEF SchedInv, TypeOK, MakeSpoolerThread, cursor
  <2>4. CursorsInRange'
    BY <1>1, <1>3, <2>1, GrowthKeepsCursors DEF MakeSpoolerThread, cursor
  <2> QED BY <2>3, <2>4 DEF SchedInv
<1>4. CASE SetSpoolerPc
  <2>1. Spooler \in Token
    BY SchedulerAssumption DEF Spooler, Token, Thread
  <2>2. ctx' \in [Thread -> Context]
    BY <1>4, <2>1, SetPcType DEF SetSpoolerPc
  <2>3. TypeOK'
    BY <1>4, <2>2 DEF SchedInv, TypeOK, SetSpoolerPc, cursor, table
  <2>4. CursorsInRange'
    BY <1>1, <1>4, GrowthKeepsCursors DEF SetSpoolerPc, cursor, table
  <2> QED BY <2>3, <2>4 DEF SchedInv
<1>5. CASE Kickstart
  <2>1. TypeOK'
    BY <1>5 DEF SchedInv, TypeOK, Kickstart, cursor, table
  <2>2. CursorsInRange'
    BY <1>1, <1>5, GrowthKeepsCursors DEF Kickstart, cursor, table
  <2> QED BY <2>1, <2>2 DEF SchedInv
<1>6. CASE MakeUserJob
  <2>1. nJobs' \in 1 .. MaxJobs /\ curJob' \in 0 .. nJobs' - 1
    BY <1>6, SchedulerAssumption DEF MakeUserJob, JobCreate, SchedInv, TypeOK, cursor
  <2>2. TypeOK'
    BY <1>6, <2>1 DEF SchedInv, TypeOK, MakeUserJob, JobCreate, cursor
  <2>3. CursorsInRange'
    BY <1>1, <1>6, GrowthKeepsCursors DEF MakeUserJob, cursor
  <2> QED BY <2>2, <2>3 DEF SchedInv
<1>7. CASE MakeUserTask
  <2>1. /\ nTasks' \in 1 .. MaxTasks /\ tasks' \in [Job -> Seq(Task)]
        /\ Extends(tasks', tasks, Job)
    BY <1>7, TaskCreateExtends DEF MakeUserTask
  <2>2. TypeOK'
    BY <1>7, <2>1 DEF SchedInv, TypeOK, MakeUserTask, cursor
  <2>3. CursorsInRange'
    BY <1>1, <1>7, <2>1, GrowthKeepsCursors DEF MakeUserTask, cursor
  <2> QED BY <2>2, <2>3 DEF SchedInv
<1>8. CASE MakeUserThread
  <2>1. /\ nThreads' \in 1 .. MaxThreads /\ nThreads + 1 \in Thread
        /\ threads' \in [Task -> Seq(Thread)] /\ Extends(threads', threads, Task)
    BY <1>8, ThreadCreateExtends DEF MakeUserThread, ThreadCreate
  <2>2. ctx' \in [Thread -> Context]
    BY <1>1, <1>8, <2>1, NewContextType DEF MakeUserThread
  <2>3. TypeOK'
    BY <1>8, <2>1, <2>2 DEF SchedInv, TypeOK, MakeUserThread, cursor
  <2>4. CursorsInRange'
    BY <1>1, <1>8, <2>1, GrowthKeepsCursors DEF MakeUserThread, cursor
  <2> QED BY <2>3, <2>4 DEF SchedInv
<1>9. CASE SetUserPc
  <2>1. UserThread \in Thread => UserThread \in Token
    BY DEF Token
  <2>2. ctx' \in [Thread -> Context]
    BY <1>9, <2>1, SetPcType DEF SetUserPc
  <2>3. TypeOK'
    BY <1>9, <2>2 DEF SchedInv, TypeOK, SetUserPc, cursor, table
  <2>4. CursorsInRange'
    BY <1>1, <1>9, GrowthKeepsCursors DEF SetUserPc, cursor, table
  <2> QED BY <2>3, <2>4 DEF SchedInv
<1>10. CASE WakeUserJob
  <2>1. asleep' \in [Job -> BOOLEAN]
    BY <1>10 DEF SchedInv, TypeOK, WakeUserJob
  <2>2. TypeOK'
    BY <1>10, <2>1 DEF SchedInv, TypeOK, WakeUserJob, cursor
  <2>3. CursorsInRange'
    BY <1>1, <1>10, GrowthKeepsCursors DEF WakeUserJob, cursor
  <2> QED BY <2>2, <2>3 DEF SchedInv
<1> QED
  BY <1>2, <1>3, <1>4, <1>5, <1>6, <1>7, <1>8, <1>9, <1>10 DEF KernelThread

\* SVC_EXEC_AT and SVC_THREAD_AT keep the types and the cursors.
LEMMA UserThreadInv == SchedInv /\ (ExecAt \/ ThreadAt) => SchedInv'
<1> SUFFICES ASSUME SchedInv, ExecAt \/ ThreadAt PROVE SchedInv'
  OBVIOUS
<1>1. /\ mode = "run" /\ nThreads < MaxThreads /\ nThreads' = nThreads + 1
      /\ UNCHANGED <<nJobs, asleep, cursor, cpu, mode, cause, oldThread, build, timerOn>>
      /\ ctx' = [ctx EXCEPT ![nThreads + 1] = NewContext(nThreads + 1)]
      /\ psa' = [psa EXCEPT !.grsav = cpu.regs, !.svc = cpu.psw]
  BY DEF ExecAt, ThreadAt, ThreadCreate, InUserThread
<1>2. /\ nThreads' \in 1 .. MaxThreads /\ nThreads + 1 \in Thread
      /\ threads' \in [Task -> Seq(Thread)] /\ Extends(threads', threads, Task)
  <2>1. CASE ExecAt
    BY <2>1, <1>1, ThreadCreateExtends DEF ExecAt
  <2>2. CASE ThreadAt
    BY <2>2, <1>1, ThreadCreateExtends DEF ThreadAt, ThreadCreate
  <2> QED BY <2>1, <2>2
<1>3. /\ nTasks' \in 1 .. MaxTasks /\ tasks' \in [Job -> Seq(Task)]
      /\ Extends(tasks', tasks, Job)
  <2>1. CASE ExecAt
    BY <2>1, TaskCreateExtends DEF ExecAt
  <2>2. CASE ThreadAt
    BY <2>2, ExtendsItself DEF ThreadAt, SchedInv, TypeOK
  <2> QED BY <2>1, <2>2
<1>4. ctx' \in [Thread -> Context]
  BY <1>1, <1>2, NewContextType DEF Token
<1>5. psa' \in [grsav : Token, ext : Token, svc : Token, pc : Token]
  BY <1>1 DEF SchedInv, TypeOK, Context
<1>6. TypeOK'
  BY <1>1, <1>2, <1>3, <1>4, <1>5 DEF SchedInv, TypeOK, cursor
<1>7. CursorsInRange'
  BY <1>1, <1>2, <1>3, GrowthKeepsCursors DEF cursor
<1> QED BY <1>6, <1>7 DEF SchedInv

\* Entering a handler saves the registers and the PSW and starts the scan.
LEMMA EnterType ==
    ASSUME SchedInv, NEW c, Enter(c)
    PROVE  /\ c \in Causes /\ cause' = c /\ mode = "run" /\ mode' = "scan"
           /\ psa' \in [grsav : Token, ext : Token, svc : Token, pc : Token]
<1>1. c \in Causes
  BY SchedulerAssumption DEF Enter
<1>2. OldPsw(c) \in {"ext", "svc", "pc"}
  BY DEF OldPsw
<1>3. /\ psa \in [grsav : Token, ext : Token, svc : Token, pc : Token]
      /\ cpu.regs \in Token /\ cpu.psw \in Token
  BY DEF SchedInv, TypeOK, Context
<1>4. psa' = [psa EXCEPT !.grsav = cpu.regs, ![OldPsw(c)] = cpu.psw]
  BY DEF Enter
<1>5. psa' \in [grsav : Token, ext : Token, svc : Token, pc : Token]
  <2>1. CASE OldPsw(c) = "ext"
    BY <2>1, <1>3, <1>4
  <2>2. CASE OldPsw(c) = "svc"
    BY <2>2, <1>3, <1>4
  <2>3. CASE OldPsw(c) = "pc"
    BY <2>3, <1>3, <1>4
  <2> QED BY <1>2, <2>1, <2>2, <2>3
<1> QED BY <1>1, <1>5 DEF Enter

\* An external interruption and a waiting or yielding SVC enter schedule with
\* the table as it is.
LEMMA ScheduleInv ==
    ASSUME SchedInv, NEW c, Enter(c), UNCHANGED <<tasks, curTask>>,
           oldThread' = OldThread(tasks[curJob], curTask[curJob])
    PROVE  SchedInv'
<1>1. mode = "run"
  BY EnterType
<1>2. curJob \in Job /\ tasks[curJob] \in Seq(Task) /\ curTask[curJob] \in Nat
  BY <1>1, CurrentExists DEF SchedInv, TypeOK
<1>3. curTask[curJob] = 0 \/ curTask[curJob] < Len(tasks[curJob])
  BY <1>2 DEF SchedInv, CursorsInRange
<1>4. oldThread' \in Token
  BY <1>2, <1>3, OldThreadType
<1>5. TypeOK'
  BY <1>4, EnterType DEF SchedInv, TypeOK, Enter
<1>6. CursorsInRange'
  BY EnterType DEF SchedInv, CursorsInRange, Enter
<1> QED BY <1>5, <1>6 DEF SchedInv

\* job::remove brings the job's cursor back into the shortened list.
LEMMA ProgramCheckInv == SchedInv /\ ProgramCheck => SchedInv'
<1> SUFFICES ASSUME SchedInv, ProgramCheck PROVE SchedInv'
  OBVIOUS
<1> DEFINE left == Without(tasks[curJob], curTask[curJob] + 1)
           cur  == IF curTask[curJob] >= Len(left) THEN 0 ELSE curTask[curJob]
<1>1. /\ Enter("pc")
      /\ tasks' = [tasks EXCEPT ![curJob] = left]
      /\ curTask' = [curTask EXCEPT ![curJob] = cur]
      /\ oldThread' = OldThread(left, cur)
  BY DEF ProgramCheck
<1>2. mode = "run" /\ mode' = "scan"
  BY <1>1, EnterType
<1>3. /\ curJob \in Job /\ tasks[curJob] \in Seq(Task)
      /\ curTask[curJob] + 1 \in 1 .. Len(tasks[curJob])
  BY <1>2, CurrentExists
<1>4. left \in Seq(Task) /\ Len(left) \in Nat
  BY <1>3, WithoutType
<1> HIDE DEF left
<1>5. curTask[curJob] \in Nat
  BY <1>3 DEF SchedInv, TypeOK
<1>6. cur \in Nat /\ (cur = 0 \/ cur < Len(left))
  BY <1>4, <1>5
<1> HIDE DEF cur
<1>7. oldThread' \in Token
  BY <1>1, <1>4, <1>6, OldThreadType
<1>8. tasks' \in [Job -> Seq(Task)] /\ curTask' \in [Job -> Nat]
  BY <1>1, <1>4, <1>6 DEF SchedInv, TypeOK
<1>9. TypeOK'
  BY <1>1, <1>7, <1>8, EnterType DEF SchedInv, TypeOK, Enter
<1>10. \A j \in Job : curTask'[j] = 0 \/ curTask'[j] < Len(tasks'[j])
  BY <1>1, <1>3, <1>6 DEF SchedInv, CursorsInRange, TypeOK
<1>11. CursorsInRange'
  BY <1>1, <1>2, <1>10 DEF SchedInv, CursorsInRange, Enter
<1> QED BY <1>9, <1>11 DEF SchedInv

\* switch_context moves registers and PSWs between the CPU, the low storage and
\* the contexts of two threads.
LEMMA SwitchContextType ==
    ASSUME SchedInv, NEW new \in Thread, SwitchContext(oldThread, new)
    PROVE  /\ ctx' \in [Thread -> Context] /\ cpu' \in Context
           /\ psa' \in [grsav : Token, ext : Token, svc : Token, pc : Token]
           /\ mode' \in {"run", "halted"}
<1> DEFINE saved == IF oldThread = NoThread THEN ctx
                    ELSE [ctx EXCEPT ![oldThread] = [regs |-> psa.grsav, psw |-> psa.ext]]
           out   == [psa EXCEPT !.grsav = saved[new].regs, !.ext = saved[new].psw]
<1>1. /\ ctx \in [Thread -> Context] /\ oldThread \in Token
      /\ psa \in [grsav : Token, ext : Token, svc : Token, pc : Token]
  BY DEF SchedInv, TypeOK
<1>2. [regs |-> psa.grsav, psw |-> psa.ext] \in Context
  BY <1>1 DEF Context
<1>3. saved \in [Thread -> Context]
  BY <1>1, <1>2
<1>4. ctx' = saved /\ psa' = out
  BY DEF SwitchContext
<1>5. cpu' = [regs |-> out.grsav, psw |-> out[OldPsw(cause)]]
  BY DEF SwitchContext
<1>6. mode' \in {"run", "halted"}
  BY DEF SwitchContext
<1> HIDE DEF saved
<1>7. saved[new].regs \in Token /\ saved[new].psw \in Token
  BY <1>3 DEF Context
<1>8. out \in [grsav : Token, ext : Token, svc : Token, pc : Token]
  BY <1>1, <1>7
<1> HIDE DEF out
<1>9. OldPsw(cause) \in {"ext", "svc", "pc"}
  BY DEF OldPsw
<1>10. out[OldPsw(cause)] \in Token /\ out.grsav \in Token
  BY <1>8, <1>9
<1>11. cpu' \in Context
  BY <1>5, <1>10 DEF Context
<1> QED BY <1>3, <1>4, <1>6, <1>8, <1>11

\* One turn of timeshare::next moves each cursor inside its list, whatever the
\* scan skips.
LEMMA ScanStepInv == SchedInv /\ ScanStep => SchedInv'
<1> SUFFICES ASSUME SchedInv, ScanStep PROVE SchedInv'
  OBVIOUS
<1> DEFINE j == Advance(curJob, nJobs)
<1>1. /\ mode = "scan" /\ curJob' = j
      /\ SkipJob(j) \/ SkipTask(j) \/ Dispatch(j)
      /\ UNCHANGED <<nJobs, nTasks, nThreads, asleep, tasks, threads,
                     cause, oldThread, build, timerOn>>
  BY DEF ScanStep, table
<1>2. j \in 0 .. nJobs - 1 /\ j \in Job
  <2>1. nJobs \in Nat /\ nJobs # 0 /\ curJob \in Nat /\ nJobs <= MaxJobs /\ MaxJobs \in Nat
    BY SchedulerAssumption DEF SchedInv, TypeOK
  <2>2. j \in Nat /\ j < nJobs
    BY <2>1, AdvanceInRange
  <2> QED BY <2>1, <2>2 DEF Job
<1> HIDE DEF j
<1> DEFINE cur == Advance(curTask[j], Len(tasks[j]))
<1>3. /\ tasks[j] \in Seq(Task) /\ Len(tasks[j]) \in Nat /\ curTask[j] \in Nat
  BY <1>2 DEF SchedInv, TypeOK
<1>4. ASSUME tasks[j] # <<>>
      PROVE  /\ cur \in Nat /\ cur < Len(tasks[j]) /\ cur + 1 \in 1 .. Len(tasks[j])
             /\ tasks[j][cur + 1] \in Task
  <2>1. Len(tasks[j]) # 0
    BY <1>3, <1>4
  <2>2. cur \in Nat /\ cur < Len(tasks[j])
    BY <2>1, <1>3, AdvanceInRange
  <2>3. cur + 1 \in 1 .. Len(tasks[j])
    BY <1>3, <2>2
  <2> QED BY <1>3, <2>2, <2>3
<1>5. CASE SkipJob(j)
  <2>1. TypeOK'
    BY <1>1, <1>2, <1>5 DEF SchedInv, TypeOK, SkipJob
  <2>2. CursorsInRange'
    BY <1>1, <1>5 DEF SchedInv, CursorsInRange, SkipJob
  <2> QED BY <2>1, <2>2 DEF SchedInv
<1>6. CASE SkipTask(j)
  <2>1. /\ tasks[j] # <<>> /\ curTask' = [curTask EXCEPT ![j] = cur]
        /\ UNCHANGED <<curThread, ctx, cpu, psa, mode>>
    BY <1>6 DEF SkipTask
  <2>2. cur \in Nat /\ cur < Len(tasks[j])
    BY <1>4, <2>1
  <2> HIDE DEF cur
  <2>3. TypeOK'
    BY <1>1, <1>2, <2>1, <2>2 DEF SchedInv, TypeOK
  <2>4. \A x \in Job : curTask'[x] = 0 \/ curTask'[x] < Len(tasks'[x])
    BY <1>1, <2>1, <2>2 DEF SchedInv, CursorsInRange, TypeOK
  <2>5. CursorsInRange'
    BY <1>1, <2>1, <2>4, SMTT(30) DEF SchedInv, CursorsInRange
  <2> QED BY <2>3, <2>5 DEF SchedInv
<1>7. CASE Dispatch(j)
  <2> DEFINE t == tasks[j][cur + 1]
             n == Advance(curThread[t], Len(threads[t]))
  <2>1. /\ tasks[j] # <<>> /\ threads[t] # <<>>
        /\ curTask' = [curTask EXCEPT ![j] = cur]
        /\ curThread' = [curThread EXCEPT ![t] = n]
        /\ SwitchContext(oldThread, threads[t][n + 1])
    BY <1>7, SMTT(30) DEF Dispatch
  <2>2. cur \in Nat /\ cur < Len(tasks[j]) /\ t \in Task
    BY <1>4, <2>1
  <2> HIDE DEF cur
  <2>3. /\ threads[t] \in Seq(Thread) /\ Len(threads[t]) \in Nat
        /\ Len(threads[t]) # 0 /\ curThread[t] \in Nat
    BY <2>1, <2>2, SMTT(30) DEF SchedInv, TypeOK
  <2> HIDE DEF t
  <2>4. n \in Nat /\ n < Len(threads[t])
    BY <2>3, AdvanceInRange
  <2> HIDE DEF n
  <2>5. threads[t][n + 1] \in Thread
    BY <2>3, <2>4
  <2>6. /\ ctx' \in [Thread -> Context] /\ cpu' \in Context
        /\ psa' \in [grsav : Token, ext : Token, svc : Token, pc : Token]
        /\ mode' \in {"run", "halted"}
    BY <2>1, <2>5, SwitchContextType
  <2>7. curTask' \in [Job -> Nat] /\ curThread' \in [Task -> Nat]
    BY <2>1, <2>2, <2>4 DEF SchedInv, TypeOK
  <2>8. TypeOK'
    BY <1>1, <1>2, <2>6, <2>7 DEF SchedInv, TypeOK
  <2>9. \A x \in Job : curTask'[x] = 0 \/ curTask'[x] < Len(tasks'[x])
    BY <1>1, <2>1, <2>2 DEF SchedInv, CursorsInRange, TypeOK
  <2>10. \A x \in Task : curThread'[x] = 0 \/ curThread'[x] < Len(threads'[x])
    BY <1>1, <2>1, <2>4 DEF SchedInv, CursorsInRange, TypeOK
  <2>11. CurrentTask' = t
    BY <1>1, <1>2, <2>1 DEF CurrentTask, t, SchedInv, TypeOK
  <2>12. tasks'[curJob'] # <<>> /\ threads'[CurrentTask'] # <<>>
    BY <1>1, <2>1, <2>11
  <2>13. CursorsInRange'
    BY <2>9, <2>10, <2>12 DEF CursorsInRange
  <2> QED BY <2>8, <2>13 DEF SchedInv
<1> QED BY <1>1, <1>5, <1>6, <1>7

\* A step that changes no variable keeps the invariant.
LEMMA StutterInv == SchedInv /\ UNCHANGED vars => SchedInv'
<1> SUFFICES ASSUME SchedInv, UNCHANGED vars PROVE SchedInv'
  OBVIOUS
<1>1. CurrentTask' = CurrentTask
  BY DEF vars, table, cursor, CurrentTask
<1>2. TypeOK'
  BY DEF SchedInv, TypeOK, vars, table, cursor
<1>3. CursorsInRange'
  BY <1>1 DEF SchedInv, CursorsInRange, vars, table, cursor
<1> QED BY <1>2, <1>3 DEF SchedInv

\* Every step of the system keeps the inductive invariant.
LEMMA NextInv == SchedInv /\ [Next]_vars => SchedInv'
<1> SUFFICES ASSUME SchedInv, [Next]_vars PROVE SchedInv'
  OBVIOUS
<1>1. CASE KernelThread
  BY <1>1, KernelThreadInv
<1>2. CASE ExecAt \/ ThreadAt
  BY <1>2, UserThreadInv
<1>3. CASE External
  BY <1>3, ScheduleInv DEF External
<1>4. CASE ProgramCheck
  BY <1>4, ProgramCheckInv
<1>5. ASSUME NEW c \in {"await", "yield"}, Yield(c) PROVE SchedInv'
  BY <1>5, ScheduleInv DEF Yield
<1>6. CASE ScanStep
  BY <1>6, ScanStepInv
<1>7. CASE UNCHANGED vars
  BY <1>7, StutterInv
<1> QED BY <1>1, <1>2, <1>3, <1>4, <1>5, <1>6, <1>7 DEF Next

-----------------------------------------------------------------------------
\* For every sequence of ticks, program checks, waits and yields, the
\* scheduler's table keeps its types.
THEOREM TypeCorrect == Spec => []TypeOK
<1>1. SchedInv => TypeOK
  BY DEF SchedInv
<1> QED BY <1>1, InitInv, NextInv, PTL DEF Spec

\* No cursor of the table is ever outside its list, and whenever a thread runs
\* the current job, task and thread exist, even after asc_pc_handler has
\* removed tasks.
THEOREM CursorsStayInRange == Spec => []CursorsInRange
<1>1. SchedInv => CursorsInRange
  BY DEF SchedInv
<1> QED BY <1>1, InitInv, NextInv, PTL DEF Spec

-----------------------------------------------------------------------------
(* When the timer is the only event.                                       *)
(*                                                                         *)
(* Of the other events, a program check and a wait exchange another PSW    *)
(* than the one their handler loads, and a kill saves the registers of a   *)
(* thread that is gone: GoesToNextTask and SavesOwnContext then fail.      *)

TimerOnly == Interrupts \subseteq {"ext"}

\* The elements of the lists of the table, their order apart.
TasksOf(j)   == {tasks[j][i] : i \in DOMAIN tasks[j]}
ThreadsOf(t) == {threads[t][i] : i \in DOMAIN threads[t]}

\* A thread with its own registers and its own PSW.
Whole(th) == [regs |-> th, psw |-> th]

\* A task is in one job's list, and lists hold nothing that is not created.
TasksInv ==
    /\ \A j, l \in Job : j # l => TasksOf(j) \cap TasksOf(l) = {}
    /\ \A j \in Job : TasksOf(j) \subseteq 1 .. nTasks
    /\ \A j \in Job : j >= nJobs => tasks[j] = <<>>

ThreadsInv ==
    /\ \A t \in Task : ThreadsOf(t) \subseteq 1 .. nThreads
    /\ \A t \in Task : t > nTasks => threads[t] = <<>>

\* Before the timer is set nothing runs but the kernel thread, which makes the
\* SPOOLER.
BootInv ==
    /\ ~timerOn => mode = "run" /\ cpu = Whole(Kern)
    /\ ~timerOn <=> build \in {"spooler_task", "spooler_thread", "spooler_pc", "kickstart"}
    /\ build \in {"spooler_task", "spooler_thread"} => nThreads = 1
    /\ build \in {"spooler_pc", "kickstart"} => nThreads = 2 /\ ctx[Spooler].regs = Spooler
    /\ build = "kickstart" => ctx[Spooler] = Whole(Spooler)

\* The job that is being made sleeps, has one task, and that one thread.
BuildInv ==
    /\ build \in {"task", "thread", "pc", "wake"} => asleep[nJobs - 1]
    /\ build = "task" => tasks[nJobs - 1] = <<>>
    /\ build \in {"thread", "pc", "wake"} => Len(tasks[nJobs - 1]) = 1
    /\ build = "thread" => threads[tasks[nJobs - 1][1]] = <<>>
    /\ build \in {"pc", "wake"} =>
          Len(threads[tasks[nJobs - 1][1]]) = 1 /\ ctx[UserThread].regs = UserThread
    /\ build = "wake" => ctx[UserThread] = Whole(UserThread)

\* The thread whose registers and PSW are not in its context: they are in the
\* CPU, or where the handler has put them.
Running == IF mode = "run" THEN CurrentThread ELSE oldThread

RunInv ==
    /\ cause = "ext" /\ mode # "halted"
    /\ mode = "run" => cpu = Whole(CurrentThread) /\ ~asleep[curJob]
    /\ mode = "scan" => /\ oldThread \in Thread /\ timerOn
                        /\ psa.grsav = oldThread /\ psa.ext = oldThread
    /\ timerOn => \A th \in Thread : Runnable(th) /\ th # Running => ctx[th] = Whole(th)

TimerInv == SchedInv /\ TasksInv /\ ThreadsInv /\ BootInv /\ BuildInv /\ RunInv

\* What can be dispatched, by membership.
LEMMA RunnableMember ==
    ASSUME NEW th
    PROVE  /\ Runnable(th) <=> \E j \in 0 .. nJobs - 1 :
                  ~asleep[j] /\ \E t \in TasksOf(j) : th \in ThreadsOf(t)
           /\ Runnable(th)' <=> \E j \in 0 .. nJobs' - 1 :
                  ~asleep'[j] /\ \E t \in TasksOf(j)' : th \in ThreadsOf(t)'
BY DEF Runnable, TasksOf, ThreadsOf

\* The jobs timeshare::next goes through are jobs.
LEMMA JobBelow ==
    \A n \in 1 .. MaxJobs : \A j \in 0 .. n - 1 : j \in Job /\ j < n
BY SchedulerAssumption DEF Job

\* What can be dispatched is in a task of a job that is awake.
LEMMA RunnableWhere ==
    ASSUME NEW th
    PROVE  /\ SchedInv /\ Runnable(th) =>
                \E j \in Job, t \in Task :
                    j < nJobs /\ ~asleep[j] /\ t \in TasksOf(j) /\ th \in ThreadsOf(t)
           /\ SchedInv' /\ Runnable(th)' =>
                \E j \in Job, t \in Task :
                    j < nJobs' /\ ~asleep'[j] /\ t \in TasksOf(j)' /\ th \in ThreadsOf(t)'
<1>1. ASSUME SchedInv, Runnable(th)
      PROVE  \E j \in Job, t \in Task :
                 j < nJobs /\ ~asleep[j] /\ t \in TasksOf(j) /\ th \in ThreadsOf(t)
  <2>1. PICK j \in 0 .. nJobs - 1 : ~asleep[j] /\ \E t \in TasksOf(j) : th \in ThreadsOf(t)
    BY <1>1, RunnableMember
  <2>2. PICK t \in TasksOf(j) : th \in ThreadsOf(t)
    BY <2>1
  <2>3. j \in Job /\ j < nJobs
    BY <1>1, SchedulerAssumption DEF SchedInv, TypeOK, Job
  <2>4. t \in Task
    BY <1>1, <2>2, <2>3 DEF TasksOf, SchedInv, TypeOK
  <2> QED BY <2>1, <2>2, <2>3, <2>4
<1>2. ASSUME SchedInv', Runnable(th)'
      PROVE  \E j \in Job, t \in Task :
                 j < nJobs' /\ ~asleep'[j] /\ t \in TasksOf(j)' /\ th \in ThreadsOf(t)'
  <2>1. PICK j \in 0 .. nJobs' - 1 : ~asleep'[j] /\ \E t \in TasksOf(j)' : th \in ThreadsOf(t)'
    BY <1>2, RunnableMember
  <2>2. nJobs' \in 1 .. MaxJobs
    BY <1>2 DEF SchedInv, TypeOK
  <2>3. j \in Job /\ j < nJobs'
    BY <2>2, JobBelow
  <2>4. PICK t \in TasksOf(j)' : th \in ThreadsOf(t)'
    BY <2>1
  <2>5. t \in Task
    BY <1>2, <2>4, <2>3 DEF TasksOf, SchedInv, TypeOK
  <2> QED BY <2>1, <2>4, <2>3, <2>5
<1> QED BY <1>1, <1>2

\* A task that a job that is awake lists can dispatch its threads.
LEMMA RunnableIf ==
    ASSUME SchedInv, NEW j \in Job, NEW t, NEW th,
           j < nJobs, ~asleep[j], t \in TasksOf(j), th \in ThreadsOf(t)
    PROVE  Runnable(th)
<1>1. j \in 0 .. nJobs - 1
  BY DEF SchedInv, TypeOK, Job
<1> QED BY <1>1, RunnableMember

\* Appending adds one element to one list of a family.
LEMMA AppendElements ==
    ASSUME NEW D, NEW S, NEW f \in [D -> Seq(S)], NEW d \in D, NEW e, NEW x \in D,
           NEW g, g = [f EXCEPT ![d] = Append(@, e)]
    PROVE  {g[x][i] : i \in DOMAIN g[x]}
              = IF x = d THEN {f[x][i] : i \in DOMAIN f[x]} \cup {e}
                ELSE {f[x][i] : i \in DOMAIN f[x]}
<1>1. CASE x = d
  <2>1. g[x] = Append(f[x], e)
    BY <1>1
  <2>2. f[x] \in Seq(S) /\ Len(f[x]) \in Nat
    OBVIOUS
  <2>3. /\ DOMAIN g[x] = 1 .. Len(f[x]) + 1 /\ DOMAIN f[x] = 1 .. Len(f[x])
        /\ g[x][Len(f[x]) + 1] = e
        /\ \A i \in 1 .. Len(f[x]) : g[x][i] = f[x][i]
    BY <2>1, <2>2
  <2>4. 1 .. Len(f[x]) + 1 = (1 .. Len(f[x])) \cup {Len(f[x]) + 1}
    BY <2>2
  <2> QED BY <1>1, <2>3, <2>4
<1>2. CASE x # d
  <2>1. g[x] = f[x]
    BY <1>2
  <2> QED BY <1>2, <2>1
<1> QED BY <1>1, <1>2

\* The new task is in that job's list, and in no other.
LEMMA TaskAppended ==
    ASSUME SchedInv, NEW j \in Job, tasks' = [tasks EXCEPT ![j] = Append(@, nTasks + 1)]
    PROVE  \A l \in Job : TasksOf(l)' = IF l = j THEN TasksOf(l) \cup {nTasks + 1} ELSE TasksOf(l)
<1>1. tasks \in [Job -> Seq(Task)]
  BY DEF SchedInv, TypeOK
<1> TAKE l \in Job
<1>2. {tasks'[l][i] : i \in DOMAIN tasks'[l]}
        = IF l = j THEN {tasks[l][i] : i \in DOMAIN tasks[l]} \cup {nTasks + 1}
          ELSE {tasks[l][i] : i \in DOMAIN tasks[l]}
  BY <1>1, AppendElements, SMTT(30)
<1> QED BY <1>2, Zenon DEF TasksOf

\* task::create puts the new task into one job's list, and no list had it.
LEMMA TaskCreateTasks ==
    ASSUME SchedInv, TasksInv, NEW j \in Job, j < nJobs, TaskCreate(j), nJobs' = nJobs
    PROVE  /\ \A l \in Job : TasksOf(l)' = IF l = j THEN TasksOf(l) \cup {nTasks + 1} ELSE TasksOf(l)
           /\ TasksInv'
<1>1. tasks \in [Job -> Seq(Task)] /\ nTasks \in Nat /\ nJobs \in Nat
  BY DEF SchedInv, TypeOK
<1>2. tasks' = [tasks EXCEPT ![j] = Append(@, nTasks + 1)]
  BY DEF TaskCreate
<1>3. nTasks' = nTasks + 1
  BY DEF TaskCreate
<1>4. \A l \in Job : TasksOf(l)' = IF l = j THEN TasksOf(l) \cup {nTasks + 1} ELSE TasksOf(l)
  BY <1>2, TaskAppended
<1>5. \A l \in Job : l >= nJobs' => tasks'[l] = <<>>
  BY <1>1, <1>2 DEF TasksInv, Job
<1>6. \A l \in Job : TasksOf(l) \subseteq 1 .. nTasks
  BY DEF TasksInv
<1> HIDE DEF TasksOf
<1>7. \A l \in Job : TasksOf(l)' \subseteq 1 .. nTasks'
  BY <1>1, <1>3, <1>4, <1>6
<1>8. nTasks + 1 \notin 1 .. nTasks
  BY <1>1
<1>9. \A l, m \in Job : l # m => TasksOf(l) \cap TasksOf(m) = {}
  BY DEF TasksInv
<1>10. \A l, m \in Job : l # m => TasksOf(l)' \cap TasksOf(m)' = {}
  BY <1>4, <1>6, <1>8, <1>9
<1> QED BY <1>4, <1>5, <1>7, <1>10 DEF TasksInv

\* thread::create puts the new thread into one task's list.
LEMMA ThreadCreateThreads ==
    ASSUME SchedInv, ThreadsInv, NEW t \in Task, t <= nTasks', nTasks <= nTasks', nTasks' \in Nat,
           nThreads' = nThreads + 1,
           threads' = [threads EXCEPT ![t] = Append(@, nThreads + 1)]
    PROVE  /\ \A u \in Task : ThreadsOf(u)'
                 = IF u = t THEN ThreadsOf(u) \cup {nThreads + 1} ELSE ThreadsOf(u)
           /\ ThreadsInv'
<1>1. threads \in [Task -> Seq(Thread)] /\ nThreads \in Nat /\ nTasks \in Nat
  BY DEF SchedInv, TypeOK
<1>2. \A u \in Task : ThreadsOf(u)'
          = IF u = t THEN ThreadsOf(u) \cup {nThreads + 1} ELSE ThreadsOf(u)
  <2> TAKE u \in Task
  <2>1. {threads'[u][i] : i \in DOMAIN threads'[u]}
          = IF u = t THEN {threads[u][i] : i \in DOMAIN threads[u]} \cup {nThreads + 1}
            ELSE {threads[u][i] : i \in DOMAIN threads[u]}
    BY <1>1, AppendElements, SMTT(30)
  <2> QED BY <2>1, Zenon DEF ThreadsOf
<1>3. \A u \in Task : u > nTasks' => threads'[u] = <<>>
  BY <1>1 DEF ThreadsInv, Task
<1>4. \A u \in Task : ThreadsOf(u) \subseteq 1 .. nThreads
  BY DEF ThreadsInv
<1> HIDE DEF ThreadsOf
<1>5. \A u \in Task : ThreadsOf(u)' \subseteq 1 .. nThreads'
  BY <1>1, <1>2, <1>4
<1> QED BY <1>2, <1>3, <1>5 DEF ThreadsInv

\* Creation leaves the current task and the current thread what they are.
LEMMA CurrentStays ==
    ASSUME SchedInv, mode = "run",
           Extends(tasks', tasks, Job), Extends(threads', threads, Task),
           UNCHANGED <<curJob, curTask, curThread>>
    PROVE  CurrentThread' = CurrentThread
<1>1. CurrentTask' = CurrentTask
  BY CurrentExists DEF CurrentTask, Extends
<1>2. threads'[CurrentTask][curThread[CurrentTask] + 1] = threads[CurrentTask][curThread[CurrentTask] + 1]
  BY CurrentExists DEF Extends
<1> QED BY <1>1, <1>2 DEF CurrentThread

\* While the kernel thread runs it is the current one, in a job that is awake.
LEMMA KernelRuns ==
    ASSUME SchedInv, RunInv, InKernelThread
    PROVE  /\ mode = "run" /\ cpu = Whole(Kern) /\ CurrentThread = Kern
           /\ curJob \in Job /\ curJob < nJobs /\ ~asleep[curJob]
<1>1. mode = "run" /\ cpu = Whole(Kern)
  BY DEF InKernelThread, Whole
<1>2. cpu = Whole(CurrentThread) /\ ~asleep[curJob]
  BY <1>1 DEF RunInv
<1>3. CurrentThread = Kern
  BY <1>1, <1>2 DEF Whole
<1>4. curJob \in Job /\ curJob < nJobs
  BY SchedulerAssumption DEF SchedInv, TypeOK, Job
<1> QED BY <1>1, <1>2, <1>3, <1>4

\* A step that lets the running thread run on keeps RunInv if each thread that
\* can be dispatched afterwards is whole.
LEMMA RunsOn ==
    ASSUME RunInv, mode = "run", UNCHANGED <<mode, cause, cpu, curJob>>,
           CurrentThread' = CurrentThread, ~asleep'[curJob],
           timerOn' => \A th \in Thread :
               Runnable(th)' /\ th # CurrentThread => ctx'[th] = Whole(th)
    PROVE  RunInv'
<1>1. cause' = "ext" /\ mode' = "run" /\ cpu' = Whole(CurrentThread') /\ ~asleep'[curJob']
  BY DEF RunInv
<1>2. Running' = CurrentThread'
  BY <1>1 DEF Running
<1>3. mode' # "halted" /\ mode' # "scan"
  BY <1>1
<1>4. timerOn' => \A th \in Thread : Runnable(th)' /\ th # Running' => ctx'[th] = Whole(th)
  BY <1>2
<1> QED BY <1>1, <1>3, <1>4 DEF RunInv

\* The same for a step after the timer is set that adds nothing to what can be
\* dispatched, and leaves those contexts alone.
LEMMA NothingNewRuns ==
    ASSUME RunInv, mode = "run", UNCHANGED <<mode, cause, cpu, curJob, timerOn>>,
           CurrentThread' = CurrentThread, ~asleep'[curJob],
           \A th \in Thread : Runnable(th)' =>
               ctx'[th] = Whole(th) \/ (Runnable(th) /\ ctx'[th] = ctx[th])
    PROVE  RunInv'
<1>1. timerOn => \A th \in Thread : Runnable(th) /\ th # CurrentThread => ctx[th] = Whole(th)
  BY DEF RunInv, Running
<1> QED BY <1>1, RunsOn

\* A table that does not change keeps what is said of it.
LEMMA TableStays ==
    ASSUME TasksInv, ThreadsInv, UNCHANGED <<nJobs, nTasks, nThreads, tasks, threads>>
    PROVE  TasksInv' /\ ThreadsInv'
<1>1. (\A j : TasksOf(j)' = TasksOf(j)) /\ (\A t : ThreadsOf(t)' = ThreadsOf(t))
  BY DEF TasksOf, ThreadsOf
<1>2. TasksInv'
  BY <1>1 DEF TasksInv
<1>3. ThreadsInv'
  BY <1>1 DEF ThreadsInv
<1> QED BY <1>2, <1>3

\* task::create for the SPOOLER.
LEMMA MakeSpoolerTaskTimer == TimerInv /\ MakeSpoolerTask => TimerInv'
<1> SUFFICES ASSUME TimerInv, MakeSpoolerTask PROVE TimerInv'
  OBVIOUS
<1> USE DEF TimerInv
<1>1. /\ TaskCreate(0) /\ InKernelThread /\ build = "spooler_task" /\ build' = "spooler_thread"
      /\ UNCHANGED <<nJobs, nThreads, asleep, threads, curJob, curTask, curThread, ctx, cpu,
                     mode, cause, timerOn>>
  BY DEF MakeSpoolerTask, cursor
<1>2. mode = "run" /\ curJob \in Job /\ ~asleep[curJob]
  BY <1>1, KernelRuns
<1>3. SchedInv'
  BY KernelThreadInv DEF KernelThread
<1>4. 0 \in Job /\ 0 < nJobs
  BY SchedulerAssumption DEF Job, SchedInv, TypeOK
<1>5. Extends(tasks', tasks, Job) /\ Extends(threads', threads, Task)
  BY <1>1, TaskCreateExtends, ExtendsItself
<1>6. CurrentThread' = CurrentThread
  BY <1>1, <1>2, <1>5, CurrentStays
<1>7. TasksInv'
  BY <1>1, <1>4, TaskCreateTasks
<1>8. ThreadsInv'
  <2>1. \A t : ThreadsOf(t)' = ThreadsOf(t)
    BY <1>1 DEF ThreadsOf
  <2>2. nTasks \in Nat /\ nTasks' = nTasks + 1 /\ \A t \in Task : t \in Nat
    BY <1>1 DEF TaskCreate, SchedInv, TypeOK, Task
  <2> QED BY <1>1, <2>1, <2>2 DEF ThreadsInv
<1>9. BootInv' /\ BuildInv'
  BY <1>1 DEF BootInv, BuildInv
<1>10. ~timerOn'
  BY <1>1 DEF BootInv
<1>11. RunInv'
  BY <1>1, <1>2, <1>6, <1>10, RunsOn
<1> QED BY <1>3, <1>7, <1>8, <1>9, <1>11

\* thread::create for the SPOOLER.
LEMMA MakeSpoolerThreadTimer == TimerInv /\ MakeSpoolerThread => TimerInv'
<1> SUFFICES ASSUME TimerInv, MakeSpoolerThread PROVE TimerInv'
  OBVIOUS
<1> USE DEF TimerInv
<1>1. /\ ThreadCreate(nTasks) /\ InKernelThread
      /\ build = "spooler_thread" /\ build' = "spooler_pc"
      /\ ctx' = [ctx EXCEPT ![nThreads + 1] = NewContext(NoThread)]
      /\ UNCHANGED <<nJobs, nTasks, asleep, tasks, curJob, curTask, curThread, cpu,
                     mode, cause, timerOn>>
  BY DEF MakeSpoolerThread, cursor
<1>2. mode = "run" /\ curJob \in Job /\ ~asleep[curJob]
  BY <1>1, KernelRuns
<1>3. SchedInv'
  BY KernelThreadInv DEF KernelThread
<1>4. /\ nThreads < MaxThreads /\ nThreads' = nThreads + 1
      /\ threads' = [threads EXCEPT ![nTasks] = Append(@, nThreads + 1)]
  BY <1>1 DEF ThreadCreate
<1>5. Extends(tasks', tasks, Job) /\ Extends(threads', threads, Task)
  BY <1>1, <1>4, ThreadCreateExtends, ExtendsItself
<1>6. CurrentThread' = CurrentThread
  BY <1>1, <1>2, <1>5, CurrentStays
<1>7. TasksInv'
  <2>1. \A t : TasksOf(t)' = TasksOf(t)
    BY <1>1 DEF TasksOf
  <2> QED BY <1>1, <2>1 DEF TasksInv
<1>8. ThreadsInv'
  <2>1. nTasks \in Task /\ nTasks' \in Nat /\ nTasks <= nTasks'
    BY <1>1, SchedulerAssumption DEF SchedInv, TypeOK, Task
  <2> QED BY <1>1, <1>4, <2>1, ThreadCreateThreads
<1>9. BootInv' /\ BuildInv'
  <2>1. nThreads = 1 /\ Spooler \in Thread /\ Spooler = nThreads + 1
    BY <1>1, SchedulerAssumption DEF BootInv, Spooler, Thread
  <2>2. ctx'[Spooler].regs = Spooler
    BY <1>1, <2>1 DEF NewContext, SchedInv, TypeOK
  <2>3. BootInv'
    BY <1>1, <1>4, <2>1, <2>2 DEF BootInv
  <2> QED BY <1>1, <2>3 DEF BuildInv
<1>10. ~timerOn'
  BY <1>1 DEF BootInv
<1>11. RunInv'
  BY <1>1, <1>2, <1>6, <1>10, RunsOn
<1> QED BY <1>3, <1>7, <1>8, <1>9, <1>11

\* set_pc of the SPOOLER's thread makes it whole.
LEMMA SetSpoolerPcTimer == TimerInv /\ SetSpoolerPc => TimerInv'
<1> SUFFICES ASSUME TimerInv, SetSpoolerPc PROVE TimerInv'
  OBVIOUS
<1> USE DEF TimerInv
<1>1. /\ InKernelThread /\ build = "spooler_pc" /\ build' = "kickstart"
      /\ ctx' = [ctx EXCEPT ![Spooler].psw = Spooler]
      /\ UNCHANGED <<nJobs, nTasks, nThreads, asleep, tasks, threads, curJob, curTask,
                     curThread, cpu, mode, cause, timerOn>>
  BY DEF SetSpoolerPc, cursor, table
<1>2. mode = "run" /\ curJob \in Job /\ ~asleep[curJob]
  BY <1>1, KernelRuns
<1>3. SchedInv'
  BY KernelThreadInv DEF KernelThread
<1>4. CurrentThread' = CurrentThread
  BY <1>1 DEF CurrentThread, CurrentTask
<1>5. TasksInv' /\ ThreadsInv'
  BY <1>1, TableStays
<1>6. BootInv' /\ BuildInv'
  <2>1. nThreads = 2 /\ Spooler \in Thread /\ ctx[Spooler].regs = Spooler
    BY <1>1, SchedulerAssumption DEF BootInv, Spooler, Thread
  <2>2. ctx[Spooler] \in Context /\ ctx'[Spooler] = [ctx[Spooler] EXCEPT !.psw = Spooler]
    BY <1>1, <2>1 DEF SchedInv, TypeOK
  <2>3. ctx'[Spooler] = Whole(Spooler) /\ ctx'[Spooler].regs = Spooler
    BY <2>1, <2>2 DEF Context, Whole
  <2>4. BootInv'
    BY <1>1, <2>1, <2>3 DEF BootInv
  <2> QED BY <1>1, <2>4 DEF BuildInv
<1>7. ~timerOn'
  BY <1>1 DEF BootInv
<1>8. RunInv'
  BY <1>1, <1>2, <1>4, <1>7, RunsOn
<1> QED BY <1>3, <1>5, <1>6, <1>8

\* When the timer is set there are two threads: one runs, the other is whole.
LEMMA KickstartTimer == TimerInv /\ Kickstart => TimerInv'
<1> SUFFICES ASSUME TimerInv, Kickstart PROVE TimerInv'
  OBVIOUS
<1> USE DEF TimerInv
<1>1. /\ InKernelThread /\ build = "kickstart" /\ build' = "job" /\ timerOn'
      /\ UNCHANGED <<nJobs, nTasks, nThreads, asleep, tasks, threads, curJob, curTask,
                     curThread, ctx, cpu, mode, cause>>
  BY DEF Kickstart, cursor, table
<1>2. mode = "run" /\ curJob \in Job /\ ~asleep[curJob] /\ CurrentThread = Kern
  BY <1>1, KernelRuns
<1>3. SchedInv'
  BY KernelThreadInv DEF KernelThread
<1>4. CurrentThread' = CurrentThread
  BY <1>1 DEF CurrentThread, CurrentTask
<1>5. TasksInv' /\ ThreadsInv'
  BY <1>1, TableStays
<1>6. BootInv' /\ BuildInv'
  BY <1>1 DEF BootInv, BuildInv
<1>7. ASSUME NEW th \in Thread, Runnable(th)', th # CurrentThread
       PROVE  ctx'[th] = Whole(th)
  <2>1. Runnable(th)
    BY <1>1, <1>7 DEF Runnable
  <2>2. PICK j \in Job, t \in Task : th \in ThreadsOf(t)
    BY <2>1, RunnableWhere
  <2>3. th \in 1 .. nThreads /\ nThreads = 2
    BY <1>1, <2>2 DEF ThreadsInv, BootInv
  <2>4. th = Spooler
    BY <1>2, <1>7, <2>3 DEF Kern, Spooler
  <2> QED BY <1>1, <2>4 DEF BootInv
<1>8. RunInv'
  BY <1>1, <1>2, <1>4, <1>7, RunsOn
<1> QED BY <1>3, <1>5, <1>6, <1>8

\* A new job sleeps and is empty: it dispatches nothing.
LEMMA MakeUserJobTimer == TimerInv /\ MakeUserJob => TimerInv'
<1> SUFFICES ASSUME TimerInv, MakeUserJob PROVE TimerInv'
  OBVIOUS
<1> USE DEF TimerInv
<1>1. /\ InKernelThread /\ build = "job" /\ build' = "task" /\ nJobs < MaxJobs
      /\ nJobs' = nJobs + 1 /\ asleep' = [asleep EXCEPT ![nJobs] = TRUE]
      /\ UNCHANGED <<nTasks, nThreads, tasks, threads, curJob, curTask, curThread, ctx, cpu,
                     mode, cause, timerOn>>
  BY DEF MakeUserJob, JobCreate, cursor
<1>2. mode = "run" /\ curJob \in Job /\ curJob < nJobs /\ ~asleep[curJob]
  BY <1>1, KernelRuns
<1>3. SchedInv'
  BY KernelThreadInv DEF KernelThread
<1>4. /\ nJobs \in Job /\ nJobs \in Nat /\ nJobs' - 1 = nJobs
      /\ asleep \in [Job -> BOOLEAN]
  BY <1>1, SchedulerAssumption DEF Job, SchedInv, TypeOK
<1>5. ~asleep'[curJob]
  BY <1>1, <1>2, <1>4
<1>6. CurrentThread' = CurrentThread
  BY <1>1 DEF CurrentThread, CurrentTask
<1>7. (\A j : TasksOf(j)' = TasksOf(j)) /\ (\A t : ThreadsOf(t)' = ThreadsOf(t))
  BY <1>1 DEF TasksOf, ThreadsOf
<1>8. TasksInv' /\ ThreadsInv'
  <2>1. \A j \in Job : j >= nJobs' => tasks'[j] = <<>>
    BY <1>1, <1>4 DEF TasksInv, Job
  <2>2. TasksInv'
    BY <1>1, <1>7, <2>1 DEF TasksInv
  <2> QED BY <1>1, <1>7, <2>2 DEF ThreadsInv
<1>9. BootInv' /\ BuildInv'
  <2>1. asleep'[nJobs' - 1] /\ tasks'[nJobs' - 1] = <<>>
    BY <1>1, <1>4 DEF TasksInv
  <2>2. BootInv'
    BY <1>1 DEF BootInv
  <2> QED BY <1>1, <2>1, <2>2 DEF BuildInv
<1>10. ASSUME NEW th \in Thread, Runnable(th)' PROVE Runnable(th)
  <2>1. PICK j \in Job, t \in Task :
            j < nJobs' /\ ~asleep'[j] /\ t \in TasksOf(j)' /\ th \in ThreadsOf(t)'
    BY <1>3, <1>10, RunnableWhere
  <2>2. j < nJobs /\ ~asleep[j]
    BY <1>1, <1>4, <2>1 DEF Job
  <2> QED BY <1>7, <2>1, <2>2, RunnableIf
<1>11. RunInv'
  BY <1>1, <1>2, <1>5, <1>6, <1>10, NothingNewRuns
<1> QED BY <1>3, <1>8, <1>9, <1>11

\* Its task is listed by no other job.
LEMMA MakeUserTaskTimer == TimerInv /\ MakeUserTask => TimerInv'
<1> SUFFICES ASSUME TimerInv, MakeUserTask PROVE TimerInv'
  OBVIOUS
<1> USE DEF TimerInv
<1>1. /\ InKernelThread /\ build = "task" /\ build' = "thread" /\ TaskCreate(nJobs - 1)
      /\ UNCHANGED <<nJobs, nThreads, asleep, threads, curJob, curTask, curThread, ctx, cpu,
                     mode, cause, timerOn>>
  BY DEF MakeUserTask, cursor
<1>2. mode = "run" /\ curJob \in Job /\ curJob < nJobs /\ ~asleep[curJob]
  BY <1>1, KernelRuns
<1>3. SchedInv'
  BY KernelThreadInv DEF KernelThread
<1>4. /\ nJobs - 1 \in Job /\ nJobs - 1 < nJobs /\ asleep[nJobs - 1]
      /\ tasks[nJobs - 1] = <<>>
  BY <1>1, SchedulerAssumption DEF Job, SchedInv, TypeOK, BuildInv
<1>5. /\ nTasks < MaxTasks /\ nTasks' = nTasks + 1 /\ nTasks \in Nat /\ nTasks + 1 \in Task
      /\ tasks' = [tasks EXCEPT ![nJobs - 1] = Append(@, nTasks + 1)]
  BY <1>1, SchedulerAssumption DEF TaskCreate, SchedInv, TypeOK, Task
<1>6. Extends(tasks', tasks, Job) /\ Extends(threads', threads, Task)
  BY <1>1, TaskCreateExtends, ExtendsItself
<1>7. CurrentThread' = CurrentThread
  BY <1>1, <1>2, <1>6, CurrentStays
<1>8. /\ \A j \in Job : TasksOf(j)' = IF j = nJobs - 1 THEN TasksOf(j) \cup {nTasks + 1}
                                      ELSE TasksOf(j)
      /\ TasksInv'
  BY <1>1, <1>4, TaskCreateTasks
<1>9. \A t : ThreadsOf(t)' = ThreadsOf(t)
  BY <1>1 DEF ThreadsOf
<1>10. ThreadsInv'
  <2>1. \A t \in Task : t \in Nat
    BY DEF Task
  <2> QED BY <1>1, <1>5, <1>9, <2>1 DEF ThreadsInv
<1>11. BootInv' /\ BuildInv'
  <2>1. tasks'[nJobs - 1] = <<nTasks + 1>>
    BY <1>4, <1>5 DEF SchedInv, TypeOK
  <2>2. threads'[nTasks + 1] = <<>>
    BY <1>1, <1>5 DEF ThreadsInv
  <2>3. BootInv'
    BY <1>1 DEF BootInv
  <2> QED BY <1>1, <1>4, <2>1, <2>2, <2>3 DEF BuildInv
<1>12. ASSUME NEW th \in Thread, Runnable(th)' PROVE Runnable(th)
  <2>1. PICK j \in Job, t \in Task :
            j < nJobs' /\ ~asleep'[j] /\ t \in TasksOf(j)' /\ th \in ThreadsOf(t)'
    BY <1>3, <1>12, RunnableWhere
  <2>2. j < nJobs /\ ~asleep[j] /\ t \in TasksOf(j)
    BY <1>1, <1>4, <1>8, <2>1
  <2> QED BY <1>9, <2>1, <2>2, RunnableIf
<1>13. RunInv'
  BY <1>1, <1>2, <1>7, <1>12, NothingNewRuns
<1> QED BY <1>3, <1>8, <1>10, <1>11, <1>13

\* Its thread is not seen before the job is woken.
LEMMA MakeUserThreadTimer == TimerInv /\ MakeUserThread => TimerInv'
<1> SUFFICES ASSUME TimerInv, MakeUserThread PROVE TimerInv'
  OBVIOUS
<1> USE DEF TimerInv
<1> DEFINE t0 == tasks[nJobs - 1][1]
<1>1. /\ InKernelThread /\ build = "thread" /\ build' = "pc"
      /\ nThreads < MaxThreads /\ nThreads' = nThreads + 1
      /\ threads' = [threads EXCEPT ![t0] = Append(@, nThreads + 1)]
      /\ ctx' = [ctx EXCEPT ![nThreads + 1] = NewContext(NoThread)]
      /\ UNCHANGED <<nJobs, nTasks, asleep, tasks, curJob, curTask, curThread, cpu,
                     mode, cause, timerOn>>
  BY DEF MakeUserThread, ThreadCreate, cursor
<1>2. mode = "run" /\ curJob \in Job /\ curJob < nJobs /\ ~asleep[curJob]
  BY <1>1, KernelRuns
<1>3. SchedInv'
  BY KernelThreadInv DEF KernelThread
<1>4. /\ nJobs - 1 \in Job /\ asleep[nJobs - 1] /\ Len(tasks[nJobs - 1]) = 1
      /\ threads[t0] = <<>>
  BY <1>1, SchedulerAssumption DEF Job, SchedInv, TypeOK, BuildInv
<1>5. t0 \in TasksOf(nJobs - 1) /\ t0 \in Task
  BY <1>4 DEF TasksOf, SchedInv, TypeOK
<1> HIDE DEF t0
<1>6. /\ nThreads + 1 \in Thread /\ Extends(threads', threads, Task)
      /\ Extends(tasks', tasks, Job)
  BY <1>1, ThreadCreateExtends, ExtendsItself
<1>7. CurrentThread' = CurrentThread
  BY <1>1, <1>2, <1>6, CurrentStays
<1>8. \A j : TasksOf(j)' = TasksOf(j)
  BY <1>1 DEF TasksOf
<1>9. TasksInv'
  BY <1>1, <1>8 DEF TasksInv
<1>10. /\ \A u \in Task : ThreadsOf(u)'
            = IF u = t0 THEN ThreadsOf(u) \cup {nThreads + 1} ELSE ThreadsOf(u)
       /\ ThreadsInv'
  <2>1. nTasks' \in Nat /\ nTasks <= nTasks' /\ t0 <= nTasks'
    BY <1>1, <1>4, <1>5 DEF SchedInv, TypeOK, TasksInv
  <2> QED BY <1>1, <1>5, <2>1, ThreadCreateThreads
<1>11. BootInv' /\ BuildInv'
  <2>1. threads'[t0] = <<nThreads + 1>>
    BY <1>1, <1>4, <1>5 DEF SchedInv, TypeOK
  <2>2. t0' = t0
    BY <1>1 DEF t0
  <2>3. UserThread' = threads'[t0'][1]
    BY DEF UserThread, t0
  <2>4. UserThread' = nThreads + 1 /\ Len(threads'[t0]) = 1 /\ t0' = t0
    BY <2>1, <2>2, <2>3
  <2>5. ctx'[nThreads + 1].regs = nThreads + 1
    BY <1>1, <1>6 DEF NewContext, SchedInv, TypeOK
  <2>6. BootInv'
    BY <1>1 DEF BootInv
  <2>7. /\ build' = "pc" /\ asleep'[nJobs' - 1] /\ Len(tasks'[nJobs' - 1]) = 1
        /\ Len(threads'[tasks'[nJobs' - 1][1]]) = 1
        /\ ctx'[UserThread'].regs = UserThread'
    BY <1>1, <1>4, <2>1, <2>4, <2>5 DEF t0
  <2> QED BY <2>6, <2>7 DEF BuildInv
<1>12. ASSUME NEW th \in Thread, Runnable(th)' PROVE Runnable(th) /\ ctx'[th] = ctx[th]
  <2>1. PICK j \in Job, t \in Task :
            j < nJobs' /\ ~asleep'[j] /\ t \in TasksOf(j)' /\ th \in ThreadsOf(t)'
    BY <1>3, <1>12, RunnableWhere
  <2>2. j < nJobs /\ ~asleep[j] /\ t \in TasksOf(j) /\ j # nJobs - 1
    BY <1>1, <1>4, <1>8, <2>1
  <2>3. t # t0
    BY <1>4, <1>5, <2>2 DEF TasksInv
  <2>4. th \in ThreadsOf(t)
    BY <1>10, <2>1, <2>3
  <2>5. Runnable(th)
    BY <2>2, <2>4, RunnableIf
  <2>6. th # nThreads + 1
    BY <2>4 DEF ThreadsInv, SchedInv, TypeOK
  <2> QED BY <1>1, <2>5, <2>6 DEF SchedInv, TypeOK
<1>13. RunInv'
  BY <1>1, <1>2, <1>7, <1>12, NothingNewRuns
<1> QED BY <1>3, <1>9, <1>10, <1>11, <1>13

\* The job that is being made has one thread, UserThread.
LEMMA UserThreadIs ==
    ASSUME SchedInv, BuildInv, build \in {"pc", "wake"}
    PROVE  /\ nJobs - 1 \in Job /\ asleep[nJobs - 1] /\ UserThread \in Thread
           /\ ctx[UserThread].regs = UserThread
           /\ \A t \in TasksOf(nJobs - 1) : \A th \in ThreadsOf(t) : th = UserThread
<1>1. /\ nJobs - 1 \in Job /\ asleep[nJobs - 1] /\ Len(tasks[nJobs - 1]) = 1
      /\ Len(threads[tasks[nJobs - 1][1]]) = 1 /\ ctx[UserThread].regs = UserThread
  BY SchedulerAssumption DEF Job, SchedInv, TypeOK, BuildInv
<1>2. \A t \in TasksOf(nJobs - 1) : t = tasks[nJobs - 1][1] /\ t \in Task
  BY <1>1 DEF TasksOf, SchedInv, TypeOK
<1>3. tasks[nJobs - 1][1] \in Task
  BY <1>1 DEF SchedInv, TypeOK
<1>4. UserThread \in Thread
  BY <1>1, <1>3 DEF UserThread, SchedInv, TypeOK
<1>5. \A th \in ThreadsOf(tasks[nJobs - 1][1]) : th = UserThread
  BY <1>1, <1>3 DEF ThreadsOf, UserThread, SchedInv, TypeOK
<1> QED BY <1>1, <1>2, <1>4, <1>5

\* set_pc makes that thread whole.
LEMMA SetUserPcTimer == TimerInv /\ SetUserPc => TimerInv'
<1> SUFFICES ASSUME TimerInv, SetUserPc PROVE TimerInv'
  OBVIOUS
<1> USE DEF TimerInv
<1>1. /\ InKernelThread /\ build = "pc" /\ build' = "wake"
      /\ ctx' = [ctx EXCEPT ![UserThread].psw = UserThread]
      /\ UNCHANGED <<nJobs, nTasks, nThreads, asleep, tasks, threads, curJob, curTask,
                     curThread, cpu, mode, cause, timerOn>>
  BY DEF SetUserPc, cursor, table
<1>2. mode = "run" /\ curJob \in Job /\ ~asleep[curJob]
  BY <1>1, KernelRuns
<1>3. SchedInv'
  BY KernelThreadInv DEF KernelThread
<1>4. CurrentThread' = CurrentThread /\ UserThread' = UserThread
  BY <1>1 DEF CurrentThread, CurrentTask, UserThread
<1>5. TasksInv' /\ ThreadsInv'
  BY <1>1, TableStays
<1>6. ctx'[UserThread] = Whole(UserThread)
  <2>1. UserThread \in Thread /\ ctx[UserThread].regs = UserThread
    BY <1>1, UserThreadIs
  <2>2. /\ ctx[UserThread] \in Context
        /\ ctx'[UserThread] = [ctx[UserThread] EXCEPT !.psw = UserThread]
    BY <1>1, <2>1 DEF SchedInv, TypeOK
  <2> QED BY <2>1, <2>2 DEF Context, Whole
<1>7. BootInv'
  BY <1>1 DEF BootInv
<1>8. BuildInv'
  <2>1. ctx'[UserThread].regs = UserThread
    BY <1>6 DEF Whole
  <2> QED BY <1>1, <1>4, <1>6, <2>1 DEF BuildInv
<1>9. ASSUME NEW th \in Thread, Runnable(th)'
      PROVE  ctx'[th] = Whole(th) \/ (Runnable(th) /\ ctx'[th] = ctx[th])
  <2>1. Runnable(th)
    BY <1>1, <1>9 DEF Runnable
  <2>2. CASE th = UserThread
    BY <1>6, <2>2 DEF Whole
  <2>3. CASE th # UserThread
    BY <1>1, <2>1, <2>3 DEF SchedInv, TypeOK
  <2> QED BY <2>2, <2>3
<1>10. RunInv'
  BY <1>1, <1>2, <1>4, <1>9, NothingNewRuns
<1> QED BY <1>3, <1>5, <1>7, <1>8, <1>10

\* What wakes is whole.
LEMMA WakeUserJobTimer == TimerInv /\ WakeUserJob => TimerInv'
<1> SUFFICES ASSUME TimerInv, WakeUserJob PROVE TimerInv'
  OBVIOUS
<1> USE DEF TimerInv
<1>1. /\ InKernelThread /\ build = "wake" /\ build' = "job"
      /\ asleep' = [asleep EXCEPT ![nJobs - 1] = FALSE]
      /\ UNCHANGED <<nJobs, nTasks, nThreads, tasks, threads, curJob, curTask,
                     curThread, ctx, cpu, mode, cause, timerOn>>
  BY DEF WakeUserJob, cursor
<1>2. mode = "run" /\ curJob \in Job /\ ~asleep[curJob]
  BY <1>1, KernelRuns
<1>3. SchedInv'
  BY KernelThreadInv DEF KernelThread
<1>4. CurrentThread' = CurrentThread /\ ~asleep'[curJob]
  BY <1>1, <1>2 DEF CurrentThread, CurrentTask, SchedInv, TypeOK
<1>5. TasksInv' /\ ThreadsInv'
  BY <1>1, TableStays
<1>6. BootInv' /\ BuildInv'
  BY <1>1 DEF BootInv, BuildInv
<1>7. (\A j : TasksOf(j)' = TasksOf(j)) /\ (\A t : ThreadsOf(t)' = ThreadsOf(t))
  BY <1>1 DEF TasksOf, ThreadsOf
<1>8. ctx[UserThread] = Whole(UserThread)
  BY <1>1 DEF BuildInv
<1>9. ASSUME NEW th \in Thread, Runnable(th)'
      PROVE  ctx'[th] = Whole(th) \/ (Runnable(th) /\ ctx'[th] = ctx[th])
  <2>1. PICK j \in Job, t \in Task :
            j < nJobs' /\ ~asleep'[j] /\ t \in TasksOf(j)' /\ th \in ThreadsOf(t)'
    BY <1>3, <1>9, RunnableWhere
  <2>2. CASE j = nJobs - 1
    <3>1. t \in TasksOf(nJobs - 1) /\ th \in ThreadsOf(t)
      BY <1>7, <2>1, <2>2
    <3>2. th = UserThread
      BY <1>1, <3>1, UserThreadIs
    <3> QED BY <1>1, <1>8, <3>2
  <2>3. CASE j # nJobs - 1
    <3>1. ~asleep[j]
      BY <1>1, <2>1, <2>3 DEF SchedInv, TypeOK
    <3> QED BY <1>1, <1>7, <2>1, <3>1, RunnableIf
  <2> QED BY <2>2, <2>3
<1>10. RunInv'
  BY <1>1, <1>2, <1>4, <1>9, NothingNewRuns
<1> QED BY <1>3, <1>5, <1>6, <1>10

\* The job that is being made keeps its shape if its lists are left alone.
LEMMA BuildStays ==
    ASSUME SchedInv, BuildInv, UNCHANGED <<nJobs, build>>,
           asleep'[nJobs - 1] = asleep[nJobs - 1],
           build # "job" => tasks'[nJobs - 1] = tasks[nJobs - 1],
           build \in {"thread", "pc", "wake"} =>
               threads'[tasks[nJobs - 1][1]] = threads[tasks[nJobs - 1][1]],
           build \in {"pc", "wake"} =>
               ctx'[UserThread] = ctx[UserThread] \/ ctx'[UserThread] = Whole(UserThread)
    PROVE  BuildInv'
<1>1. CASE build \in {"pc", "wake"}
  <2>1. tasks'[nJobs - 1] = tasks[nJobs - 1]
    BY <1>1
  <2>2. UserThread' = UserThread
    BY <1>1, <2>1 DEF UserThread
  <2>3. ctx'[UserThread].regs = UserThread
    BY <1>1 DEF BuildInv, Whole
  <2>4. build = "wake" => ctx'[UserThread] = Whole(UserThread)
    BY <1>1 DEF BuildInv
  <2>5. Whole(UserThread)' = Whole(UserThread)
    BY <2>2 DEF Whole
  <2> QED BY <1>1, <2>1, <2>2, <2>3, <2>4, <2>5 DEF BuildInv
<1>2. CASE build \notin {"pc", "wake"}
  BY <1>2 DEF BuildInv
<1> QED BY <1>1, <1>2

\* A thread in problem state is the current one, in a job that is awake: not in
\* the job that is being made.
LEMMA UserRuns ==
    ASSUME TimerInv, InUserThread
    PROVE  /\ mode = "run" /\ cpu = Whole(CurrentThread) /\ timerOn
           /\ curJob \in Job /\ curJob < nJobs /\ ~asleep[curJob]
           /\ CurrentTask \in TasksOf(curJob) /\ CurrentTask \in Task
           /\ build \in {"job", "task", "thread", "pc", "wake"}
           /\ build # "job" => curJob # nJobs - 1 /\ asleep[nJobs - 1]
<1>1. mode = "run" /\ cpu.psw # Kern
  BY DEF InUserThread
<1>2. cpu = Whole(CurrentThread) /\ ~asleep[curJob]
  BY <1>1 DEF TimerInv, RunInv
<1>3. timerOn
  BY <1>1 DEF TimerInv, BootInv, Whole
<1>4. build \in {"job", "task", "thread", "pc", "wake"}
  BY <1>3 DEF TimerInv, BootInv, SchedInv, TypeOK
<1>5. curJob \in Job /\ curJob < nJobs
  BY SchedulerAssumption DEF TimerInv, SchedInv, TypeOK, Job
<1>6. CurrentTask \in Task /\ CurrentTask \in TasksOf(curJob)
  BY <1>1, CurrentExists DEF TimerInv, TasksOf, CurrentTask
<1>7. build # "job" => asleep[nJobs - 1]
  BY <1>4 DEF TimerInv, BuildInv
<1> QED BY <1>1, <1>2, <1>3, <1>4, <1>5, <1>6, <1>7

\* What the job that is being made has made so far.
LEMMA BuildParts ==
    ASSUME TimerInv
    PROVE  /\ nJobs - 1 \in Job /\ nThreads \in Nat /\ nTasks \in Nat
           /\ build \in {"thread", "pc", "wake"} =>
                 /\ tasks[nJobs - 1][1] \in Task /\ tasks[nJobs - 1][1] <= nTasks
                 /\ tasks[nJobs - 1][1] \in TasksOf(nJobs - 1)
           /\ build \in {"pc", "wake"} => UserThread <= nThreads /\ UserThread \in Thread
<1>1. nJobs - 1 \in Job /\ nThreads \in Nat /\ nTasks \in Nat
  BY SchedulerAssumption DEF Job, TimerInv, SchedInv, TypeOK
<1>2. ASSUME build \in {"thread", "pc", "wake"}
      PROVE  /\ tasks[nJobs - 1][1] \in Task /\ tasks[nJobs - 1][1] <= nTasks
             /\ tasks[nJobs - 1][1] \in TasksOf(nJobs - 1)
  <2>1. Len(tasks[nJobs - 1]) = 1 /\ tasks[nJobs - 1] \in Seq(Task)
    BY <1>1, <1>2 DEF TimerInv, SchedInv, TypeOK, BuildInv
  <2>2. tasks[nJobs - 1][1] \in Task /\ tasks[nJobs - 1][1] \in TasksOf(nJobs - 1)
    BY <2>1 DEF TasksOf
  <2>3. TasksOf(nJobs - 1) \subseteq 1 .. nTasks
    BY <1>1 DEF TimerInv, TasksInv
  <2>4. tasks[nJobs - 1][1] \in 1 .. nTasks
    BY <2>2, <2>3
  <2> QED BY <1>1, <2>2, <2>4
<1>3. ASSUME build \in {"pc", "wake"} PROVE UserThread <= nThreads /\ UserThread \in Thread
  <2> DEFINE t0 == tasks[nJobs - 1][1]
  <2>1. t0 \in Task
    BY <1>2, <1>3
  <2>2. Len(threads[t0]) = 1 /\ threads[t0] \in Seq(Thread)
    BY <1>3, <2>1 DEF TimerInv, SchedInv, TypeOK, BuildInv
  <2>3. UserThread = threads[t0][1]
    BY DEF UserThread
  <2> HIDE DEF t0
  <2>4. UserThread \in Thread /\ UserThread \in ThreadsOf(t0)
    BY <2>2, <2>3 DEF ThreadsOf
  <2>5. ThreadsOf(t0) \subseteq 1 .. nThreads
    BY <2>1 DEF TimerInv, ThreadsInv
  <2>6. UserThread \in 1 .. nThreads
    BY <2>4, <2>5
  <2> QED BY <1>1, <2>4, <2>6
<1> QED BY <1>1, <1>2, <1>3

\* SVC_EXEC_AT: the one new thread that can be dispatched is whole.
LEMMA ExecAtTimer == TimerInv /\ ExecAt => TimerInv'
<1> SUFFICES ASSUME TimerInv, ExecAt PROVE TimerInv'
  OBVIOUS
<1>1. /\ InUserThread /\ TaskCreate(curJob)
      /\ nThreads < MaxThreads /\ nThreads' = nThreads + 1
      /\ threads' = [threads EXCEPT ![nTasks + 1] = Append(@, nThreads + 1)]
      /\ ctx' = [ctx EXCEPT ![nThreads + 1] = NewContext(nThreads + 1)]
      /\ UNCHANGED <<nJobs, asleep, curJob, curTask, curThread, cpu, mode, cause, build,
                     timerOn>>
  BY DEF ExecAt, cursor
<1>2. /\ mode = "run" /\ cpu = Whole(CurrentThread) /\ timerOn
      /\ curJob \in Job /\ curJob < nJobs /\ ~asleep[curJob]
      /\ build \in {"job", "task", "thread", "pc", "wake"}
      /\ build # "job" => curJob # nJobs - 1 /\ asleep[nJobs - 1]
  BY <1>1, UserRuns
<1>3. SchedInv /\ SchedInv' /\ TasksInv /\ ThreadsInv /\ BootInv /\ BuildInv /\ RunInv
  BY UserThreadInv DEF TimerInv
<1>4. /\ nTasks' = nTasks + 1 /\ nTasks < MaxTasks /\ nTasks \in Nat
      /\ nTasks + 1 \in Task /\ nTasks + 1 \notin 1 .. nTasks
      /\ tasks' = [tasks EXCEPT ![curJob] = Append(@, nTasks + 1)]
  BY <1>1, <1>3, SchedulerAssumption DEF TaskCreate, SchedInv, TypeOK, Task
<1>5. /\ nThreads + 1 \in Thread /\ Extends(threads', threads, Task)
      /\ Extends(tasks', tasks, Job)
  BY <1>1, <1>3, ThreadCreateExtends, TaskCreateExtends
<1>6. CurrentThread' = CurrentThread
  BY <1>1, <1>2, <1>3, <1>5, CurrentStays
<1>7. /\ \A j \in Job : TasksOf(j)' = IF j = curJob THEN TasksOf(j) \cup {nTasks + 1}
                                      ELSE TasksOf(j)
      /\ TasksInv'
  BY <1>1, <1>2, <1>3, TaskCreateTasks
<1>8. /\ \A u \in Task : ThreadsOf(u)'
            = IF u = nTasks + 1 THEN ThreadsOf(u) \cup {nThreads + 1} ELSE ThreadsOf(u)
      /\ ThreadsInv'
  <2>1. nTasks' \in Nat /\ nTasks <= nTasks' /\ nTasks + 1 <= nTasks'
    BY <1>4
  <2> QED BY <1>1, <1>3, <1>4, <2>1, ThreadCreateThreads
<1>9. BootInv'
  BY <1>1, <1>2, <1>3 DEF BootInv
<1>10. BuildInv'
  <2>1. build # "job" => tasks'[nJobs - 1] = tasks[nJobs - 1]
    BY <1>2, <1>3, <1>4, BuildParts DEF SchedInv, TypeOK
  <2>2. build \in {"thread", "pc", "wake"} =>
            threads'[tasks[nJobs - 1][1]] = threads[tasks[nJobs - 1][1]]
    BY <1>1, <1>3, <1>4, BuildParts, SMTT(30) DEF SchedInv, TypeOK
  <2>3. build \in {"pc", "wake"} => ctx'[UserThread] = ctx[UserThread]
    BY <1>1, <1>3, BuildParts DEF SchedInv, TypeOK
  <2> QED BY <1>1, <1>3, <2>1, <2>2, <2>3, BuildStays
<1>11. ctx'[nThreads + 1] = Whole(nThreads + 1)
  BY <1>1, <1>3, <1>5 DEF NewContext, Whole, SchedInv, TypeOK
<1>12. ThreadsOf(nTasks + 1) = {}
  <2>1. threads[nTasks + 1] = <<>>
    BY <1>3, <1>4 DEF ThreadsInv
  <2> QED BY <2>1 DEF ThreadsOf
<1>13. ASSUME NEW th \in Thread, Runnable(th)'
       PROVE  ctx'[th] = Whole(th) \/ (Runnable(th) /\ ctx'[th] = ctx[th])
  <2>1. PICK j \in Job, t \in Task :
            j < nJobs' /\ ~asleep'[j] /\ t \in TasksOf(j)' /\ th \in ThreadsOf(t)'
    BY <1>3, <1>13, RunnableWhere
  <2>2. CASE th = nThreads + 1
    BY <1>11, <2>2 DEF Whole
  <2>3. CASE th # nThreads + 1
    <3>1. t # nTasks + 1 /\ th \in ThreadsOf(t)
      BY <1>8, <1>12, <2>1, <2>3
    <3>2. t \in TasksOf(j)
      BY <1>7, <2>1, <3>1
    <3>3. Runnable(th)
      BY <1>1, <1>3, <2>1, <3>1, <3>2, RunnableIf
    <3> QED BY <1>1, <1>3, <2>3, <3>3 DEF SchedInv, TypeOK
  <2> QED BY <2>2, <2>3
<1>14. RunInv'
  BY <1>1, <1>2, <1>3, <1>6, <1>13, NothingNewRuns
<1> QED BY <1>3, <1>7, <1>8, <1>9, <1>10, <1>14 DEF TimerInv

\* SVC_THREAD_AT: the new thread is in the current task, and is whole.
LEMMA ThreadAtTimer == TimerInv /\ ThreadAt => TimerInv'
<1> SUFFICES ASSUME TimerInv, ThreadAt PROVE TimerInv'
  OBVIOUS
<1>1. /\ InUserThread /\ nThreads < MaxThreads /\ nThreads' = nThreads + 1
      /\ threads' = [threads EXCEPT ![CurrentTask] = Append(@, nThreads + 1)]
      /\ ctx' = [ctx EXCEPT ![nThreads + 1] = NewContext(nThreads + 1)]
      /\ UNCHANGED <<nJobs, nTasks, asleep, tasks, curJob, curTask, curThread, cpu, mode, cause,
                     build, timerOn>>
  BY DEF ThreadAt, ThreadCreate, cursor
<1>2. /\ mode = "run" /\ cpu = Whole(CurrentThread) /\ timerOn
      /\ curJob \in Job /\ curJob < nJobs /\ ~asleep[curJob]
      /\ CurrentTask \in TasksOf(curJob) /\ CurrentTask \in Task
      /\ build \in {"job", "task", "thread", "pc", "wake"}
      /\ build # "job" => curJob # nJobs - 1 /\ asleep[nJobs - 1]
  BY <1>1, UserRuns
<1>3. SchedInv /\ SchedInv' /\ TasksInv /\ ThreadsInv /\ BootInv /\ BuildInv /\ RunInv
  BY UserThreadInv DEF TimerInv
<1>4. /\ nThreads + 1 \in Thread /\ Extends(threads', threads, Task)
      /\ Extends(tasks', tasks, Job)
  BY <1>1, <1>3, ThreadCreateExtends, ExtendsItself
<1>5. CurrentThread' = CurrentThread
  BY <1>1, <1>2, <1>3, <1>4, CurrentStays
<1>6. \A j : TasksOf(j)' = TasksOf(j)
  BY <1>1 DEF TasksOf
<1>7. TasksInv'
  BY <1>1, <1>3, <1>6 DEF TasksInv
<1>8. /\ nTasks \in Nat /\ nTasks' \in Nat /\ nTasks <= nTasks' /\ CurrentTask <= nTasks'
  <2>1. TasksOf(curJob) \subseteq 1 .. nTasks
    BY <1>2, <1>3 DEF TasksInv
  <2>2. CurrentTask \in 1 .. nTasks
    BY <1>2, <2>1
  <2> QED BY <1>1, <1>3, <2>2 DEF SchedInv, TypeOK
<1>9. /\ \A u \in Task : ThreadsOf(u)'
            = IF u = CurrentTask THEN ThreadsOf(u) \cup {nThreads + 1} ELSE ThreadsOf(u)
      /\ ThreadsInv'
  BY <1>1, <1>2, <1>3, <1>8, ThreadCreateThreads
<1>10. BootInv'
  BY <1>1, <1>2, <1>3 DEF BootInv
<1>11. BuildInv'
  <2>1. build \in {"thread", "pc", "wake"} =>
            threads'[tasks[nJobs - 1][1]] = threads[tasks[nJobs - 1][1]]
    <3> SUFFICES ASSUME build \in {"thread", "pc", "wake"}
                 PROVE  threads'[tasks[nJobs - 1][1]] = threads[tasks[nJobs - 1][1]]
      OBVIOUS
    <3>1. /\ nJobs - 1 \in Job /\ curJob # nJobs - 1
          /\ tasks[nJobs - 1][1] \in Task /\ tasks[nJobs - 1][1] \in TasksOf(nJobs - 1)
      BY <1>2, BuildParts
    <3>2. TasksOf(curJob) \cap TasksOf(nJobs - 1) = {}
      BY <1>2, <1>3, <3>1 DEF TasksInv
    <3>3. tasks[nJobs - 1][1] # CurrentTask
      BY <1>2, <3>1, <3>2
    <3> QED BY <1>1, <1>3, <3>1, <3>3 DEF SchedInv, TypeOK
  <2>2. build \in {"pc", "wake"} => ctx'[UserThread] = ctx[UserThread]
    BY <1>1, <1>3, BuildParts DEF SchedInv, TypeOK
  <2> QED BY <1>1, <1>3, <2>1, <2>2, BuildStays
<1>12. ctx'[nThreads + 1] = Whole(nThreads + 1)
  BY <1>1, <1>3, <1>4 DEF NewContext, Whole, SchedInv, TypeOK
<1>13. ASSUME NEW th \in Thread, Runnable(th)'
       PROVE  ctx'[th] = Whole(th) \/ (Runnable(th) /\ ctx'[th] = ctx[th])
  <2>1. PICK j \in Job, t \in Task :
            j < nJobs' /\ ~asleep'[j] /\ t \in TasksOf(j)' /\ th \in ThreadsOf(t)'
    BY <1>3, <1>13, RunnableWhere
  <2>2. CASE th = nThreads + 1
    BY <1>12, <2>2 DEF Whole
  <2>3. CASE th # nThreads + 1
    <3>1. th \in ThreadsOf(t)
      BY <1>9, <2>1, <2>3
    <3>2. Runnable(th)
      BY <1>1, <1>3, <1>6, <2>1, <3>1, RunnableIf
    <3> QED BY <1>1, <1>3, <2>3, <3>2 DEF SchedInv, TypeOK
  <2> QED BY <2>2, <2>3
<1>14. RunInv'
  BY <1>1, <1>2, <1>3, <1>5, <1>13, NothingNewRuns
<1> QED BY <1>3, <1>9, <1>10, <1>11, <1>14, <1>7 DEF TimerInv

\* The timer: the running thread's registers and PSW go to the low storage,
\* under the name old_thread.
LEMMA ExternalTimer == TimerInv /\ External => TimerInv'
<1> SUFFICES ASSUME TimerInv, External PROVE TimerInv'
  OBVIOUS
<1>1. /\ timerOn /\ mode = "run" /\ mode' = "scan" /\ cause' = "ext" /\ Enter("ext")
      /\ psa' = [psa EXCEPT !.grsav = cpu.regs, ![OldPsw("ext")] = cpu.psw]
      /\ oldThread' = OldThread(tasks[curJob], curTask[curJob])
      /\ UNCHANGED <<nJobs, nTasks, nThreads, asleep, tasks, threads, ctx, build, timerOn>>
  BY DEF External, Enter
<1>2. SchedInv /\ TasksInv /\ ThreadsInv /\ BootInv /\ BuildInv /\ RunInv
  BY DEF TimerInv
<1>3. SchedInv'
  BY <1>2, ScheduleInv DEF External
<1>4. TasksInv' /\ ThreadsInv'
  BY <1>1, <1>2, TableStays
<1>5. BootInv'
  BY <1>1, <1>2 DEF BootInv
<1>6. BuildInv'
  BY <1>1, <1>2, BuildStays
<1>7. oldThread' = CurrentThread /\ CurrentThread \in Thread
  <2>1. tasks[curJob] # <<>> /\ threads[CurrentTask] # <<>>
    BY <1>1, <1>2 DEF SchedInv, CursorsInRange
  <2>2. oldThread' = CurrentThread
    BY <1>1, <2>1 DEF OldThread, CurrentTask, CurrentThread
  <2> QED BY <1>1, <1>2, <2>2, CurrentExists
<1>8. psa'.grsav = CurrentThread /\ psa'.ext = CurrentThread
  <2>1. cpu = Whole(CurrentThread)
    BY <1>1, <1>2 DEF RunInv
  <2>2. psa \in [grsav : Token, ext : Token, svc : Token, pc : Token]
    BY <1>2 DEF SchedInv, TypeOK
  <2>3. psa' = [psa EXCEPT !.grsav = CurrentThread, !.ext = CurrentThread]
    BY <1>1, <2>1 DEF Whole, OldPsw
  <2> QED BY <2>2, <2>3
<1>9. ASSUME NEW th \in Thread, Runnable(th)', th # CurrentThread
      PROVE  ctx'[th] = Whole(th)
  <2>1. Runnable(th)
    BY <1>1, <1>9 DEF Runnable
  <2> QED BY <1>1, <1>2, <1>9, <2>1 DEF RunInv, Running
<1>10. Running' = CurrentThread
  BY <1>1, <1>7 DEF Running
<1>11. RunInv'
  BY <1>1, <1>7, <1>8, <1>9, <1>10 DEF RunInv
<1> QED BY <1>3, <1>4, <1>5, <1>6, <1>11 DEF TimerInv

\* switch_context after a timer interruption: the old thread becomes whole, the
\* new one gets the CPU, and no other context is touched.
LEMMA SwitchContextTimer ==
    ASSUME SchedInv, RunInv, mode = "scan", NEW new \in Thread, Runnable(new),
           SwitchContext(oldThread, new)
    PROVE  /\ mode' = "run" /\ cpu' = Whole(new) /\ ctx'[oldThread] = Whole(oldThread)
           /\ \A th \in Thread : th # oldThread => ctx'[th] = ctx[th]
<1>1. /\ cause = "ext" /\ oldThread \in Thread /\ timerOn
      /\ psa.grsav = oldThread /\ psa.ext = oldThread /\ Running = oldThread
  BY DEF RunInv, Running
<1>2. oldThread # NoThread
  BY <1>1, SchedulerAssumption DEF Thread, NoThread
<1> DEFINE saved == [ctx EXCEPT ![oldThread] = [regs |-> psa.grsav, psw |-> psa.ext]]
           out   == [psa EXCEPT !.grsav = saved[new].regs, !.ext = saved[new].psw]
<1>3. /\ ctx' = saved /\ mode' = "run"
      /\ cpu' = [regs |-> out.grsav, psw |-> out["ext"]]
  BY <1>1, <1>2 DEF SwitchContext, OldPsw
<1>4. /\ ctx \in [Thread -> Context]
      /\ psa \in [grsav : Token, ext : Token, svc : Token, pc : Token]
  BY DEF SchedInv, TypeOK
<1>5. /\ saved[oldThread] = Whole(oldThread)
      /\ \A th \in Thread : th # oldThread => saved[th] = ctx[th]
  BY <1>1, <1>4 DEF Whole
<1>6. new # oldThread => ctx[new] = Whole(new)
  BY <1>1 DEF RunInv
<1>7. saved[new] = Whole(new)
  BY <1>5, <1>6 DEF Whole
<1> HIDE DEF saved
<1>8. out.grsav = new /\ out["ext"] = new
  BY <1>4, <1>7 DEF Whole
<1> HIDE DEF out
<1>9. cpu' = Whole(new)
  BY <1>3, <1>8 DEF Whole
<1> QED BY <1>3, <1>5, <1>9

\* What one turn of timeshare::next does if it dispatches.
LEMMA DispatchWhat ==
    ASSUME SchedInv, NEW j \in Job, j < nJobs, Dispatch(j), curJob' = j,
           UNCHANGED <<nJobs, asleep, tasks, threads>>
    PROVE  /\ ~asleep[j]
           /\ CurrentThread' \in Thread /\ Runnable(CurrentThread')
           /\ SwitchContext(oldThread, CurrentThread')
<1> DEFINE cur == Advance(curTask[j], Len(tasks[j]))
<1>1. tasks[j] \in Seq(Task) /\ Len(tasks[j]) \in Nat /\ curTask[j] \in Nat
  BY SMTT(30) DEF SchedInv, TypeOK
<1> DEFINE t == tasks[j][cur + 1]
           n == Advance(curThread[t], Len(threads[t]))
<1>2. /\ ~asleep[j] /\ tasks[j] # <<>> /\ threads[t] # <<>>
      /\ curTask' = [curTask EXCEPT ![j] = cur]
      /\ curThread' = [curThread EXCEPT ![t] = n]
      /\ SwitchContext(oldThread, threads[t][n + 1])
  BY DEF Dispatch
<1>3. cur \in Nat /\ cur < Len(tasks[j])
  <2>1. Len(tasks[j]) # 0
    BY <1>1, <1>2
  <2> QED BY <1>1, <2>1, AdvanceInRange
<1> HIDE DEF cur
<1>4. cur + 1 \in DOMAIN tasks[j]
  BY <1>1, <1>3
<1>5. t \in Task /\ t \in TasksOf(j)
  BY <1>1, <1>4 DEF TasksOf
<1>6. CurrentTask' = t
  BY <1>2 DEF CurrentTask, t, SchedInv, TypeOK
<1> HIDE DEF t
<1>7. /\ threads[t] \in Seq(Thread) /\ Len(threads[t]) \in Nat
      /\ Len(threads[t]) # 0 /\ curThread[t] \in Nat
  BY <1>2, <1>5 DEF SchedInv, TypeOK
<1>8. n \in Nat /\ n < Len(threads[t])
  BY <1>7, AdvanceInRange
<1>9. CurrentThread' = threads[t][n + 1]
  BY <1>2, <1>5, <1>6 DEF CurrentThread, SchedInv, TypeOK
<1> HIDE DEF n
<1>10. threads[t][n + 1] \in Thread /\ threads[t][n + 1] \in ThreadsOf(t)
  BY <1>7, <1>8 DEF ThreadsOf
<1>11. Runnable(threads[t][n + 1])
  BY <1>2, <1>5, <1>10, RunnableIf
<1> QED BY <1>2, <1>9, <1>10, <1>11

\* One turn of the scan leaves the saved registers where they are, or hands the
\* CPU to a thread that was whole.
LEMMA ScanStepTimer == TimerInv /\ ScanStep => TimerInv'
<1> SUFFICES ASSUME TimerInv, ScanStep PROVE TimerInv'
  OBVIOUS
<1> DEFINE j == Advance(curJob, nJobs)
<1>1. /\ mode = "scan" /\ curJob' = j
      /\ SkipJob(j) \/ SkipTask(j) \/ Dispatch(j)
      /\ UNCHANGED <<nJobs, nTasks, nThreads, asleep, tasks, threads,
                     cause, oldThread, build, timerOn>>
  BY DEF ScanStep, table
<1>2. SchedInv /\ TasksInv /\ ThreadsInv /\ BootInv /\ BuildInv /\ RunInv
  BY DEF TimerInv
<1>3. SchedInv'
  BY <1>2, ScanStepInv
<1>4. TasksInv' /\ ThreadsInv'
  BY <1>1, <1>2, TableStays
<1>5. j \in Job /\ j < nJobs
  <2>1. nJobs \in Nat /\ nJobs # 0 /\ curJob \in Nat /\ nJobs <= MaxJobs /\ MaxJobs \in Nat
    BY <1>2, SchedulerAssumption DEF SchedInv, TypeOK
  <2>2. j \in Nat /\ j < nJobs
    BY <2>1, AdvanceInRange
  <2> QED BY <2>1, <2>2 DEF Job
<1> HIDE DEF j
<1>6. /\ cause = "ext" /\ oldThread \in Thread /\ timerOn
      /\ psa.grsav = oldThread /\ psa.ext = oldThread /\ Running = oldThread
  BY <1>1, <1>2 DEF RunInv, Running
<1>7. \A th : Runnable(th)' = Runnable(th)
  BY <1>1 DEF Runnable
<1>8. BootInv'
  BY <1>1, <1>2, <1>6 DEF BootInv
<1>9. \A th \in Thread : Runnable(th) /\ th # oldThread => ctx[th] = Whole(th)
  BY <1>2, <1>6 DEF RunInv
<1>10. CASE SkipJob(j) \/ SkipTask(j)
  <2>1. UNCHANGED <<ctx, cpu, psa, mode>>
    BY <1>10 DEF SkipJob, SkipTask
  <2>2. BuildInv'
    BY <1>1, <1>2, <2>1, BuildStays
  <2>3. Running' = oldThread
    BY <1>1, <2>1 DEF Running
  <2>4. RunInv'
    BY <1>1, <1>6, <1>7, <1>9, <2>1, <2>3 DEF RunInv
  <2> QED BY <1>3, <1>4, <1>8, <2>2, <2>4 DEF TimerInv
<1>11. CASE Dispatch(j)
  <2>1. /\ ~asleep[j] /\ CurrentThread' \in Thread /\ Runnable(CurrentThread')
        /\ SwitchContext(oldThread, CurrentThread')
    BY <1>1, <1>2, <1>5, <1>11, DispatchWhat
  <2>2. /\ mode' = "run" /\ cpu' = Whole(CurrentThread')
        /\ ctx'[oldThread] = Whole(oldThread)
        /\ \A th \in Thread : th # oldThread => ctx'[th] = ctx[th]
    BY <1>1, <1>2, <2>1, SwitchContextTimer
  <2>3. build \in {"pc", "wake"} =>
            ctx'[UserThread] = ctx[UserThread] \/ ctx'[UserThread] = Whole(UserThread)
    <3>1. build \in {"pc", "wake"} => UserThread \in Thread
      BY BuildParts
    <3> QED BY <2>2, <3>1 DEF Whole
  <2>4. BuildInv'
    BY <1>1, <1>2, <2>3, BuildStays
  <2>5. Running' = CurrentThread'
    BY <2>2 DEF Running
  <2>6. \A th \in Thread : Runnable(th)' => ctx'[th] = Whole(th)
    BY <1>7, <1>9, <2>2 DEF Whole
  <2>7. RunInv'
    BY <1>1, <1>6, <2>1, <2>2, <2>6 DEF RunInv
  <2> QED BY <1>3, <1>4, <1>8, <2>4, <2>7 DEF TimerInv
<1> QED BY <1>1, <1>10, <1>11

\* The boot flow starts alone.
LEMMA InitTimer == Init => TimerInv
<1> SUFFICES ASSUME Init PROVE TimerInv
  OBVIOUS
<1> USE SchedulerAssumption
<1>1. SchedInv
  BY InitInv
<1>2. 0 \in Job /\ 1 \in Task
  BY DEF Job, Task
<1>3. tasks[0] = <<1>> /\ \A j \in Job : j # 0 => tasks[j] = <<>>
  BY <1>2 DEF Init
<1>4. threads[1] = <<Kern>> /\ \A t \in Task : t # 1 => threads[t] = <<>>
  BY <1>2 DEF Init
<1>5. TasksInv
  <2>1. TasksOf(0) = {1} /\ \A j \in Job : j # 0 => TasksOf(j) = {}
    BY <1>3 DEF TasksOf
  <2>2. nJobs = 1 /\ nTasks = 1 /\ \A j \in Job : j \in Nat
    BY DEF Init, Job
  <2> QED BY <1>3, <2>1, <2>2 DEF TasksInv
<1>6. ThreadsInv
  <2>1. ThreadsOf(1) = {1} /\ \A t \in Task : t # 1 => ThreadsOf(t) = {}
    BY <1>4 DEF ThreadsOf, Kern
  <2>2. nThreads = 1 /\ nTasks = 1 /\ \A t \in Task : t \in Nat
    BY DEF Init, Task
  <2> QED BY <1>4, <2>1, <2>2 DEF ThreadsInv
<1>7. BootInv /\ BuildInv
  BY DEF Init, BootInv, BuildInv, Whole
<1>8. CurrentThread = Kern
  BY <1>2, <1>3, <1>4 DEF Init, CurrentThread, CurrentTask
<1>9. RunInv
  BY <1>2, <1>8 DEF Init, RunInv, Whole
<1> QED BY <1>1, <1>5, <1>6, <1>7, <1>9 DEF TimerInv

\* Nothing moves.
LEMMA StutterTimer == TimerInv /\ UNCHANGED vars => TimerInv'
<1> SUFFICES ASSUME TimerInv, UNCHANGED vars PROVE TimerInv'
  OBVIOUS
<1>1. /\ UNCHANGED <<nJobs, nTasks, nThreads, asleep, tasks, threads, curJob, curTask, curThread>>
      /\ UNCHANGED <<ctx, cpu, psa, mode, cause, oldThread, build, timerOn>>
  BY DEF vars, table, cursor
<1>2. SchedInv /\ TasksInv /\ ThreadsInv /\ BootInv /\ BuildInv /\ RunInv
  BY DEF TimerInv
<1>3. SchedInv'
  BY <1>2, StutterInv
<1>4. TasksInv' /\ ThreadsInv'
  BY <1>1, <1>2, TableStays
<1>5. BootInv' /\ BuildInv'
  BY <1>1, <1>2, BuildStays DEF BootInv
<1>6. CurrentThread' = CurrentThread /\ Running' = Running
  BY <1>1 DEF Running, CurrentThread, CurrentTask
<1>7. \A th : Runnable(th)' = Runnable(th)
  BY <1>1 DEF Runnable
<1>8. RunInv'
  BY <1>1, <1>2, <1>6, <1>7 DEF RunInv
<1> QED BY <1>3, <1>4, <1>5, <1>8 DEF TimerInv

\* With the timer as the only event, every step keeps the invariant.
LEMMA TimerNext == TimerOnly => (TimerInv /\ [Next]_vars => TimerInv')
<1> SUFFICES ASSUME TimerOnly, TimerInv, [Next]_vars PROVE TimerInv'
  OBVIOUS
<1>1. CASE KernelThread
  BY <1>1, MakeSpoolerTaskTimer, MakeSpoolerThreadTimer, SetSpoolerPcTimer, KickstartTimer,
     MakeUserJobTimer, MakeUserTaskTimer, MakeUserThreadTimer, SetUserPcTimer,
     WakeUserJobTimer DEF KernelThread
<1>2. CASE ExecAt \/ ThreadAt
  BY <1>2, ExecAtTimer, ThreadAtTimer
<1>3. CASE External
  BY <1>3, ExternalTimer
<1>4. ~ProgramCheck
  BY DEF TimerOnly, ProgramCheck, Enter
<1>5. \A c \in {"await", "yield"} : ~Yield(c)
  BY DEF TimerOnly, Yield, Enter
<1>6. CASE ScanStep
  BY <1>6, ScanStepTimer
<1>7. CASE UNCHANGED vars
  BY <1>7, StutterTimer
<1> QED BY <1>1, <1>2, <1>3, <1>4, <1>5, <1>6, <1>7 DEF Next

\* With the timer as the only event the CPU always runs the thread the table
\* says is current, with that thread's registers and PSW, however many jobs,
\* tasks and threads there are.
THEOREM RunsTheCurrentThread == TimerOnly => (Spec => []RunsCurrent)
<1>1. TimerInv => RunsCurrent
  BY DEF TimerInv, RunInv, RunsCurrent, Whole
<1> SUFFICES ASSUME TimerOnly PROVE Spec => []RunsCurrent
  OBVIOUS
<1>2. TimerInv /\ [Next]_vars => TimerInv'
  BY TimerNext
<1> QED BY <1>1, <1>2, InitTimer, PTL DEF Spec

\* And no tick of the timer finds a thread half made: whatever timeshare::next
\* can pick has its own registers and PSW in its context, although the kernel
\* thread makes jobs in many steps with interruptions enabled.
THEOREM ThreadsAreReady == TimerOnly => (Spec => []ReadyToRun)
<1>1. TimerInv => ReadyToRun
  BY DEF TimerInv, RunInv, ReadyToRun, Running, Whole
<1> SUFFICES ASSUME TimerOnly PROVE Spec => []ReadyToRun
  OBVIOUS
<1>2. TimerInv /\ [Next]_vars => TimerInv'
  BY TimerNext
<1> QED BY <1>1, <1>2, InitTimer, PTL DEF Spec

\* A turn of the scan writes no context but the old thread's, with its own
\* registers.
LEMMA ScanSavesOwn ==
    TimerOnly /\ TimerInv /\ [Next]_vars =>
        (mode = "scan" => \A th \in Thread : ctx'[th] # ctx[th] => ctx'[th].regs = th)
<1> SUFFICES ASSUME TimerOnly, TimerInv, [Next]_vars, mode = "scan",
                    NEW th \in Thread, ctx'[th] # ctx[th]
             PROVE  ctx'[th].regs = th
  OBVIOUS
<1>1. ScanStep
  <2>1. ctx' # ctx
    OBVIOUS
  <2>2. ~InKernelThread /\ ~InUserThread /\ \A c : ~Enter(c)
    BY DEF InKernelThread, InUserThread, Enter
  <2>3. ~KernelThread
    BY <2>2 DEF KernelThread, MakeSpoolerTask, MakeSpoolerThread, SetSpoolerPc, Kickstart,
                MakeUserJob, MakeUserTask, MakeUserThread, SetUserPc, WakeUserJob
  <2>4. ~ExecAt /\ ~ThreadAt /\ ~External /\ ~ProgramCheck /\ \A c : ~Yield(c)
    BY <2>2 DEF ExecAt, ThreadAt, External, ProgramCheck, Yield
  <2>5. ~UNCHANGED vars
    BY <2>1 DEF vars
  <2> QED BY <2>3, <2>4, <2>5 DEF Next
<1>2. SchedInv /\ RunInv
  BY DEF TimerInv
<1> DEFINE j == Advance(curJob, nJobs)
<1>3. /\ curJob' = j
      /\ SkipJob(j) \/ SkipTask(j) \/ Dispatch(j)
      /\ UNCHANGED <<nJobs, asleep, tasks, threads>>
  BY <1>1 DEF ScanStep, table
<1>4. j \in Job /\ j < nJobs
  <2>1. nJobs \in Nat /\ nJobs # 0 /\ curJob \in Nat /\ nJobs <= MaxJobs /\ MaxJobs \in Nat
    BY <1>2, SchedulerAssumption DEF SchedInv, TypeOK
  <2>2. j \in Nat /\ j < nJobs
    BY <2>1, AdvanceInRange
  <2> QED BY <2>1, <2>2 DEF Job
<1> HIDE DEF j
<1>5. Dispatch(j)
  BY <1>3 DEF SkipJob, SkipTask
<1>6. /\ CurrentThread' \in Thread /\ Runnable(CurrentThread')
      /\ SwitchContext(oldThread, CurrentThread')
  BY <1>2, <1>3, <1>4, <1>5, DispatchWhat
<1>7. /\ ctx'[oldThread] = Whole(oldThread)
      /\ \A u \in Thread : u # oldThread => ctx'[u] = ctx[u]
  BY <1>2, <1>6, SwitchContextTimer
<1> QED BY <1>7 DEF Whole

\* switch_context saves registers only over the context of the thread they
\* belong to.
THEOREM SavesAreOwn == TimerOnly => (Spec => SavesOwnContext)
<1> SUFFICES ASSUME TimerOnly PROVE Spec => SavesOwnContext
  OBVIOUS
<1>1. TimerInv /\ [Next]_vars => TimerInv'
  BY TimerNext
<1>2. TimerInv /\ [Next]_vars =>
          [mode = "scan" => \A th \in Thread : ctx'[th] # ctx[th] => ctx'[th].regs = th]_vars
  BY ScanSavesOwn
<1> QED BY <1>1, <1>2, InitTimer, PTL DEF Spec, SavesOwnContext

=============================================================================
