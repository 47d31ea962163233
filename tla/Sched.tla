------------------------------- MODULE Sched -------------------------------
(***************************************************************************)
(* The process scheduler of kernel/sched.cpp: the process table, the       *)
(* round-robin dispatcher, the process system calls and the page frames    *)
(* and kernel stacks that processes own.                                   *)
(*                                                                         *)
(* The machine has one CPU.  Every handler here runs with interrupts off,  *)
(* so one handler is one atomic action: the timer interrupt (sched_tick),  *)
(* int 0x80 (syscall_handle) and the user page fault (sched_userpf_kill).  *)
(* A blocking TCP system call opens an interrupt window (IntrLatch), in    *)
(* which the timer preempts the process inside the kernel: its frame is    *)
(* then "nested", below the "user" frame at the top of its kernel stack.   *)
(*                                                                         *)
(* Boot is kernel/main.cpp: sched_init, BootSpawns calls of sched_spawn    *)
(* (not preempted into user mode, since sched_ready is still FALSE), then  *)
(* sched_go.  Afterwards cur = NoProc is the kernel shell, which in this   *)
(* module issues no process command; SchedShell adds those.                *)
(*                                                                         *)
(* Data abstraction: a page frame is a number (pmm_alloc_frame returns the *)
(* lowest free one), a kernel stack is an identifier, waketick is stored   *)
(* relative to now, and a saved context is the kind of frame it points to. *)
(***************************************************************************)
EXTENDS Integers, FiniteSets

CONSTANTS
  MaxProc,      \* MAX_PROC, slots of the process table
  NFrames,      \* frames the PMM manages once the embedded image is loaded
  NStacks,      \* kernel stacks the heap can hold at once
  TableFrames,  \* frames of one set of page tables (pml4, pdpt, pd, pt)
  StackFrames,  \* USER_STACK_PAGES
  ElfPages,     \* code page counts of the executables on disk
  MaxSleep,     \* longest SYS_SLEEP argument, in ticks
  BootSpawns    \* sched_spawn calls of kernel_main

ASSUME SizeAssumption ==
  /\ MaxProc \in Nat \ {0} /\ NFrames \in Nat /\ NStacks \in Nat
  /\ TableFrames \in Nat \ {0} /\ StackFrames \in Nat /\ MaxSleep \in Nat
  /\ BootSpawns \in Nat /\ ElfPages \subseteq Nat \ {0}

Slot   == 0 .. MaxProc - 1
NoProc == -1
Frame  == 1 .. NFrames
KStack == 1 .. NStacks
Pid    == 1 .. MaxProc      \* MAX_PROC < 0xFFFF, so pid_alloc never runs out
States == {"EMPTY", "READY", "RUNNING", "SLEEPING", "ZOMBIE"}
Kinds  == {"user", "nested"}
BootPml4 == -1              \* mmio_boot_pml4(), the kernel's own page tables

\* struct Process.  "at" is not a field of the code: it is where the process
\* really is (or was suspended), while "ctx" is what the table says.
Process ==
  [state : States, pid : Pid \cup {0}, ctx : Kinds, at : Kinds,
   kstack : KStack \cup {0}, cr3 : Frame \cup {0}, tabs : SUBSET Frame,
   stk : SUBSET Frame, code : SUBSET Frame, waketick : 0 .. MaxSleep]

VARIABLES
  table,        \* Process table[MAX_PROC]
  cur,          \* cur and cur_idx: the slot on the CPU, or NoProc in the kernel
  cr3,          \* the CPU's CR3: the active PML4
  free,         \* frames whose PMM bit is clear
  free_frames,  \* the PMM's own count of them
  heap,         \* kernel stacks the heap can hand out
  sched_ready,  \* user mode may be entered
  boot,         \* sched_spawn calls kernel_main still has to make
  halted        \* the machine stopped (exception_crash)

mem  == <<free, free_frames, heap>>
cpu  == <<cur, cr3>>
vars == <<table, cpu, mem, sched_ready, boot, halted>>

----------------------------------------------------------------------------
(* Frames and address spaces                                               *)

Owned(p) == p.tabs \cup p.stk \cup p.code

\* n calls of pmm_alloc_frame: the n lowest clear bits of S, or all of S
Lowest(S, n) == {f \in S : Cardinality({g \in S : g < f}) < n}

IsLeast(x, S) == x \in S /\ \A y \in S : x <= y

\* vm_build on a process p whose code frames are c, with frames S to take
\* from: a PML4 pml4 is the first of the tables; the stack may stay short
VmBuild(p, S, c, pml4) ==
  LET tabs == Lowest(S, TableFrames) IN
  [p EXCEPT !.tabs = tabs, !.stk = Lowest(S \ tabs, StackFrames),
            !.code = c, !.cr3 = pml4]

\* mutant of TablesFit: only the PML4 is checked for failure
OnlyPml4Fits(S) == S # {}

\* the four alloc_zero_frame calls succeed on S
TablesFit(S) == Cardinality(Lowest(S, TableFrames)) = TableFrames

\* mutant of VmFree: the stack page pointers survive the free
VmFreeKeepsStack(p) == [p EXCEPT !.tabs = {}, !.code = {}, !.cr3 = 0]

VmFree(p) == [p EXCEPT !.tabs = {}, !.stk = {}, !.code = {}, !.cr3 = 0]

\* alloc_zero_frame clears the frames S.  When S holds the PML4 the CPU runs
\* on, the machine survives only as long as its TLB does.
Survives(S) == IF cr3 \in S THEN BOOLEAN ELSE {FALSE}

\* pmm_alloc_frame took the frames A, pmm_free_frame gave back the frames B
FramesMoved(A, B) ==
  /\ free' = (free \cup B) \ A
  /\ free_frames' = free_frames + Cardinality(B) - Cardinality(A)

----------------------------------------------------------------------------
(* The process table                                                       *)

EmptyProc ==
  [state |-> "EMPTY", pid |-> 0, ctx |-> "user", at |-> "user", kstack |-> 0,
   cr3 |-> 0, tabs |-> {}, stk |-> {}, code |-> {}, waketick |-> 0]

Holds(s) == {i \in Slot : table[i].state = s}

\* the slot find_hole returns: the first empty one, else the first zombie
FindHole(i) == IsLeast(i, IF Holds("EMPTY") # {} THEN Holds("EMPTY")
                                                 ELSE Holds("ZOMBIE"))

\* mutant of PidAlloc: zombies and sleepers do not keep their pids
PidAllocRunnable(i, p) ==
  IsLeast(p, {q \in Pid : \A j \in Slot \ {i} :
                 table[j].state \notin {"READY", "RUNNING"} \/ table[j].pid # q})

\* pid_alloc's answer when the slot i has been emptied
PidAlloc(i, p) ==
  IsLeast(p, {q \in Pid : \A j \in Slot \ {i} :
                 table[j].state = "EMPTY" \/ table[j].pid # q})

\* mutant of Reap: the slot is not marked EMPTY
ReapStaysZombie(p) == [VmFree(p) EXCEPT !.pid = 0]

\* a slot given back: the address space is gone, the kernel stack pointer stays
Reap(p) == [VmFree(p) EXCEPT !.state = "EMPTY", !.pid = 0]

\* mutant of IsZombie: a sleeping process may be reaped too
IsZombieOrAsleep(i) == table[i].state \in {"ZOMBIE", "SLEEPING"}

IsZombie(i) == table[i].state = "ZOMBIE"

\* the table t with p in slot i
Put(t, i, p) == [j \in Slot |-> IF j = i THEN p ELSE t[j]]

\* mutant of WakeSleepers: a sleeper is due one tick too soon
WakeOneTickEarly(t) ==
  [i \in Slot |-> IF t[i].state = "SLEEPING" /\ t[i].waketick <= 1
                  THEN [t[i] EXCEPT !.state = "READY"] ELSE t[i]]

\* wake_sleepers
WakeSleepers(t) ==
  [i \in Slot |-> IF t[i].state = "SLEEPING" /\ t[i].waketick = 0
                  THEN [t[i] EXCEPT !.state = "READY"] ELSE t[i]]

\* mutant of Distance: every search starts at slot 0
DistanceFromZero(j) == j

\* how far slot j is behind cur_idx in table order
Distance(j) == (j - cur - 1) % MaxProc

\* pick_ready(skip) on the table t returns n
PickReady(t, skip, n) ==
  LET ready == {i \in Slot : t[i].state = "READY"} IN
  \/ n \in ready \ {skip} /\ \A j \in ready \ {skip} : Distance(n) <= Distance(j)
  \/ n = skip /\ ready = {skip}
  \/ n = NoProc /\ ready = {}

\* the CPU continues process n of the table t at its saved context
Dispatch(t, n) ==
  /\ table' = Put(t, n, [t[n] EXCEPT !.state = "RUNNING", !.at = t[n].ctx])
  /\ cur' = n
  /\ cr3' = t[n].cr3

\* sched_reschedule from the kernel (cur == NULL)
ScheduleFromKernel(t) ==
  LET w == WakeSleepers(t) IN
  \/ /\ ~sched_ready \/ PickReady(w, NoProc, NoProc)
     /\ table' = w
     /\ UNCHANGED cpu
  \/ /\ sched_ready
     /\ \E n \in Slot : PickReady(w, NoProc, n) /\ Dispatch(w, n)

\* pick_ready's answer takes over from cur, which entered the kernel on a frame
\* of kind k.  When nobody is ready the kernel gets the CPU and ctx is not saved.
SwitchFrom(t, skip, k) ==
  \/ /\ PickReady(t, skip, NoProc)
     /\ table' = t
     /\ cur' = NoProc
     /\ cr3' = BootPml4
  \/ \E n \in Slot :
       /\ PickReady(t, skip, n)
       /\ Dispatch(Put(t, cur, [t[cur] EXCEPT !.ctx = k]), n)

\* mutant of ScheduleFromProcess: the preempted process stays RUNNING
ScheduleKeepsRunning(t, k) ==
  SwitchFrom(WakeSleepers(t), NoProc, k)

\* mutant of ScheduleFromProcess: sleepers are looked at from the kernel only
ScheduleWithoutWake(t, k) ==
  IF t[cur].state = "RUNNING"
  THEN SwitchFrom(Put(t, cur, [t[cur] EXCEPT !.state = "READY"]), cur, k)
  ELSE SwitchFrom(t, NoProc, k)

\* sched_reschedule from a process
ScheduleFromProcess(t, k) ==
  LET w == WakeSleepers(t) IN
  IF w[cur].state = "RUNNING"
  THEN SwitchFrom(Put(w, cur, [w[cur] EXCEPT !.state = "READY"]), cur, k)
  ELSE SwitchFrom(w, NoProc, k)

Init ==
  /\ table = [i \in Slot |-> EmptyProc]
  /\ cur = NoProc /\ cr3 = BootPml4
  /\ free = Frame /\ free_frames = NFrames
  /\ heap = KStack
  /\ sched_ready = FALSE /\ boot = BootSpawns
  /\ halted = FALSE

----------------------------------------------------------------------------
(* Creating a process: sched_spawn and SYS_FORK share these steps          *)

\* find_hole may have reclaimed the zombie in slot i: its frames and stack
HoleFrames(i) == IF IsZombie(i) THEN Owned(table[i]) ELSE {}

HoleStack(i)  == IF IsZombie(i) THEN {table[i].kstack} ELSE {}
HoleTable(i)  == [table EXCEPT ![i] = IF IsZombie(i) THEN Reap(@) ELSE @]

\* kmalloc(KSTACK_SIZE) fails
NoStackLeft(i) ==
  /\ heap \cup HoleStack(i) = {}
  /\ table' = HoleTable(i)
  /\ heap' = {}
  /\ FramesMoved({}, HoleFrames(i))
  /\ UNCHANGED halted

\* vm_new fails: what it took is given back, and so is the stack k
NoTablesLeft(i, k) ==
  LET S == free \cup HoleFrames(i) IN
  /\ ~TablesFit(S)
  /\ table' = [table EXCEPT ![i] = [EmptyProc EXCEPT !.kstack = k]]
  /\ heap' = heap \cup HoleStack(i)
  /\ FramesMoved({}, HoleFrames(i))
  /\ halted' \in Survives(S)

\* the new process p is READY on the stack k
Created(i, k, p) ==
  LET S   == free \cup HoleFrames(i)
      new == [EmptyProc EXCEPT !.state = "READY", !.pid = p, !.kstack = k]
  IN /\ TablesFit(S)
     /\ \E pml4 \in Frame :
          LET c == VmBuild(new, S, {}, pml4) IN
          /\ IsLeast(pml4, c.tabs)
          /\ table' = [table EXCEPT ![i] = c]
          /\ FramesMoved(Owned(c), HoleFrames(i))
          /\ halted' \in Survives(Owned(c))
     /\ heap' = (heap \cup HoleStack(i)) \ {k}

CreateProcess ==
  \E i \in Slot :
    /\ FindHole(i)
    /\ \/ NoStackLeft(i)
       \/ \E k \in KStack, p \in Pid :
            /\ IsLeast(k, heap \cup HoleStack(i))
            /\ PidAlloc(i, p)
            /\ NoTablesLeft(i, k) \/ Created(i, k, p)

----------------------------------------------------------------------------
(* Boot                                                                    *)

\* kernel_main calls sched_spawn; a full table or no memory spawns nothing
BootSpawn ==
  /\ ~halted /\ boot > 0
  /\ boot' = boot - 1
  /\ \/ CreateProcess
     \/ (\A i \in Slot : ~FindHole(i)) /\ UNCHANGED <<table, mem, halted>>
  /\ UNCHANGED <<cpu, sched_ready>>

SchedGo ==
  /\ ~halted /\ boot = 0 /\ ~sched_ready
  /\ sched_ready' = TRUE
  /\ UNCHANGED <<table, cpu, mem, boot, halted>>

----------------------------------------------------------------------------
(* Interrupts and system calls                                             *)

\* timer_irq: one tick passes for every sleeper
Aged(t) ==
  [i \in Slot |-> IF t[i].state = "SLEEPING" /\ t[i].waketick > 0
                  THEN [t[i] EXCEPT !.waketick = @ - 1] ELSE t[i]]

Reschedule(t, k) ==
  IF cur = NoProc THEN ScheduleFromKernel(t) ELSE ScheduleFromProcess(t, k)

\* nothing runs on a null CR3
Alive == ~halted /\ cr3 # 0

\* IRQ0: the timer preempts user mode, an interrupt window or the kernel
TimerTick ==
  /\ Alive
  /\ Reschedule(Aged(table), IF cur = NoProc THEN "user" ELSE table[cur].at)
  /\ UNCHANGED <<mem, sched_ready, boot, halted>>

\* a process in user mode traps into the kernel
InUser == Alive /\ cur # NoProc /\ table[cur].at = "user"

SysYield ==
  /\ InUser
  /\ Reschedule(table, "user")
  /\ UNCHANGED <<mem, sched_ready, boot, halted>>

\* SYS_EXIT and a user page fault (sched_userpf_kill) both leave a zombie
SysExit ==
  /\ InUser
  /\ Reschedule([table EXCEPT ![cur] = [@ EXCEPT !.state = "ZOMBIE"]], "user")
  /\ UNCHANGED <<mem, sched_ready, boot, halted>>

\* mutant of SysSleep: milliseconds are stored as ticks
SysSleepInMs(d) ==
  /\ InUser
  /\ Reschedule([table EXCEPT ![cur] =
                   [@ EXCEPT !.state = "SLEEPING", !.waketick = 10 * d]], "user")
  /\ UNCHANGED <<mem, sched_ready, boot, halted>>

\* SYS_SLEEP of d ticks; 0 ticks (below 10 ms) wakes in the same call
SysSleep(d) ==
  /\ InUser
  /\ Reschedule([table EXCEPT ![cur] =
                   [@ EXCEPT !.state = "SLEEPING", !.waketick = d]], "user")
  /\ UNCHANGED <<mem, sched_ready, boot, halted>>

\* SYS_FORK; the caller goes on
SysFork ==
  /\ InUser
  /\ table[cur].cr3 # 0
  /\ CreateProcess
  /\ UNCHANGED <<cpu, sched_ready, boot>>

\* SYS_WAIT(pid) reaps the zombie in slot i (any zombie: its pid may be named)
SysWait(i) ==
  /\ InUser
  /\ IsZombie(i)
  /\ table' = [table EXCEPT ![i] = Reap(@)]
  /\ heap' = heap \cup {table[i].kstack}
  /\ FramesMoved({}, Owned(table[i]))
  /\ UNCHANGED <<cpu, sched_ready, boot, halted>>

\* sched_exec_self takes tables (first), code pages c, and then vm_build takes
\* tables again and overwrites the pointers to the first ones
ExecFirst    == Lowest(free, TableFrames)
ExecCode(n)  == Lowest(free \ ExecFirst, n)
ExecRest(n)  == free \ (ExecFirst \cup ExecCode(n))
ExecLoads(n) == TablesFit(free) /\ Cardinality(ExecCode(n)) = n

\* SYS_EXEC of an n-page executable.  CR3 is not reloaded.
SysExec(n) ==
  /\ InUser
  /\ ExecLoads(n) /\ TablesFit(ExecRest(n))
  /\ \E pml4 \in Frame :
       LET p == VmBuild(table[cur], ExecRest(n), ExecCode(n), pml4) IN
       /\ IsLeast(pml4, p.tabs)
       /\ table' = [table EXCEPT ![cur] = [p EXCEPT !.ctx = "user"]]
       /\ FramesMoved(ExecFirst \cup Owned(p), Owned(table[cur]))
       /\ halted' \in Survives(ExecFirst \cup Owned(p))
  /\ UNCHANGED <<cpu, heap, sched_ready, boot>>

\* mutant of SysExecNoMemory: the second vm_free(np) frees the code pages again
SysExecFreesTwice(n) ==
  /\ InUser
  /\ ExecLoads(n) /\ ~TablesFit(ExecRest(n))
  /\ free' = free \ ExecFirst
  /\ free_frames' = free_frames - Cardinality(ExecFirst) + n
  /\ halted' \in Survives(free)
  /\ UNCHANGED <<table, cpu, heap, sched_ready, boot>>

\* SYS_EXEC when vm_build's own tables do not fit: it frees what it knows of
SysExecNoMemory(n) ==
  /\ InUser
  /\ ExecLoads(n) /\ ~TablesFit(ExecRest(n))
  /\ FramesMoved(ExecFirst, {})
  /\ halted' \in Survives(free)
  /\ UNCHANGED <<table, cpu, heap, sched_ready, boot>>

\* SYS_EXEC when the first tables or the code pages do not fit: all given back
SysExecTooBig(n) ==
  /\ InUser
  /\ ~ExecLoads(n)
  /\ halted' \in Survives(free)
  /\ UNCHANGED <<table, cpu, mem, sched_ready, boot>>

\* a blocking TCP call opens its interrupt window (IntrLatch) and closes it
OpenWindow ==
  /\ InUser
  /\ table' = [table EXCEPT ![cur] = [@ EXCEPT !.at = "nested"]]
  /\ UNCHANGED <<cpu, mem, sched_ready, boot, halted>>

CloseWindow ==
  /\ Alive /\ cur # NoProc /\ table[cur].at = "nested"
  /\ table' = [table EXCEPT ![cur] = [@ EXCEPT !.at = "user"]]
  /\ UNCHANGED <<cpu, mem, sched_ready, boot, halted>>

\* any fatal exception of user code but a page fault stops the machine
UserException ==
  /\ InUser
  /\ halted' = TRUE
  /\ UNCHANGED <<table, cpu, mem, sched_ready, boot>>

Halted == halted /\ UNCHANGED vars

Next ==
  \/ BootSpawn \/ SchedGo \/ TimerTick
  \/ SysYield \/ SysExit \/ SysFork
  \/ \E d \in 0 .. MaxSleep : SysSleep(d)
  \/ \E i \in Slot : SysWait(i)
  \/ \E n \in ElfPages : SysExec(n) \/ SysExecNoMemory(n) \/ SysExecTooBig(n)
  \/ OpenWindow \/ CloseWindow
  \/ UserException \/ Halted

\* the PIT keeps ticking while the machine runs, and kernel_main runs on
Fairness == WF_vars(TimerTick) /\ WF_vars(BootSpawn) /\ WF_vars(SchedGo)

Spec == Init /\ [][Next]_vars /\ Fairness

----------------------------------------------------------------------------
(* Properties                                                              *)

Live(i) == table[i].state # "EMPTY"

\* Type invariant of the scheduler's state.
TypeOK ==
  /\ table \in [Slot -> Process]
  /\ cur \in Slot \cup {NoProc} /\ cr3 \in Frame \cup {0, BootPml4}
  /\ free \subseteq Frame /\ free_frames \in Int
  /\ heap \subseteq KStack
  /\ sched_ready \in BOOLEAN /\ boot \in 0 .. BootSpawns
  /\ halted \in BOOLEAN

\* The table and the CPU agree through every switch of sched_reschedule: the
\* RUNNING process is the one in cur, and no other is RUNNING.
RunningIsCur == \A i \in Slot : table[i].state = "RUNNING" <=> cur = i

\* Page frames are never shared: no frame belongs to two processes, or to one
\* and the free pool, across fork, exec, exit, reaping and failed allocations.
FramesExclusive ==
  \A i \in Slot :
    /\ Owned(table[i]) \cap free = {}
    /\ \A j \in Slot \ {i} : Owned(table[i]) \cap Owned(table[j]) = {}

\* Two live processes never share a kernel stack and none runs on one the heap
\* may hand out again, although a reaped slot keeps its stale pointer.
StacksExclusive ==
  \A i \in Slot : Live(i) =>
    /\ table[i].kstack \in KStack \ heap
    /\ \A j \in Slot \ {i} : Live(j) => table[i].kstack # table[j].kstack

\* pid_alloc never gives a live process's pid away, so find_by_pid and
\* SYS_WAIT(pid) are unambiguous.
PidsUnique ==
  \A i, j \in Slot : Live(i) /\ Live(j) /\ table[i].pid = table[j].pid => i = j

\* Whatever the dispatcher can pick has a complete set of page tables (vm_build
\* publishes nothing it failed to build), and an empty slot holds no frame.
MappedIffLive ==
  \A i \in Slot :
    IF Live(i) THEN /\ table[i].cr3 \in table[i].tabs
                    /\ Cardinality(table[i].tabs) = TableFrames
               ELSE Owned(table[i]) = {}

\* The PMM's free_frames counter counts the clear bits: no frame is freed twice.
CountMatches == free_frames = Cardinality(free)

\* Isolation of steps: a step changes the memory of a process only if that
\* process made it (exec) or is a zombie being reaped.
OnlyOwnMemory ==
  [][\A i \in Slot : table[i].state \notin {"EMPTY", "ZOMBIE"} /\ i # cur
        => Owned(table'[i]) = Owned(table[i]) /\ table'[i].pid = table[i].pid]_vars

\* A sleeper leaves SLEEPING only when its waketick is due, and only to be ready.
NoEarlyWake ==
  [][\A i \in Slot : table[i].state = "SLEEPING" /\ table'[i].state # "SLEEPING"
        => table[i].waketick <= 1 /\ table'[i].state \in {"READY", "RUNNING"}]_vars

\* Round robin starves nobody: a ready process gets the CPU, however often
\* others fork, yield or wake (or the machine stops).
ReadyRuns ==
  \A i \in Slot : table[i].state = "READY" ~> (table[i].state = "RUNNING" \/ halted)

\* A sleeping process wakes up, whoever has the CPU (or the machine stops).
SleeperWakes ==
  \A i \in Slot : table[i].state = "SLEEPING"
                 ~> (table[i].state # "SLEEPING" \/ halted)

\* The comment at sched.cpp:532-534: SYS_EXEC replaces the caller's address
\* space and continues in the new one, so a process in user mode runs on its
\* own page tables.
RunsOnOwnTables == cur # NoProc => cr3 = table[cur].cr3

\* The comment at sched.h:34-36: the context of a system call that is suspended
\* is saved and continued later, so a suspended process's saved context is the
\* frame it was suspended in.
ContextSaved ==
  \A i \in Slot : table[i].state \in {"READY", "SLEEPING"} => table[i].ctx = table[i].at

=============================================================================
