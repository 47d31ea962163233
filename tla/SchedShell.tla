----------------------------- MODULE SchedShell -----------------------------
(***************************************************************************)
(* The scheduler together with the kernel shell's process commands: spawn, *)
(* run, kill and wait of kernel/shell.cpp, which call sched_spawn,         *)
(* sched_exec_file, sched_kill and sched_wait.                             *)
(*                                                                         *)
(* The shell runs when no process is on the CPU (cur = NoProc), with       *)
(* interrupts on and no lock, so the timer can enter user mode between any *)
(* two of its steps and system calls of processes run in between.  A step  *)
(* here is one call of find_hole, kmalloc, vm_new, vm_free or kfree, or    *)
(* the stores between two of them; preemption inside those calls is not    *)
(* modelled, so the races shown are the ones between the calls.            *)
(***************************************************************************)
EXTENDS Sched

VARIABLE sh  \* the shell: next step, and its locals i (slot), k (stack), n (code pages)

Idle == [pc |-> "idle", i |-> NoProc, k |-> 0, n |-> 0]

shvars == <<vars, sh>>

\* the shell has the CPU and is about to make the step s
At(s) == ~halted /\ sched_ready /\ cur = NoProc /\ sh.pc = s

ShInit == Init /\ sh = Idle

----------------------------------------------------------------------------
(* spawn (n = 0, the embedded image) and run (an n-page executable)        *)

ShFindHole(n) ==
  /\ At("idle")
  /\ \E i \in Slot :
       /\ FindHole(i)
       /\ sh' = [Idle EXCEPT !.pc = "kmalloc", !.i = i, !.n = n]
       /\ table' = HoleTable(i)
       /\ heap' = heap \cup HoleStack(i)
       /\ FramesMoved({}, HoleFrames(i))
  /\ UNCHANGED <<cpu, sched_ready, boot, halted>>

ShKmalloc ==
  /\ At("kmalloc")
  /\ \/ heap = {} /\ sh' = Idle /\ UNCHANGED heap
     \/ \E k \in KStack : /\ IsLeast(k, heap)
                          /\ heap' = heap \ {k}
                          /\ sh' = [sh EXCEPT !.pc = "fill", !.k = k]
  /\ UNCHANGED <<table, cpu, free, free_frames, sched_ready, boot, halted>>

\* pid_alloc and the stores into the slot, which stays EMPTY
ShFillSlot ==
  /\ At("fill")
  /\ \E p \in Pid :
       /\ IsLeast(p, {q \in Pid : \A j \in Slot :
                        table[j].state = "EMPTY" \/ table[j].pid # q})
       /\ table' = [table EXCEPT ![sh.i] = [EmptyProc EXCEPT !.pid = p, !.kstack = sh.k]]
  /\ sh' = [sh EXCEPT !.pc = "vm_new"]
  /\ UNCHANGED <<cpu, mem, sched_ready, boot, halted>>

\* no address space: vm_free gives the frames back, kfree(k), the slot is
\* emptied.  Tables the slot pointed to before were overwritten by then.
ShGiveUp(lost, back) ==
  /\ sh' = Idle
  /\ table' = [table EXCEPT ![sh.i] = Reap(@)]
  /\ heap' = heap \cup {sh.k}
  /\ FramesMoved(lost, back)
  /\ UNCHANGED <<cpu, sched_ready, boot, halted>>

\* vm_new: whatever address space the slot held is overwritten
ShVmNew ==
  /\ At("vm_new") /\ sh.n = 0
  /\ TablesFit(free)
  /\ \E pml4 \in Frame :
       LET p == VmBuild(table[sh.i], free, {}, pml4) IN
       /\ IsLeast(pml4, p.tabs)
       /\ table' = [table EXCEPT ![sh.i] = p]
       /\ FramesMoved(Owned(p), {})
  /\ sh' = [sh EXCEPT !.pc = "publish"]
  /\ UNCHANGED <<cpu, heap, sched_ready, boot, halted>>

ShVmNewFails ==
  /\ At("vm_new") /\ sh.n = 0
  /\ ~TablesFit(free)
  /\ ShGiveUp({}, table[sh.i].stk \cup table[sh.i].code)

\* sched_exec_file: its own tables, the code pages, then vm_build's tables
ShExec ==
  /\ At("vm_new") /\ sh.n # 0
  /\ ExecLoads(sh.n) /\ TablesFit(ExecRest(sh.n))
  /\ \E pml4 \in Frame :
       LET p == VmBuild(table[sh.i], ExecRest(sh.n), ExecCode(sh.n), pml4) IN
       /\ IsLeast(pml4, p.tabs)
       /\ table' = [table EXCEPT ![sh.i] = p]
       /\ FramesMoved(ExecFirst \cup Owned(p), {})
  /\ sh' = [sh EXCEPT !.pc = "publish"]
  /\ UNCHANGED <<cpu, heap, sched_ready, boot, halted>>

ShExecFails ==
  /\ At("vm_new") /\ sh.n # 0
  /\ ~(ExecLoads(sh.n) /\ TablesFit(ExecRest(sh.n)))
  /\ ShGiveUp(IF ExecLoads(sh.n) THEN ExecFirst ELSE {}, table[sh.i].stk)

\* the context is built and the slot becomes READY
ShPublish ==
  /\ At("publish")
  /\ table' = [table EXCEPT ![sh.i] =
                 [@ EXCEPT !.state = "READY", !.ctx = "user", !.at = "user"]]
  /\ sh' = Idle
  /\ UNCHANGED <<cpu, mem, sched_ready, boot, halted>>

----------------------------------------------------------------------------
(* kill (any live process: none is cur while the shell runs) and wait      *)

ShKill(i) ==
  /\ At("idle") /\ table[i].state # "EMPTY"
  /\ sh' = [Idle EXCEPT !.pc = "vm_free", !.i = i]
  /\ UNCHANGED vars

ShWait(i) ==
  /\ At("idle") /\ IsZombie(i)
  /\ sh' = [Idle EXCEPT !.pc = "vm_free", !.i = i]
  /\ UNCHANGED vars

ShVmFree ==
  /\ At("vm_free")
  /\ table' = [table EXCEPT ![sh.i] = VmFree(@)]
  /\ FramesMoved({}, Owned(table[sh.i]))
  /\ sh' = [sh EXCEPT !.pc = "kfree"]
  /\ UNCHANGED <<cpu, heap, sched_ready, boot, halted>>

ShKfree ==
  /\ At("kfree")
  /\ heap' = heap \cup ({table[sh.i].kstack} \ {0})
  /\ sh' = [sh EXCEPT !.pc = "clear"]
  /\ UNCHANGED <<table, cpu, free, free_frames, sched_ready, boot, halted>>

ShClear ==
  /\ At("clear")
  /\ table' = [table EXCEPT ![sh.i] = [@ EXCEPT !.state = "EMPTY", !.pid = 0]]
  /\ sh' = Idle
  /\ UNCHANGED <<cpu, mem, sched_ready, boot, halted>>

\* the CPU was given a null CR3: the next instruction fetch resets the machine
TripleFault ==
  /\ ~halted /\ cr3 = 0
  /\ halted' = TRUE
  /\ UNCHANGED <<table, cpu, mem, sched_ready, boot, sh>>

ShellNext ==
  \/ \E n \in ElfPages \cup {0} : ShFindHole(n)
  \/ ShKmalloc \/ ShFillSlot \/ ShVmNew \/ ShVmNewFails
  \/ ShExec \/ ShExecFails \/ ShPublish
  \/ \E i \in Slot : ShKill(i) \/ ShWait(i)
  \/ ShVmFree \/ ShKfree \/ ShClear

ShNext == ShellNext \/ TripleFault \/ (Next /\ UNCHANGED sh)

ShSpec == ShInit /\ [][ShNext]_shvars
----------------------------------------------------------------------------
(* The property                                                            *)

\* The guard of sched_kill, "calisan sureci oldurme" (do not kill the running
\* process, sched.cpp:919): a process whose memory sched_kill or sched_wait has
\* begun to give back does not get the CPU.
VictimNotRunning == sh.pc \in {"kfree", "clear"} => cur # sh.i

=============================================================================
