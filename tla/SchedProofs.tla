---------------------------- MODULE SchedProofs ----------------------------
(***************************************************************************)
(* Proofs about Sched, for every size of the process table and of memory.  *)
(***************************************************************************)
EXTENDS Sched, FiniteSetTheorems, TLAPS

\* what a dispatch leaves alone in a process
SameResources(p, q) ==
  /\ Owned(p) = Owned(q) /\ p.tabs = q.tabs /\ p.cr3 = q.cr3
  /\ p.pid = q.pid /\ p.kstack = q.kstack
  /\ p.state = "EMPTY" <=> q.state = "EMPTY"

LEMMA SlotFacts ==
  /\ NoProc \notin Slot
  /\ \A i \in Slot : i \in Int
BY SizeAssumption DEF Slot, NoProc

\* Put on a table of processes.
LEMMA PutType ==
  ASSUME NEW t \in [Slot -> Process], NEW i \in Slot, NEW p \in Process
  PROVE  /\ Put(t, i, p) \in [Slot -> Process]
         /\ Put(t, i, p)[i] = p
         /\ \A j \in Slot \ {i} : Put(t, i, p)[j] = t[j]
BY DEF Put

\* wake_sleepers changes states only, and only from SLEEPING to READY.
LEMMA WakeType ==
  ASSUME NEW t \in [Slot -> Process]
  PROVE  /\ WakeSleepers(t) \in [Slot -> Process]
         /\ \A i \in Slot : SameResources(WakeSleepers(t)[i], t[i])
         /\ \A i \in Slot : WakeSleepers(t)[i].state = "RUNNING" <=> t[i].state = "RUNNING"
<1>1. WakeSleepers(t) \in [Slot -> Process]
  BY DEF WakeSleepers, Process, States
<1>2. ASSUME NEW i \in Slot
      PROVE  /\ SameResources(WakeSleepers(t)[i], t[i])
             /\ WakeSleepers(t)[i].state = "RUNNING" <=> t[i].state = "RUNNING"
  BY DEF WakeSleepers, Process, SameResources, Owned
<1> QED BY <1>1, <1>2

\* A dispatch makes n the one RUNNING process, on its own page tables.
LEMMA DispatchStep ==
  ASSUME NEW t \in [Slot -> Process], NEW n \in Slot,
         \A i \in Slot : t[i].state # "RUNNING",
         Dispatch(t, n)
  PROVE  /\ table' \in [Slot -> Process]
         /\ cur' \in Slot \cup {NoProc} /\ cr3' \in Frame \cup {0, BootPml4}
         /\ RunningIsCur'
         /\ \A i \in Slot : table'[i].state = "EMPTY" /\ i # n => t[i].state = "EMPTY"
         /\ \A i \in Slot : i # n => table'[i] = t[i]
         /\ Owned(table'[n]) = Owned(t[n]) /\ table'[n].tabs = t[n].tabs
         /\ table'[n].cr3 = t[n].cr3 /\ table'[n].pid = t[n].pid
         /\ table'[n].kstack = t[n].kstack
<1> DEFINE p == [t[n] EXCEPT !.state = "RUNNING", !.at = t[n].ctx]
<1>1. p \in Process /\ p.state = "RUNNING"
  BY DEF Process, States
<1>2. /\ table' \in [Slot -> Process] /\ table'[n] = p
      /\ \A j \in Slot \ {n} : table'[j] = t[j]
  BY <1>1, PutType DEF Dispatch
<1>3. Owned(p) = Owned(t[n]) /\ p.tabs = t[n].tabs /\ p.cr3 = t[n].cr3
      /\ p.pid = t[n].pid /\ p.kstack = t[n].kstack
  BY DEF Process, Owned
<1>4. RunningIsCur'
  BY <1>1, <1>2 DEF RunningIsCur, Dispatch
<1>5. cr3' \in Frame \cup {0, BootPml4}
  BY DEF Dispatch, Process
<1> QED BY <1>2, <1>3, <1>4, <1>5 DEF Dispatch

\* sched_reschedule on a table t in which at most cur is RUNNING.
LEMMA RescheduleStep ==
  ASSUME NEW t \in [Slot -> Process], NEW k \in Kinds,
         cur \in Slot \cup {NoProc}, cr3 \in Frame \cup {0, BootPml4},
         \A i \in Slot : t[i].state = "RUNNING" => cur = i,
         Reschedule(t, k)
  PROVE  /\ table' \in [Slot -> Process]
         /\ cur' \in Slot \cup {NoProc} /\ cr3' \in Frame \cup {0, BootPml4}
         /\ RunningIsCur'
         /\ \A i \in Slot : SameResources(table'[i], t[i])
<1> DEFINE w == WakeSleepers(t)
<1>1. /\ w \in [Slot -> Process]
      /\ \A i \in Slot : SameResources(w[i], t[i])
      /\ \A i \in Slot : w[i].state = "RUNNING" => cur = i
  BY WakeType
<1> HIDE DEF w
<1>2. ASSUME NEW u \in [Slot -> Process], NEW n \in Slot,
             \A i \in Slot : SameResources(u[i], t[i]),
             \A i \in Slot : u[i].state # "RUNNING",
             u[n].state # "EMPTY",
             Dispatch(u, n)
      PROVE  /\ table' \in [Slot -> Process]
             /\ cur' \in Slot \cup {NoProc} /\ cr3' \in Frame \cup {0, BootPml4}
             /\ RunningIsCur'
             /\ \A i \in Slot : SameResources(table'[i], t[i])
  <2>1. table'[n].state = "RUNNING"
    BY <1>2, DispatchStep DEF RunningIsCur, Dispatch
  <2> QED BY <1>2, <2>1, DispatchStep DEF SameResources
<1>3. ASSUME cur = NoProc, ScheduleFromKernel(t)
      PROVE  /\ table' \in [Slot -> Process]
             /\ cur' \in Slot \cup {NoProc} /\ cr3' \in Frame \cup {0, BootPml4}
             /\ RunningIsCur'
             /\ \A i \in Slot : SameResources(table'[i], t[i])
  <2>1. \A i \in Slot : w[i].state # "RUNNING"
    BY <1>1, <1>3, SlotFacts
  <2>2. CASE table' = w /\ UNCHANGED cpu
    BY <1>1, <1>3, <2>1, <2>2, SlotFacts DEF RunningIsCur, cpu
  <2>3. CASE \E n \in Slot : PickReady(w, NoProc, n) /\ Dispatch(w, n)
    <3>1. PICK n \in Slot : PickReady(w, NoProc, n) /\ Dispatch(w, n)
      BY <2>3
    <3>2. w[n].state = "READY"
      BY <3>1, SlotFacts DEF PickReady
    <3> QED BY <1>1, <1>2, <2>1, <3>1, <3>2
  <2> QED BY <1>3, <2>2, <2>3 DEF ScheduleFromKernel, w
<1>4. ASSUME NEW r \in [Slot -> Process], NEW skip \in Slot \cup {NoProc},
             cur \in Slot,
             \A i \in Slot : SameResources(r[i], t[i]),
             \A i \in Slot : r[i].state # "RUNNING",
             SwitchFrom(r, skip, k)
      PROVE  /\ table' \in [Slot -> Process]
             /\ cur' \in Slot \cup {NoProc} /\ cr3' \in Frame \cup {0, BootPml4}
             /\ RunningIsCur'
             /\ \A i \in Slot : SameResources(table'[i], t[i])
  <2>1. CASE table' = r /\ cur' = NoProc /\ cr3' = BootPml4
    BY <1>4, <2>1, SlotFacts DEF RunningIsCur
  <2>2. CASE \E n \in Slot : /\ PickReady(r, skip, n)
                             /\ Dispatch(Put(r, cur, [r[cur] EXCEPT !.ctx = k]), n)
    <3> DEFINE q == [r[cur] EXCEPT !.ctx = k]
               u == Put(r, cur, q)
    <3>1. PICK n \in Slot : PickReady(r, skip, n) /\ Dispatch(u, n)
      BY <2>2
    <3>2. q \in Process /\ q.state = r[cur].state /\ SameResources(q, r[cur])
      BY <1>4 DEF Process, SameResources, Owned
    <3>3. r[n].state = "READY"
      BY <3>1, <1>4, SlotFacts DEF PickReady
    <3>4. /\ u \in [Slot -> Process] /\ u[cur] = q
          /\ \A j \in Slot \ {cur} : u[j] = r[j]
      BY <1>4, <3>2 DEF Put
    <3> HIDE DEF q, u
    <3>5. /\ \A i \in Slot : SameResources(u[i], t[i])
          /\ \A i \in Slot : u[i].state # "RUNNING"
          /\ u[n].state # "EMPTY"
      BY <1>4, <3>2, <3>3, <3>4 DEF SameResources
    <3> QED BY <1>2, <3>1, <3>4, <3>5
  <2> QED BY <1>4, <2>1, <2>2 DEF SwitchFrom
<1>5. ASSUME cur \in Slot, ScheduleFromProcess(t, k)
      PROVE  /\ table' \in [Slot -> Process]
             /\ cur' \in Slot \cup {NoProc} /\ cr3' \in Frame \cup {0, BootPml4}
             /\ RunningIsCur'
             /\ \A i \in Slot : SameResources(table'[i], t[i])
  <2> DEFINE q == [w[cur] EXCEPT !.state = "READY"]
  <2>1. CASE w[cur].state = "RUNNING"
    <3>1. SwitchFrom(Put(w, cur, q), cur, k)
      BY <1>5, <2>1 DEF ScheduleFromProcess, w
    <3>2. q \in Process /\ q.state = "READY" /\ SameResources(q, w[cur])
      BY <1>1, <1>5, <2>1 DEF Process, SameResources, Owned, States
    <3> HIDE DEF q
    <3>3. /\ Put(w, cur, q) \in [Slot -> Process]
          /\ \A i \in Slot : SameResources(Put(w, cur, q)[i], t[i])
          /\ \A i \in Slot : Put(w, cur, q)[i].state # "RUNNING"
      <4>1. /\ Put(w, cur, q) \in [Slot -> Process] /\ Put(w, cur, q)[cur] = q
            /\ \A j \in Slot \ {cur} : Put(w, cur, q)[j] = w[j]
        BY <1>1, <1>5, <3>2 DEF Put
      <4> QED BY <1>1, <1>5, <3>2, <4>1 DEF SameResources
    <3> QED BY <1>4, <1>5, <3>1, <3>3
  <2>2. CASE w[cur].state # "RUNNING"
    <3>1. SwitchFrom(w, NoProc, k)
      BY <1>5, <2>2 DEF ScheduleFromProcess, w
    <3> QED BY <1>1, <1>4, <1>5, <2>2, <3>1
  <2> QED BY <2>1, <2>2
<1> QED BY <1>3, <1>5 DEF Reschedule

----------------------------------------------------------------------------
(* The inductive invariant: the invariants the runs check, together.  Each *)
(* needs the others: a freed zombie's frames are unshared only because no  *)
(* frame was shared before, and an empty slot must own nothing for its     *)
(* reuse to keep frames exclusive.                                         *)

IInv ==
  /\ TypeOK /\ RunningIsCur /\ FramesExclusive /\ StacksExclusive
  /\ PidsUnique /\ MappedIffLive /\ CountMatches

\* Sets of frames are finite.
LEMMA FrameSets ==
  ASSUME NEW S \in SUBSET Frame
  PROVE  IsFiniteSet(S) /\ Cardinality(S) \in Nat
<1>1. IsFiniteSet(Frame)
  <2>1. 1 \in Int /\ NFrames \in Int
    BY SizeAssumption
  <2> QED BY <2>1, FS_Interval DEF Frame
<1>2. IsFiniteSet(S)
  BY <1>1, FS_Subset
<1> QED BY <1>2, FS_CardinalityType

\* pmm_alloc_frame and pmm_free_frame keep the counter exact when nothing free
\* is freed and nothing taken is taken.
LEMMA MoveKeepsCount ==
  ASSUME NEW A \in SUBSET Frame, NEW B \in SUBSET Frame, free \in SUBSET Frame,
         B \cap free = {}, A \subseteq free \cup B,
         CountMatches, FramesMoved(A, B)
  PROVE  free' \in SUBSET Frame /\ free_frames' \in Int /\ CountMatches'
<1>1. Cardinality(free \cup B) = Cardinality(free) + Cardinality(B)
  <2>1. Cardinality(free \cap B) = 0
    BY FS_EmptySet
  <2>2. IsFiniteSet(free) /\ IsFiniteSet(B)
    BY FrameSets
  <2>3. Cardinality(free \cup B)
          = Cardinality(free) + Cardinality(B) - Cardinality(free \cap B)
    BY <2>2, FS_Union
  <2>4. Cardinality(free) \in Nat /\ Cardinality(B) \in Nat
    BY FrameSets
  <2> QED BY <2>1, <2>3, <2>4
<1>2. Cardinality((free \cup B) \ A) = Cardinality(free \cup B) - Cardinality(A)
  <2>1. (free \cup B) \cap A = A
    OBVIOUS
  <2> QED BY <2>1, FrameSets, FS_Difference
<1> QED BY <1>1, <1>2, FrameSets DEF CountMatches, FramesMoved

\* A step that moves no resource keeps the invariant.
LEMMA ResourcesKept ==
  ASSUME IInv, TypeOK', RunningIsCur', UNCHANGED mem,
         \A i \in Slot : SameResources(table'[i], table[i])
  PROVE  IInv'
<1>1. \A i \in Slot : Live(i)' <=> Live(i)
  BY DEF Live, SameResources
<1>2. FramesExclusive'
  BY DEF IInv, FramesExclusive, SameResources, mem
<1>3. StacksExclusive'
  BY <1>1 DEF IInv, StacksExclusive, SameResources, mem
<1>4. PidsUnique'
  BY <1>1 DEF IInv, PidsUnique, SameResources
<1>5. MappedIffLive'
  BY <1>1 DEF IInv, MappedIffLive, SameResources
<1>6. CountMatches'
  BY DEF IInv, CountMatches, mem
<1> QED BY <1>2, <1>3, <1>4, <1>5, <1>6 DEF IInv

LiveStack(i) == IF Live(i) THEN {table[i].kstack} ELSE {}

\* A step that replaces the process in slot i by q, whose frames and stack come
\* from the pools or from the slot's old process, keeps the invariant.
LEMMA SlotReplaced ==
  ASSUME IInv, NEW i \in Slot, NEW q \in Process,
         table' = [table EXCEPT ![i] = q], UNCHANGED cur,
         q.state = "RUNNING" <=> cur = i,
         Owned(q) \subseteq free \cup Owned(table[i]),
         free' \subseteq free \cup Owned(table[i]),
         Owned(q) \cap free' = {},
         heap' \subseteq heap \cup LiveStack(i),
         q.state = "EMPTY" => Owned(q) = {},
         q.state # "EMPTY" =>
           /\ q.kstack \in (heap \cup LiveStack(i)) \ heap'
           /\ \A j \in Slot \ {i} : Live(j) => table[j].pid # q.pid
           /\ q.cr3 \in q.tabs /\ Cardinality(q.tabs) = TableFrames
  PROVE  /\ table' \in [Slot -> Process]
         /\ RunningIsCur' /\ FramesExclusive' /\ StacksExclusive'
         /\ PidsUnique' /\ MappedIffLive'
<1>1. /\ table' \in [Slot -> Process] /\ table'[i] = q
      /\ \A j \in Slot \ {i} : table'[j] = table[j]
  BY DEF IInv, TypeOK
<1>2. \A j \in Slot \ {i} : Live(j)' <=> Live(j)
  BY <1>1 DEF Live
<1>3. Live(i)' <=> q.state # "EMPTY"
  BY <1>1 DEF Live
<1>4. RunningIsCur'
  BY <1>1 DEF IInv, RunningIsCur
<1>5. FramesExclusive'
  BY <1>1 DEF IInv, FramesExclusive
<1>6. StacksExclusive'
  <2>1. LiveStack(i) \cap heap = {} /\ heap \cup LiveStack(i) \subseteq KStack
    BY DEF IInv, TypeOK, StacksExclusive, LiveStack
  <2>2. \A j \in Slot \ {i} : Live(j) => table[j].kstack \in KStack \ (heap \cup LiveStack(i))
    BY DEF IInv, StacksExclusive, LiveStack
  <2> QED BY <1>1, <1>2, <1>3, <2>1, <2>2 DEF IInv, StacksExclusive
<1>7. PidsUnique'
  BY <1>1, <1>2, <1>3 DEF IInv, PidsUnique
<1>8. MappedIffLive'
  BY <1>1, <1>2, <1>3 DEF IInv, MappedIffLive
<1> QED BY <1>1, <1>4, <1>5, <1>6, <1>7, <1>8

----------------------------------------------------------------------------
(* Building an address space                                               *)

LEMMA LowestSubset ==
  ASSUME NEW S, NEW n
  PROVE  Lowest(S, n) \subseteq S
BY DEF Lowest

\* vm_build takes its frames from S and keeps the rest of the process.
LEMMA VmBuildType ==
  ASSUME NEW S \in SUBSET Frame, NEW c \in SUBSET Frame, NEW p \in Process,
         NEW pml4 \in Frame, NEW q, q = VmBuild(p, S, c, pml4),
         IsLeast(pml4, q.tabs), TablesFit(S)
  PROVE  /\ q \in Process
         /\ Owned(q) \subseteq S \cup c
         /\ q.state = p.state /\ q.pid = p.pid /\ q.kstack = p.kstack
         /\ q.cr3 \in q.tabs /\ Cardinality(q.tabs) = TableFrames
<1> DEFINE tabs == Lowest(S, TableFrames)
           stk  == Lowest(S \ tabs, StackFrames)
<1>1. tabs \subseteq S /\ stk \subseteq S
  BY LowestSubset
<1>2. q = [p EXCEPT !.tabs = tabs, !.stk = stk, !.code = c, !.cr3 = pml4]
  BY DEF VmBuild
<1>3. /\ q \in Process /\ q.tabs = tabs /\ q.stk = stk /\ q.code = c
      /\ q.cr3 = pml4 /\ q.state = p.state /\ q.pid = p.pid /\ q.kstack = p.kstack
  <2> HIDE DEF tabs, stk
  <2> QED BY <1>1, <1>2, ZenonT(60) DEF Process
<1>4. Owned(q) \subseteq S \cup c
  <2> HIDE DEF tabs, stk
  <2> QED BY <1>1, <1>3 DEF Owned
<1>5. Cardinality(q.tabs) = TableFrames
  BY <1>3 DEF TablesFit
<1>6. q.cr3 \in q.tabs
  BY <1>3 DEF IsLeast
<1> QED BY <1>3, <1>4, <1>5, <1>6

LEMMA EmptyProcType ==
  /\ EmptyProc \in Process /\ Owned(EmptyProc) = {} /\ EmptyProc.state = "EMPTY"
BY SizeAssumption DEF EmptyProc, Process, Owned, States, Kinds

LEMMA ReapType ==
  ASSUME NEW p \in Process
  PROVE  Reap(p) \in Process /\ Owned(Reap(p)) = {} /\ Reap(p).state = "EMPTY"
BY DEF Reap, VmFree, Process, Owned, States

----------------------------------------------------------------------------
(* Creating a process                                                      *)

\* the part of the invariant about the table, the frames and the stacks
Resources ==
  /\ table \in [Slot -> Process] /\ free \in SUBSET Frame /\ free_frames \in Int
  /\ heap \in SUBSET KStack /\ halted \in BOOLEAN
  /\ RunningIsCur /\ FramesExclusive /\ StacksExclusive
  /\ PidsUnique /\ MappedIffLive /\ CountMatches

LEMMA SurvivesType == ASSUME NEW S, NEW h \in Survives(S) PROVE h \in BOOLEAN
BY DEF Survives

LEMMA CreateStep ==
  ASSUME IInv, CreateProcess, UNCHANGED cpu
  PROVE  Resources'
<1>1. PICK i \in Slot :
        /\ FindHole(i)
        /\ \/ NoStackLeft(i)
           \/ \E k \in KStack, p \in Pid :
                /\ IsLeast(k, heap \cup HoleStack(i))
                /\ PidAlloc(i, p)
                /\ NoTablesLeft(i, k) \/ Created(i, k, p)
  BY DEF CreateProcess
<1> DEFINE S == free \cup HoleFrames(i)
           H == heap \cup HoleStack(i)
<1>2. table[i] \in Process /\ table[i].state \in {"EMPTY", "ZOMBIE"} /\ cur # i
  <2>1. table[i].state \in {"EMPTY", "ZOMBIE"}
    BY <1>1 DEF FindHole, IsLeast, Holds
  <2> QED BY <1>1, <2>1 DEF IInv, TypeOK, RunningIsCur
<1>3. /\ HoleFrames(i) = Owned(table[i]) /\ HoleStack(i) = LiveStack(i)
      /\ S \in SUBSET Frame /\ HoleFrames(i) \cap free = {}
      /\ HoleFrames(i) \in SUBSET Frame
      /\ H \in SUBSET KStack
  <2>1. HoleFrames(i) = Owned(table[i])
    BY <1>1, <1>2 DEF HoleFrames, IsZombie, IInv, MappedIffLive, Live
  <2>2. HoleStack(i) = LiveStack(i)
    BY <1>2 DEF HoleStack, LiveStack, IsZombie, Live
  <2>3. HoleFrames(i) \cap free = {}
    BY <1>1, <2>1 DEF IInv, FramesExclusive
  <2>4. Owned(table[i]) \in SUBSET Frame
    BY <1>2 DEF Process, Owned
  <2>5. LiveStack(i) \subseteq KStack
    BY <1>1 DEF LiveStack, IInv, StacksExclusive
  <2> QED BY <2>1, <2>2, <2>3, <2>4, <2>5 DEF IInv, TypeOK
<1>4. CASE NoStackLeft(i)
  <2> DEFINE e == IF IsZombie(i) THEN Reap(table[i]) ELSE table[i]
  <2>1. PICK q : q = e
    OBVIOUS
  <2>2. q \in Process /\ Owned(q) = {} /\ q.state = "EMPTY"
    BY <1>1, <1>2, <2>1, ReapType DEF IsZombie, IInv, MappedIffLive, Live
  <2>3. table' = [table EXCEPT ![i] = q]
    BY <1>1, <1>4, <2>1 DEF NoStackLeft, HoleTable, IInv, TypeOK
  <2>4. free' = S /\ FramesMoved({}, HoleFrames(i)) /\ heap' = {} /\ halted' = halted
    BY <1>4 DEF NoStackLeft, FramesMoved
  <2>5. free' \in SUBSET Frame /\ free_frames' \in Int /\ CountMatches'
    BY <1>3, <2>4, MoveKeepsCount DEF IInv, TypeOK
  <2>6. /\ table' \in [Slot -> Process]
        /\ RunningIsCur' /\ FramesExclusive' /\ StacksExclusive'
        /\ PidsUnique' /\ MappedIffLive'
    BY <1>1, <1>2, <1>3, <2>2, <2>3, <2>4, SlotReplaced DEF cpu
  <2> QED BY <2>4, <2>5, <2>6 DEF Resources, IInv, TypeOK
<1>5. ASSUME NEW k \in KStack, NEW p \in Pid, IsLeast(k, H), PidAlloc(i, p),
             NoTablesLeft(i, k)
      PROVE  Resources'
  <2>1. PICK q : q = [EmptyProc EXCEPT !.kstack = k]
    OBVIOUS
  <2>2. q \in Process /\ Owned(q) = {} /\ q.state = "EMPTY"
    BY <2>1, EmptyProcType DEF EmptyProc, Process, Owned
  <2>3. table' = [table EXCEPT ![i] = q]
    BY <1>5, <2>1 DEF NoTablesLeft
  <2>4. free' = S /\ FramesMoved({}, HoleFrames(i)) /\ heap' = H /\ halted' \in BOOLEAN
    BY <1>5, SurvivesType DEF NoTablesLeft, FramesMoved
  <2>5. free' \in SUBSET Frame /\ free_frames' \in Int /\ CountMatches'
    BY <1>3, <2>4, MoveKeepsCount DEF IInv, TypeOK
  <2>6. /\ table' \in [Slot -> Process]
        /\ RunningIsCur' /\ FramesExclusive' /\ StacksExclusive'
        /\ PidsUnique' /\ MappedIffLive'
    BY <1>1, <1>2, <1>3, <2>2, <2>3, <2>4, SlotReplaced DEF cpu
  <2> QED BY <1>3, <2>4, <2>5, <2>6 DEF Resources
<1>6. ASSUME NEW k \in KStack, NEW p \in Pid, IsLeast(k, H), PidAlloc(i, p),
             Created(i, k, p)
      PROVE  Resources'
  <2> DEFINE new == [EmptyProc EXCEPT !.state = "READY", !.pid = p, !.kstack = k]
  <2>1. new \in Process /\ new.state = "READY" /\ new.pid = p /\ new.kstack = k
    BY EmptyProcType DEF EmptyProc, Process, States
  <2> HIDE DEF new
  <2>2. PICK pml4 \in Frame :
          LET c == VmBuild(new, S, {}, pml4) IN
          /\ IsLeast(pml4, c.tabs)
          /\ table' = [table EXCEPT ![i] = c]
          /\ FramesMoved(Owned(c), HoleFrames(i))
          /\ halted' \in Survives(Owned(c))
    BY <1>6 DEF Created, new
  <2>3. PICK q : q = VmBuild(new, S, {}, pml4)
    OBVIOUS
  <2>4. TablesFit(S)
    BY <1>6 DEF Created
  <2>5. /\ q \in Process /\ Owned(q) \subseteq S
        /\ q.state = "READY" /\ q.pid = p /\ q.kstack = k
        /\ q.cr3 \in q.tabs /\ Cardinality(q.tabs) = TableFrames
    <3>1. PICK R, n, c : R = S /\ n = new /\ c = {}
      OBVIOUS
    <3>2. R \in SUBSET Frame /\ c \in SUBSET Frame /\ n \in Process
      BY <1>3, <2>1, <3>1
    <3>3. q = VmBuild(n, R, c, pml4) /\ IsLeast(pml4, q.tabs) /\ TablesFit(R)
      BY <2>2, <2>3, <2>4, <3>1
    <3>4. /\ q \in Process /\ Owned(q) \subseteq R \cup c
          /\ q.state = n.state /\ q.pid = n.pid /\ q.kstack = n.kstack
          /\ q.cr3 \in q.tabs /\ Cardinality(q.tabs) = TableFrames
      BY <2>2, <3>2, <3>3, VmBuildType
    <3> QED BY <2>1, <3>1, <3>4
  <2>6. /\ table' = [table EXCEPT ![i] = q] /\ FramesMoved(Owned(q), HoleFrames(i))
        /\ free' = S \ Owned(q) /\ halted' \in BOOLEAN /\ heap' = H \ {k}
    BY <1>6, <2>2, <2>3, SurvivesType DEF Created, FramesMoved
  <2>7. free' \in SUBSET Frame /\ free_frames' \in Int /\ CountMatches'
    BY <1>3, <2>5, <2>6, MoveKeepsCount DEF IInv, TypeOK
  <2>8. \A j \in Slot \ {i} : Live(j) => table[j].pid # q.pid
    BY <1>6, <2>5 DEF PidAlloc, IsLeast, Live
  <2>9. k \in H
    BY <1>6 DEF IsLeast
  <2>10. /\ table' \in [Slot -> Process]
         /\ RunningIsCur' /\ FramesExclusive' /\ StacksExclusive'
         /\ PidsUnique' /\ MappedIffLive'
    BY <1>1, <1>2, <1>3, <2>5, <2>6, <2>8, <2>9, SlotReplaced DEF cpu
  <2> QED BY <1>3, <2>6, <2>7, <2>10 DEF Resources
<1> QED BY <1>1, <1>4, <1>5, <1>6

----------------------------------------------------------------------------
(* The steps                                                               *)

\* Steps that only dispatch: the timer, yield, exit and sleep.
LEMMA DispatchingStep ==
  ASSUME IInv, NEW t \in [Slot -> Process], NEW k \in Kinds,
         \A i \in Slot : SameResources(t[i], table[i]),
         \A i \in Slot : t[i].state = "RUNNING" => cur = i,
         Reschedule(t, k),
         UNCHANGED <<mem, sched_ready, boot, halted>>
  PROVE  IInv'
<1>1. /\ table' \in [Slot -> Process]
      /\ cur' \in Slot \cup {NoProc} /\ cr3' \in Frame \cup {0, BootPml4}
      /\ RunningIsCur'
      /\ \A i \in Slot : SameResources(table'[i], t[i])
  BY RescheduleStep DEF IInv, TypeOK
<1>2. \A i \in Slot : SameResources(table'[i], table[i])
  BY <1>1 DEF SameResources
<1>3. TypeOK'
  BY <1>1 DEF IInv, TypeOK, mem
<1> QED BY <1>1, <1>2, <1>3, ResourcesKept

\* A tick moves nobody's resources.
LEMMA AgedType ==
  ASSUME NEW t \in [Slot -> Process]
  PROVE  /\ Aged(t) \in [Slot -> Process]
         /\ \A i \in Slot : SameResources(Aged(t)[i], t[i]) /\ Aged(t)[i].state = t[i].state
<1>1. ASSUME NEW i \in Slot
      PROVE  /\ Aged(t)[i] \in Process
             /\ SameResources(Aged(t)[i], t[i]) /\ Aged(t)[i].state = t[i].state
  <2>1. CASE t[i].state = "SLEEPING" /\ t[i].waketick > 0
    <3>1. t[i].waketick - 1 \in 0 .. MaxSleep
      BY <2>1, SizeAssumption DEF Process
    <3>2. Aged(t)[i] = [t[i] EXCEPT !.waketick = t[i].waketick - 1]
      BY <1>1, <2>1 DEF Aged, Process
    <3> QED BY <1>1, <3>1, <3>2 DEF Process, SameResources, Owned
  <2>2. CASE ~(t[i].state = "SLEEPING" /\ t[i].waketick > 0)
    BY <1>1, <2>2 DEF Aged, SameResources
  <2> QED BY <2>1, <2>2
<1>2. Aged(t) \in [Slot -> Process]
  BY <1>1 DEF Aged
<1> QED BY <1>1, <1>2

LEMMA TimerTickStep == ASSUME IInv, TimerTick PROVE IInv'
<1> DEFINE kind == IF cur = NoProc THEN "user" ELSE table[cur].at
<1>1. PICK t, k : t = Aged(table) /\ k = kind
  OBVIOUS
<1>2. k \in Kinds
  BY <1>1 DEF IInv, TypeOK, Process, Kinds
<1>3. PICK u : u = table
  OBVIOUS
<1>4. u \in [Slot -> Process] /\ t = Aged(u)
  BY <1>1, <1>3 DEF IInv, TypeOK
<1>5. /\ t \in [Slot -> Process]
      /\ \A i \in Slot : SameResources(t[i], u[i]) /\ t[i].state = u[i].state
  BY <1>4, AgedType
<1>6. /\ \A i \in Slot : SameResources(t[i], table[i])
      /\ \A i \in Slot : t[i].state = "RUNNING" => cur = i
  BY <1>3, <1>5 DEF IInv, RunningIsCur
<1>7. Reschedule(t, k) /\ UNCHANGED <<mem, sched_ready, boot, halted>>
  BY <1>1 DEF TimerTick
<1> QED BY <1>2, <1>5, <1>6, <1>7, DispatchingStep

LEMMA SysYieldStep == ASSUME IInv, SysYield PROVE IInv'
<1>1. PICK t, k : t = table /\ k = "user"
  OBVIOUS
<1>2. t \in [Slot -> Process] /\ k \in Kinds
  BY <1>1 DEF IInv, TypeOK, Kinds
<1>3. /\ \A i \in Slot : SameResources(t[i], table[i])
      /\ \A i \in Slot : t[i].state = "RUNNING" => cur = i
  BY <1>1 DEF IInv, RunningIsCur, SameResources
<1>4. Reschedule(t, k) /\ UNCHANGED <<mem, sched_ready, boot, halted>>
  BY <1>1 DEF SysYield
<1> QED BY <1>2, <1>3, <1>4, DispatchingStep

\* What the caller's record becomes in SYS_EXIT and SYS_SLEEP.
LEMMA CallerStops ==
  ASSUME IInv, cur # NoProc, NEW q \in Process, q.state \in {"ZOMBIE", "SLEEPING"},
         SameResources(q, table[cur]),
         Reschedule([table EXCEPT ![cur] = q], "user"),
         UNCHANGED <<mem, sched_ready, boot, halted>>
  PROVE  IInv'
<1>1. PICK t, k : t = [table EXCEPT ![cur] = q] /\ k = "user"
  OBVIOUS
<1>2. t \in [Slot -> Process] /\ k \in Kinds
  BY <1>1 DEF IInv, TypeOK, Kinds
<1>3. cur \in Slot /\ t[cur] = q /\ \A i \in Slot \ {cur} : t[i] = table[i]
  BY <1>1 DEF IInv, TypeOK
<1>4. /\ \A i \in Slot : SameResources(t[i], table[i])
      /\ \A i \in Slot : t[i].state = "RUNNING" => cur = i
  BY <1>3 DEF IInv, RunningIsCur, SameResources
<1>5. Reschedule(t, k)
  BY <1>1
<1> QED BY <1>2, <1>4, <1>5, DispatchingStep

LEMMA SysExitStep == ASSUME IInv, SysExit PROVE IInv'
<1>1. cur \in Slot /\ cur # NoProc /\ table[cur] \in Process /\ table[cur].state = "RUNNING"
  BY DEF SysExit, InUser, IInv, TypeOK, RunningIsCur
<1>2. PICK q : q = [table[cur] EXCEPT !.state = "ZOMBIE"]
  OBVIOUS
<1>3. /\ q \in Process /\ q.state \in {"ZOMBIE", "SLEEPING"}
      /\ SameResources(q, table[cur])
  BY <1>1, <1>2 DEF Process, States, SameResources, Owned
<1>4. /\ Reschedule([table EXCEPT ![cur] = q], "user")
      /\ UNCHANGED <<mem, sched_ready, boot, halted>>
  BY <1>2 DEF SysExit
<1> QED BY <1>1, <1>3, <1>4, CallerStops

LEMMA SysSleepStep == ASSUME IInv, NEW d \in 0 .. MaxSleep, SysSleep(d) PROVE IInv'
<1>1. cur \in Slot /\ cur # NoProc /\ table[cur] \in Process /\ table[cur].state = "RUNNING"
  BY DEF SysSleep, InUser, IInv, TypeOK, RunningIsCur
<1>2. PICK q : q = [table[cur] EXCEPT !.state = "SLEEPING", !.waketick = d]
  OBVIOUS
<1>3. /\ q \in Process /\ q.state \in {"ZOMBIE", "SLEEPING"}
      /\ SameResources(q, table[cur])
  BY <1>1, <1>2 DEF Process, States, SameResources, Owned
<1>4. /\ Reschedule([table EXCEPT ![cur] = q], "user")
      /\ UNCHANGED <<mem, sched_ready, boot, halted>>
  BY <1>2 DEF SysSleep
<1> QED BY <1>1, <1>3, <1>4, CallerStops

\* Opening and closing the interrupt window of a blocking call.
LEMMA WindowStep == ASSUME IInv, OpenWindow \/ CloseWindow PROVE IInv'
<1>1. PICK k \in Kinds : table' = [table EXCEPT ![cur] = [table[cur] EXCEPT !.at = k]]
  BY DEF OpenWindow, CloseWindow, Kinds
<1>2. cur \in Slot /\ table[cur] \in Process /\ UNCHANGED <<cpu, mem, sched_ready, boot, halted>>
  BY DEF OpenWindow, CloseWindow, InUser, IInv, TypeOK
<1>3. PICK q : q = [table[cur] EXCEPT !.at = k]
  OBVIOUS
<1>4. q \in Process /\ SameResources(q, table[cur]) /\ q.state = table[cur].state
  BY <1>1, <1>2, <1>3 DEF Process, SameResources, Owned
<1>5. /\ table' \in [Slot -> Process] /\ table'[cur] = q
      /\ \A i \in Slot \ {cur} : table'[i] = table[i]
  BY <1>1, <1>2, <1>3, <1>4 DEF IInv, TypeOK
<1>6. TypeOK' /\ RunningIsCur' /\ UNCHANGED mem
  BY <1>2, <1>4, <1>5 DEF IInv, TypeOK, RunningIsCur, cpu, mem
<1>7. \A i \in Slot : SameResources(table'[i], table[i])
  BY <1>4, <1>5 DEF SameResources
<1> QED BY <1>6, <1>7, ResourcesKept

----------------------------------------------------------------------------

LEMMA BootSpawnStep == ASSUME IInv, BootSpawn PROVE IInv'
<1>1. UNCHANGED <<cpu, sched_ready>> /\ boot' \in 0 .. BootSpawns
  BY SizeAssumption DEF BootSpawn, IInv, TypeOK
<1>2. CASE CreateProcess
  <2>1. Resources'
    BY <1>1, <1>2, CreateStep
  <2> QED BY <1>1, <2>1 DEF Resources, IInv, TypeOK, cpu
<1>3. CASE UNCHANGED <<table, mem, halted>>
  <2>1. TypeOK' /\ RunningIsCur' /\ UNCHANGED mem
    BY <1>1, <1>3 DEF IInv, TypeOK, RunningIsCur, cpu, mem
  <2>2. \A i \in Slot : SameResources(table'[i], table[i])
    BY <1>3 DEF SameResources
  <2> QED BY <2>1, <2>2, ResourcesKept
<1> QED BY <1>2, <1>3 DEF BootSpawn

LEMMA SysForkStep == ASSUME IInv, SysFork PROVE IInv'
<1>1. UNCHANGED <<cpu, sched_ready, boot>> /\ CreateProcess
  BY DEF SysFork
<1>2. Resources'
  BY <1>1, CreateStep
<1> QED BY <1>1, <1>2 DEF Resources, IInv, TypeOK, cpu

\* Steps that leave the table and the pools alone.
LEMMA QuietStep ==
  ASSUME IInv, SchedGo \/ UserException \/ UNCHANGED vars \/ \E n \in ElfPages : SysExecTooBig(n)
  PROVE  IInv'
<1>1. UNCHANGED <<table, cpu, mem, boot>>
  BY DEF SchedGo, UserException, vars, SysExecTooBig
<1>2. sched_ready' \in BOOLEAN /\ halted' \in BOOLEAN
  BY SurvivesType DEF SchedGo, UserException, vars, SysExecTooBig, IInv, TypeOK
<1>3. TypeOK' /\ RunningIsCur' /\ UNCHANGED mem
  BY <1>1, <1>2 DEF IInv, TypeOK, RunningIsCur, cpu, mem
<1>4. \A i \in Slot : SameResources(table'[i], table[i])
  BY <1>1 DEF SameResources
<1> QED BY <1>3, <1>4, ResourcesKept

LEMMA SysWaitStep == ASSUME IInv, NEW i \in Slot, SysWait(i) PROVE IInv'
<1>1. table[i] \in Process /\ table[i].state = "ZOMBIE" /\ cur # i /\ Live(i)
  BY DEF SysWait, IsZombie, IInv, TypeOK, RunningIsCur, Live
<1>2. PICK q, B : q = Reap(table[i]) /\ B = Owned(table[i])
  OBVIOUS
<1>3. q \in Process /\ Owned(q) = {} /\ q.state = "EMPTY"
  BY <1>1, <1>2, ReapType
<1>4. B \in SUBSET Frame /\ B \cap free = {}
  BY <1>1, <1>2 DEF Process, Owned, IInv, FramesExclusive
<1>5. /\ table' = [table EXCEPT ![i] = q] /\ FramesMoved({}, B) /\ free' = free \cup B
      /\ heap' = heap \cup LiveStack(i)
      /\ UNCHANGED <<cpu, sched_ready, boot, halted>>
  BY <1>1, <1>2 DEF SysWait, FramesMoved, LiveStack
<1>6. free' \in SUBSET Frame /\ free_frames' \in Int /\ CountMatches'
  BY <1>4, <1>5, MoveKeepsCount DEF IInv, TypeOK
<1>7. /\ table' \in [Slot -> Process]
      /\ RunningIsCur' /\ FramesExclusive' /\ StacksExclusive'
      /\ PidsUnique' /\ MappedIffLive'
  BY <1>1, <1>2, <1>3, <1>5, SlotReplaced DEF cpu
<1>8. heap' \subseteq KStack
  BY <1>5 DEF LiveStack, IInv, TypeOK, StacksExclusive
<1> QED BY <1>5, <1>6, <1>7, <1>8 DEF IInv, TypeOK, cpu

LEMMA SysExecNoMemoryStep == ASSUME IInv, NEW n, SysExecNoMemory(n) PROVE IInv'
<1>1. PICK A : A = ExecFirst
  OBVIOUS
<1>2. A \subseteq free
  BY <1>1 DEF ExecFirst, Lowest
<1>3. A \in SUBSET Frame /\ {} \in SUBSET Frame /\ FramesMoved(A, {})
  BY <1>1, <1>2 DEF SysExecNoMemory, IInv, TypeOK
<1>4. free' \in SUBSET Frame /\ free_frames' \in Int /\ CountMatches'
  BY <1>2, <1>3, MoveKeepsCount DEF IInv, TypeOK
<1>5. free' \subseteq free /\ UNCHANGED <<table, cpu, heap, sched_ready, boot>>
  BY <1>3 DEF SysExecNoMemory, FramesMoved
<1>6. halted' \in BOOLEAN
  BY SurvivesType DEF SysExecNoMemory
<1>7. FramesExclusive'
  BY <1>5 DEF IInv, FramesExclusive
<1>8. RunningIsCur' /\ StacksExclusive' /\ PidsUnique' /\ MappedIffLive'
  BY <1>5 DEF IInv, RunningIsCur, StacksExclusive, PidsUnique, MappedIffLive, Live, cpu
<1> QED BY <1>4, <1>5, <1>6, <1>7, <1>8 DEF IInv, TypeOK, cpu

LEMMA SysExecStep == ASSUME IInv, NEW n, SysExec(n) PROVE IInv'
<1>1. PICK i, p, F, C, R, B :
        /\ i = cur /\ p = table[cur] /\ B = Owned(table[cur])
        /\ F = ExecFirst /\ C = ExecCode(n) /\ R = ExecRest(n)
  OBVIOUS
<1>2. i \in Slot /\ p \in Process /\ p.state = "RUNNING" /\ Live(i)
  BY <1>1 DEF SysExec, InUser, IInv, TypeOK, RunningIsCur, Live
<1>3. F \subseteq free /\ C \subseteq free /\ R \subseteq free
  BY <1>1 DEF ExecFirst, ExecCode, ExecRest, Lowest
<1>4. /\ F \in SUBSET Frame /\ C \in SUBSET Frame /\ R \in SUBSET Frame
      /\ B \in SUBSET Frame /\ B \cap free = {}
  <2>1. free \in SUBSET Frame
    BY DEF IInv, TypeOK
  <2>2. B \in SUBSET Frame
    BY <1>1, <1>2 DEF Process, Owned
  <2>3. B \cap free = {}
    BY <1>1, <1>2 DEF IInv, FramesExclusive
  <2> QED BY <1>3, <2>1, <2>2, <2>3
<1>5. PICK pml4 \in Frame :
        LET v == VmBuild(p, R, C, pml4) IN
        /\ IsLeast(pml4, v.tabs)
        /\ table' = [table EXCEPT ![i] = [v EXCEPT !.ctx = "user"]]
        /\ FramesMoved(F \cup Owned(v), B)
        /\ halted' \in Survives(F \cup Owned(v))
  BY <1>1 DEF SysExec
<1>6. TablesFit(R) /\ UNCHANGED <<cpu, heap, sched_ready, boot>>
  BY <1>1 DEF SysExec
<1>7. PICK v : v = VmBuild(p, R, C, pml4)
  OBVIOUS
<1>8. IsLeast(pml4, v.tabs)
  BY <1>5, <1>7
<1>9. /\ v \in Process /\ Owned(v) \subseteq R \cup C
      /\ v.state = p.state /\ v.pid = p.pid /\ v.kstack = p.kstack
      /\ v.cr3 \in v.tabs /\ Cardinality(v.tabs) = TableFrames
  BY <1>2, <1>4, <1>5, <1>6, <1>7, <1>8, VmBuildType
<1>10. PICK q, A : q = [v EXCEPT !.ctx = "user"] /\ A = F \cup Owned(v)
  OBVIOUS
<1>11. /\ q \in Process /\ Owned(q) = Owned(v)
       /\ q.state = "RUNNING" /\ q.pid = p.pid /\ q.kstack = p.kstack
       /\ q.cr3 \in q.tabs /\ Cardinality(q.tabs) = TableFrames
  BY <1>2, <1>9, <1>10 DEF Process, Kinds, Owned
<1>12. A \in SUBSET Frame /\ A \subseteq free \cup B /\ Owned(q) \subseteq A /\ Owned(q) \subseteq free
  BY <1>3, <1>4, <1>9, <1>10, <1>11
<1>13. /\ table' = [table EXCEPT ![i] = q] /\ FramesMoved(A, B)
       /\ free' = (free \cup B) \ A /\ halted' \in BOOLEAN
  BY <1>5, <1>7, <1>10, SurvivesType DEF FramesMoved
<1>14. free' \in SUBSET Frame /\ free_frames' \in Int /\ CountMatches'
  BY <1>4, <1>12, <1>13, MoveKeepsCount DEF IInv, TypeOK
<1>15. q.kstack \in (heap \cup LiveStack(i)) \ heap'
  BY <1>1, <1>2, <1>6, <1>11 DEF LiveStack, IInv, StacksExclusive
<1>16. \A j \in Slot \ {i} : Live(j) => table[j].pid # q.pid
  BY <1>1, <1>2, <1>11 DEF IInv, PidsUnique
<1>17. /\ table' \in [Slot -> Process]
       /\ RunningIsCur' /\ FramesExclusive' /\ StacksExclusive'
       /\ PidsUnique' /\ MappedIffLive'
  BY <1>1, <1>2, <1>6, <1>11, <1>12, <1>13, <1>15, <1>16, SlotReplaced DEF cpu
<1> QED BY <1>6, <1>13, <1>14, <1>17 DEF IInv, TypeOK, cpu

----------------------------------------------------------------------------
(* What a step does to the other processes                                 *)

\* from p to q no process wakes before its time
Slept(q, p) ==
  p.state = "SLEEPING" =>
    q.state = "SLEEPING" \/ (p.waketick = 0 /\ q.state \in {"READY", "RUNNING"})

\* sched_reschedule on t wakes only the sleepers that are due, and makes them
\* ready or runs them.
LEMMA RescheduleSleepers ==
  ASSUME NEW t \in [Slot -> Process], NEW k \in Kinds, cur \in Slot \cup {NoProc},
         Reschedule(t, k)
  PROVE  \A i \in Slot : Slept(table'[i], t[i])
<1> DEFINE w == WakeSleepers(t)
<1>1. /\ w \in [Slot -> Process]
      /\ \A i \in Slot : /\ Slept(w[i], t[i])
                         /\ t[i].state = "SLEEPING" => w[i].state \in {"SLEEPING", "READY"}
  BY DEF WakeSleepers, Process, States, Slept
<1> HIDE DEF w
<1>2. ASSUME NEW u \in [Slot -> Process], NEW n \in Slot, u[n].state = "READY",
             \A i \in Slot : Slept(u[i], t[i]),
             Dispatch(u, n)
      PROVE  \A i \in Slot : Slept(table'[i], t[i])
  <2>1. PICK q : q = [u[n] EXCEPT !.state = "RUNNING", !.at = u[n].ctx]
    OBVIOUS
  <2>2. q.state = "RUNNING"
    BY <1>2, <2>1 DEF Process
  <2>3. \A i \in Slot : table'[i] = IF i = n THEN q ELSE u[i]
    BY <1>2, <2>1 DEF Dispatch, Put
  <2> QED BY <1>2, <2>2, <2>3 DEF Slept
<1>3. CASE cur = NoProc
  <2>1. CASE table' = w
    BY <1>1, <2>1
  <2>2. CASE \E n \in Slot : PickReady(w, NoProc, n) /\ Dispatch(w, n)
    <3>1. PICK n \in Slot : PickReady(w, NoProc, n) /\ Dispatch(w, n)
      BY <2>2
    <3>2. w[n].state = "READY"
      BY <3>1, SlotFacts DEF PickReady
    <3> QED BY <1>1, <1>2, <3>1, <3>2
  <2> QED BY <1>3, <2>1, <2>2 DEF Reschedule, ScheduleFromKernel, w
<1>4. ASSUME NEW r \in [Slot -> Process], NEW skip \in Slot \cup {NoProc}, cur \in Slot,
             \A i \in Slot : Slept(r[i], t[i]),
             SwitchFrom(r, skip, k)
      PROVE  \A i \in Slot : Slept(table'[i], t[i])
  <2>1. CASE table' = r
    BY <1>4, <2>1
  <2>2. CASE \E n \in Slot : /\ PickReady(r, skip, n)
                             /\ Dispatch(Put(r, cur, [r[cur] EXCEPT !.ctx = k]), n)
    <3>1. PICK q, u : q = [r[cur] EXCEPT !.ctx = k] /\ u = Put(r, cur, q)
      OBVIOUS
    <3>2. PICK n \in Slot : PickReady(r, skip, n) /\ Dispatch(u, n)
      BY <2>2, <3>1
    <3>3. q \in Process /\ q.state = r[cur].state /\ r[n].state = "READY"
      BY <1>4, <3>1, <3>2, SlotFacts DEF Process, PickReady
    <3>4. /\ u \in [Slot -> Process] /\ u[cur] = q
          /\ \A j \in Slot \ {cur} : u[j] = r[j]
      BY <1>4, <3>1, <3>3 DEF Put
    <3>5. u[n].state = "READY" /\ \A i \in Slot : Slept(u[i], t[i])
      BY <1>4, <3>3, <3>4 DEF Slept
    <3> QED BY <1>2, <3>2, <3>4, <3>5
  <2> QED BY <1>4, <2>1, <2>2 DEF SwitchFrom
<1>5. CASE cur \in Slot
  <2>1. CASE w[cur].state = "RUNNING"
    <3>1. PICK q, r : q = [w[cur] EXCEPT !.state = "READY"] /\ r = Put(w, cur, q)
      OBVIOUS
    <3>2. SwitchFrom(r, cur, k)
      BY <1>5, <2>1, <3>1, SlotFacts DEF Reschedule, ScheduleFromProcess, w
    <3>3. q \in Process
      BY <1>1, <1>5, <3>1 DEF Process, States
    <3>4. /\ r \in [Slot -> Process] /\ \A j \in Slot \ {cur} : r[j] = w[j]
      BY <1>1, <1>5, <3>1, <3>3 DEF Put
    <3>5. t[cur].state # "SLEEPING"
      BY <1>1, <1>5, <2>1
    <3>6. \A i \in Slot : Slept(r[i], t[i])
      BY <1>1, <3>4, <3>5 DEF Slept
    <3> QED BY <1>4, <1>5, <3>2, <3>4, <3>6
  <2>2. CASE w[cur].state # "RUNNING"
    <3>1. SwitchFrom(w, NoProc, k)
      BY <1>5, <2>2, SlotFacts DEF Reschedule, ScheduleFromProcess, w
    <3> QED BY <1>1, <1>4, <1>5, <3>1
  <2> QED BY <2>1, <2>2
<1> QED BY <1>3, <1>5

\* the other processes that are not zombies
Bystander(i) == i \in Slot /\ i # cur /\ table[i].state \notin {"EMPTY", "ZOMBIE"}

\* The steps that dispatch (the timer, yield, exit, sleep) move nobody's
\* resources and wake nobody early.
LEMMA DispatchingBystanders ==
  ASSUME IInv, TimerTick \/ SysYield \/ SysExit \/ \E d \in 0 .. MaxSleep : SysSleep(d)
  PROVE  \A i \in Slot : i # cur =>
           /\ SameResources(table'[i], table[i])
           /\ table[i].state = "SLEEPING" =>
                \/ table'[i].state = "SLEEPING"
                \/ table[i].waketick <= 1 /\ table'[i].state \in {"READY", "RUNNING"}
<1>1. PICK v : v = table
  OBVIOUS
<1>2. v \in [Slot -> Process] /\ cur \in Slot \cup {NoProc} /\ cr3 \in Frame \cup {0, BootPml4}
  BY <1>1 DEF IInv, TypeOK
<1>3. PICK t \in [Slot -> Process], k \in Kinds :
        /\ Reschedule(t, k)
        /\ \A i \in Slot : t[i].state = "RUNNING" => cur = i
        /\ \A i \in Slot : i # cur => t[i] = v[i] \/ t[i] = Aged(v)[i]
  <2>1. CASE TimerTick
    <3>1. PICK t, k : t = Aged(v) /\ k = IF cur = NoProc THEN "user" ELSE table[cur].at
      OBVIOUS
    <3>2. k \in Kinds
      BY <3>1 DEF IInv, TypeOK, Process, Kinds
    <3>3. t \in [Slot -> Process] /\ \A i \in Slot : t[i].state = v[i].state
      BY <1>2, <3>1, AgedType
    <3>4. Reschedule(t, k)
      BY <1>1, <2>1, <3>1 DEF TimerTick
    <3>5. \A i \in Slot : t[i].state = "RUNNING" => cur = i
      BY <1>1, <3>3 DEF IInv, RunningIsCur
    <3> QED BY <3>1, <3>2, <3>3, <3>4, <3>5
  <2>2. CASE SysYield
    BY <1>1, <1>2, <2>2 DEF SysYield, Kinds, IInv, RunningIsCur
  <2>3. ASSUME NEW q \in Process, q.state \in {"ZOMBIE", "SLEEPING"}, cur \in Slot,
               Reschedule([table EXCEPT ![cur] = q], "user")
        PROVE  \E t \in [Slot -> Process], k \in Kinds :
                 /\ Reschedule(t, k)
                 /\ \A i \in Slot : t[i].state = "RUNNING" => cur = i
                 /\ \A i \in Slot : i # cur => t[i] = v[i] \/ t[i] = Aged(v)[i]
    <3>1. PICK t, k : t = [table EXCEPT ![cur] = q] /\ k = "user"
      OBVIOUS
    <3>2. t \in [Slot -> Process] /\ k \in Kinds /\ Reschedule(t, k)
      BY <1>1, <1>2, <2>3, <3>1 DEF Kinds
    <3>3. t[cur] = q /\ \A i \in Slot \ {cur} : t[i] = v[i]
      BY <1>1, <1>2, <2>3, <3>1
    <3>4. \A i \in Slot : t[i].state = "RUNNING" => cur = i
      BY <1>1, <3>3 DEF IInv, RunningIsCur
    <3> QED BY <3>2, <3>3, <3>4
  <2>4. CASE SysExit
    <3>1. cur \in Slot /\ table[cur] \in Process
      BY <2>4 DEF SysExit, InUser, IInv, TypeOK
    <3>2. PICK q : q = [table[cur] EXCEPT !.state = "ZOMBIE"]
      OBVIOUS
    <3>3. q \in Process /\ q.state = "ZOMBIE"
      BY <3>1, <3>2 DEF Process, States
    <3> QED BY <2>3, <2>4, <3>1, <3>2, <3>3 DEF SysExit
  <2>5. CASE \E d \in 0 .. MaxSleep : SysSleep(d)
    <3>1. PICK d \in 0 .. MaxSleep : SysSleep(d)
      BY <2>5
    <3>2. cur \in Slot /\ table[cur] \in Process
      BY <3>1 DEF SysSleep, InUser, IInv, TypeOK
    <3>3. PICK q : q = [table[cur] EXCEPT !.state = "SLEEPING", !.waketick = d]
      OBVIOUS
    <3>4. q \in Process /\ q.state = "SLEEPING"
      BY <3>2, <3>3 DEF Process, States
    <3> QED BY <2>3, <3>1, <3>2, <3>3, <3>4 DEF SysSleep
  <2> QED BY <2>1, <2>2, <2>4, <2>5
<1>4. \A i \in Slot : SameResources(table'[i], t[i])
  BY <1>2, <1>3, RescheduleStep
<1>5. \A i \in Slot : Slept(table'[i], t[i])
  BY <1>2, <1>3, RescheduleSleepers
<1>6. ASSUME NEW i \in Slot
      PROVE  /\ SameResources(Aged(v)[i], v[i]) /\ Aged(v)[i].state = v[i].state
             /\ v[i].waketick \in Nat
             /\ v[i].state = "SLEEPING" /\ Aged(v)[i].waketick = 0 => v[i].waketick <= 1
  <2>1. v[i].waketick \in 0 .. MaxSleep
    BY <1>2 DEF Process
  <2>2. v[i].state = "SLEEPING" /\ v[i].waketick > 0 => Aged(v)[i].waketick = v[i].waketick - 1
    BY <1>2 DEF Aged, Process
  <2> QED BY <1>2, <2>1, <2>2, AgedType, SizeAssumption
<1>7. ASSUME NEW i \in Slot, i # cur
      PROVE  /\ SameResources(table'[i], v[i])
             /\ v[i].state = "SLEEPING" =>
                  \/ table'[i].state = "SLEEPING"
                  \/ v[i].waketick <= 1 /\ table'[i].state \in {"READY", "RUNNING"}
  <2>1. CASE t[i] = v[i]
    BY <1>4, <1>5, <1>6, <2>1 DEF Slept
  <2>2. CASE t[i] = Aged(v)[i]
    BY <1>4, <1>5, <1>6, <2>2 DEF Slept, SameResources
  <2> QED BY <1>3, <1>7, <2>1, <2>2
<1> QED BY <1>1, <1>7

\* Every other step touches one slot: the caller's, or an empty or zombie one.
LEMMA OtherBystanders ==
  ASSUME IInv, Next,
         ~(TimerTick \/ SysYield \/ SysExit \/ \E d \in 0 .. MaxSleep : SysSleep(d))
  PROVE  \A i : Bystander(i) => table'[i] = table[i]
<1> SUFFICES ASSUME NEW i, Bystander(i) PROVE table'[i] = table[i]
  OBVIOUS
<1>1. ASSUME NEW j \in Slot, NEW q, table' = [table EXCEPT ![j] = q], j # i
      PROVE  table'[i] = table[i]
  BY <1>1 DEF Bystander, IInv, TypeOK
<1>2. CASE UNCHANGED table
  BY <1>2
<1>3. CASE CreateProcess
  <2>1. PICK j \in Slot :
          /\ FindHole(j)
          /\ \/ NoStackLeft(j)
             \/ \E k \in KStack, p \in Pid : NoTablesLeft(j, k) \/ Created(j, k, p)
    BY <1>3 DEF CreateProcess
  <2>2. j # i
    BY <2>1 DEF FindHole, IsLeast, Holds, Bystander
  <2>3. \E q : table' = [table EXCEPT ![j] = q]
    BY <2>1 DEF NoStackLeft, HoleTable, NoTablesLeft, Created
  <2> QED BY <1>1, <2>2, <2>3
<1>4. CASE \E j \in Slot : SysWait(j)
  BY <1>1, <1>4 DEF SysWait, IsZombie, Bystander
<1>5. CASE OpenWindow \/ CloseWindow \/ \E n \in ElfPages : SysExec(n)
  <2>1. cur \in Slot /\ cur # i
    BY <1>5 DEF OpenWindow, CloseWindow, SysExec, InUser, IInv, TypeOK, Bystander
  <2>2. \E q : table' = [table EXCEPT ![cur] = q]
    BY <1>5 DEF OpenWindow, CloseWindow, SysExec
  <2> QED BY <1>1, <2>1, <2>2
<1> QED BY <1>2, <1>3, <1>4, <1>5 DEF Next, BootSpawn, SchedGo, SysFork, SysExecNoMemory,
                                     SysExecTooBig, UserException, Halted, vars

----------------------------------------------------------------------------
(* The theorems                                                            *)

LEMMA InitIInv == ASSUME Init PROVE IInv
<1>1. \A i \in Slot : table[i] = EmptyProc
  BY DEF Init
<1>2. TypeOK
  <2>1. table \in [Slot -> Process]
    BY EmptyProcType DEF Init
  <2>2. boot \in 0 .. BootSpawns /\ free_frames \in Int
    BY SizeAssumption DEF Init
  <2>3. sched_ready \in BOOLEAN /\ halted \in BOOLEAN
    BY DEF Init
  <2> QED BY <2>1, <2>2, <2>3 DEF Init, TypeOK
<1>3. Cardinality(Frame) = NFrames
  <2>1. 1 \in Int /\ NFrames \in Int /\ NFrames \in Nat
    BY SizeAssumption
  <2>2. Cardinality(1 .. NFrames) = IF 1 > NFrames THEN 0 ELSE NFrames - 1 + 1
    BY <2>1, FS_Interval
  <2> QED BY <2>1, <2>2 DEF Frame
<1>4. \A i \in Slot : ~Live(i) /\ Owned(table[i]) = {} /\ table[i].state # "RUNNING"
  BY <1>1, EmptyProcType DEF Live
<1>5. RunningIsCur /\ FramesExclusive /\ StacksExclusive /\ PidsUnique /\ MappedIffLive
  BY <1>4, SlotFacts DEF Init, RunningIsCur, FramesExclusive, StacksExclusive,
                         PidsUnique, MappedIffLive
<1> QED BY <1>2, <1>3, <1>5 DEF IInv, Init, CountMatches

LEMMA NextIInv == ASSUME IInv, [Next]_vars PROVE IInv'
<1>1. CASE BootSpawn
  BY <1>1, BootSpawnStep
<1>2. CASE SchedGo \/ UserException \/ UNCHANGED vars
  BY <1>2, QuietStep
<1>3. CASE TimerTick
  BY <1>3, TimerTickStep
<1>4. CASE SysYield
  BY <1>4, SysYieldStep
<1>5. CASE SysExit
  BY <1>5, SysExitStep
<1>6. CASE SysFork
  BY <1>6, SysForkStep
<1>7. CASE \E d \in 0 .. MaxSleep : SysSleep(d)
  BY <1>7, SysSleepStep
<1>8. CASE \E i \in Slot : SysWait(i)
  BY <1>8, SysWaitStep
<1>9. CASE \E n \in ElfPages : SysExec(n)
  BY <1>9, SysExecStep
<1>10. CASE \E n \in ElfPages : SysExecNoMemory(n)
  BY <1>10, SysExecNoMemoryStep
<1>11. CASE \E n \in ElfPages : SysExecTooBig(n)
  BY <1>11, QuietStep
<1>12. CASE OpenWindow \/ CloseWindow
  BY <1>12, WindowStep
<1>13. CASE Halted
  BY <1>13, QuietStep DEF Halted
<1> QED BY <1>1, <1>2, <1>3, <1>4, <1>5, <1>6, <1>7, <1>8, <1>9, <1>10,
           <1>11, <1>12, <1>13 DEF Next

\* The inductive invariant holds in every reachable state: boot, every system
\* call, every tick and every failed allocation preserve it.
THEOREM Invariance == Spec => []IInv
<1>1. Init => IInv
  BY InitIInv
<1>2. IInv /\ [Next]_vars => IInv'
  BY NextIInv
<1> QED BY <1>1, <1>2, PTL DEF Spec

\* The scheduler's state keeps its types: no slot index, frame, stack or pid is
\* out of range and no waketick lies further ahead than the longest sleep.
THEOREM TypeCorrect == Spec => []TypeOK
<1>1. IInv => TypeOK
  BY DEF IInv
<1> QED BY <1>1, Invariance, PTL

\* sched_reschedule never leaves two processes RUNNING, nor the one on the CPU
\* in any other state, for any number of slots.
THEOREM OneRunning == Spec => []RunningIsCur
<1>1. IInv => RunningIsCur
  BY DEF IInv
<1> QED BY <1>1, Invariance, PTL

\* No page frame is ever owned twice or both owned and free, whatever the memory
\* size and the order of fork, exec, exit, wait and out-of-memory paths.
THEOREM MemoryIsolation == Spec => []FramesExclusive
<1>1. IInv => FramesExclusive
  BY DEF IInv
<1> QED BY <1>1, Invariance, PTL

\* The PMM's free_frames is exactly the number of clear bits: no path frees a
\* frame twice or takes one it does not count, the leaks of SYS_EXEC included.
THEOREM FrameCount == Spec => []CountMatches
<1>1. IInv => CountMatches
  BY DEF IInv
<1> QED BY <1>1, Invariance, PTL

\* No two live processes share a kernel stack, and none is on the heap's free
\* list.
THEOREM StackIsolation == Spec => []StacksExclusive
<1>1. IInv => StacksExclusive
  BY DEF IInv
<1> QED BY <1>1, Invariance, PTL

\* A pid names one live process: SYS_WAIT(pid) cannot reap the wrong one.
THEOREM PidUniqueness == Spec => []PidsUnique
<1>1. IInv => PidsUnique
  BY DEF IInv
<1> QED BY <1>1, Invariance, PTL

\* Every process that can be dispatched has a full set of page tables, its CR3
\* among them, and an empty slot owns no frame (no leak through reaping).
THEOREM TablesComplete == Spec => []MappedIffLive
<1>1. IInv => MappedIffLive
  BY DEF IInv
<1> QED BY <1>1, Invariance, PTL

\* No step changes the memory or the pid of a process other than the caller's,
\* unless it reaps a zombie: exec, fork, the timer and the failed allocations
\* leave every bystander as it was.
THEOREM StepIsolation == Spec => OnlyOwnMemory
<1> DEFINE A == \A i \in Slot : table[i].state \notin {"EMPTY", "ZOMBIE"} /\ i # cur
                  => Owned(table'[i]) = Owned(table[i]) /\ table'[i].pid = table[i].pid
<1>1. IInv /\ [Next]_vars => [A]_vars
  <2> SUFFICES ASSUME IInv, Next PROVE A
    OBVIOUS
  <2>1. CASE TimerTick \/ SysYield \/ SysExit \/ \E d \in 0 .. MaxSleep : SysSleep(d)
    BY <2>1, DispatchingBystanders DEF SameResources
  <2>2. CASE ~(TimerTick \/ SysYield \/ SysExit \/ \E d \in 0 .. MaxSleep : SysSleep(d))
    BY <2>2, OtherBystanders DEF Bystander
  <2> QED BY <2>1, <2>2
<1> QED BY <1>1, Invariance, PTL DEF Spec, OnlyOwnMemory

\* wake_sleepers wakes nobody before the tick that is due, whatever other
\* system calls and ticks do meanwhile, and nothing but it ends a sleep.
THEOREM SleepersSleep == Spec => NoEarlyWake
<1> DEFINE A == \A i \in Slot : table[i].state = "SLEEPING" /\ table'[i].state # "SLEEPING"
                  => table[i].waketick <= 1 /\ table'[i].state \in {"READY", "RUNNING"}
<1>1. IInv /\ [Next]_vars => [A]_vars
  <2> SUFFICES ASSUME IInv, Next PROVE A
    OBVIOUS
  <2>1. \A i \in Slot : table[i].state = "SLEEPING" => i # cur
    BY DEF IInv, RunningIsCur
  <2>2. CASE TimerTick \/ SysYield \/ SysExit \/ \E d \in 0 .. MaxSleep : SysSleep(d)
    BY <2>1, <2>2, DispatchingBystanders
  <2>3. CASE ~(TimerTick \/ SysYield \/ SysExit \/ \E d \in 0 .. MaxSleep : SysSleep(d))
    BY <2>1, <2>3, OtherBystanders DEF Bystander
  <2> QED BY <2>2, <2>3
<1> QED BY <1>1, Invariance, PTL DEF Spec, NoEarlyWake

=============================================================================
