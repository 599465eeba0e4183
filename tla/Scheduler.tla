----------------------------- MODULE Scheduler -----------------------------
(***************************************************************************)
(* The threads of the pnacl.c interpreter (pn_executor.h, pn_builtins.h).  *)
(*                                                                         *)
(* All guest threads are run by one host thread.  pn_executor_run calls    *)
(* pn_executor_run_step over and over; a step runs the current thread for  *)
(* a quantum of PN_INSTRUCTIONS_QUANTUM instructions or until it stops     *)
(* running, takes a dead thread out of the ring of executing threads, and  *)
(* then walks the ring to the next thread that can run.  The ring is a     *)
(* circular doubly-linked list threaded through the PNThread structs; a    *)
(* dead thread moves to a singly-linked list (dead_threads), from which    *)
(* thread_create takes it again.                                           *)
(*                                                                         *)
(* A guest thread is an arbitrary program: whenever it is its turn it      *)
(* executes any instruction it likes, with any operands.  Only the         *)
(* instructions that touch what this module keeps are actions of their     *)
(* own; all the others are Compute.  The one constraint is the program     *)
(* counter: a futex_wait that blocks does not advance it, so the thread    *)
(* executes that same call again when it runs next (variable call).        *)
(***************************************************************************)
EXTENDS Integers, FiniteSets

CONSTANTS
  Threads,       \* the PNThread structs there can be
  start_thread,  \* executor->start_thread, the struct of the first thread
  NULL,          \* the null pointer, and "no value" of an optional operand
  Words,         \* 32-bit words of guest memory used as futexes and flags
  StoreValues,   \* the values guest code stores in them
  NWakes,        \* the nwake operands of futex_wake
  Deadlines,     \* the points in time used as abstime
  Quantum,       \* PN_INSTRUCTIONS_QUANTUM
  MaxClock       \* bound on gettimeofday

ASSUME ThreadsAssumption ==
  IsFiniteSet(Threads) /\ start_thread \in Threads /\ NULL \notin Threads
ASSUME OperandsAssumption ==
  /\ StoreValues \subseteq Nat /\ NWakes \subseteq Nat /\ Deadlines \subseteq Nat
  /\ NULL \notin Deadlines
ASSUME BoundsAssumption ==
  Quantum \in Nat \ {0} /\ MaxClock \in Nat

VARIABLES
  next, prev,    \* the links of the PNThread structs
  state,         \* thread->state
  futex_state,   \* thread->futex_state
  wait_addr,     \* thread->wait_addr
  timeout,       \* thread->timeout_sec/usec, NULL when has_timeout is false
  call,          \* the futex_wait call thread->inst stands at, NULL elsewhere
  ret,           \* what the last futex_wait of the thread returned
  dead_threads,  \* executor->dead_threads
  exiting,       \* executor->exiting
  mem,           \* the guest memory words
  thread,        \* the thread variable of run_step
  quantum,       \* the loop counter i of PN_FOR_THREAD_QUANTUM
  pc,            \* where run_step stands: the quantum, the scan, or stopped
  clock          \* what gettimeofday returns, external

ring    == <<next, prev, dead_threads>>
futexes == <<futex_state, wait_addr, timeout>>
guest   == <<call, ret, mem>>
loop    == <<thread, pc>>
vars    == <<ring, state, futexes, exiting, guest, loop,
             quantum, clock>>

ThreadStates == {"UNALLOCATED", "RUNNING", "BLOCKED", "DEAD"}
FutexStates  == {"NONE", "TIMEDOUT", "WOKEN"}
Calls        == [addr : Words, value : StoreValues, abstime : Deadlines \cup {NULL}]
Results      == {NULL, "0", "EAGAIN", "ETIMEDOUT"}

\* A futex_wait call is not the null pointer.
ASSUME CallsAssumption == NULL \notin Calls

(***************************************************************************)
(* pn_executor_init: the start thread is alone in the ring and runs.       *)
(***************************************************************************)
Init ==
  /\ next = [t \in Threads |-> IF t = start_thread THEN t ELSE NULL]
  /\ prev = [t \in Threads |-> IF t = start_thread THEN t ELSE NULL]
  /\ state = [t \in Threads |->
                IF t = start_thread THEN "RUNNING" ELSE "UNALLOCATED"]
  /\ futex_state = [t \in Threads |-> "NONE"]
  /\ wait_addr = [t \in Threads |-> NULL]
  /\ timeout = [t \in Threads |-> NULL]
  /\ call = [t \in Threads |-> NULL]
  /\ ret = [t \in Threads |-> NULL]
  /\ dead_threads = NULL
  /\ exiting = FALSE
  /\ mem = [w \in Words |-> 0]
  /\ thread = start_thread
  /\ quantum = 0
  /\ pc = "quantum"
  /\ clock = 0

-----------------------------------------------------------------------------
(* Instructions.                                                            *)

\* Slip: the loop runs one instruction too many (<= for <).
InQuantumOneMore ==
  /\ pc = "quantum"
  /\ quantum <= Quantum
  /\ state[thread] = "RUNNING"
  /\ quantum' = quantum + 1
  /\ UNCHANGED <<loop, clock>>

\* PN_FOR_THREAD_QUANTUM: the current thread executes one more instruction.
InQuantum ==
  /\ pc = "quantum"
  /\ quantum < Quantum
  /\ state[thread] = "RUNNING"
  /\ quantum' = quantum + 1
  /\ UNCHANGED <<loop, clock>>

\* The instruction is not the futex_wait call the thread was blocked in.
AtOtherInstruction == InQuantum /\ call[thread] = NULL

\* Any instruction that leaves the state of this module alone.
Compute ==
  /\ AtOtherInstruction
  /\ UNCHANGED <<ring, state, futexes, exiting, guest>>

\* A guest store to a word of memory.
Store(w, v) ==
  /\ AtOtherInstruction
  /\ mem' = [mem EXCEPT ![w] = v]
  /\ UNCHANGED <<ring, state, futexes, exiting, call, ret>>

\* The thread executes futex_wait with the operands c: the same ones again when
\* thread->inst still stands at the call it blocked in.
AtFutexWait(c) == InQuantum /\ call[thread] \in {NULL, c}

\* pn_builtin_NACL_IRT_FUTEX_WAIT_ABS, PN_FUTEX_NONE: *addr no longer holds value.
FutexWaitAgain(c) ==
  /\ AtFutexWait(c)
  /\ futex_state[thread] = "NONE"
  /\ mem[c.addr] # c.value
  /\ ret' = [ret EXCEPT ![thread] = "EAGAIN"]
  /\ call' = [call EXCEPT ![thread] = NULL]
  /\ UNCHANGED <<ring, state, futexes, exiting, mem>>

\* pn_builtin_NACL_IRT_FUTEX_WAIT_ABS, PN_FUTEX_NONE: block.  PN_OPCODE_CALL then
\* leaves thread->inst where it is.
FutexWaitBlock(c) ==
  /\ AtFutexWait(c)
  /\ futex_state[thread] = "NONE"
  /\ mem[c.addr] = c.value
  /\ wait_addr' = [wait_addr EXCEPT ![thread] = c.addr]
  /\ timeout' = [timeout EXCEPT ![thread] = c.abstime]
  /\ state' = [state EXCEPT ![thread] = "BLOCKED"]
  /\ call' = [call EXCEPT ![thread] = c]
  /\ ret' = [ret EXCEPT ![thread] = NULL]
  /\ UNCHANGED <<ring, futex_state, exiting, mem>>

\* Slip: futex_state is not set back to PN_FUTEX_NONE.
FutexWaitReturnNoReset(c) ==
  /\ AtFutexWait(c)
  /\ futex_state[thread] # "NONE"
  /\ ret' = [ret EXCEPT ![thread] =
               IF futex_state[thread] = "TIMEDOUT" THEN "ETIMEDOUT" ELSE "0"]
  /\ call' = [call EXCEPT ![thread] = NULL]
  /\ UNCHANGED <<ring, state, futexes, exiting, mem>>

\* Slip: the return value is chosen by has_timeout, not by futex_state.
FutexWaitReturnByDeadline(c) ==
  /\ AtFutexWait(c)
  /\ futex_state[thread] # "NONE"
  /\ ret' = [ret EXCEPT ![thread] =
               IF timeout[thread] # NULL THEN "ETIMEDOUT" ELSE "0"]
  /\ futex_state' = [futex_state EXCEPT ![thread] = "NONE"]
  /\ call' = [call EXCEPT ![thread] = NULL]
  /\ UNCHANGED <<ring, state, wait_addr, timeout, exiting, mem>>

\* pn_builtin_NACL_IRT_FUTEX_WAIT_ABS, PN_FUTEX_TIMEDOUT and PN_FUTEX_WOKEN: the
\* call returns and PN_OPCODE_CALL advances thread->inst.
FutexWaitReturn(c) ==
  /\ AtFutexWait(c)
  /\ futex_state[thread] # "NONE"
  /\ ret' = [ret EXCEPT ![thread] =
               IF futex_state[thread] = "TIMEDOUT" THEN "ETIMEDOUT" ELSE "0"]
  /\ futex_state' = [futex_state EXCEPT ![thread] = "NONE"]
  /\ call' = [call EXCEPT ![thread] = NULL]
  /\ UNCHANGED <<ring, state, wait_addr, timeout, exiting, mem>>

\* The walk of the futex_wake loop: the k-th thread after t in the ring.
Walk(t) ==
  LET w[k \in 0..Cardinality(Threads)] == IF k = 0 THEN t ELSE next[w[k - 1]]
  IN  w

\* Slip: only wait_addr is looked at, which is never cleared.
HasWaited(u, addr_p) == wait_addr[u] = addr_p

\* Thread u is waiting on the futex at addr_p.
IsWaiting(u, addr_p) == state[u] = "BLOCKED" /\ wait_addr[u] = addr_p

\* The steps of the walk from t at which futex_wake finds a waiter to wake: it
\* has not come back to t and has woken fewer than nwake so far.
WakeSteps(t, addr_p, nwake) ==
  LET w == Walk(t) IN
  {k \in 1..Cardinality(Threads) :
     /\ \A j \in 1..k : w[j] # t
     /\ IsWaiting(w[k], addr_p)
     /\ Cardinality({j \in 1..(k - 1) : IsWaiting(w[j], addr_p)}) < nwake}

\* pn_builtin_NACL_IRT_FUTEX_WAKE
FutexWake(addr_p, nwake, count_p) ==
  LET steps == WakeSteps(thread, addr_p, nwake)
      Woken(u) == IsWaiting(u, addr_p) /\ \E k \in steps : Walk(thread)[k] = u
  IN  /\ AtOtherInstruction
      /\ state' = [u \in Threads |-> IF Woken(u) THEN "RUNNING" ELSE state[u]]
      /\ futex_state' =
           [u \in Threads |-> IF Woken(u) THEN "WOKEN" ELSE futex_state[u]]
      /\ mem' = [mem EXCEPT ![count_p] = Cardinality(steps)]
      /\ UNCHANGED <<ring, wait_addr, timeout, exiting,
                     call, ret>>

\* The struct thread_create uses: the head of the dead list, or a new one.
\* pn_allocator_alloc never fails; Threads bounds how many there are.
NewThreads ==
  IF dead_threads # NULL
  THEN {dead_threads}
  ELSE {u \in Threads : state[u] = "UNALLOCATED"}

\* Slip: thread->next is set before new_thread->next is taken from it.
ThreadCreateSwapped(u) ==
  /\ AtOtherInstruction
  /\ u \in NewThreads
  /\ dead_threads' = IF dead_threads # NULL THEN next[u] ELSE NULL
  /\ state' = [state EXCEPT ![u] = "RUNNING"]
  /\ futex_state' = [futex_state EXCEPT ![u] = "NONE"]
  /\ prev' = [prev EXCEPT ![u] = thread, ![next[thread]] = u]
  /\ next' = [next EXCEPT ![thread] = u, ![u] = u]
  /\ call' = [call EXCEPT ![u] = NULL]
  /\ ret' = [ret EXCEPT ![u] = NULL]
  /\ UNCHANGED <<wait_addr, timeout, exiting, mem>>

\* pn_builtin_NACL_IRT_THREAD_CREATE: the new thread is put in the ring behind
\* its creator.
ThreadCreate(u) ==
  /\ AtOtherInstruction
  /\ u \in NewThreads
  /\ dead_threads' = IF dead_threads # NULL THEN next[u] ELSE NULL
  /\ state' = [state EXCEPT ![u] = "RUNNING"]
  /\ futex_state' = [futex_state EXCEPT ![u] = "NONE"]
  /\ prev' = [prev EXCEPT ![u] = thread, ![next[thread]] = u]
  /\ next' = [next EXCEPT ![u] = next[thread], ![thread] = u]
  /\ call' = [call EXCEPT ![u] = NULL]
  /\ ret' = [ret EXCEPT ![u] = NULL]
  /\ UNCHANGED <<wait_addr, timeout, exiting, mem>>

\* pn_builtin_NACL_IRT_THREAD_EXIT: PN_CHECK refuses it on the main thread, which
\* is the start thread in a build without PPAPI.
ThreadExit(stack_flag_p) ==
  /\ AtOtherInstruction
  /\ thread # start_thread
  /\ state' = [state EXCEPT ![thread] = "DEAD"]
  /\ mem' = IF stack_flag_p = NULL THEN mem
            ELSE [mem EXCEPT ![stack_flag_p] = 0]
  /\ UNCHANGED <<ring, futexes, exiting, call, ret>>

\* Slip: the start thread's return does not end the program.
ReturnFromTopOnly ==
  /\ AtOtherInstruction
  /\ state' = [state EXCEPT ![thread] = "DEAD"]
  /\ UNCHANGED <<ring, futexes, exiting, guest>>

\* PN_OPCODE_RET and PN_OPCODE_RET_VALUE in the top frame of a thread: the
\* program ends when it is the start thread.
ReturnFromTop ==
  /\ AtOtherInstruction
  /\ state' = [state EXCEPT ![thread] = "DEAD"]
  /\ exiting' = (exiting \/ thread = start_thread)
  /\ UNCHANGED <<ring, futexes, guest>>

\* Slip: the thread that exits is left running.
BasicExitAndRun ==
  /\ AtOtherInstruction
  /\ exiting' = TRUE
  /\ UNCHANGED <<ring, state, futexes, guest>>

\* pn_builtin_NACL_IRT_BASIC_EXIT and the llvm.trap intrinsic, on any thread.
BasicExit ==
  /\ AtOtherInstruction
  /\ state' = [state EXCEPT ![thread] = "DEAD"]
  /\ exiting' = TRUE
  /\ UNCHANGED <<ring, futexes, guest>>

Instruction ==
  \/ Compute
  \/ \E w \in Words, v \in StoreValues : Store(w, v)
  \/ \E c \in Calls : FutexWaitAgain(c)
  \/ \E c \in Calls : FutexWaitBlock(c)
  \/ \E c \in Calls : FutexWaitReturn(c)
  \/ \E a \in Words, n \in NWakes, p \in Words : FutexWake(a, n, p)
  \/ \E u \in Threads : ThreadCreate(u)
  \/ \E p \in Words \cup {NULL} : ThreadExit(p)
  \/ ReturnFromTop
  \/ BasicExit

-----------------------------------------------------------------------------
(* The rest of pn_executor_run_step.                                        *)

\* The quantum is used up or the thread no longer runs.
QuantumOver ==
  /\ pc = "quantum"
  /\ quantum = Quantum \/ state[thread] # "RUNNING"
  /\ quantum' = 0
  /\ UNCHANGED <<state, futexes, exiting, guest, clock>>

\* executor->exiting: run_step returns NULL and pn_executor_run ends.
Stop ==
  /\ QuantumOver
  /\ exiting
  /\ pc' = "stopped"
  /\ UNCHANGED <<ring, thread>>

\* Slip: the scan starts at the thread that has just run.
KeepThreadAgain ==
  /\ QuantumOver
  /\ ~exiting
  /\ state[thread] # "DEAD"
  /\ pc' = "schedule"
  /\ UNCHANGED <<ring, thread>>

\* The thread is still in the ring; go on with the one behind it.
KeepThread ==
  /\ QuantumOver
  /\ ~exiting
  /\ state[thread] # "DEAD"
  /\ thread' = next[thread]
  /\ pc' = "schedule"
  /\ UNCHANGED ring

\* Slip: the dead thread is not linked to the rest of the dead list.
UnlinkThreadNoLink ==
  /\ QuantumOver
  /\ ~exiting
  /\ state[thread] = "DEAD"
  /\ next' = [next EXCEPT ![prev[thread]] = next[thread]]
  /\ prev' = [prev EXCEPT ![next[thread]] = prev[thread], ![thread] = NULL]
  /\ dead_threads' = thread
  /\ thread' = next[thread]
  /\ pc' = "schedule"

\* Unlink the dead thread from the executing list and push it on the dead list.
UnlinkThread ==
  /\ QuantumOver
  /\ ~exiting
  /\ state[thread] = "DEAD"
  /\ next' = [next EXCEPT ![prev[thread]] = next[thread],
                          ![thread] = dead_threads]
  /\ prev' = [prev EXCEPT ![next[thread]] = prev[thread], ![thread] = NULL]
  /\ dead_threads' = thread
  /\ thread' = next[thread]
  /\ pc' = "schedule"

\* One iteration of the scheduling loop: a running thread is scheduled.
ScheduleRunning ==
  /\ pc = "schedule"
  /\ state[thread] = "RUNNING"
  /\ pc' = "quantum"
  /\ UNCHANGED <<ring, state, futexes, exiting, guest,
                 thread, quantum, clock>>

\* Slip: the comparison with the deadline is the wrong way round.
TimeIsUpReversed(t) == timeout[t] # NULL /\ clock < timeout[t]

\* gettimeofday is past the deadline of t.
TimeIsUp(t) == timeout[t] # NULL /\ clock > timeout[t]

\* A blocked thread whose time is up is scheduled to execute its call again.
ScheduleTimedOut ==
  /\ pc = "schedule"
  /\ state[thread] = "BLOCKED"
  /\ TimeIsUp(thread)
  /\ state' = [state EXCEPT ![thread] = "RUNNING"]
  /\ futex_state' = [futex_state EXCEPT ![thread] = "TIMEDOUT"]
  /\ pc' = "quantum"
  /\ UNCHANGED <<ring, wait_addr, timeout, exiting, guest,
                 thread, quantum, clock>>

\* Any other blocked thread is passed over.
ScheduleSkip ==
  /\ pc = "schedule"
  /\ state[thread] = "BLOCKED"
  /\ ~TimeIsUp(thread)
  /\ thread' = next[thread]
  /\ UNCHANGED <<ring, state, futexes, exiting, guest, pc,
                 quantum, clock>>

\* Time passes.
Tick ==
  /\ clock < MaxClock
  /\ clock' = clock + 1
  /\ UNCHANGED <<ring, state, futexes, exiting, guest, loop,
                 quantum>>

RunStep ==
  \/ Instruction
  \/ Stop \/ KeepThread \/ UnlinkThread
  \/ ScheduleRunning \/ ScheduleTimedOut \/ ScheduleSkip

\* pn_executor_run has returned.
Terminated == pc = "stopped" /\ UNCHANGED vars

Next == RunStep \/ Tick \/ Terminated

Spec == Init /\ [][Next]_vars

\* The interpreter is never suspended and the host's clock never stands still.
FairSpec == Spec /\ WF_vars(RunStep) /\ WF_vars(Tick)

-----------------------------------------------------------------------------
(* Properties.                                                              *)

TypeOK ==
  /\ next \in [Threads -> Threads \cup {NULL}]
  /\ prev \in [Threads -> Threads \cup {NULL}]
  /\ state \in [Threads -> ThreadStates]
  /\ futex_state \in [Threads -> FutexStates]
  /\ wait_addr \in [Threads -> Words \cup {NULL}]
  /\ timeout \in [Threads -> Deadlines \cup {NULL}]
  /\ call \in [Threads -> Calls \cup {NULL}]
  /\ ret \in [Threads -> Results]
  /\ dead_threads \in Threads \cup {NULL}
  /\ exiting \in BOOLEAN
  /\ mem \in [Words -> Nat]
  /\ thread \in Threads
  /\ quantum \in 0..Quantum
  /\ pc \in {"quantum", "schedule", "stopped"}
  /\ clock \in 0..MaxClock

\* The threads that belong in the ring: those that run or are blocked, and a
\* thread that has died but whose quantum pn_executor_run_step has not ended.
Ring == {t \in Threads : \/ state[t] \in {"RUNNING", "BLOCKED"}
                         \/ state[t] = "DEAD" /\ t = thread /\ pc # "schedule"}

\* The structs that belong on the dead list.
Dead == {t \in Threads : state[t] = "DEAD"} \ Ring

\* The links of the ring stay inside it, and prev undoes next, through every
\* sequence of thread_create, thread_exit and reuse of dead structs.
RingLinked ==
  \A t \in Ring : /\ next[t] \in Ring /\ prev[next[t]] = t
                  /\ prev[t] \in Ring /\ next[prev[t]] = t

\* The ring is one cycle: no part of it is closed under next, so the scheduling
\* loop and futex_wake, which only follow next, miss no executing thread.
RingWhole ==
  \A S \in SUBSET Ring : S # {} /\ (\A t \in S : next[t] \in S) => S = Ring

\* The dead list holds every dead struct once, and only those: none is lost to
\* thread_create, and none is on the list and in the ring at once.
DeadListed ==
  /\ dead_threads \in Dead \cup {NULL}
  /\ dead_threads = NULL <=> Dead = {}
  /\ \A t \in Dead : next[t] \in Dead \cup {NULL} /\ next[t] # dead_threads
  /\ \A t, u \in Dead : next[t] = next[u] /\ next[t] # NULL => t = u
  /\ \A S \in SUBSET Dead :
       dead_threads \in S /\ (\A t \in S : next[t] \in S \cup {NULL}) => S = Dead

\* Both lists of threads, however often a struct has changed between them: the ring is
\* linked both ways, and the dead are on the list of the dead and on no other.
ListsLinked == RingLinked /\ DeadListed

\* "Only the currently executing thread should be in this state", and the asserts
\* of pn_executor_run_step: the scheduling loop never meets a dead thread, and the
\* start thread is dead only in a program that exits.
OnlyCurrentThreadDies ==
  /\ thread \in Ring
  /\ \A t \in Ring : state[t] = "DEAD" => t = thread /\ pc # "schedule"
  /\ exiting => state[thread] = "DEAD"
  /\ start_thread \in Ring
  /\ state[start_thread] = "DEAD" => exiting

\* A wakeup or a timeout that a thread has been given is still for the call it
\* stands at: it can never be consumed by a later futex_wait on another futex.
WakeupsMatchCalls ==
  \A t \in Threads :
    /\ state[t] = "BLOCKED" => /\ call[t] # NULL /\ futex_state[t] = "NONE"
                               /\ wait_addr[t] = call[t].addr
    /\ futex_state[t] # "NONE" => state[t] = "RUNNING" /\ call[t] # NULL
    /\ state[t] = "RUNNING" /\ call[t] # NULL => futex_state[t] # "NONE"

\* Once a thread has set executor->exiting no guest instruction takes effect and
\* no thread is scheduled any more.
ExitIsFinal == [][exiting => UNCHANGED <<exiting, state, futexes, ring, guest>>]_vars

\* The wait a thread is in, as the guest sees it: from the step that blocks it to
\* the step in which its call returns.
wait == [t \in Threads |->
           IF call[t] = NULL THEN NULL
           ELSE [addr |-> call[t].addr, abstime |-> call[t].abstime]]

answer == [t \in Threads |->
             CASE futex_state[t] = "NONE"     -> NULL
               [] futex_state[t] = "WOKEN"    -> "0"
               [] futex_state[t] = "TIMEDOUT" -> "ETIMEDOUT"]

Irt == INSTANCE IrtFutex

\* A wait and its answers are not the null pointer either.
ASSUME AnswersAssumption == NULL \notin Irt!Waits /\ NULL \notin {"0", "ETIMEDOUT"}

\* The ring, the quantum, the re-executed call and the order in which futex_wake
\* walks the ring implement the futex calls of irt.h: a wait returns 0 only after
\* another thread's wake on its address, ETIMEDOUT only after its deadline, EAGAIN
\* only when the value differs, and a wake answers exactly min(nwake, waiters)
\* waiters and reports that number.
ImplementsIrtFutex == Irt!Spec

\* Threads stop being created.  thread_create puts the new thread right behind its
\* creator, so a chain of threads that each create the next one and exit keeps the
\* scan from ever reaching the rest of the ring; the progress properties below are
\* about programs that do not respawn for ever.
CreationEnds == <>[][\A u \in Threads : ~ThreadCreate(u)]_vars

\* The scheduler starves nobody: once no more threads are created, a thread that
\* can run is given a quantum, or the program exits first.
RunningThreadsRun ==
  CreationEnds =>
    \A t \in Threads :
      state[t] = "RUNNING" ~> exiting \/ (thread = t /\ pc = "quantum")

\* A futex_wait with a deadline does not wait for ever, even when nobody wakes it
\* and whatever the other threads do.
TimedWaitsEnd ==
  CreationEnds =>
    \A t \in Threads :
      state[t] = "BLOCKED" /\ timeout[t] # NULL
        ~> exiting \/ state[t] # "BLOCKED"

\* A thread that futex_wake has woken sees its futex_wait return 0.
WokenWaitsReturn ==
  CreationEnds =>
    \A t \in Threads : futex_state[t] = "WOKEN" ~> exiting \/ ret[t] = "0"
=============================================================================
