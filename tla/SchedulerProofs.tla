-------------------------- MODULE SchedulerProofs --------------------------
(***************************************************************************)
(* Proofs about Scheduler, for any number of threads and words of memory,  *)
(* any quantum and any guest program.                                      *)
(***************************************************************************)
EXTENDS Scheduler, CommonLemmas

\* FutexWake writes a count that is a natural number.
LEMMA WakeCount ==
  ASSUME NEW t, NEW a, NEW n
  PROVE  Cardinality(WakeSteps(t, a, n)) \in Nat
<1>1. Cardinality(Threads) \in Nat
  BY ThreadsAssumption, FS_CardinalityType
<1>2. IsFiniteSet(1..Cardinality(Threads))
  BY <1>1, FS_Interval
<1>3. WakeSteps(t, a, n) \subseteq 1..Cardinality(Threads)
  BY DEF WakeSteps
<1> QED BY <1>2, <1>3, FS_Subset, FS_CardinalityType

-----------------------------------------------------------------------------
(* Type correctness.                                                        *)

\* pn_executor_init starts from a well typed state.
LEMMA TypeInit == Init => TypeOK
<1> SUFFICES ASSUME Init PROVE TypeOK
  OBVIOUS
<1> USE ThreadsAssumption DEF Init
<1>1. next \in [Threads -> Threads \cup {NULL}] /\ prev \in [Threads -> Threads \cup {NULL}]
  OBVIOUS
<1>2. state \in [Threads -> ThreadStates] /\ futex_state \in [Threads -> FutexStates]
  BY DEF ThreadStates, FutexStates
<1>3. /\ wait_addr \in [Threads -> Words \cup {NULL}]
      /\ timeout \in [Threads -> Deadlines \cup {NULL}]
      /\ call \in [Threads -> Calls \cup {NULL}]
      /\ ret \in [Threads -> Results]
  BY DEF Results
<1>4. /\ mem \in [Words -> Nat] /\ quantum \in 0..Quantum /\ clock \in 0..MaxClock
  BY BoundsAssumption
<1>5. /\ dead_threads \in Threads \cup {NULL} /\ exiting \in BOOLEAN
      /\ thread \in Threads /\ pc \in {"quantum", "schedule", "stopped"}
  OBVIOUS
<1> QED BY <1>1, <1>2, <1>3, <1>4, <1>5 DEF TypeOK

USE DEF ring, futexes, guest, loop

\* The links that the actions follow lead to threads: needed where a step takes a
\* link for a thread.  They follow from RingLinked.
LinkedThread == next[thread] \in Threads

\* Every step keeps the types, as long as the current thread's links are threads.
LEMMA TypeStep ==
  ASSUME TypeOK, LinkedThread, [Next]_vars
  PROVE  TypeOK'
<1> USE ThreadsAssumption, OperandsAssumption, BoundsAssumption
        DEF TypeOK, ThreadStates, FutexStates, Results
<1>1. CASE Compute
  BY <1>1 DEF Compute, AtOtherInstruction, InQuantum
<1>2. ASSUME NEW w \in Words, NEW v \in StoreValues, Store(w, v) PROVE TypeOK'
  BY <1>2 DEF Store, AtOtherInstruction, InQuantum
<1>3. ASSUME NEW c \in Calls, FutexWaitAgain(c) PROVE TypeOK'
  BY <1>3 DEF FutexWaitAgain, AtFutexWait, InQuantum
<1>4. ASSUME NEW c \in Calls, FutexWaitBlock(c) PROVE TypeOK'
  <2>1. c.addr \in Words /\ c.abstime \in Deadlines \cup {NULL}
    BY DEF Calls
  <2> QED BY <1>4, <2>1 DEF FutexWaitBlock, AtFutexWait, InQuantum
<1>5. ASSUME NEW c \in Calls, FutexWaitReturn(c) PROVE TypeOK'
  BY <1>5 DEF FutexWaitReturn, AtFutexWait, InQuantum
<1>6. ASSUME NEW a \in Words, NEW n \in NWakes, NEW p \in Words,
             FutexWake(a, n, p)
      PROVE  TypeOK'
  BY <1>6, WakeCount DEF FutexWake, AtOtherInstruction, InQuantum
<1>7. ASSUME NEW u \in Threads, ThreadCreate(u) PROVE TypeOK'
  BY <1>7 DEF ThreadCreate, NewThreads, AtOtherInstruction, InQuantum, LinkedThread
<1>8. ASSUME NEW p \in Words \cup {NULL}, ThreadExit(p) PROVE TypeOK'
  BY <1>8 DEF ThreadExit, AtOtherInstruction, InQuantum
<1>9. CASE ReturnFromTop
  BY <1>9 DEF ReturnFromTop, AtOtherInstruction, InQuantum
<1>10. CASE BasicExit
  BY <1>10 DEF BasicExit, AtOtherInstruction, InQuantum
<1>11. CASE Stop
  BY <1>11 DEF Stop, QuantumOver
<1>12. CASE KeepThread
  BY <1>12 DEF KeepThread, QuantumOver, LinkedThread
<1>13. CASE UnlinkThread
  BY <1>13 DEF UnlinkThread, QuantumOver, LinkedThread
<1>14. CASE ScheduleRunning
  BY <1>14 DEF ScheduleRunning
<1>15. CASE ScheduleTimedOut
  BY <1>15 DEF ScheduleTimedOut
<1>16. CASE ScheduleSkip
  BY <1>16 DEF ScheduleSkip, LinkedThread
<1>17. CASE Tick
  BY <1>17 DEF Tick
<1>18. CASE Terminated
  BY <1>18 DEF Terminated, vars
<1>19. CASE UNCHANGED vars
  BY <1>19 DEF vars
<1> QED
  BY <1>1, <1>2, <1>3, <1>4, <1>5, <1>6, <1>7, <1>8, <1>9, <1>10, <1>11, <1>12,
     <1>13, <1>14, <1>15, <1>16, <1>17, <1>18, <1>19
     DEF Next, RunStep, Instruction

-----------------------------------------------------------------------------
(* The ring and the dead list.                                              *)

Inv ==
  /\ TypeOK
  /\ RingLinked /\ RingWhole
  /\ DeadListed
  /\ OnlyCurrentThreadDies
  /\ WakeupsMatchCalls

Lists == RingLinked /\ RingWhole /\ DeadListed

\* The invariant holds of the start thread alone in the ring.
LEMMA InvInit == Init => Inv
<1> SUFFICES ASSUME Init PROVE Inv
  OBVIOUS
<1> USE ThreadsAssumption
<1>1. TypeOK
  BY TypeInit
<1>2. Ring = {start_thread} /\ Dead = {}
  BY DEF Init, Ring, Dead
<1>3. RingLinked /\ RingWhole
  BY <1>2 DEF Init, RingLinked, RingWhole
<1>4. DeadListed
  BY <1>2 DEF Init, DeadListed
<1>5. OnlyCurrentThreadDies
  BY <1>2 DEF Init, OnlyCurrentThreadDies
<1>6. WakeupsMatchCalls
  BY DEF Init, WakeupsMatchCalls
<1> QED BY <1>1, <1>3, <1>4, <1>5, <1>6 DEF Inv

\* A step that moves no thread in or out of the ring and touches no link keeps the
\* two lists as they are.
LEMMA ListsStay ==
  ASSUME Lists, UNCHANGED ring, Ring' = Ring, Dead' = Dead
  PROVE  Lists'
<1>1. RingLinked' /\ RingWhole'
  BY DEF Lists, RingLinked, RingWhole
<1>2. DeadListed'
  BY DEF Lists, DeadListed
<1> QED BY <1>1, <1>2 DEF Lists

\* thread_create: one more thread in the ring, behind the running thread, taken off
\* the dead list when there is one on it.
LEMMA ListsCreate ==
  ASSUME Inv, NEW u \in Threads, ThreadCreate(u)
  PROVE  /\ Lists'
         /\ Ring' = Ring \cup {u}
         /\ u \notin Ring
<1> USE ThreadsAssumption
<1> DEFINE n == next[thread]
<1>1. thread \in Ring /\ n \in Ring /\ state[thread] = "RUNNING" /\ pc = "quantum"
  BY DEF Inv, RingLinked, OnlyCurrentThreadDies, ThreadCreate, AtOtherInstruction,
         InQuantum
<1>2. u \notin Ring
  BY <1>1 DEF Inv, TypeOK, ThreadCreate, NewThreads, DeadListed, Dead, Ring
<1>3. Ring' = Ring \cup {u} /\ Dead' = Dead \ {u}
  BY <1>1, <1>2 DEF Inv, TypeOK, ThreadCreate, AtOtherInstruction, InQuantum, Ring, Dead
<1>4. /\ next' = [next EXCEPT ![u] = n, ![thread] = u]
      /\ prev' = [prev EXCEPT ![u] = thread, ![n] = u]
      /\ next \in [Threads -> Threads \cup {NULL}]
      /\ prev \in [Threads -> Threads \cup {NULL}]
      /\ Ring \subseteq Threads
  BY DEF ThreadCreate, Inv, TypeOK, Ring
<1>5. /\ next'[u] = n /\ next'[thread] = u
      /\ prev'[u] = thread /\ prev'[n] = u
      /\ \A t \in Ring \ {thread} : next'[t] = next[t]
      /\ \A t \in Ring \ {n} : prev'[t] = prev[t]
  BY <1>1, <1>2, <1>4
<1>6. RingLinked'
  <2> SUFFICES ASSUME NEW t \in Ring \cup {u}
               PROVE  /\ next'[t] \in Ring \cup {u} /\ prev'[next'[t]] = t
                      /\ prev'[t] \in Ring \cup {u} /\ next'[prev'[t]] = t
    BY <1>3 DEF RingLinked
  <2>1. \A s \in Ring : /\ next[s] \in Ring /\ prev[next[s]] = s
                        /\ prev[s] \in Ring /\ next[prev[s]] = s
    BY DEF Inv, RingLinked
  <2>2. CASE t = u
    BY <2>2, <1>1, <1>5
  <2>3. CASE t = thread /\ t # u
    <3>1. next'[t] = u /\ prev'[u] = t
      BY <2>3, <1>5
    <3>2. prev'[t] \in Ring \cup {u} /\ next'[prev'[t]] = t
      <4>1. CASE t = n
        BY <2>3, <4>1, <1>5
      <4>2. CASE t # n
        <5>1. prev'[t] = prev[t] /\ prev[t] \in Ring /\ next[prev[t]] = t
          BY <2>3, <4>2, <1>5, <2>1
        <5>2. prev[t] # thread
          BY <5>1, <4>2
        <5> QED BY <5>1, <5>2, <1>5
      <4> QED BY <4>1, <4>2
    <3> QED BY <3>1, <3>2
  <2>4. CASE t # thread /\ t # u
    <3>1. next'[t] = next[t] /\ next[t] \in Ring /\ prev[next[t]] = t
      BY <2>4, <1>5, <2>1
    <3>2. next[t] # n
      BY <3>1, <2>1, <1>1, <2>4
    <3>3. prev'[next'[t]] = t
      BY <3>1, <3>2, <1>5
    <3>4. prev'[t] \in Ring \cup {u} /\ next'[prev'[t]] = t
      <4>1. CASE t = n
        BY <4>1, <1>5
      <4>2. CASE t # n
        <5>1. prev'[t] = prev[t] /\ prev[t] \in Ring /\ next[prev[t]] = t
          BY <2>4, <4>2, <1>5, <2>1
        <5>2. prev[t] # thread
          BY <5>1, <4>2
        <5> QED BY <5>1, <5>2, <1>5
      <4> QED BY <4>1, <4>2
    <3> QED BY <3>1, <3>3, <3>4
  <2> QED BY <2>2, <2>3, <2>4
<1>7. RingWhole'
  <2> SUFFICES ASSUME NEW S \in SUBSET (Ring \cup {u}), S # {},
                      \A t \in S : next'[t] \in S
               PROVE  S = Ring \cup {u}
    BY <1>3 DEF RingWhole
  <2>1. S \ {u} # {}
    BY <1>1, <1>2, <1>5
  <2>2. \A t \in S \ {u} : next[t] \in S \ {u}
    <3> SUFFICES ASSUME NEW t \in S \ {u} PROVE next[t] \in S \ {u}
      OBVIOUS
    <3>1. next[t] \in Ring
      BY DEF Inv, RingLinked
    <3>2. CASE t = thread
      BY <3>2, <1>1, <1>2, <1>5
    <3>3. CASE t # thread
      BY <3>1, <3>3, <1>2, <1>5
    <3> QED BY <3>2, <3>3
  <2>3. S \ {u} = Ring
    BY <2>1, <2>2 DEF Inv, RingWhole
  <2> QED BY <2>3, <1>1, <1>5
<1>8. DeadListed'
  <2>1. CASE dead_threads = NULL
    <3>1. Dead = {} /\ dead_threads' = NULL
      BY <2>1 DEF Inv, DeadListed, ThreadCreate
    <3> QED BY <3>1, <1>3 DEF DeadListed
  <2>2. CASE dead_threads # NULL
    <3>1. u = dead_threads /\ dead_threads' = next[u] /\ u \in Dead
      BY <2>2 DEF ThreadCreate, NewThreads, Inv, DeadListed
    <3>2. \A t \in Dead \ {u} : next'[t] = next[t]
      BY <1>1, <1>4, <1>3 DEF Dead
    <3>3. next[u] \in (Dead \ {u}) \cup {NULL}
      BY <3>1 DEF Inv, DeadListed
    <3>4. \A t \in Dead \ {u} : /\ next[t] \in (Dead \ {u}) \cup {NULL}
                                /\ next[t] = next[u] => next[t] = NULL
      BY <3>1 DEF Inv, DeadListed
    <3>5. ASSUME NEW S \in SUBSET Dead, u \in S, \A t \in S : next[t] \in S \cup {NULL}
          PROVE  S = Dead
      BY <3>1, <3>5 DEF Inv, DeadListed
    <3>6. next[u] = NULL <=> Dead \ {u} = {}
      <4>1. ASSUME next[u] = NULL PROVE Dead \ {u} = {}
        <5> DEFINE S == {u}
        <5>1. S \in SUBSET Dead /\ u \in S /\ \A t \in S : next[t] \in S \cup {NULL}
          BY <3>1, <4>1
        <5>2. S = Dead
          BY <5>1, <3>5
        <5> QED BY <5>2
      <4> QED BY <4>1, <3>3
    <3>7. ASSUME NEW S \in SUBSET (Dead \ {u}), next[u] \in S,
                 \A t \in S : next[t] \in S \cup {NULL}
          PROVE  S = Dead \ {u}
      <4>1. S \cup {u} \in SUBSET Dead
        BY <3>1
      <4>2. \A t \in S \cup {u} : next[t] \in (S \cup {u}) \cup {NULL}
        BY <3>7
      <4>3. S \cup {u} = Dead
        BY <4>1, <4>2, <3>5
      <4> QED BY <4>3
    <3>8. \A t \in Dead \ {u} : next'[t] \in (Dead \ {u}) \cup {NULL} /\ next'[t] # next[u]
      BY <3>2, <3>4, <3>6
    <3>9. \A t, v \in Dead \ {u} : next'[t] = next'[v] /\ next'[t] # NULL => t = v
      BY <3>2 DEF Inv, DeadListed
    <3>10. ASSUME NEW S \in SUBSET (Dead \ {u}), next[u] \in S,
                  \A t \in S : next'[t] \in S \cup {NULL}
           PROVE  S = Dead \ {u}
      BY <3>2, <3>7, <3>10
    <3> QED BY <1>3, <3>1, <3>3, <3>6, <3>8, <3>9, <3>10 DEF DeadListed
  <2> QED BY <2>1, <2>2
<1> QED BY <1>2, <1>3, <1>6, <1>7, <1>8 DEF Lists

\* The dead thread leaves the ring for the head of the dead list; it is never alone
\* in the ring, because the start thread is still there.
LEMMA ListsUnlink ==
  ASSUME Inv, UnlinkThread
  PROVE  /\ Lists'
         /\ Ring' = Ring \ {thread}
         /\ next[thread] \in Ring \ {thread}
<1> USE ThreadsAssumption
<1> DEFINE n == next[thread]
           p == prev[thread]
<1>1. /\ thread \in Ring /\ start_thread \in Ring /\ start_thread # thread
      /\ state[thread] = "DEAD" /\ pc = "quantum"
  BY DEF Inv, OnlyCurrentThreadDies, UnlinkThread, QuantumOver
<1>2. \A s \in Ring : /\ next[s] \in Ring /\ prev[next[s]] = s
                      /\ prev[s] \in Ring /\ next[prev[s]] = s
  BY DEF Inv, RingLinked
<1>3. n # thread
  <2> SUFFICES ASSUME n = thread PROVE FALSE
    OBVIOUS
  <2> DEFINE S == {thread}
  <2>1. S \in SUBSET Ring /\ S # {} /\ \A t \in S : next[t] \in S
    BY <1>1
  <2>2. S = Ring
    BY <2>1 DEF Inv, RingWhole
  <2> QED BY <2>2, <1>1
<1>4. n \in Ring /\ p \in Ring /\ p # thread /\ next[p] = thread /\ prev[n] = thread
  BY <1>1, <1>2, <1>3
<1>5. Ring' = Ring \ {thread} /\ Dead' = Dead \cup {thread}
  BY <1>1, <1>3, <1>4
     DEF Inv, TypeOK, OnlyCurrentThreadDies, UnlinkThread, QuantumOver, Ring, Dead
<1>6. /\ next' = [next EXCEPT ![p] = n, ![thread] = dead_threads]
      /\ prev' = [prev EXCEPT ![n] = p, ![thread] = NULL]
      /\ next \in [Threads -> Threads \cup {NULL}]
      /\ prev \in [Threads -> Threads \cup {NULL}]
      /\ Ring \subseteq Threads /\ Dead \subseteq Threads
  BY DEF UnlinkThread, Inv, TypeOK, Ring, Dead
<1>7. /\ next'[p] = n /\ next'[thread] = dead_threads /\ prev'[n] = p
      /\ \A t \in Ring \ {thread, p} : next'[t] = next[t]
      /\ \A t \in Ring \ {thread, n} : prev'[t] = prev[t]
      /\ \A t \in Dead : next'[t] = next[t]
  <2>1. \A t \in Dead : t # p /\ t # thread
    BY <1>4, <1>1 DEF Dead
  <2> QED BY <1>1, <1>3, <1>4, <1>6, <2>1
<1>8. RingLinked'
  <2> SUFFICES ASSUME NEW t \in Ring \ {thread}
               PROVE  /\ next'[t] \in Ring \ {thread} /\ prev'[next'[t]] = t
                      /\ prev'[t] \in Ring \ {thread} /\ next'[prev'[t]] = t
    BY <1>5 DEF RingLinked
  <2>1. next'[t] \in Ring \ {thread} /\ prev'[next'[t]] = t
    <3>1. CASE t = p
      BY <3>1, <1>3, <1>4, <1>7
    <3>2. CASE t # p
      <4>1. next'[t] = next[t] /\ next[t] \in Ring /\ prev[next[t]] = t
        BY <3>2, <1>7, <1>2
      <4>2. next[t] # thread /\ next[t] # n
        BY <4>1, <1>4, <3>2
      <4> QED BY <4>1, <4>2, <1>7
    <3> QED BY <3>1, <3>2
  <2>2. prev'[t] \in Ring \ {thread} /\ next'[prev'[t]] = t
    <3>1. CASE t = n
      BY <3>1, <1>3, <1>4, <1>7
    <3>2. CASE t # n
      <4>1. prev'[t] = prev[t] /\ prev[t] \in Ring /\ next[prev[t]] = t
        BY <3>2, <1>7, <1>2
      <4>2. prev[t] # thread /\ prev[t] # p
        BY <4>1, <1>4, <3>2
      <4> QED BY <4>1, <4>2, <1>7
    <3> QED BY <3>1, <3>2
  <2> QED BY <2>1, <2>2
<1>9. RingWhole'
  <2> SUFFICES ASSUME NEW S \in SUBSET (Ring \ {thread}), S # {},
                      \A t \in S : next'[t] \in S
               PROVE  S = Ring \ {thread}
    BY <1>5 DEF RingWhole
  <2>1. CASE p \in S
    <3> DEFINE Q == S \cup {thread}
    <3>1. Q \in SUBSET Ring /\ Q # {}
      BY <1>1
    <3>2. \A t \in Q : next[t] \in Q
      BY <2>1, <1>4, <1>7
    <3>3. Q = Ring
      BY <3>1, <3>2 DEF Inv, RingWhole
    <3> QED BY <3>3
  <2>2. CASE p \notin S
    <3>1. \A t \in S : next[t] \in S
      BY <2>2, <1>7
    <3>2. S = Ring
      BY <3>1 DEF Inv, RingWhole
    <3> QED BY <3>2, <1>1
  <2> QED BY <2>1, <2>2
<1>10. DeadListed'
  <2>1. dead_threads' = thread /\ thread \notin Dead /\ thread # NULL
    BY <1>1 DEF UnlinkThread, Dead, Inv, TypeOK
  <2>2. \A t \in Dead : next[t] \in Dead \cup {NULL} /\ next[t] # dead_threads
    BY DEF Inv, DeadListed
  <2>3. dead_threads \in Dead \cup {NULL}
    BY DEF Inv, DeadListed
  <2>4. \A t \in Dead \cup {thread} :
          next'[t] \in Dead \cup {NULL} /\ next'[t] # thread
    BY <2>1, <2>2, <2>3, <1>7
  <2>5. ASSUME NEW t \in Dead \cup {thread}, NEW u \in Dead \cup {thread},
               next'[t] = next'[u], next'[t] # NULL
        PROVE  t = u
    <3>1. CASE t \in Dead /\ u \in Dead
      BY <3>1, <2>5, <1>7 DEF Inv, DeadListed
    <3>2. CASE t = thread \/ u = thread
      BY <3>2, <2>5, <2>2, <1>7
    <3> QED BY <3>1, <3>2
  <2>6. ASSUME NEW S \in SUBSET (Dead \cup {thread}), thread \in S,
               \A t \in S : next'[t] \in S \cup {NULL}
        PROVE  S = Dead \cup {thread}
    <3> DEFINE Q == S \ {thread}
    <3>1. Q \in SUBSET Dead /\ dead_threads \in Q \cup {NULL}
      BY <2>6, <2>3, <2>1, <1>7
    <3>2. \A t \in Q : next[t] \in Q \cup {NULL}
      BY <2>6, <2>2, <2>1, <1>7
    <3>3. Q = Dead
      <4>1. CASE dead_threads = NULL
        BY <4>1, <3>1 DEF Inv, DeadListed
      <4>2. CASE dead_threads # NULL
        BY <4>2, <3>1, <3>2 DEF Inv, DeadListed
      <4> QED BY <4>1, <4>2
    <3> QED BY <3>3, <2>6
  <2> QED BY <1>5, <2>1, <2>4, <2>5, <2>6 DEF DeadListed
<1> QED BY <1>3, <1>4, <1>5, <1>8, <1>9, <1>10 DEF Lists

-----------------------------------------------------------------------------
(* The whole invariant.  In every step but thread_create and the unlinking of a  *)
(* dead thread, the sets Ring and Dead stay what they are.                       *)

\* Ring and Dead are the same sets before and after every step that neither creates
\* nor unlinks a thread.
LEMMA SetsStay ==
  ASSUME Inv,
         \/ Compute
         \/ \E w \in Words, v \in StoreValues : Store(w, v)
         \/ \E c \in Calls : FutexWaitAgain(c) \/ FutexWaitBlock(c) \/ FutexWaitReturn(c)
         \/ \E p \in Words \cup {NULL} : ThreadExit(p)
         \/ ReturnFromTop \/ BasicExit \/ Stop \/ KeepThread
         \/ ScheduleRunning \/ ScheduleTimedOut \/ ScheduleSkip \/ Tick
  PROVE  /\ Ring' = Ring /\ Dead' = Dead /\ UNCHANGED ring
         /\ OnlyCurrentThreadDies'
<1> USE ThreadsAssumption DEF Inv, TypeOK, OnlyCurrentThreadDies, Ring, Dead
<1>1. CASE Compute
  BY <1>1 DEF Compute, AtOtherInstruction, InQuantum
<1>2. ASSUME NEW w \in Words, NEW v \in StoreValues, Store(w, v)
      PROVE  Ring' = Ring /\ Dead' = Dead /\ UNCHANGED ring /\ OnlyCurrentThreadDies'
  BY <1>2 DEF Store, AtOtherInstruction, InQuantum
<1>3. ASSUME NEW c \in Calls, FutexWaitAgain(c)
      PROVE  Ring' = Ring /\ Dead' = Dead /\ UNCHANGED ring /\ OnlyCurrentThreadDies'
  BY <1>3 DEF FutexWaitAgain, AtFutexWait, InQuantum
<1>4. ASSUME NEW c \in Calls, FutexWaitBlock(c)
      PROVE  Ring' = Ring /\ Dead' = Dead /\ UNCHANGED ring /\ OnlyCurrentThreadDies'
  BY <1>4 DEF FutexWaitBlock, AtFutexWait, InQuantum
<1>5. ASSUME NEW c \in Calls, FutexWaitReturn(c)
      PROVE  Ring' = Ring /\ Dead' = Dead /\ UNCHANGED ring /\ OnlyCurrentThreadDies'
  BY <1>5 DEF FutexWaitReturn, AtFutexWait, InQuantum
<1>6. ASSUME NEW p \in Words \cup {NULL}, ThreadExit(p)
      PROVE  Ring' = Ring /\ Dead' = Dead /\ UNCHANGED ring /\ OnlyCurrentThreadDies'
  BY <1>6 DEF ThreadExit, AtOtherInstruction, InQuantum
<1>7. CASE ReturnFromTop
  BY <1>7 DEF ReturnFromTop, AtOtherInstruction, InQuantum
<1>8. CASE BasicExit
  BY <1>8 DEF BasicExit, AtOtherInstruction, InQuantum
<1>9. CASE Stop
  BY <1>9 DEF Stop, QuantumOver
<1>10. CASE KeepThread
  <2>1. next[thread] \in Ring
    BY DEF RingLinked
  <2> QED BY <1>10, <2>1 DEF KeepThread, QuantumOver
<1>11. CASE ScheduleRunning
  BY <1>11 DEF ScheduleRunning
<1>12. CASE ScheduleTimedOut
  BY <1>12 DEF ScheduleTimedOut
<1>13. CASE ScheduleSkip
  <2>1. next[thread] \in Ring
    BY DEF RingLinked
  <2> QED BY <1>13, <2>1 DEF ScheduleSkip
<1>14. CASE Tick
  BY <1>14 DEF Tick
<1> QED
  BY <1>1, <1>2, <1>3, <1>4, <1>5, <1>6, <1>7, <1>8, <1>9, <1>10, <1>11, <1>12,
     <1>13, <1>14

\* A wakeup stays with the call it was given for, in every step.
LEMMA WakeupsStep ==
  ASSUME TypeOK, WakeupsMatchCalls, [Next]_vars
  PROVE  WakeupsMatchCalls'
<1> USE ThreadsAssumption DEF TypeOK, WakeupsMatchCalls
<1>1. CASE Compute
  BY <1>1 DEF Compute, AtOtherInstruction, InQuantum
<1>2. ASSUME NEW w \in Words, NEW v \in StoreValues, Store(w, v)
      PROVE  WakeupsMatchCalls'
  BY <1>2 DEF Store, AtOtherInstruction, InQuantum
<1>3. ASSUME NEW c \in Calls, FutexWaitAgain(c) PROVE WakeupsMatchCalls'
  BY <1>3 DEF FutexWaitAgain, AtFutexWait, InQuantum
<1>4. ASSUME NEW c \in Calls, FutexWaitBlock(c) PROVE WakeupsMatchCalls'
  BY <1>4, CallsAssumption DEF FutexWaitBlock, AtFutexWait, InQuantum
<1>5. ASSUME NEW c \in Calls, FutexWaitReturn(c) PROVE WakeupsMatchCalls'
  BY <1>5 DEF FutexWaitReturn, AtFutexWait, InQuantum
<1>6. ASSUME NEW a \in Words, NEW n \in NWakes, NEW p \in Words,
             FutexWake(a, n, p)
      PROVE  WakeupsMatchCalls'
  <2>1. /\ UNCHANGED <<call, wait_addr>>
        /\ \A t \in Threads :
             \/ state'[t] = state[t] /\ futex_state'[t] = futex_state[t]
             \/ /\ state[t] = "BLOCKED"
                /\ state'[t] = "RUNNING" /\ futex_state'[t] = "WOKEN"
    BY <1>6 DEF FutexWake, IsWaiting
  <2> QED BY <2>1
<1>7. ASSUME NEW u \in Threads, ThreadCreate(u) PROVE WakeupsMatchCalls'
  BY <1>7 DEF ThreadCreate, AtOtherInstruction, InQuantum
<1>8. ASSUME NEW p \in Words \cup {NULL}, ThreadExit(p) PROVE WakeupsMatchCalls'
  BY <1>8 DEF ThreadExit, AtOtherInstruction, InQuantum
<1>9. CASE ReturnFromTop
  BY <1>9 DEF ReturnFromTop, AtOtherInstruction, InQuantum
<1>10. CASE BasicExit
  BY <1>10 DEF BasicExit, AtOtherInstruction, InQuantum
<1>11. CASE Stop \/ KeepThread \/ UnlinkThread
  BY <1>11 DEF Stop, KeepThread, UnlinkThread, QuantumOver
<1>12. CASE ScheduleRunning \/ ScheduleSkip \/ Tick \/ Terminated
  BY <1>12 DEF ScheduleRunning, ScheduleSkip, Tick, Terminated, vars
<1>13. CASE ScheduleTimedOut
  BY <1>13 DEF ScheduleTimedOut
<1>14. CASE UNCHANGED vars
  BY <1>14 DEF vars
<1> QED
  BY <1>1, <1>2, <1>3, <1>4, <1>5, <1>6, <1>7, <1>8, <1>9, <1>10, <1>11, <1>12,
     <1>13, <1>14 DEF Next, RunStep, Instruction

\* Every step of the executor keeps the whole invariant.
LEMMA InvStep == Inv /\ [Next]_vars => Inv'
<1> SUFFICES ASSUME Inv, [Next]_vars PROVE Inv'
  OBVIOUS
<1>1. LinkedThread
  BY DEF Inv, OnlyCurrentThreadDies, RingLinked, Ring, LinkedThread
<1>2. TypeOK' /\ WakeupsMatchCalls'
  BY <1>1, TypeStep, WakeupsStep DEF Inv
<1>3. Lists
  BY DEF Inv, Lists
<1>4. ASSUME UNCHANGED ring, Ring' = Ring, Dead' = Dead PROVE Lists'
  BY <1>3, <1>4, ListsStay
<1>5. ASSUME NEW a \in Words, NEW n \in NWakes, NEW p \in Words,
             FutexWake(a, n, p)
      PROVE  Lists' /\ OnlyCurrentThreadDies'
  <2>1. /\ UNCHANGED <<ring, thread, pc, exiting>> /\ state[thread] = "RUNNING"
        /\ \A t \in Threads :
             state'[t] = state[t] \/ (state[t] = "BLOCKED" /\ state'[t] = "RUNNING")
    BY <1>5 DEF FutexWake, IsWaiting, AtOtherInstruction, InQuantum, Inv, TypeOK
  <2>2. Ring' = Ring /\ Dead' = Dead
    BY <2>1 DEF Ring, Dead
  <2>3. OnlyCurrentThreadDies'
    BY <2>1, <2>2, ThreadsAssumption DEF Inv, TypeOK, OnlyCurrentThreadDies, Ring
  <2> QED BY <2>1, <2>2, <2>3, <1>4
<1>6. ASSUME NEW u \in Threads, ThreadCreate(u)
      PROVE  Lists' /\ OnlyCurrentThreadDies'
  <2>1. Lists' /\ Ring' = Ring \cup {u} /\ u \notin Ring
    BY <1>6, ListsCreate
  <2>2. /\ UNCHANGED <<thread, pc, exiting>> /\ state' = [state EXCEPT ![u] = "RUNNING"]
        /\ state[thread] = "RUNNING"
    BY <1>6 DEF ThreadCreate, AtOtherInstruction, InQuantum
  <2>3. OnlyCurrentThreadDies'
    BY <2>1, <2>2, ThreadsAssumption DEF Inv, TypeOK, OnlyCurrentThreadDies, Ring
  <2> QED BY <2>1, <2>3
<1>7. CASE UnlinkThread
  <2>1. Lists' /\ Ring' = Ring \ {thread} /\ next[thread] \in Ring \ {thread}
    BY <1>7, ListsUnlink
  <2>2. OnlyCurrentThreadDies'
    BY <1>7, <2>1, ThreadsAssumption
       DEF UnlinkThread, QuantumOver, Inv, TypeOK, OnlyCurrentThreadDies
  <2> QED BY <1>2, <2>1, <2>2 DEF Inv, Lists
<1>8. CASE Terminated \/ UNCHANGED vars
  <2>1. UNCHANGED vars
    BY <1>8 DEF Terminated
  <2>2. Ring' = Ring /\ Dead' = Dead
    BY <2>1 DEF vars, Ring, Dead
  <2>3. OnlyCurrentThreadDies'
    BY <2>1, <2>2 DEF vars, Inv, OnlyCurrentThreadDies
  <2> QED BY <1>2, <1>4, <2>1, <2>2, <2>3 DEF vars, Inv, Lists
<1>9. CASE \/ Compute
           \/ \E w \in Words, v \in StoreValues : Store(w, v)
           \/ \E c \in Calls : FutexWaitAgain(c) \/ FutexWaitBlock(c) \/ FutexWaitReturn(c)
           \/ \E p \in Words \cup {NULL} : ThreadExit(p)
           \/ ReturnFromTop \/ BasicExit \/ Stop \/ KeepThread
           \/ ScheduleRunning \/ ScheduleTimedOut \/ ScheduleSkip \/ Tick
  BY <1>9, <1>2, <1>4, SetsStay DEF Inv, Lists
<1> QED
  BY <1>2, <1>5, <1>6, <1>7, <1>8, <1>9 DEF Next, RunStep, Instruction, Inv, Lists

-----------------------------------------------------------------------------
\* Every reachable state of the interpreter's thread bookkeeping is well typed.
THEOREM TypeCorrect == Spec => []TypeOK
<1>1. Init => Inv
  BY InvInit
<1>2. Inv /\ [Next]_vars => Inv'
  BY InvStep
<1>3. Inv => TypeOK
  BY DEF Inv
<1> QED BY <1>1, <1>2, <1>3, PTL DEF Spec

\* For any number of threads, through any sequence of thread_create, thread_exit,
\* top-level returns and reuse of dead structs, the executing threads are linked both
\* ways and the dead ones are one list, which shares no thread with them.
THEOREM ListsCorrect == Spec => []ListsLinked
<1>1. Init => Inv
  BY InvInit
<1>2. Inv /\ [Next]_vars => Inv'
  BY InvStep
<1>3. Inv => ListsLinked
  BY DEF Inv, ListsLinked
<1> QED BY <1>1, <1>2, <1>3, PTL DEF Spec

\* Through all of that the ring stays one cycle: whoever follows next comes to every
\* executing thread.
THEOREM RingCorrect == Spec => []RingWhole
<1>1. Init => Inv
  BY InvInit
<1>2. Inv /\ [Next]_vars => Inv'
  BY InvStep
<1>3. Inv => RingWhole
  BY DEF Inv
<1> QED BY <1>1, <1>2, <1>3, PTL DEF Spec

\* The comment and the asserts of pn_executor_run_step hold: only the current
\* thread can be dead in the ring, the scan never meets a dead thread, and the
\* start thread dies only with the program.
THEOREM DeathCorrect == Spec => []OnlyCurrentThreadDies
<1>1. Init => Inv
  BY InvInit
<1>2. Inv /\ [Next]_vars => Inv'
  BY InvStep
<1>3. Inv => OnlyCurrentThreadDies
  BY DEF Inv
<1> QED BY <1>1, <1>2, <1>3, PTL DEF Spec

\* No futex_wait ever consumes a wakeup or a timeout that was meant for another.
THEOREM WakeupsCorrect == Spec => []WakeupsMatchCalls
<1>1. Init => Inv
  BY InvInit
<1>2. Inv /\ [Next]_vars => Inv'
  BY InvStep
<1>3. Inv => WakeupsMatchCalls
  BY DEF Inv
<1> QED BY <1>1, <1>2, <1>3, PTL DEF Spec

\* After exit, trap or the return of the start thread, nothing the guest can see
\* changes any more.
THEOREM ExitCorrect == Spec => ExitIsFinal
<1>1. Init => Inv
  BY InvInit
<1>2. Inv /\ [Next]_vars => Inv'
  BY InvStep
<1>3. Inv /\ [Next]_vars
        => [exiting => UNCHANGED <<exiting, state, futexes, ring, guest>>]_vars
  <2> SUFFICES ASSUME Inv, [Next]_vars, exiting
               PROVE  UNCHANGED <<exiting, state, futexes, ring, guest>>
    OBVIOUS
  <2>1. state[thread] = "DEAD" /\ pc # "schedule"
    BY DEF Inv, OnlyCurrentThreadDies
  <2>2. ~InQuantum /\ ~KeepThread /\ ~UnlinkThread
    BY <2>1 DEF InQuantum, KeepThread, UnlinkThread
  <2>3. ~Instruction
    BY <2>2 DEF Instruction, Compute, Store, FutexWaitAgain, FutexWaitBlock,
       FutexWaitReturn, FutexWake, ThreadCreate, ThreadExit, ReturnFromTop, BasicExit,
       AtOtherInstruction, AtFutexWait
  <2>4. ~ScheduleRunning /\ ~ScheduleTimedOut /\ ~ScheduleSkip
    BY <2>1 DEF ScheduleRunning, ScheduleTimedOut, ScheduleSkip
  <2>5. CASE Stop
    BY <2>5 DEF Stop, QuantumOver
  <2>6. CASE Tick
    BY <2>6 DEF Tick
  <2>7. CASE Terminated \/ UNCHANGED vars
    BY <2>7 DEF Terminated, vars
  <2> QED BY <2>2, <2>3, <2>4, <2>5, <2>6, <2>7 DEF Next, RunStep
<1> QED BY <1>1, <1>2, <1>3, PTL DEF Spec, ExitIsFinal

-----------------------------------------------------------------------------
(* The refinement.  futex_wake follows next from the current thread until it is *)
(* back: it comes to every other thread of the ring exactly once.               *)

N == Cardinality(Threads)

\* The steps of the walk before it comes back to t.
Before(t) == {k \in 1..N : \A j \in 1..k : Walk(t)[j] # t}

\* The walk follows next and stays in the ring.
LEMMA WalkFollows ==
  ASSUME Inv
  PROVE  LET w == Walk(thread) IN
         /\ N \in Nat /\ w[0] = thread
         /\ \A k \in 0..N : w[k] \in Ring
         /\ \A k \in 1..N : w[k] = next[w[k - 1]]
<1> DEFINE g == [t \in Ring |-> next[t]]
           W(f) == f = [k \in 0..Cardinality(Threads) |-> IF k = 0 THEN thread ELSE next[f[k - 1]]]
<1>1. thread \in Ring /\ g \in [Ring -> Ring] /\ N \in Nat
  <2>1. N \in Nat
    BY ThreadsAssumption, FS_CardinalityType DEF N
  <2> QED BY <2>1 DEF Inv, OnlyCurrentThreadDies, RingLinked
<1>2. PICK f : Repeats(f, N, g, thread) /\ \A k \in 0..N : f[k] \in Ring
  <2> HIDE DEF g
  <2> QED BY <1>1, Repeated
<1>3. /\ f = [k \in 0..N |-> f[k]] /\ f[0] = thread
      /\ \A k \in 1..N : f[k] = next[f[k - 1]]
  <2>1. \A k \in 1..N : k - 1 \in 0..N
    BY <1>1
  <2> QED BY <1>2, <2>1 DEF Repeats
<1>4. W(f)
  <2>1. \A k \in 0..N : k # 0 => k \in 1..N
    BY <1>1
  <2> QED BY <1>3, <2>1 DEF N
<1>5. W(Walk(thread))
  <2>1. Walk(thread) = CHOOSE h : W(h)
    BY DEF Walk
  <2> HIDE DEF W
  <2> QED BY <1>4, <2>1
<1> DEFINE w == Walk(thread)
           Good == {k \in 0..N : w[k] \in Ring}
<1>6. w[0] = thread /\ \A k \in 1..N : w[k] = next[w[k - 1]]
  <2> HIDE DEF w
  <2> QED BY <1>1, <1>5 DEF N, w
<1>7. 0 \in Good
  BY <1>1, <1>6
<1>8. ASSUME NEW k \in 0..N, k < N, k \in Good PROVE k + 1 \in Good
  <2>1. k + 1 \in 1..N /\ k + 1 \in 0..N /\ (k + 1) - 1 = k
    BY <1>1, <1>8
  <2>2. w[k + 1] = next[w[k]]
    BY <1>6, <2>1
  <2>3. w[k] \in Ring
    BY <1>8
  <2>4. w[k + 1] \in Ring
    BY <2>2, <2>3 DEF Inv, RingLinked
  <2> QED BY <2>1, <2>4
<1>9. \A k \in 0..N : k \in Good
  <2> HIDE DEF Good
  <2> QED BY <1>1, <1>7, <1>8, NatSetUpTo
<1> QED BY <1>1, <1>6, <1>9

\* The walk comes to no thread twice before it is back.
LEMMA WalkApart ==
  ASSUME Inv, NEW i \in Before(thread), NEW j \in Before(thread), i < j
  PROVE  Walk(thread)[i] # Walk(thread)[j]
<1> DEFINE w == Walk(thread)
           Good == {d \in 0..i : w[i - d] = w[j - d]}
<1>1. /\ i \in Nat /\ j \in 1..N /\ N \in Nat /\ w[0] = thread
      /\ \A k \in 0..N : w[k] \in Ring
      /\ \A k \in 1..N : w[k] = next[w[k - 1]]
  BY WalkFollows DEF Before
<1> SUFFICES ASSUME w[i] = w[j] PROVE FALSE
  OBVIOUS
<1> HIDE DEF w
<1>2. 0 \in Good
  BY <1>1
<1>3. ASSUME NEW d \in 0..i, d < i, d \in Good PROVE d + 1 \in Good
  <2>1. /\ d + 1 \in 0..i /\ i - d \in 1..N /\ j - d \in 1..N
        /\ (i - d) - 1 = i - (d + 1) /\ (j - d) - 1 = j - (d + 1)
        /\ i - (d + 1) \in 0..N /\ j - (d + 1) \in 0..N
    BY <1>1, <1>3
  <2>2. w[i - d] = next[w[i - (d + 1)]] /\ w[j - d] = next[w[j - (d + 1)]]
    BY <1>1, <2>1
  <2>3. w[i - (d + 1)] \in Ring /\ w[j - (d + 1)] \in Ring
    BY <1>1, <2>1
  <2>4. w[i - d] = w[j - d]
    BY <1>3
  <2>5. \A t \in Ring : prev[next[t]] = t
    BY DEF Inv, RingLinked
  <2>6. w[i - (d + 1)] = w[j - (d + 1)]
    BY <2>2, <2>3, <2>4, <2>5
  <2> QED BY <2>1, <2>6
<1>4. i \in Good
  <2>1. i \in 0..i
    BY <1>1
  <2> HIDE DEF Good
  <2> QED BY <1>1, <1>2, <1>3, <2>1, NatSetUpTo
<1>5. j - i \in 1..j /\ i - i = 0
  BY <1>1
<1>6. w[j - i] = thread
  BY <1>1, <1>4, <1>5
<1> QED BY <1>5, <1>6 DEF Before, w

\* And it does come to every other thread of the ring.
LEMMA WalkCovers ==
  ASSUME Inv, NEW u \in Ring, u # thread
  PROVE  \E k \in Before(thread) : Walk(thread)[k] = u
<1> DEFINE w == Walk(thread)
           S == {thread} \cup {w[k] : k \in Before(thread)}
<1>1. /\ N \in Nat /\ w[0] = thread
      /\ \A k \in 0..N : w[k] \in Ring
      /\ \A k \in 1..N : w[k] = next[w[k - 1]]
  BY WalkFollows
<1>2. N \notin Before(thread)
  <2> SUFFICES ASSUME N \in Before(thread) PROVE FALSE
    OBVIOUS
  <2>1. \A k \in 1..N : k \in Before(thread)
    BY <1>1 DEF Before
  <2> DEFINE f == [k \in 1..N |-> w[k]]
             T == Threads \ {thread}
  <2>2. f \in [1..N -> T]
    BY <1>1, <2>1 DEF Ring, Before
  <2>3. \A a, b \in 1..N : f[a] = f[b] => a = b
    <3> SUFFICES ASSUME NEW a \in 1..N, NEW b \in 1..N, a # b PROVE f[a] # f[b]
      OBVIOUS
    <3>1. a < b \/ b < a
      BY <1>1
    <3>2. w[a] # w[b]
      BY <2>1, <3>1, WalkApart
    <3> QED BY <3>2
  <2>4. f \in Injection(1..N, T)
    BY <2>2, <2>3 DEF Injection, IsInjective
  <2>5. thread \in Threads
    BY DEF Inv, TypeOK
  <2>6. IsFiniteSet(T) /\ Cardinality(T) = N - 1
    BY <2>5, ThreadsAssumption, FS_RemoveElement DEF N
  <2>7. Cardinality(1..N) = N
    <3>1. N \in Nat
      BY <1>1
    <3> QED BY <3>1, FS_Interval
  <2>8. Cardinality(1..N) <= Cardinality(T)
    <3> HIDE DEF f, T
    <3> QED BY <2>4, <2>6, FS_Injection
  <2> QED BY <1>1, <2>6, <2>7, <2>8
<1>3. S \in SUBSET Ring /\ S # {}
  <2>1. \A k \in Before(thread) : k \in 0..N
    BY <1>1 DEF Before
  <2>2. thread \in Ring
    BY <1>1
  <2> HIDE DEF w
  <2> QED BY <1>1, <2>1, <2>2
<1>4. ASSUME NEW k \in Before(thread) \cup {0} PROVE next[w[k]] \in S
  <2>1. k \in 0..N /\ k # N
    <3>1. CASE k = 0
      <4>1. N # 0
        BY <1>1, ThreadsAssumption, FS_EmptySet DEF N
      <4> QED BY <1>1, <3>1, <4>1
    <3>2. CASE k \in Before(thread)
      BY <1>2, <3>2 DEF Before
    <3> QED BY <3>1, <3>2
  <2>2. k + 1 \in 1..N /\ (k + 1) - 1 = k
    BY <1>1, <2>1
  <2>3. next[w[k]] = w[k + 1]
    BY <1>1, <2>2
  <2>4. CASE w[k + 1] = thread
    BY <2>3, <2>4
  <2>5. CASE w[k + 1] # thread
    <3>1. \A j \in 1..(k + 1) : j = k + 1 \/ j \in 1..k
      BY <2>1
    <3>2. \A j \in 1..k : w[j] # thread
      BY <1>1, <2>1 DEF Before
    <3>3. k + 1 \in Before(thread)
      BY <2>2, <2>5, <3>1, <3>2 DEF Before
    <3> HIDE DEF w
    <3> QED BY <2>3, <3>3
  <2> QED BY <2>4, <2>5
<1>5. ASSUME NEW t \in S PROVE next[t] \in S
  <2>1. PICK k \in Before(thread) \cup {0} : t = w[k]
    <3> HIDE DEF w
    <3> QED BY <1>1
  <2> HIDE DEF S, w
  <2> QED BY <1>4, <2>1
<1>6. S = Ring
  <2> HIDE DEF S
  <2> QED BY <1>3, <1>5 DEF Inv, RingWhole
<1> QED BY <1>6

\* Thread u waits for a wake of addr_p by t.
Waiters(t, addr_p) == {u \in Threads \ {t} : IsWaiting(u, addr_p)}

\* futex_wake finds as many waiters as there are, up to nwake, each once.
LEMMA WakeCounts ==
  ASSUME Inv, NEW a \in Words, NEW n \in Nat,
         NEW woken, woken = {u \in Waiters(thread, a) :
                               \E k \in WakeSteps(thread, a, n) : Walk(thread)[k] = u}
  PROVE  LET steps == WakeSteps(thread, a, n)
             all   == Cardinality(Waiters(thread, a))
         IN  /\ Cardinality(woken) = Cardinality(steps)
             /\ Cardinality(steps) = (IF n <= all THEN n ELSE all) /\ all \in Nat
<1> DEFINE w == Walk(thread)
           A == {k \in Before(thread) : IsWaiting(w[k], a)}
           steps == WakeSteps(thread, a, n)
           first == {k \in A : Cardinality({j \in A : j < k}) < n}
<1>1. N \in Nat /\ \A k \in 0..N : w[k] \in Ring
  BY WalkFollows
<1>2. A \in SUBSET (1..N)
  BY DEF Before
<1>3. \A k \in Before(thread) : w[k] \in Threads \ {thread}
  <2>1. \A k \in Before(thread) : k \in 1..N /\ k \in 0..N /\ k \in 1..k
    BY <1>1 DEF Before
  <2> QED BY <1>1, <2>1 DEF Before, Ring
<1>4. \A k \in A : w[k] \in Waiters(thread, a)
  BY <1>3 DEF Waiters
<1>5. \A i, j \in A : w[i] = w[j] => i = j
  <2> SUFFICES ASSUME NEW i \in A, NEW j \in A, i # j PROVE w[i] # w[j]
    OBVIOUS
  <2>1. i \in 1..N /\ j \in 1..N
    BY <1>2
  <2>2. i < j \/ j < i
    BY <1>1, <2>1
  <2>3. i \in Before(thread) /\ j \in Before(thread)
    OBVIOUS
  <2> QED BY <2>2, <2>3, WalkApart
<1>6. \A u \in Waiters(thread, a) : \E k \in A : w[k] = u
  <2> SUFFICES ASSUME NEW u \in Waiters(thread, a) PROVE \E k \in A : w[k] = u
    OBVIOUS
  <2>1. u \in Ring /\ u # thread /\ IsWaiting(u, a)
    BY DEF Waiters, IsWaiting, Ring
  <2>2. PICK k \in Before(thread) : w[k] = u
    BY <2>1, WalkCovers
  <2> QED BY <2>1, <2>2
<1>7. steps = first
  <2>1. ASSUME NEW k \in Before(thread)
        PROVE  {j \in 1..(k - 1) : IsWaiting(w[j], a)} = {j \in A : j < k}
    <3>1. k \in 1..N
      BY DEF Before
    <3>2. \A j \in 1..(k - 1) : j \in Before(thread) /\ j < k
      BY <1>1, <3>1 DEF Before
    <3>3. \A j \in A : j < k => j \in 1..(k - 1)
      BY <1>1, <1>2, <3>1
    <3> QED BY <3>2, <3>3
  <2>2. \A k : k \in steps <=> /\ k \in Before(thread) /\ IsWaiting(w[k], a)
                               /\ Cardinality({j \in 1..(k - 1) : IsWaiting(w[j], a)}) < n
    BY DEF WakeSteps, Before, N
  <2>3. \A k : k \in first <=> /\ k \in Before(thread) /\ IsWaiting(w[k], a)
                               /\ Cardinality({j \in A : j < k}) < n
    OBVIOUS
  <2>4. \A k : k \in steps <=> k \in first
    BY <2>1, <2>2, <2>3, Zenon
  <2> HIDE DEF steps, first
  <2> QED BY <2>4, Zenon
<1>8. IsFiniteSet(A) /\ first \in SUBSET A
  <2>1. IsFiniteSet(1..N)
    BY <1>1, FS_Interval
  <2> HIDE DEF A
  <2> QED BY <1>2, <2>1, FS_Subset
<1> HIDE DEF A, w
<1>9. Cardinality(first) = IF n <= Cardinality(A) THEN n ELSE Cardinality(A)
  BY <1>1, <1>2, FirstFew
<1>10. Cardinality(A) = Cardinality(Waiters(thread, a)) /\ Cardinality(A) \in Nat
  <2>1. Cardinality(A) \in Nat
    BY <1>8, FS_CardinalityType
  <2>2. Cardinality(A) = Cardinality(Waiters(thread, a))
    BY <1>4, <1>5, <1>6, <1>8, SameCount
  <2> QED BY <2>1, <2>2
<1> HIDE DEF first
<1>11. Cardinality(first) = Cardinality(woken)
  <2>1. IsFiniteSet(first)
    BY <1>8, FS_Subset
  <2>2. /\ \A k \in first : w[k] \in woken
        /\ \A u \in woken : \E k \in first : w[k] = u
    BY <1>4, <1>7, <1>8 DEF w
  <2>3. \A i, j \in first : w[i] = w[j] => i = j
    BY <1>5, <1>8
  <2> QED BY <2>1, <2>2, <2>3, SameCount
<1> QED BY <1>7, <1>9, <1>10, <1>11

-----------------------------------------------------------------------------
(* What Inv does not say of the calls that threads stand at: a struct that is not     *)
(* executing stands at none, and a blocked thread waits until the deadline of its own. *)

CallsKept ==
  \A t \in Threads :
    /\ state[t] \in {"UNALLOCATED", "DEAD"} => call[t] = NULL
    /\ state[t] = "BLOCKED" => timeout[t] = call[t].abstime

\* Every step keeps that.
LEMMA CallsKeptStep ==
  ASSUME TypeOK, WakeupsMatchCalls, CallsKept, [Next]_vars
  PROVE  CallsKept'
<1> USE ThreadsAssumption DEF TypeOK, CallsKept
<1>1. CASE Compute
  BY <1>1 DEF Compute, AtOtherInstruction, InQuantum
<1>2. ASSUME NEW w \in Words, NEW v \in StoreValues, Store(w, v) PROVE CallsKept'
  BY <1>2 DEF Store, AtOtherInstruction, InQuantum
<1>3. ASSUME NEW c \in Calls, FutexWaitAgain(c) PROVE CallsKept'
  BY <1>3 DEF FutexWaitAgain, AtFutexWait, InQuantum
<1>4. ASSUME NEW c \in Calls, FutexWaitBlock(c) PROVE CallsKept'
  BY <1>4 DEF FutexWaitBlock, AtFutexWait, InQuantum
<1>5. ASSUME NEW c \in Calls, FutexWaitReturn(c) PROVE CallsKept'
  BY <1>5 DEF FutexWaitReturn, AtFutexWait, InQuantum
<1>6. ASSUME NEW a \in Words, NEW n \in NWakes, NEW p \in Words,
             FutexWake(a, n, p)
      PROVE  CallsKept'
  <2>1. /\ UNCHANGED <<call, timeout>>
        /\ \A t \in Threads : state'[t] = state[t] \/ state'[t] = "RUNNING"
    BY <1>6 DEF FutexWake
  <2> QED BY <2>1
<1>7. ASSUME NEW u \in Threads, ThreadCreate(u) PROVE CallsKept'
  BY <1>7 DEF ThreadCreate, AtOtherInstruction, InQuantum
<1>8. ASSUME NEW p \in Words \cup {NULL}, ThreadExit(p) PROVE CallsKept'
  BY <1>8 DEF ThreadExit, AtOtherInstruction, InQuantum
<1>9. CASE ReturnFromTop \/ BasicExit
  BY <1>9 DEF ReturnFromTop, BasicExit, AtOtherInstruction, InQuantum
<1>10. CASE Stop \/ KeepThread \/ UnlinkThread
  BY <1>10 DEF Stop, KeepThread, UnlinkThread, QuantumOver
<1>11. CASE ScheduleRunning \/ ScheduleSkip \/ Tick \/ Terminated \/ UNCHANGED vars
  BY <1>11 DEF ScheduleRunning, ScheduleSkip, Tick, Terminated, vars
<1>12. CASE ScheduleTimedOut
  BY <1>12 DEF ScheduleTimedOut
<1> QED
  BY <1>1, <1>2, <1>3, <1>4, <1>5, <1>6, <1>7, <1>8, <1>9, <1>10, <1>11, <1>12
     DEF Next, RunStep, Instruction
-----------------------------------------------------------------------------
(* The steps of the refinement.                                             *)

\* The wait that a call stands for.
WaitOf(c) == IF c = NULL THEN NULL ELSE [addr |-> c.addr, abstime |-> c.abstime]

AnswerOf(f) == IF f = "NONE" THEN NULL ELSE IF f = "WOKEN" THEN "0" ELSE "ETIMEDOUT"

\* What the guest sees, thread by thread, before and after a step.
LEMMA SeenByGuest ==
  /\ wait = [t \in Threads |-> WaitOf(call[t])]
  /\ TypeOK => answer = [t \in Threads |-> AnswerOf(futex_state[t])]
  /\ wait' = [t \in Threads |-> WaitOf(call'[t])]
  /\ TypeOK' => answer' = [t \in Threads |-> AnswerOf(futex_state'[t])]
<1>1. \A f \in FutexStates : AnswerOf(f) = CASE f = "NONE"     -> NULL
                                             [] f = "WOKEN"    -> "0"
                                             [] f = "TIMEDOUT" -> "ETIMEDOUT"
  BY DEF AnswerOf, FutexStates
<1>2. TypeOK => answer = [t \in Threads |-> AnswerOf(futex_state[t])]
  BY <1>1 DEF answer, TypeOK
<1>3. TypeOK' => answer' = [t \in Threads |-> AnswerOf(futex_state'[t])]
  BY <1>1 DEF answer, TypeOK
<1> QED BY <1>2, <1>3 DEF wait, WaitOf

\* A call is a wait, and no wait and no answer is NULL.
LEMMA WaitsExist ==
  /\ \A c \in Calls : /\ WaitOf(c) \in Irt!Waits /\ WaitOf(c) # NULL
                      /\ WaitOf(c).addr = c.addr /\ WaitOf(c).abstime = c.abstime
  /\ WaitOf(NULL) = NULL
  /\ \A f \in FutexStates : AnswerOf(f) = NULL <=> f = "NONE"
<1>1. ASSUME NEW c \in Calls
      PROVE  /\ WaitOf(c) \in Irt!Waits /\ WaitOf(c) # NULL
             /\ WaitOf(c).addr = c.addr /\ WaitOf(c).abstime = c.abstime
  <2>1. c # NULL
    BY CallsAssumption
  <2>2. WaitOf(c) = [addr |-> c.addr, abstime |-> c.abstime]
    BY <2>1 DEF WaitOf
  <2>3. c.addr \in Words /\ c.abstime \in Deadlines \cup {NULL}
    BY DEF Calls
  <2>4. WaitOf(c) \in Irt!Waits
    BY <2>2, <2>3 DEF Irt!Waits
  <2> QED BY <2>2, <2>4, AnswersAssumption
<1>2. WaitOf(NULL) = NULL
  BY DEF WaitOf
<1>3. \A f \in FutexStates : AnswerOf(f) = NULL <=> f = "NONE"
  BY AnswersAssumption DEF AnswerOf, FutexStates
<1> QED BY <1>1, <1>2, <1>3

\* A thread waits in the eyes of the guest when the executor has blocked it.
LEMMA WaitersSame ==
  ASSUME Inv, CallsKept, NEW t \in Threads, NEW a \in Words
  PROVE  {u \in Threads \ {t} : Irt!Waiting(u, a)} = Waiters(t, a)
<1> SUFFICES ASSUME NEW u \in Threads PROVE Irt!Waiting(u, a) <=> IsWaiting(u, a)
  BY Zenon DEF Waiters
<1>1. wait[u] = WaitOf(call[u]) /\ answer[u] = AnswerOf(futex_state[u])
  BY SeenByGuest DEF Inv
<1>2. call[u] \in Calls \cup {NULL} /\ futex_state[u] \in FutexStates /\ state[u] \in ThreadStates
  BY DEF Inv, TypeOK
<1>3. Irt!Waiting(u, a) <=> call[u] # NULL /\ futex_state[u] = "NONE" /\ call[u].addr = a
  BY <1>1, <1>2, WaitsExist, CallsAssumption DEF Irt!Waiting
<1>4. IsWaiting(u, a) <=> call[u] # NULL /\ futex_state[u] = "NONE" /\ call[u].addr = a
  BY <1>2 DEF IsWaiting, Inv, WakeupsMatchCalls, CallsKept, ThreadStates
<1> QED BY <1>3, <1>4

\* The instance counts sets as this module does.
LEMMA SameCardinality == \A S : Irt!Cardinality(S) = Cardinality(S)
BY DEF Irt!Cardinality, Cardinality, Irt!IsFiniteSet, IsFiniteSet

\* futex_wake, by the walk along the ring, is the wake of irt.h.
LEMMA WakeImplements ==
  ASSUME Inv, CallsKept, Inv', NEW a \in Words, NEW n \in NWakes, NEW p \in Words,
         FutexWake(a, n, p)
  PROVE  Irt!Wake(thread, a, n, p)
<1> DEFINE steps == WakeSteps(thread, a, n)
           woken == {u \in Waiters(thread, a) : \E k \in steps : Walk(thread)[k] = u}
<1>1. n \in Nat /\ thread \in Threads
  BY OperandsAssumption DEF Inv, TypeOK
<1>2. /\ Cardinality(woken) = Cardinality(steps)
      /\ Cardinality(steps) = IF n <= Cardinality(Waiters(thread, a)) THEN n
                              ELSE Cardinality(Waiters(thread, a))
      /\ Cardinality(Waiters(thread, a)) \in Nat
  <2> HIDE DEF woken, steps
  <2> QED BY <1>1, WakeCounts DEF woken, steps
<1>3. Cardinality(woken) = Irt!Min({n, Cardinality(Waiters(thread, a))})
  <2> DEFINE c == Cardinality(Waiters(thread, a))
  <2> HIDE DEF c
  <2>1. c \in Nat
    BY <1>2 DEF c
  <2>2. \E x \in {n, c} : \A y \in {n, c} : x <= y
    BY <1>1, <2>1
  <2>3. Irt!Min({n, c}) = IF n <= c THEN n ELSE c
    BY <1>1, <2>1, <2>2 DEF Irt!Min
  <2> QED BY <1>2, <2>3 DEF c
<1>4. \A u \in Threads : u \in woken <=> /\ IsWaiting(u, a)
                                         /\ \E k \in steps : Walk(thread)[k] = u
  <2>1. \A k \in steps : Walk(thread)[k] # thread
    BY DEF WakeSteps
  <2> HIDE DEF steps
  <2> QED BY <2>1 DEF Waiters
<1>5. /\ futex_state' = [u \in Threads |-> IF u \in woken THEN "WOKEN" ELSE futex_state[u]]
      /\ mem' = [mem EXCEPT ![p] = Cardinality(steps)]
      /\ UNCHANGED <<call, ret, clock>>
  <2> HIDE DEF woken, steps
  <2> QED BY <1>4 DEF FutexWake, AtOtherInstruction, InQuantum, steps
<1>6. answer' = [u \in Threads |-> IF u \in woken THEN "0" ELSE answer[u]]
  <2>1. /\ answer = [t \in Threads |-> AnswerOf(futex_state[t])]
        /\ answer' = [t \in Threads |-> AnswerOf(futex_state'[t])]
    BY SeenByGuest DEF Inv
  <2>2. AnswerOf("WOKEN") = "0"
    BY DEF AnswerOf
  <2> HIDE DEF woken
  <2> QED BY <1>5, <2>1, <2>2
<1>7. UNCHANGED wait
  BY <1>5, SeenByGuest
<1>8. woken \in SUBSET Waiters(thread, a)
  OBVIOUS
<1> HIDE DEF woken, steps
<1>9. {u \in Threads \ {thread} : Irt!Waiting(u, a)} = Waiters(thread, a)
  BY <1>1, WaitersSame
<1>10. /\ woken \in SUBSET {u \in Threads \ {thread} : Irt!Waiting(u, a)}
       /\ Irt!Cardinality(woken)
            = Irt!Min({n, Irt!Cardinality({u \in Threads \ {thread} : Irt!Waiting(u, a)})})
  <2>1. /\ Irt!Cardinality(woken) = Cardinality(woken)
        /\ Irt!Cardinality(Waiters(thread, a)) = Cardinality(Waiters(thread, a))
    BY SameCardinality
  <2> QED BY <1>3, <1>8, <1>9, <2>1, Zenon
<1>11. mem' = [mem EXCEPT ![p] = Irt!Cardinality(woken)]
  BY <1>2, <1>5, SameCardinality
<1>12. UNCHANGED <<wait, ret, clock>>
  BY <1>5, <1>7
<1> QED BY <1>6, <1>10, <1>11, <1>12, Zenon DEF Irt!Wake

\* A wait or an answer of one thread changes as its call or its futex_state does.
LEMMA OneThreadSeen ==
  ASSUME TypeOK, TypeOK', NEW t \in Threads
  PROVE  /\ UNCHANGED call => UNCHANGED wait
         /\ UNCHANGED futex_state => UNCHANGED answer
         /\ \A c : call' = [call EXCEPT ![t] = c] => wait' = [wait EXCEPT ![t] = WaitOf(c)]
         /\ \A f : futex_state' = [futex_state EXCEPT ![t] = f]
                     => answer' = [answer EXCEPT ![t] = AnswerOf(f)]
         /\ wait[t] = WaitOf(call[t]) /\ answer[t] = AnswerOf(futex_state[t])
<1>1. /\ wait = [u \in Threads |-> WaitOf(call[u])]
      /\ answer = [u \in Threads |-> AnswerOf(futex_state[u])]
      /\ wait' = [u \in Threads |-> WaitOf(call'[u])]
      /\ answer' = [u \in Threads |-> AnswerOf(futex_state'[u])]
  BY SeenByGuest
<1>2. call \in [Threads -> Calls \cup {NULL}] /\ futex_state \in [Threads -> FutexStates]
  BY DEF TypeOK
<1>3. ASSUME NEW c, call' = [call EXCEPT ![t] = c] PROVE wait' = [wait EXCEPT ![t] = WaitOf(c)]
  BY <1>1, <1>2, <1>3
<1>4. ASSUME NEW f, futex_state' = [futex_state EXCEPT ![t] = f]
      PROVE  answer' = [answer EXCEPT ![t] = AnswerOf(f)]
  BY <1>1, <1>2, <1>4
<1> QED BY <1>1, <1>3, <1>4

\* Every step of the executor is a step of irt.h's futexes, or changes nothing of them.
LEMMA StepImplements ==
  ASSUME Inv, CallsKept, Inv', [Next]_vars
  PROVE  [Irt!Next]_(Irt!vars)
<1>1. TypeOK /\ TypeOK' /\ thread \in Threads /\ WakeupsMatchCalls
  BY DEF Inv, TypeOK
<1>2. /\ UNCHANGED call => UNCHANGED wait
      /\ UNCHANGED futex_state => UNCHANGED answer
  BY <1>1, OneThreadSeen
<1>3. /\ \A c : call' = [call EXCEPT ![thread] = c] => wait' = [wait EXCEPT ![thread] = WaitOf(c)]
      /\ \A f : futex_state' = [futex_state EXCEPT ![thread] = f]
                  => answer' = [answer EXCEPT ![thread] = AnswerOf(f)]
      /\ wait[thread] = WaitOf(call[thread]) /\ answer[thread] = AnswerOf(futex_state[thread])
  BY <1>1, OneThreadSeen
<1>4. CASE UNCHANGED <<call, futex_state, mem, ret, clock>>
  BY <1>2, <1>4 DEF Irt!vars
<1>5. ASSUME NEW w \in Words, NEW v \in StoreValues, Store(w, v) PROVE Irt!Next
  <2>1. Irt!Write(w, v)
    BY <1>2, <1>5 DEF Store, AtOtherInstruction, InQuantum, Irt!Write
  <2> QED BY <2>1 DEF Irt!Next
<1>6. ASSUME NEW c \in Calls, futex_state[thread] = "NONE", AtFutexWait(c)
      PROVE  /\ wait[thread] = NULL /\ call[thread] = NULL
             /\ c.value \in StoreValues /\ WaitOf(c) \in Irt!Waits
             /\ WaitOf(c).addr = c.addr
  <2>1. call[thread] = NULL
    BY <1>1, <1>6 DEF WakeupsMatchCalls, AtFutexWait, InQuantum
  <2> QED BY <1>3, <2>1, WaitsExist DEF Calls
<1>7. ASSUME NEW c \in Calls, FutexWaitAgain(c) PROVE Irt!Next
  <2>1. /\ wait[thread] = NULL /\ call[thread] = NULL
        /\ c.value \in StoreValues /\ WaitOf(c) \in Irt!Waits /\ WaitOf(c).addr = c.addr
    BY <1>6, <1>7 DEF FutexWaitAgain
  <2>2. UNCHANGED call /\ UNCHANGED <<futex_state, mem, clock>>
    BY <1>1, <1>7, <2>1 DEF FutexWaitAgain, AtFutexWait, InQuantum, TypeOK
  <2>3. Irt!WaitAgain(thread, WaitOf(c), c.value)
    BY <1>2, <1>7, <2>1, <2>2 DEF FutexWaitAgain, Irt!WaitAgain
  <2> QED BY <1>1, <2>1, <2>3 DEF Irt!Next
<1>8. ASSUME NEW c \in Calls, FutexWaitBlock(c) PROVE Irt!Next
  <2>1. /\ wait[thread] = NULL /\ call[thread] = NULL
        /\ c.value \in StoreValues /\ WaitOf(c) \in Irt!Waits /\ WaitOf(c).addr = c.addr
    BY <1>6, <1>8 DEF FutexWaitBlock
  <2>2. UNCHANGED <<futex_state, mem, clock>> /\ call' = [call EXCEPT ![thread] = c]
    BY <1>8 DEF FutexWaitBlock, AtFutexWait, InQuantum
  <2>3. Irt!Wait(thread, WaitOf(c), c.value)
    BY <1>2, <1>3, <1>8, <2>1, <2>2 DEF FutexWaitBlock, Irt!Wait
  <2> QED BY <1>1, <2>1, <2>3 DEF Irt!Next
<1>9. ASSUME NEW c \in Calls, FutexWaitReturn(c) PROVE Irt!Next
  <2>1. /\ futex_state[thread] \in FutexStates /\ futex_state[thread] # "NONE"
        /\ call' = [call EXCEPT ![thread] = NULL]
        /\ futex_state' = [futex_state EXCEPT ![thread] = "NONE"]
        /\ UNCHANGED <<mem, clock>>
    BY <1>1, <1>9 DEF FutexWaitReturn, AtFutexWait, InQuantum, TypeOK
  <2>2. answer[thread] # NULL /\ AnswerOf("NONE") = NULL /\ WaitOf(NULL) = NULL
    BY <1>3, <2>1, WaitsExist DEF FutexStates
  <2>3. ret' = [ret EXCEPT ![thread] = answer[thread]]
    BY <1>3, <1>9, <2>1 DEF FutexWaitReturn, AnswerOf, FutexStates
  <2>4. Irt!Return(thread)
    BY <1>3, <2>1, <2>2, <2>3 DEF Irt!Return
  <2> QED BY <1>1, <2>4 DEF Irt!Next
<1>10. ASSUME NEW a \in Words, NEW n \in NWakes, NEW p \in Words, FutexWake(a, n, p)
       PROVE  Irt!Next
  BY <1>1, <1>10, WakeImplements DEF Irt!Next
<1>11. ASSUME NEW u \in Threads, ThreadCreate(u) PROVE Irt!Next
  <2>1. state[u] \in {"DEAD", "UNALLOCATED"}
    BY <1>11 DEF ThreadCreate, NewThreads, Inv, DeadListed, Dead
  <2>2. call[u] = NULL /\ futex_state[u] = "NONE"
    BY <1>1, <2>1 DEF CallsKept, WakeupsMatchCalls
  <2>3. UNCHANGED <<call, futex_state, mem, clock>> /\ ret' = [ret EXCEPT ![u] = NULL]
    BY <1>1, <1>11, <2>2 DEF ThreadCreate, AtOtherInstruction, InQuantum, TypeOK
  <2>4. wait[u] = NULL
    BY <1>1, <2>2, OneThreadSeen, WaitsExist
  <2>5. Irt!Start(u)
    BY <1>2, <2>3, <2>4 DEF Irt!Start
  <2> QED BY <2>5 DEF Irt!Next
<1>12. ASSUME NEW p \in Words \cup {NULL}, ThreadExit(p) PROVE [Irt!Next]_(Irt!vars)
  <2>1. UNCHANGED <<call, futex_state, ret, clock>>
    BY <1>12 DEF ThreadExit, AtOtherInstruction, InQuantum
  <2>2. CASE p = NULL
    BY <1>4, <1>12, <2>1, <2>2 DEF ThreadExit
  <2>3. CASE p # NULL
    <3>1. p \in Words /\ Irt!Write(p, 0)
      BY <1>2, <1>12, <2>1, <2>3 DEF ThreadExit, Irt!Write
    <3> QED BY <3>1 DEF Irt!Next
  <2> QED BY <2>2, <2>3
<1>13. CASE ScheduleTimedOut
  <2>1. /\ state[thread] = "BLOCKED" /\ UNCHANGED <<call, mem, ret, clock>>
        /\ timeout[thread] # NULL /\ clock > timeout[thread]
        /\ futex_state' = [futex_state EXCEPT ![thread] = "TIMEDOUT"]
    BY <1>13 DEF ScheduleTimedOut, TimeIsUp
  <2>2. /\ call[thread] \in Calls /\ futex_state[thread] = "NONE"
        /\ timeout[thread] = call[thread].abstime
    BY <1>1, <2>1 DEF WakeupsMatchCalls, CallsKept, TypeOK
  <2>3. /\ wait[thread] # NULL /\ answer[thread] = NULL
        /\ wait[thread].abstime = timeout[thread]
    BY <1>3, <2>2, WaitsExist DEF FutexStates
  <2>4. AnswerOf("TIMEDOUT") = "ETIMEDOUT"
    BY DEF AnswerOf
  <2>5. Irt!TimeOut(thread)
    BY <1>2, <1>3, <2>1, <2>3, <2>4 DEF Irt!TimeOut
  <2> QED BY <1>1, <2>5 DEF Irt!Next
<1>14. CASE Tick
  <2>1. Irt!Tick
    BY <1>2, <1>14 DEF Tick, Irt!Tick
  <2> QED BY <2>1 DEF Irt!Next
<1>15. CASE \/ Compute \/ ReturnFromTop \/ BasicExit \/ Stop \/ KeepThread \/ UnlinkThread
            \/ ScheduleRunning \/ ScheduleSkip \/ Terminated \/ UNCHANGED vars
  BY <1>4, <1>15 DEF Compute, ReturnFromTop, BasicExit, AtOtherInstruction, InQuantum, Stop,
     KeepThread, UnlinkThread, QuantumOver, ScheduleRunning, ScheduleSkip, Terminated, vars
<1> QED
  BY <1>5, <1>7, <1>8, <1>9, <1>10, <1>11, <1>12, <1>13, <1>14, <1>15
     DEF Next, RunStep, Instruction

\* For any number of threads, words and deadlines and any quantum, what guest threads see
\* of futex_wait_abs and futex_wake is what irt.h says.
THEOREM FutexCorrect == Spec => ImplementsIrtFutex
<1>1. Init => Inv
  BY InvInit
<1>2. Inv /\ [Next]_vars => Inv'
  BY InvStep
<1>3. Init => CallsKept
  BY ThreadsAssumption DEF Init, CallsKept
<1>4. Inv /\ CallsKept /\ [Next]_vars => CallsKept'
  BY CallsKeptStep DEF Inv
<1>5. Init => Irt!Init
  <2> SUFFICES ASSUME Init PROVE Irt!Init
    OBVIOUS
  <2>1. TypeOK
    BY TypeInit
  <2>2. WaitOf(NULL) = NULL /\ AnswerOf("NONE") = NULL
    BY DEF WaitOf, AnswerOf
  <2>3. /\ wait = [t \in Threads |-> WaitOf(call[t])]
        /\ answer = [t \in Threads |-> AnswerOf(futex_state[t])]
    BY <2>1, SeenByGuest
  <2>4. wait = [t \in Threads |-> NULL] /\ answer = [t \in Threads |-> NULL]
    BY <2>2, <2>3 DEF Init
  <2> QED BY <2>4 DEF Init, Irt!Init
<1>6. Inv /\ CallsKept /\ Inv' /\ [Next]_vars => [Irt!Next]_(Irt!vars)
  BY StepImplements
<1> QED BY <1>1, <1>2, <1>3, <1>4, <1>5, <1>6, PTL DEF Spec, ImplementsIrtFutex, Irt!Spec
=============================================================================
