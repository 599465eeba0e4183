------------------------------ MODULE IrtFutex ------------------------------
(***************************************************************************)
(* What the IRT's futex calls promise to guest threads: the text of irt.h  *)
(* that pn_builtins.h quotes above futex_wait_abs and futex_wake.  There   *)
(* is no ring, no quantum and no current thread here: a set of threads,    *)
(* the memory they share, a clock, and for each thread the wait it is in.  *)
(***************************************************************************)
EXTENDS Integers, FiniteSets, FiniteSetsExt

CONSTANTS Threads, NULL, Words, StoreValues, NWakes, Deadlines, MaxClock

VARIABLES
  mem,    \* the words of memory
  wait,   \* the wait a thread is in, NULL when it is in none
  answer, \* what that wait will return, NULL while it still waits
  ret,    \* what the last wait of the thread returned
  clock

vars == <<mem, wait, answer, ret, clock>>

Waits == [addr : Words, abstime : Deadlines \cup {NULL}]

Init ==
  /\ mem = [w \in Words |-> 0]
  /\ wait = [t \in Threads |-> NULL]
  /\ answer = [t \in Threads |-> NULL]
  /\ ret = [t \in Threads |-> NULL]
  /\ clock = 0

Waiting(t, addr) == wait[t] # NULL /\ answer[t] = NULL /\ wait[t].addr = addr

\* Any thread may write to memory.
Write(w, v) ==
  /\ mem' = [mem EXCEPT ![w] = v]
  /\ UNCHANGED <<wait, answer, ret, clock>>

\* futex_wait_abs: "If *addr still contains value, futex_wait_abs() waits to be
\* woken up by a futex_wake(addr,...) call from another thread"
Wait(t, c, v) ==
  /\ wait[t] = NULL
  /\ mem[c.addr] = v
  /\ wait' = [wait EXCEPT ![t] = c]
  /\ ret' = [ret EXCEPT ![t] = NULL]
  /\ UNCHANGED <<mem, answer, clock>>

\* "otherwise, it immediately returns EAGAIN"
WaitAgain(t, c, v) ==
  /\ wait[t] = NULL
  /\ mem[c.addr] # v
  /\ ret' = [ret EXCEPT ![t] = "EAGAIN"]
  /\ UNCHANGED <<mem, wait, answer, clock>>

\* futex_wake: "wakes up threads that are waiting on addr"; "nwake is the maximum
\* number of threads that will be woken up"; "The number of threads that were
\* woken is returned in *count".  It wakes as many as there are, up to nwake.
Wake(t, addr, nwake, count) ==
  LET waiters == {u \in Threads \ {t} : Waiting(u, addr)} IN
  /\ UNCHANGED <<wait, ret, clock>>
  /\ \E woken \in SUBSET waiters :
       /\ Cardinality(woken) = Min({nwake, Cardinality(waiters)})
       /\ answer' = [u \in Threads |-> IF u \in woken THEN "0" ELSE answer[u]]
       /\ mem' = [mem EXCEPT ![count] = Cardinality(woken)]

\* "If abstime is non-NULL and the time specified by *abstime passes, this returns
\* ETIMEDOUT."
TimeOut(t) ==
  /\ wait[t] # NULL /\ answer[t] = NULL
  /\ wait[t].abstime # NULL /\ clock > wait[t].abstime
  /\ answer' = [answer EXCEPT ![t] = "ETIMEDOUT"]
  /\ UNCHANGED <<mem, wait, ret, clock>>

\* The wait returns what it was answered.
Return(t) ==
  /\ answer[t] # NULL
  /\ ret' = [ret EXCEPT ![t] = answer[t]]
  /\ wait' = [wait EXCEPT ![t] = NULL]
  /\ answer' = [answer EXCEPT ![t] = NULL]
  /\ UNCHANGED <<mem, clock>>

\* A thread starts: it has not waited for anything yet.
Start(t) ==
  /\ wait[t] = NULL
  /\ ret' = [ret EXCEPT ![t] = NULL]
  /\ UNCHANGED <<mem, wait, answer, clock>>

Tick ==
  /\ clock < MaxClock
  /\ clock' = clock + 1
  /\ UNCHANGED <<mem, wait, answer, ret>>

Next ==
  \/ \E w \in Words, v \in StoreValues \cup {0} : Write(w, v)
  \/ \E t \in Threads, c \in Waits, v \in StoreValues : Wait(t, c, v)
  \/ \E t \in Threads, c \in Waits, v \in StoreValues : WaitAgain(t, c, v)
  \/ \E t \in Threads : TimeOut(t)
  \/ \E t \in Threads : Return(t)
  \/ \E t \in Threads : Start(t)
  \/ Tick
  \/ \E t \in Threads, a \in Words, n \in NWakes, p \in Words : Wake(t, a, n, p)

Spec == Init /\ [][Next]_vars
=============================================================================
