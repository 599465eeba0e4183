----------------------------- MODULE EventLoop -----------------------------
(***************************************************************************)
(* The event loop of a Pepper application, in the build that has it        *)
(* (pn_ppapi.h, pn_builtins.h, pn_executor.h).  ppapi_start takes the      *)
(* start thread out of the ring and puts the event thread in its place;    *)
(* that runs one guest function per event, and when the function returns   *)
(* the executor finishes the event and takes the next one.  To call        *)
(* DidCreate it needs the instance interface, which it gets by events of   *)
(* their own; the event that waits for it is put back behind them.         *)
(*                                                                         *)
(* One other thread stands for all of them: it is there when the loop is   *)
(* started or not, exits, and may be created again.  Blocking is left to   *)
(* Scheduler, so whoever is next in the ring runs.                         *)
(***************************************************************************)
EXTENDS Integers, Sequences, FiniteSets

CONSTANTS
  MaxEvents,  \* bound on the events allocated
  StackEnd,   \* memory->stack_end
  StartTop    \* memory_stack_top of the start thread when it calls ppapi_start

\* DidCreate needs an event, and the question for its interface another.
LoopAssumption ==
  /\ MaxEvents \in Nat /\ MaxEvents >= 2
  /\ StartTop \in Nat /\ StackEnd \in Nat /\ StartTop < StackEnd

Threads    == {"start", "event", "other"}
Interfaces == {"INSTANCE_1_1", "INSTANCE_1_0"}
Sentinel   == 0    \* &ppapi->sentinel_event
NULL       == -1
Events     == 1..MaxEvents

VARIABLES
  next, prev,  \* the links of the threads
  thread,      \* the thread that pn_executor_run_step is to run
  state,       \* its state, for the start and the event thread
  running,     \* the guest function of the event thread
  top,         \* memory_stack_top of the frame it started with
  ppapi,       \* the events: types, links, free_events, current_event
  interfaces,  \* memory->ppapi_ppp_interfaces: "unknown", "none" or "table"
  asked,       \* history: how often the guest was asked for each
  created      \* history: how often DidCreate was called

vars == <<next, prev, thread, state, running, top, ppapi, interfaces, asked, created>>

NoEvents ==
  [type |-> <<>>, next |-> [e \in {Sentinel} |-> Sentinel], prev |-> [e \in {Sentinel} |-> Sentinel],
   free_events |-> NULL, current_event |-> NULL]

\* pn_executor_init, and perhaps a thread created since
Init ==
  /\ \/ /\ next = [t \in Threads |-> IF t = "start" THEN "start" ELSE "none"]
        /\ prev = next
     \/ /\ next = [start |-> "other", other |-> "start", event |-> "none"]
        /\ prev = next
  /\ thread = "start"
  /\ state = [start |-> "RUNNING", event |-> "none"]
  /\ running = "none"
  /\ top = 0
  /\ ppapi = NoEvents
  /\ interfaces = [i \in Interfaces |-> "unknown"]
  /\ asked = [i \in Interfaces |-> 0]
  /\ created = 0

-----------------------------------------------------------------------------
(* The queue of events.                                                     *)

Put(f, e, x) == [d \in DOMAIN f \cup {e} |-> IF d = e THEN x ELSE f[d]]

\* Slip: the free list is not shortened.
AllocateShared(p, type) ==
  IF p.free_events # NULL
  THEN [event |-> p.free_events, p |-> [p EXCEPT !.type[p.free_events] = type]]
  ELSE LET e == Len(p.type) + 1
       IN  [event |-> e,
            p |-> [p EXCEPT !.type = Append(@, type), !.next = Put(@, e, NULL), !.prev = Put(@, e, NULL)]]

\* pn_event_allocate, from the free list or the arena, and the type that it is given
Allocate(p, type) ==
  IF p.free_events # NULL
  THEN [event |-> p.free_events,
        p |-> [p EXCEPT !.free_events = p.next[p.free_events], !.type[p.free_events] = type]]
  ELSE LET e == Len(p.type) + 1
       IN  [event |-> e,
            p |-> [p EXCEPT !.type = Append(@, type), !.next = Put(@, e, NULL), !.prev = Put(@, e, NULL)]]

\* pn_event_enqueue
Enqueue(p, e) ==
  LET last   == p.prev[Sentinel]
      linked == [p EXCEPT !.next[e] = Sentinel, !.prev[e] = last]
  IN  [linked EXCEPT !.next[last] = e, !.prev[Sentinel] = e]

\* pn_event_dequeue, when there is an event
Dequeue(p) ==
  LET e == p.next[Sentinel]
      q == [p EXCEPT !.next[p.prev[e]] = p.next[e], !.prev[p.next[e]] = p.prev[e]]
  IN  [q EXCEPT !.next[e] = NULL, !.prev[e] = NULL]

\* pn_event_free
Free(p, e) == [p EXCEPT !.next[e] = p.free_events, !.free_events = e]

\* A fresh event at the end of the queue.
EnqueueNew(p, type) == LET a == Allocate(p, type) IN Enqueue(a.p, a.event)

-----------------------------------------------------------------------------
(* The threads.                                                             *)

\* The links when event takes the place of start; a start thread that is alone in the
\* ring is its own neighbour, so that the writes go to itself, in this order.
Replaced ==
  LET n1 == [next EXCEPT !["event"] = next["start"]]
      p1 == [prev EXCEPT !["event"] = prev["start"]]
      p2 == [p1 EXCEPT ![n1["start"]] = "event"]
      n2 == [n1 EXCEPT ![p2["start"]] = "event"]
  IN  [next |-> [n2 EXCEPT !["start"] = "event"], prev |-> [p2 EXCEPT !["start"] = "none"]]

\* pn_builtin_NACL_IRT_PPAPIHOOK_PPAPI_START, called by the start thread
PpapiStart ==
  /\ thread = "start" /\ state["start"] = "RUNNING"
  /\ next' = Replaced.next /\ prev' = Replaced.prev
  /\ state' = [start |-> "EVENT_LOOP", event |-> "RUNNING"]
  /\ running' = "initialize"
  /\ top' = StartTop
  /\ ppapi' = EnqueueNew(ppapi, "DID_CREATE")
  /\ thread' = "event"
  /\ UNCHANGED <<interfaces, asked, created>>

\* The quantum of the event thread, or of the other one, ends.
Yield ==
  /\ thread \in {"event", "other"} /\ (thread = "event" => state["event"] = "RUNNING")
  /\ thread' = next[thread]
  /\ UNCHANGED <<next, prev, state, running, top, ppapi, interfaces, asked, created>>

\* A guest function of the event thread creates the other thread.
CreateThread ==
  /\ thread = "event" /\ state["event"] = "RUNNING" /\ next["other"] = "none"
  /\ LET p1 == [prev EXCEPT !["other"] = "event"]
     IN  prev' = [p1 EXCEPT ![next["event"]] = "other"]
  /\ next' = [next EXCEPT !["other"] = next["event"], !["event"] = "other"]
  /\ UNCHANGED <<thread, state, running, top, ppapi, interfaces, asked, created>>

\* The other thread exits and is unlinked.
OtherExits ==
  /\ thread = "other"
  /\ next' = [next EXCEPT ![prev["other"]] = next["other"], !["other"] = "none"]
  /\ prev' = [prev EXCEPT ![next["other"]] = prev["other"], !["other"] = "none"]
  /\ thread' = next["other"]
  /\ UNCHANGED <<state, running, top, ppapi, interfaces, asked, created>>

-----------------------------------------------------------------------------
(* pn_event_finish and pn_event_handle_next                                 *)

\* pn_event_finish: the event that was running is free.
Finish(p) == IF p.current_event = NULL THEN p ELSE Free(p, p.current_event)

\* The interface that DID_CREATE uses, or the one it has to ask for first.
Instance(table) ==
  IF table["INSTANCE_1_1"] = "unknown" THEN [ask |-> "INSTANCE_1_1", found |-> FALSE]
  ELSE IF table["INSTANCE_1_1"] = "table" THEN [ask |-> "none", found |-> TRUE]
  ELSE IF table["INSTANCE_1_0"] = "unknown" THEN [ask |-> "INSTANCE_1_0", found |-> FALSE]
  ELSE [ask |-> "none", found |-> table["INSTANCE_1_0"] = "table"]

\* Slip: the event goes back before the one it waits for.
PutBackFirst(p, e, ask) == EnqueueNew(Enqueue(p, e), ask)

\* The event that waits goes behind the one that asks for the interface.
PutBack(p, e, ask) == Enqueue(EnqueueNew(p, ask), e)

\* A guest function is pushed, from the sentinel frame.
Push(function, p, e) ==
  /\ state' = [state EXCEPT !["event"] = "RUNNING"]
  /\ running' = function
  /\ top' = StackEnd
  /\ ppapi' = [p EXCEPT !.current_event = e]

\* Nothing is pushed: a thread that was dead is idle.
Rest(p) ==
  /\ state' = [state EXCEPT !["event"] = "IDLE"]
  /\ running' = "none"
  /\ UNCHANGED top
  /\ ppapi' = [p EXCEPT !.current_event = NULL]

\* pn_event_handle_next, with the events p and the interfaces as they are by now
HandleNext(p, table) ==
  LET e == p.next[Sentinel]
      q == Dequeue(p)
  IN  IF e = Sentinel THEN Rest(p) /\ UNCHANGED <<asked, created>>
      ELSE IF q.type[e] \in Interfaces
      THEN /\ Push("get_interface", q, e)
           /\ asked' = [asked EXCEPT ![q.type[e]] = @ + 1]
           /\ UNCHANGED created
      ELSE IF Instance(table).ask # "none"
      THEN Rest(PutBack(q, e, Instance(table).ask)) /\ UNCHANGED <<asked, created>>
      ELSE IF Instance(table).found
      THEN Push("did_create", q, e) /\ created' = created + 1 /\ UNCHANGED asked
      ELSE \* PN_FATAL("no version of PPP_INSTANCE found")
           /\ state' = [state EXCEPT !["event"] = "fatal"]
           /\ running' = "none"
           /\ ppapi' = [q EXCEPT !.current_event = NULL]
           /\ UNCHANGED <<top, asked, created>>

\* The function of the event thread returns: what get_interface returns is kept.
EventReturns(value) ==
  LET p     == Finish(ppapi)
      table == IF running = "get_interface"
               THEN [interfaces EXCEPT ![ppapi.type[ppapi.current_event]] = value] ELSE interfaces
  IN  /\ thread = "event" /\ state["event"] = "RUNNING"
      /\ interfaces' = table
      /\ HandleNext(p, table)
      /\ thread' = next["event"]
      /\ UNCHANGED <<next, prev>>

\* The event thread is idle when its turn comes.
EventIdle ==
  /\ thread = "event" /\ state["event"] = "IDLE"
  /\ HandleNext(Finish(ppapi), interfaces)
  /\ thread' = next["event"]
  /\ UNCHANGED <<next, prev, interfaces>>

Ended == state["event"] = "fatal" /\ UNCHANGED vars

Next ==
  \/ /\ state["event"] # "fatal"
     /\ \/ PpapiStart \/ Yield \/ CreateThread \/ OtherExits
        \/ \E value \in {"none", "table"} : EventReturns(value)
        \/ EventIdle
  \/ Ended

Spec == Init /\ [][Next]_vars

-----------------------------------------------------------------------------
(* Properties.                                                              *)

Started == state["event"] # "none"

\* The events from e on, along the links, up to the end of the list.
Chain(links, e, end) ==
  LET at[k \in 0..MaxEvents] ==
        IF k = 0 THEN e
        ELSE IF at[k - 1] = end \/ at[k - 1] = NULL THEN at[k - 1] ELSE links[at[k - 1]]
  IN  [k \in 0..MaxEvents |-> at[k]]

ChainSet(links, e, end) == {Chain(links, e, end)[k] : k \in 0..MaxEvents} \ {end, NULL}

Queued == ChainSet(ppapi.next, ppapi.next[Sentinel], Sentinel)

\* Every event is in one place only, the queue, the free list or being handled, and none
\* is lost; both lists end, and the queue is the same in both directions.
EventsApart ==
  LET free    == ChainSet(ppapi.next, ppapi.free_events, NULL)
      current == {ppapi.current_event} \ {NULL}
  IN  state["event"] # "fatal" =>
      /\ Queued \cap free = {} /\ (Queued \cup free) \cap current = {}
      /\ Queued \cup free \cup current = DOMAIN ppapi.type
      /\ Queued = ChainSet(ppapi.prev, ppapi.prev[Sentinel], Sentinel)
      /\ Chain(ppapi.next, ppapi.next[Sentinel], Sentinel)[MaxEvents] = Sentinel

\* The module's DidCreate is called once, after every interface before it was asked for
\* once and no more; the thread rests for good only when that has happened.
CreatedOnce ==
  /\ created <= 1
  /\ \A i \in Interfaces : asked[i] <= 1
  /\ running = "did_create" => \E i \in Interfaces : interfaces[i] = "table"
  /\ Started /\ Queued = {} /\ running = "none" /\ state["event"] # "fatal" => created = 1

\* Once the loop has started the event thread and the others are a ring without the
\* start thread: every one comes round, and the links back agree as soon as there are two.
RingWithoutStart ==
  LET live == {t \in {"event", "other"} : next[t] # "none"} IN
  Started =>
    /\ "event" \in live /\ thread \in live
    /\ {next[t] : t \in live} = live
    /\ Cardinality(live) > 1 => \A t \in live : prev[next[t]] = t

\* "Use the same stack top as the main thread": what events run stays below the frames
\* of the start thread, which is still in ppapi_start.
StartStackKept == running # "none" => top <= StartTop
=============================================================================
