------------------------------ MODULE FdTable ------------------------------
(***************************************************************************)
(* What a guest expects of its file descriptors: each names an open file   *)
(* with a position of its own, an open takes the lowest that is free, and  *)
(* a call that fails changes nothing.  Only of a close that fails it knows *)
(* nothing: what the descriptor names is then unspecified, and a guest     *)
(* that still uses it gives up what it expects.                            *)
(***************************************************************************)
EXTENDS Integers, FiniteSetsExt

CONSTANTS
  MaxFds,  \* descriptors of the guest
  Closed,  \* no open file
  Unsure   \* unspecified

Fds == 0..(MaxFds - 1)

VARIABLES
  table,   \* what each descriptor names: a file and the position in it, Closed or Unsure
  answer,  \* the last call and what it returned
  misused  \* whether a call was made on a descriptor that is Unsure

Free  == {fd \in Fds : table[fd] = Closed}
Known == {fd \in Fds : table[fd] \notin {Closed, Unsure}}

Init ==
  /\ table = [fd \in Fds |-> IF fd <= 2 THEN [file |-> fd, offset |-> 0] ELSE Closed]
  /\ answer = <<"init">>
  /\ misused = FALSE

\* A call that returns an error, or one that only looks.
Fails == answer'[1] \in {"error", "look"} /\ UNCHANGED table

Open ==
  /\ Free # {}
  /\ answer' = <<"open", Min(Free)>>
  /\ table'[Min(Free)].offset = 0
  /\ table' = [table EXCEPT ![Min(Free)] = table'[Min(Free)]]

Close(fd) ==
  /\ answer' = <<"close", fd>>
  /\ table' = [table EXCEPT ![fd] = Closed]

CloseFails(fd) ==
  /\ answer'[1] = "error"
  /\ table' = [table EXCEPT ![fd] = Unsure]

\* A read, write or seek moves the position of its own descriptor only.
Move(fd) ==
  /\ answer' = <<"move", fd>>
  /\ table'[fd].file = table[fd].file
  /\ table' = [table EXCEPT ![fd].offset = table'[fd].offset]

\* A call that the guest may make, and what it then sees.
Call ==
  \/ Fails
  \/ Open
  \/ \E fd \in Known : Close(fd) \/ CloseFails(fd) \/ Move(fd)

Misuse == \E fd \in Fds : table[fd] = Unsure

Next ==
  \/ ~misused /\ Call /\ misused' = FALSE
  \/ (misused \/ Misuse) /\ misused' = TRUE

Spec == Init /\ [][Next]_<<table, answer, misused>>
=============================================================================
