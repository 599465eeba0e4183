----------------------------- MODULE FileSystem -----------------------------
(***************************************************************************)
(* pn_filesystem.h: the file calls of the guest.  Guest descriptors are    *)
(* mapped to descriptors of the host process; without --filesystem-access  *)
(* only the three standard ones are served.  The host (external) gives out *)
(* its lowest free descriptor and may fail any call; a close that fails    *)
(* has closed the descriptor on some hosts and for some errors (Linux, for *)
(* EINTR and EIO) and on others not.                                       *)
(***************************************************************************)
EXTENDS Integers, FiniteSets, FiniteSetsExt

CONSTANTS
  MaxFds,          \* PN_MAX_FDS
  MaxHostFds,      \* descriptors of the host process
  Files,           \* the files of the host that a guest can name
  MaxOffset,       \* the largest position in a file
  AccessSettings,  \* what g_pn_filesystem_access may be
  MaxUnsure        \* bound on the descriptors that are mapped after a close that failed

Fds     == 0..(MaxFds - 1)
HostFds == 0..(MaxHostFds - 1)
Closed  == [file |-> -1, offset |-> 0]
Unsure  == [file |-> -2, offset |-> 0]

FdsAssumption ==
  /\ MaxFds \in Nat /\ MaxFds >= 3 /\ MaxHostFds \in Nat /\ MaxHostFds >= 3
  /\ MaxOffset \in Nat /\ AccessSettings \subseteq BOOLEAN
  /\ \A f \in Files : f \in Nat /\ f > 2

VARIABLES
  access,  \* g_pn_filesystem_access
  fd_map,  \* executor->fd_map: the host descriptor of each guest descriptor, or -1
  host,    \* the host's table: a file and a position, or Closed
  answer,  \* the last call: what it was and, when it succeeded, on which descriptor
  asked,   \* whether the call looked up a path of the host's file system
  leaked,  \* history: host descriptors that open did not find a place for
  unsure,  \* history: guest descriptors that are mapped although a close of them failed
  misused, \* history: whether the guest has made a call on one of those
  running  \* FALSE once a PN_CHECK failed

vars == <<access, fd_map, host, answer, asked, leaked, unsure, misused, running>>

\* pn_executor_init
Init ==
  /\ access \in AccessSettings
  /\ fd_map = [fd \in Fds |-> IF fd <= 2 THEN fd ELSE -1]
  /\ host = [h \in HostFds |-> IF h <= 2 THEN [file |-> h, offset |-> 0] ELSE Closed]
  /\ answer = <<"init">>
  /\ asked = FALSE
  /\ leaked = {}
  /\ unsure = {}
  /\ misused = FALSE
  /\ running = TRUE

-----------------------------------------------------------------------------

\* A call that changes nothing but what the guest sees of it.
Answer(call) ==
  /\ answer' = call
  /\ UNCHANGED <<access, fd_map, host, leaked, unsure, running>>

Error == <<"error">>

\* pn_filesystem_get_host_fd, of any number the guest passes
IsOpen(fd) == fd \in Fds /\ fd_map[fd] # -1

BadFd(fd) == ~IsOpen(fd) /\ Answer(Error) /\ asked' = FALSE

\* pn_memory_check on a pointer of a call, or an errno that pn_from_errno does not know:
\* the interpreter ends, and what the host did before is no longer seen.
BadBuffer ==
  /\ running' = FALSE
  /\ asked' = FALSE
  /\ UNCHANGED <<access, fd_map, host, answer, leaked, unsure>>

\* Slip: the descriptor stays mapped.
CloseStaysMapped(fd) ==
  \/ BadFd(fd)
  \/ /\ IsOpen(fd)
     /\ host' = IF access THEN [host EXCEPT ![fd_map[fd]] = Closed] ELSE host
     /\ answer' = <<"close", fd>>
     /\ asked' = FALSE
     /\ UNCHANGED <<access, fd_map, leaked, unsure, running>>

\* Slip: the host's descriptor is closed whatever the option says.
CloseAlways(fd) ==
  /\ IsOpen(fd)
  /\ host' = [host EXCEPT ![fd_map[fd]] = Closed]
  /\ fd_map' = [fd_map EXCEPT ![fd] = -1]
  /\ answer' = <<"close", fd>>
  /\ asked' = FALSE
  /\ UNCHANGED <<access, leaked, unsure, running>>

\* The host has a file open behind a guest descriptor that is mapped.
HostOpen(fd) == host[fd_map[fd]] # Closed

\* pn_filesystem_fdio_close: without access it only forgets the descriptor; when the host
\* fails it stays mapped, whatever has become of the host's.
Close(fd) ==
  \/ BadFd(fd)
  \/ /\ IsOpen(fd)
     /\ IF access THEN HostOpen(fd) ELSE fd_map[fd] <= 2
     /\ host' = IF access THEN [host EXCEPT ![fd_map[fd]] = Closed] ELSE host
     /\ fd_map' = [fd_map EXCEPT ![fd] = -1]
     /\ answer' = <<"close", fd>>
     /\ asked' = FALSE
     /\ unsure' = unsure \ {fd}
     /\ UNCHANGED <<access, leaked, running>>
  \/ /\ IsOpen(fd) /\ access
     /\ host' \in {host, [host EXCEPT ![fd_map[fd]] = Closed]}
     /\ answer' = Error
     /\ asked' = FALSE
     /\ unsure' = unsure \cup {fd}
     /\ Cardinality(unsure') <= MaxUnsure
     /\ UNCHANGED <<access, fd_map, leaked, running>>
  \/ IsOpen(fd) /\ access /\ BadBuffer

\* The position of the host descriptor moves.
MoveTo(fd, offset) ==
  /\ host' = [host EXCEPT ![fd_map[fd]].offset = offset]
  /\ answer' = <<"move", fd>>
  /\ asked' = FALSE
  /\ UNCHANGED <<access, fd_map, leaked, unsure, running>>

\* pn_filesystem_fdio_read: the host moves by at most the count asked for.
Read(fd, count) ==
  \/ BadFd(fd)
  \/ IsOpen(fd) /\ BadBuffer
  \/ /\ IsOpen(fd)
     /\ \/ Answer(Error) /\ asked' = FALSE
        \/ /\ access \/ fd_map[fd] = 0
           /\ HostOpen(fd)
           /\ host[fd_map[fd]].offset + count <= MaxOffset
           /\ MoveTo(fd, host[fd_map[fd]].offset + count)

\* pn_filesystem_fdio_write: an error of the host is reported as a success that wrote
\* -1 bytes.
Write(fd, count) ==
  \/ BadFd(fd)
  \/ IsOpen(fd) /\ BadBuffer
  \/ /\ IsOpen(fd) /\ ~access /\ fd_map[fd] \notin {1, 2}
     /\ Answer(Error) /\ asked' = FALSE
  \/ /\ IsOpen(fd)
     /\ access \/ fd_map[fd] \in {1, 2}
     /\ \/ MoveTo(fd, host[fd_map[fd]].offset)
        \/ /\ HostOpen(fd)
           /\ host[fd_map[fd]].offset + count <= MaxOffset
           /\ MoveTo(fd, host[fd_map[fd]].offset + count)

\* pn_filesystem_fdio_seek
Seek(fd, offset) ==
  \/ BadFd(fd)
  \/ IsOpen(fd) /\ access /\ BadBuffer
  \/ /\ IsOpen(fd)
     /\ \/ Answer(Error) /\ asked' = FALSE
        \/ access /\ HostOpen(fd) /\ MoveTo(fd, offset)

\* pn_filesystem_fdio_fstat and pn_filesystem_fdio_isatty, which are served without
\* access too; isatty succeeds whatever the host says.
Look(fd) ==
  \/ BadFd(fd)
  \/ IsOpen(fd) /\ BadBuffer
  \/ /\ IsOpen(fd)
     /\ Answer(Error) \/ Answer(<<"look", fd>>)
     /\ asked' = FALSE

\* Slip: the search starts at the end of the guest's table.
OpenHighest(file) ==
  /\ access
  /\ LET free  == {h \in HostFds : host[h] = Closed}
         guest == {fd \in Fds : fd_map[fd] = -1}
     IN  /\ free # {} /\ guest # {}
         /\ host' = [host EXCEPT ![Min(free)] = [file |-> file, offset |-> 0]]
         /\ fd_map' = [fd_map EXCEPT ![Max(guest)] = Min(free)]
         /\ answer' = <<"open", Max(guest)>>
  /\ asked' = TRUE
  /\ UNCHANGED <<access, leaked, unsure, running>>

\* pn_filesystem_filename_open: the host's descriptor first, then the lowest guest
\* descriptor for it; when there is none the host's stays open.
Open(file) ==
  \/ BadBuffer
  \/ ~access /\ Answer(Error) /\ asked' = FALSE
  \/ access /\ Answer(Error) /\ asked' = TRUE
  \/ /\ access
     /\ LET free  == {h \in HostFds : host[h] = Closed}
            h     == Min(free)
            guest == {fd \in Fds : fd_map[fd] = -1}
        IN  /\ free # {}
            /\ host' = [host EXCEPT ![h] = [file |-> file, offset |-> 0]]
            /\ \/ /\ guest # {}
                  /\ fd_map' = [fd_map EXCEPT ![Min(guest)] = h]
                  /\ answer' = <<"open", Min(guest)>>
                  /\ UNCHANGED leaked
               \/ /\ guest = {}
                  /\ answer' = Error
                  /\ leaked' = leaked \cup {h}
                  /\ UNCHANGED fd_map
     /\ asked' = TRUE
     /\ UNCHANGED <<access, unsure, running>>

\* pn_filesystem_filename_access and pn_filesystem_filename_readlink
LookUp ==
  \/ BadBuffer
  \/ ~access /\ Answer(Error) /\ asked' = FALSE
  \/ access /\ (Answer(Error) \/ Answer(<<"look">>)) /\ asked' = TRUE

\* pn_filesystem_filename_getcwd: without access a name that is made up
GetCwd ==
  \/ BadBuffer
  \/ (Answer(Error) \/ Answer(<<"look">>)) /\ asked' = access

\* pn_filesystem_filename_stat
Stat ==
  \/ BadBuffer
  \/ (Answer(Error) \/ Answer(<<"look">>)) /\ asked' = TRUE

\* The calls on a descriptor.
Use(fd) ==
  /\ \/ Close(fd) \/ Look(fd)
     \/ \E count \in 0..MaxOffset : Read(fd, count) \/ Write(fd, count) \/ Seek(fd, count)
  /\ misused' = (misused \/ fd \in unsure)

\* The calls on a path.
Name ==
  /\ (\E file \in Files : Open(file)) \/ LookUp \/ GetCwd \/ Stat
  /\ UNCHANGED misused

Next ==
  \/ running /\ \E fd \in 0..MaxFds : Use(fd)
  \/ running /\ Name
  \/ ~running /\ UNCHANGED vars

Spec == Init /\ [][Next]_vars

-----------------------------------------------------------------------------
(* Properties.                                                                      *)

TypeOK ==
  /\ access \in BOOLEAN /\ running \in BOOLEAN /\ asked \in BOOLEAN
  /\ fd_map \in [Fds -> HostFds \cup {-1}]
  /\ host \in [HostFds -> [file : Files \cup (-1)..2, offset : 0..MaxOffset]]
  /\ leaked \subseteq HostFds
  /\ unsure \subseteq Fds /\ misused \in BOOLEAN

\* No two guest descriptors share a host descriptor and each leads to one that is open:
\* a file that the guest closed and another that it opened never meet in one.  A close
\* that failed leaves its descriptor mapped and may have closed the host's, which the next
\* open takes: that descriptor is left out, and nothing is said once the guest uses it.
MapsApart ==
  ~misused =>
    /\ \A fd, gd \in Fds \ unsure : fd_map[fd] # -1 /\ fd_map[fd] = fd_map[gd] => fd = gd
    /\ \A fd \in Fds \ unsure : fd_map[fd] # -1 => HostOpen(fd)

\* With access, a host descriptor that is open without a guest descriptor was left by an
\* open that found the guest's table full, and stays open; none is lost in another way,
\* whatever the guest does with a descriptor whose close failed.
LostOnlyWhenFull ==
  access =>
    /\ {h \in HostFds : host[h] # Closed} \subseteq leaked \cup {fd_map[fd] : fd \in Fds}
    /\ ~misused => \A h \in leaked : host[h] # Closed

\* Without access the host's table stays as it was, and only standard input is read and
\* only standard output and error are written.
StandardOnly ==
  [][~access => /\ \A h \in HostFds : host'[h].file = host[h].file
                /\ \A h \in HostFds \ 0..2 : host'[h] = host[h]]_vars

Guest == INSTANCE FdTable WITH
           table <- [fd \in Fds |-> IF fd_map[fd] = -1 THEN Closed
                                    ELSE IF fd \in unsure THEN Unsure ELSE host[fd_map[fd]]]

\* The two tables together are the one table the guest expects, as long as it makes no
\* call on a descriptor whose close failed.
ImplementsFdTable == Guest!Spec

\* "allow access to host filesystem": without the option no call looks up a path there.
PathsNeedAccess == asked => access
=============================================================================
