--------------------------- MODULE DescriptorOwner ---------------------------
(***************************************************************************)
(* Socket, Epoll and EventFd of netpulse::network as owners of a file      *)
(* descriptor, in any sequence of calls a program may make: construction,  *)
(* moves, self-moves, release(), reset() and destruction, while the kernel *)
(* gives closed descriptors to the next one who asks.                      *)
(***************************************************************************)
EXTENDS Integers

CONSTANTS
    Sockets, Epolls, EventFds,  \* objects of the three classes
    Fds                         \* descriptors of the process

Objects == Sockets \cup Epolls \cup EventFds
EMFILE == 24

ASSUME OwnerAssumption ==
    /\ Fds \subseteq Nat
    /\ Sockets \cap (Epolls \cup EventFds) = {} /\ Epolls \cap EventFds = {}

VARIABLES
    alive,         \* the objects that exist
    fd_,           \* fd_ of an object, -1 for none
    error_number,  \* error_number_ of an EventFd
    open,          \* the kernel's table: descriptors in use
    raw            \* descriptors the program holds as plain numbers and has to close

ownerVars == <<alive, fd_, error_number, open, raw>>

\* fd_ is a descriptor or -1, error_number_ an errno or 0.
DescriptorTypeOK ==
    /\ alive \subseteq Objects
    /\ fd_ \in [Objects -> Fds \cup {-1}]
    /\ error_number \in [EventFds -> {0, EMFILE}]
    /\ open \subseteq Fds /\ raw \subseteq Fds

OwnerInit ==
    /\ alive = {} /\ fd_ = [o \in Objects |-> -1]
    /\ error_number = [v \in EventFds |-> 0]
    /\ open = {} /\ raw = {}

\* The lowest free descriptor.
Lowest(d) == d \in Fds \ open /\ \A e \in Fds \ open : d <= e
-----------------------------------------------------------------------------
(* socket() or accept4() gives the program a descriptor; close() takes it. *)

OpenRaw ==
    /\ \E d \in Fds : Lowest(d) /\ open' = open \cup {d} /\ raw' = raw \cup {d}
    /\ UNCHANGED <<alive, fd_, error_number>>

CloseRaw ==
    /\ \E d \in raw : open' = open \ {d} /\ raw' = raw \ {d}
    /\ UNCHANGED <<alive, fd_, error_number>>
-----------------------------------------------------------------------------
(* Constructors.                                                           *)

\* Socket(fd), of a descriptor or of the -1 a failed call returned.
SocketConstruct(s) ==
    /\ s \in Sockets \ alive
    /\ alive' = alive \cup {s}
    /\ \E d \in raw \cup {-1} : fd_' = [fd_ EXCEPT ![s] = d] /\ raw' = raw \ {d}
    /\ UNCHANGED <<error_number, open>>

EpollConstruct(e) ==
    /\ e \in Epolls \ alive
    /\ alive' = alive \cup {e}
    /\ \/ \E d \in Fds :
            Lowest(d) /\ open' = open \cup {d} /\ fd_' = [fd_ EXCEPT ![e] = d]
       \/ UNCHANGED open /\ fd_' = [fd_ EXCEPT ![e] = -1]
    /\ UNCHANGED <<error_number, raw>>

\* Mutant: the negative errno is kept as the descriptor.
EventFdKeepsErrno(v) ==
    /\ v \in EventFds \ alive
    /\ alive' = alive \cup {v}
    /\ fd_' = [fd_ EXCEPT ![v] = -EMFILE]
    /\ UNCHANGED <<error_number, open, raw>>

EventFdConstruct(v) ==
    /\ v \in EventFds \ alive
    /\ alive' = alive \cup {v}
    /\ \/ \E d \in Fds :
            /\ Lowest(d) /\ open' = open \cup {d}
            /\ fd_' = [fd_ EXCEPT ![v] = d]
            /\ error_number' = [error_number EXCEPT ![v] = 0]
       \/ /\ UNCHANGED open
          /\ fd_' = [fd_ EXCEPT ![v] = -1]
          /\ error_number' = [error_number EXCEPT ![v] = EMFILE]
    /\ UNCHANGED raw

\* error_number_ goes from one EventFd to the other; the other two have none.
MoveError(to, from) ==
    error_number' = [v \in EventFds |->
        IF v = to THEN error_number[from] ELSE IF v = from THEN 0 ELSE error_number[v]]

SameClass(a, b) == \E class \in {Sockets, Epolls, EventFds} : {a, b} \subseteq class

\* Mutant: the source keeps its descriptor.
MoveConstructCopies(to, from) ==
    /\ to \notin alive /\ from \in alive /\ SameClass(to, from)
    /\ alive' = alive \cup {to}
    /\ fd_' = [fd_ EXCEPT ![to] = fd_[from]]
    /\ MoveError(to, from)
    /\ UNCHANGED <<open, raw>>

MoveConstruct(to, from) ==
    /\ to \notin alive /\ from \in alive /\ SameClass(to, from)
    /\ alive' = alive \cup {to}
    /\ fd_' = [fd_ EXCEPT ![to] = fd_[from], ![from] = -1]
    /\ MoveError(to, from)
    /\ UNCHANGED <<open, raw>>
-----------------------------------------------------------------------------
(* Assignment, release, reset and destruction.                             *)

\* reset(d) of a socket with the descriptor of: nothing is closed for the one it has.
ClosedByReset(of, d) == IF of = d THEN {} ELSE {of}

\* operator=(Socket&&): reset(other.release()); nothing for a self-move.
SocketAssign(to, from) ==
    /\ {to, from} \subseteq alive \cap Sockets /\ to # from
    /\ open' = open \ ClosedByReset(fd_[to], fd_[from])
    /\ fd_' = [fd_ EXCEPT ![from] = -1, ![to] = fd_[from]]
    /\ UNCHANGED <<alive, error_number, raw>>

\* Mutant: a self-move closes the descriptor and keeps its number.
AssignToItself(to, from) ==
    /\ {to, from} \subseteq alive \cap Epolls
    /\ open' = open \ {fd_[to]}
    /\ fd_' = [fd_ EXCEPT ![from] = -1, ![to] = fd_[from]]
    /\ UNCHANGED <<alive, error_number, raw>>

\* operator=(Epoll&&): close, then take over; nothing for a self-move.
EpollAssign(to, from) ==
    /\ {to, from} \subseteq alive \cap Epolls /\ to # from
    /\ open' = open \ {fd_[to]}
    /\ fd_' = [fd_ EXCEPT ![from] = -1, ![to] = fd_[from]]
    /\ UNCHANGED <<alive, error_number, raw>>

\* Mutant: error_number_ stays where it was.
AssignKeepsError(to, from) ==
    /\ {to, from} \subseteq alive \cap EventFds /\ to # from
    /\ open' = open \ {fd_[to]}
    /\ fd_' = [fd_ EXCEPT ![from] = -1, ![to] = fd_[from]]
    /\ UNCHANGED <<alive, error_number, raw>>

\* operator=(EventFd&&): the same, and the error goes with the descriptor.
EventFdAssign(to, from) ==
    /\ {to, from} \subseteq alive \cap EventFds /\ to # from
    /\ open' = open \ {fd_[to]}
    /\ fd_' = [fd_ EXCEPT ![from] = -1, ![to] = fd_[from]]
    /\ MoveError(to, from)
    /\ UNCHANGED <<alive, raw>>

\* release(): the caller has the descriptor now.
Release(s) ==
    /\ s \in alive \cap Sockets
    /\ fd_' = [fd_ EXCEPT ![s] = -1]
    /\ raw' = raw \cup ({fd_[s]} \ {-1})
    /\ UNCHANGED <<alive, error_number, open>>

\* Mutant: the old descriptor is not closed.
ResetLeaks(s) ==
    /\ s \in alive \cap Sockets
    /\ \E d \in raw \cup {-1, fd_[s]} :
         /\ fd_' = [fd_ EXCEPT ![s] = d]
         /\ raw' = raw \ {d}
    /\ UNCHANGED <<alive, error_number, open>>

\* reset() to nothing, to another descriptor, or to the one it has.
Reset(s) ==
    /\ s \in alive \cap Sockets
    /\ \E d \in raw \cup {-1, fd_[s]} :
         /\ open' = open \ ClosedByReset(fd_[s], d)
         /\ fd_' = [fd_ EXCEPT ![s] = d]
         /\ raw' = raw \ {d}
    /\ UNCHANGED <<alive, error_number>>

Destroy(o) ==
    /\ o \in alive
    /\ alive' = alive \ {o}
    /\ open' = open \ {fd_[o]}
    /\ fd_' = [fd_ EXCEPT ![o] = -1]
    /\ error_number' = [v \in EventFds |-> IF v = o THEN 0 ELSE error_number[v]]
    /\ UNCHANGED raw
-----------------------------------------------------------------------------
OwnerNext ==
    \/ OpenRaw \/ CloseRaw
    \/ \E o \in Objects :
         \/ SocketConstruct(o) \/ EpollConstruct(o) \/ EventFdConstruct(o)
         \/ Release(o) \/ Reset(o) \/ Destroy(o)
         \/ \E p \in Objects :
              \/ MoveConstruct(o, p)
              \/ SocketAssign(o, p) \/ EpollAssign(o, p) \/ EventFdAssign(o, p)

OwnerSpec == OwnerInit /\ [][OwnerNext]_ownerVars
-----------------------------------------------------------------------------
(* Properties.                                                             *)

\* A descriptor number in an object is an open descriptor and nobody else's: no object
\* acts on, or will close, a descriptor closed before or given to another.
SoleOwner ==
    \A o \in Objects : fd_[o] # -1 =>
        /\ o \in alive /\ fd_[o] \in open \ raw
        /\ \A p \in Objects \ {o} : fd_[p] # fd_[o]

\* A descriptor in use has an object that will close it, or the program holds it.
NothingLeaked ==
    \A d \in open : d \in raw \/ \E o \in alive : fd_[o] = d

\* errorNumber() and valid() agree, also after moves between a good and a failed EventFd.
ErrorFollowsDescriptor ==
    \A v \in EventFds : fd_[v] # -1 => error_number[v] = 0
=============================================================================
