------------------------ MODULE DescriptorOwnerProofs ------------------------
(***************************************************************************)
(* The ownership properties of DescriptorOwner, proved for any number of   *)
(* objects and descriptors.                                                *)
(***************************************************************************)
EXTENDS DescriptorOwner, TLAPS

\* The inductive invariant: what the program holds as plain numbers is open, too.
OwnerInv ==
    /\ DescriptorTypeOK /\ raw \subseteq open
    /\ SoleOwner /\ NothingLeaked /\ ErrorFollowsDescriptor

\* No descriptor is the -1 of an empty object.
LEMMA NoneIsNoDescriptor == -1 \notin Fds
  BY OwnerAssumption

\* Every step keeps the variables in their types.
LEMMA DescriptorTypePreserved ==
    DescriptorTypeOK /\ [OwnerNext]_ownerVars => DescriptorTypeOK'
<1> SUFFICES ASSUME DescriptorTypeOK, [OwnerNext]_ownerVars PROVE DescriptorTypeOK'
  OBVIOUS
<1> USE DEF DescriptorTypeOK
<1>1. CASE OpenRaw
  BY <1>1 DEF OpenRaw
<1>2. CASE CloseRaw
  BY <1>2 DEF CloseRaw
<1>3. ASSUME NEW o \in Objects, SocketConstruct(o) PROVE DescriptorTypeOK'
  BY <1>3 DEF SocketConstruct
<1>4. ASSUME NEW o \in Objects, EpollConstruct(o) PROVE DescriptorTypeOK'
  BY <1>4 DEF EpollConstruct
<1>5. ASSUME NEW o \in Objects, EventFdConstruct(o) PROVE DescriptorTypeOK'
  BY <1>5 DEF EventFdConstruct
<1>6. ASSUME NEW o \in Objects, Release(o) PROVE DescriptorTypeOK'
  BY <1>6 DEF Release
<1>7. ASSUME NEW o \in Objects, Reset(o) PROVE DescriptorTypeOK'
  BY <1>7 DEF Reset
<1>8. ASSUME NEW o \in Objects, Destroy(o) PROVE DescriptorTypeOK'
  BY <1>8 DEF Destroy
<1>9. ASSUME NEW o \in Objects, NEW p \in Objects, MoveConstruct(o, p)
      PROVE  DescriptorTypeOK'
  <2>1. error_number' \in [EventFds -> {0, EMFILE}]
    <3>1. p \in EventFds \/ o \notin EventFds
      BY <1>9, OwnerAssumption DEF MoveConstruct, SameClass, Objects
    <3> QED
      BY <1>9, <3>1 DEF MoveConstruct, MoveError
  <2> QED
    BY <1>9, <2>1 DEF MoveConstruct
<1>10. ASSUME NEW o \in Objects, NEW p \in Objects, SocketAssign(o, p)
       PROVE  DescriptorTypeOK'
  BY <1>10 DEF SocketAssign
<1>11. ASSUME NEW o \in Objects, NEW p \in Objects, EpollAssign(o, p)
       PROVE  DescriptorTypeOK'
  BY <1>11 DEF EpollAssign
<1>12. ASSUME NEW o \in Objects, NEW p \in Objects, EventFdAssign(o, p)
       PROVE  DescriptorTypeOK'
  BY <1>12 DEF EventFdAssign, MoveError
<1>13. CASE UNCHANGED ownerVars
  BY <1>13 DEF ownerVars
<1> QED
  BY <1>1, <1>2, <1>3, <1>4, <1>5, <1>6, <1>7, <1>8, <1>9, <1>10, <1>11, <1>12, <1>13
  DEF OwnerNext

\* Every step keeps a descriptor with one holder and every holder with its descriptor.
LEMMA OwnershipPreserved ==
    OwnerInv /\ [OwnerNext]_ownerVars => OwnerInv'
<1> SUFFICES ASSUME OwnerInv, [OwnerNext]_ownerVars PROVE OwnerInv'
  OBVIOUS
<1>0. DescriptorTypeOK'
  BY DescriptorTypePreserved DEF OwnerInv
<1> USE NoneIsNoDescriptor, <1>0
    DEF OwnerInv, DescriptorTypeOK, SoleOwner, NothingLeaked, ErrorFollowsDescriptor
<1>1. CASE OpenRaw
  BY <1>1 DEF OpenRaw, Lowest
<1>2. CASE CloseRaw
  BY <1>2 DEF CloseRaw
<1>3. ASSUME NEW o \in Objects, SocketConstruct(o) PROVE OwnerInv'
  BY <1>3, OwnerAssumption DEF SocketConstruct, Objects
<1>4. ASSUME NEW o \in Objects, EpollConstruct(o) PROVE OwnerInv'
  BY <1>4, OwnerAssumption DEF EpollConstruct, Lowest, Objects
<1>5. ASSUME NEW o \in Objects, EventFdConstruct(o) PROVE OwnerInv'
  BY <1>5 DEF EventFdConstruct, Lowest, Objects
<1>6. ASSUME NEW o \in Objects, Release(o) PROVE OwnerInv'
  BY <1>6 DEF Release, Objects
<1>7. ASSUME NEW o \in Objects, Reset(o) PROVE OwnerInv'
  BY <1>7, OwnerAssumption DEF Reset, ClosedByReset, Objects
<1>8. ASSUME NEW o \in Objects, Destroy(o) PROVE OwnerInv'
  BY <1>8 DEF Destroy, Objects
<1>9. ASSUME NEW o \in Objects, NEW p \in Objects, MoveConstruct(o, p) PROVE OwnerInv'
  BY <1>9, OwnerAssumption DEF MoveConstruct, MoveError, SameClass, Objects
<1>10. ASSUME NEW o \in Objects, NEW p \in Objects, SocketAssign(o, p) PROVE OwnerInv'
  BY <1>10, OwnerAssumption DEF SocketAssign, ClosedByReset, Objects
<1>11. ASSUME NEW o \in Objects, NEW p \in Objects, EpollAssign(o, p) PROVE OwnerInv'
  BY <1>11, OwnerAssumption DEF EpollAssign, Objects
<1>12. ASSUME NEW o \in Objects, NEW p \in Objects, EventFdAssign(o, p) PROVE OwnerInv'
  BY <1>12 DEF EventFdAssign, MoveError, Objects
<1>13. CASE UNCHANGED ownerVars
  BY <1>13 DEF ownerVars
<1> QED
  BY <1>1, <1>2, <1>3, <1>4, <1>5, <1>6, <1>7, <1>8, <1>9, <1>10, <1>11, <1>12, <1>13
  DEF OwnerNext

\* The invariant holds from the empty process on.
THEOREM OwnershipHolds == OwnerSpec => []OwnerInv
<1>1. OwnerInit => OwnerInv
  BY DEF OwnerInit, OwnerInv, DescriptorTypeOK, SoleOwner, NothingLeaked,
         ErrorFollowsDescriptor
<1> QED
  BY <1>1, OwnershipPreserved, PTL DEF OwnerSpec

\* The objects' members and the kernel's table keep their types: fd_ is a descriptor
\* or -1, whatever was moved, released or reset.
THEOREM DescriptorTypeCorrect == OwnerSpec => []DescriptorTypeOK
  BY OwnershipHolds, PTL DEF OwnerInv

\* Whatever Socket, Epoll and EventFd objects are moved, reset and destroyed in whatever
\* order, no two hold one descriptor and none holds a closed one.
THEOREM DescriptorsHaveOneOwner == OwnerSpec => []SoleOwner
  BY OwnershipHolds, PTL DEF OwnerInv

\* No call forgets a descriptor that is still open.
THEOREM DescriptorsAreNotLost == OwnerSpec => []NothingLeaked
  BY OwnershipHolds, PTL DEF OwnerInv

\* A valid EventFd reports no error, however it came by its descriptor.
THEOREM ErrorsTravelWithDescriptors == OwnerSpec => []ErrorFollowsDescriptor
  BY OwnershipHolds, PTL DEF OwnerInv
=============================================================================
