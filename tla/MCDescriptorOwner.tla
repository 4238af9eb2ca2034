---- MODULE MCDescriptorOwner ----
EXTENDS DescriptorOwner, TLC
Symmetry == Permutations(Sockets) \cup Permutations(Epolls) \cup Permutations(EventFds)
====
