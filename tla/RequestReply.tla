---------------------------- MODULE RequestReply ----------------------------
(***************************************************************************)
(* What an exchange with NetPulse promises a device: the server handles    *)
(* the request at most once and as it was given; a device that succeeds    *)
(* has been answered by the server's reply to it; every device ends.       *)
(***************************************************************************)
EXTENDS Sequences

CONSTANTS Requests, Replies

VARIABLES
    request,  \* what the device asks
    handled,  \* the requests the server has taken
    replied,  \* the replies the server has given
    outcome,  \* "running", "answered" or "failed"
    answer    \* the replies the device has received

vars == <<request, handled, replied, outcome, answer>>

Init ==
    /\ request \in Requests
    /\ handled = <<>> /\ replied = <<>>
    /\ outcome = "running" /\ answer = <<>>

Handle ==
    /\ handled = <<>>
    /\ handled' = <<request>>
    /\ UNCHANGED <<request, replied, outcome, answer>>

Reply ==
    /\ handled # <<>> /\ replied = <<>>
    /\ \E reply \in Replies : replied' = <<reply>>
    /\ UNCHANGED <<request, handled, outcome, answer>>

Receive ==
    /\ outcome = "running" /\ answer = <<>>
    /\ replied # <<>> /\ answer' = replied
    /\ UNCHANGED <<request, handled, replied, outcome>>

End ==
    /\ outcome = "running"
    /\ outcome' = IF answer # <<>> THEN "answered" ELSE "failed"
    /\ UNCHANGED <<request, handled, replied, answer>>

Next == Handle \/ Reply \/ Receive \/ End

Safety == Init /\ [][Next]_vars

Spec == Safety /\ WF_vars(End)
=============================================================================
