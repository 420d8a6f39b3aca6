----------------------------- MODULE NetlinkRPC -----------------------------
(***************************************************************************)
(* What sendRequestMessageAndWaitForReply of src/librina/src/core.cc     *)
(* promises its callers, with the socket, the reader thread and the       *)
(* session tables abstracted away: a thread sends a request to a port     *)
(* under a sequence number no other outstanding request carries, receives *)
(* exactly one reply, and that reply answers its own request; the call    *)
(* returns only with that reply. RINAManager.tla implements this         *)
(* specification under a refinement mapping.                              *)
(***************************************************************************)
EXTENDS Naturals

CONSTANTS
  Requesters,  \* threads calling sendRequestMessageAndWaitForReply
  Ports,       \* netlink port ids of the peers
  Seqs,        \* sequence numbers
  None         \* no request outstanding / no reply yet

VARIABLES
  call,   \* the outstanding request of each thread: [port, seq], or None
  reply   \* the reply handed to each thread: [port, seq], or None

vars == <<call, reply>>

\* Sequence numbers carried by outstanding requests.
Outstanding == {call[r].seq : r \in {q \in Requesters : call[q] # None}}

Init ==
  /\ call = [r \in Requesters |-> None]
  /\ reply = [r \in Requesters |-> None]

\* The request leaves the process.
Call(r) ==
  /\ call[r] = None
  /\ \E p \in Ports, s \in Seqs \ Outstanding :
       call' = [call EXCEPT ![r] = [port |-> p, seq |-> s]]
  /\ UNCHANGED reply

\* The reply to r's request reaches r.
Deliver(r) ==
  /\ call[r] # None
  /\ reply[r] = None
  /\ reply' = [reply EXCEPT ![r] = call[r]]
  /\ UNCHANGED call

\* The call returns with its reply.
Return(r) ==
  /\ reply[r] # None
  /\ call' = [call EXCEPT ![r] = None]
  /\ reply' = [reply EXCEPT ![r] = None]

Next == \E r \in Requesters : Call(r) \/ Deliver(r) \/ Return(r)

\* What any behaviour must do step by step.
SafetySpec == Init /\ [][Next]_vars

\* And, with a peer that answers, every call returns.
Spec == SafetySpec /\ \A r \in Requesters : WF_vars(Deliver(r)) /\ WF_vars(Return(r))

=============================================================================
