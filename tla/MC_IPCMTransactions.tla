------------------------ MODULE MC_IPCMTransactions ------------------------
(* Instantiates IPCMTransactions for TLC: two caller threads sharing the  *)
(* transaction id generator and one event loop. Model values and the way *)
(* callers wait are given in the .cfg files.                              *)
EXTENDS IPCMTransactions

\* Three calls: each caller makes one, and one of them a second call whose
\* promise takes the frame slot of the first.
MCMaxCalls == 3

\* Two polling rounds stand for the 500 of Promise::wait: a response can
\* arrive before the first check, between rounds, or in the last round.
MCPolls == 2

\* Every caller waits with Promise::wait.
MCAllWait == [c \in Callers |-> {"wait"}]

\* One caller waits with Promise::wait, the others with timed_wait: a
\* timed-out wait leaves its transaction behind while another thread's
\* transactions complete.
MCMixed ==
  LET w == CHOOSE c \in Callers : TRUE
  IN [c \in Callers |-> IF c = w THEN {"wait"} ELSE {"timed_wait"}]
=============================================================================
