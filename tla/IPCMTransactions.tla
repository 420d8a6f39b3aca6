-------------------------- MODULE IPCMTransactions --------------------------
(***************************************************************************)
(* Asynchronous IPC Manager calls and their promises:                     *)
(* Promise, TransactionState and the pending-transaction table of        *)
(* src/rinad/src/ipcm/ipcm.h.                                              *)
(*                                                                         *)
(* A caller thread (console or script worker) starts an operation with a  *)
(* promise it owns (create_ipcp, assign_to_dif, ... : "@ret IPCM_FAILURE  *)
(* on failure, otherwise IPCM_PENDING"). The operation records a         *)
(* TransactionState under a fresh transaction id and sends a request to  *)
(* an IPC process. The caller then blocks in Promise::wait (polling with *)
(* a hard timeout) or calls Promise::timed_wait until the result is no    *)
(* longer IPCM_PENDING, and the promise goes out of scope. The IPC        *)
(* Manager event loop takes each response, looks the transaction up       *)
(* (get_transaction_state), calls completed(), which writes promise->ret, *)
(* and removes the transaction.                                           *)
(*                                                                         *)
(* Time is not modelled: a timed wait ending is a step that may happen    *)
(* before or after the response, as on a loaded machine.                  *)
(***************************************************************************)
EXTENDS Naturals

CONSTANTS
  Callers,    \* threads using the asynchronous IPC Manager API
  WaitModes,  \* how each caller waits: "wait" (Promise::wait), "timed_wait"
  MaxCalls,   \* bound on transaction ids handed out by __tid_gen
  Polls,      \* PROMISE_TIMEOUT_S * (1s / PROMISE_RETRY_NSEC) iterations
  None        \* NULL

ASSUME /\ WaitModes \in [Callers -> SUBSET {"wait", "timed_wait"} \ {{}}]
       /\ MaxCalls \in Nat /\ Polls \in Nat \ {0}

\* ipcm_res_t: IPCM_SUCCESS, IPCM_PENDING, IPCM_FAILURE.
Results == {"SUCCESS", "FAILURE"}
Codes   == Results \cup {"PENDING"}
Tids    == 1..MaxCalls

VARIABLES
  pc,       \* where each caller is
  ctid,     \* transaction id of each caller's current call
  pret,     \* promise->ret of the promise object in each caller's frame
  pgen,     \* which call the promise in each caller's frame belongs to
  palive,   \* the promise is in scope (its call has not returned)
  polls,    \* loop counter i of Promise::wait
  rv,       \* what the last call returned, and how: [val, how]
  nextTid,  \* last id handed out by __tid_gen
  pend,     \* pend_transactions: tid -> [caller, gen] of its promise, or None
  kreq,     \* requests the IPC processes have not answered yet
  resp,     \* responses queued for the event loop: [tid, res]
  el,       \* the transaction the event loop is handling, or None
  outcome   \* the result completed() reported for each tid (history)

vars == <<pc, ctid, pret, pgen, palive, polls, rv, nextTid, pend, kreq, resp,
          el, outcome>>

\* The entry point of each way of waiting.
WaitEntry == [m \in {"wait", "timed_wait"} |-> IF m = "wait" THEN "check" ELSE "tw"]

-----------------------------------------------------------------------------
(* Callers                                                                 *)

\* Mutant: the TransactionState constructor does not reset promise->ret.
NewTransactionStateNoReset(c) == pret

\* TransactionState(promise, tid): promise->ret = IPCM_PENDING.
NewTransactionState(c) == [pret EXCEPT ![c] = "PENDING"]

\* add_transaction_state: record the state under its tid.
AddTransactionState(t, c, g) == [pend EXCEPT ![t] = [caller |-> c, gen |-> g]]

\* The call returns v to the caller, whose promise then goes out of scope.
Return(c, v, how) ==
  /\ pc' = [pc EXCEPT ![c] = "idle"]
  /\ rv' = [rv EXCEPT ![c] = [val |-> v, how |-> how]]
  /\ palive' = [palive EXCEPT ![c] = FALSE]

\* Mutant: the transaction id generator skips one id.
CallAsyncTidSkip(c) ==
  LET t == nextTid + 2
  IN
  /\ pc[c] = "idle"
  /\ nextTid < MaxCalls
  /\ nextTid' = t
  /\ ctid' = [ctid EXCEPT ![c] = t]
  /\ pgen' = [pgen EXCEPT ![c] = @ + 1]
  /\ pret' = NewTransactionState(c)
  /\ pend' = AddTransactionState(t, c, pgen[c] + 1)
  /\ kreq' = kreq \cup {t}
  /\ palive' = [palive EXCEPT ![c] = TRUE]
  /\ polls' = [polls EXCEPT ![c] = 0]
  /\ \E m \in WaitModes[c] : pc' = [pc EXCEPT ![c] = WaitEntry[m]]
  /\ UNCHANGED <<rv, resp, el, outcome>>

\* An asynchronous operation: a fresh promise and tid, the transaction
\* state (promise->ret = IPCM_PENDING) added to pend_transactions, the
\* request sent. A failed send removes the transaction again and returns
\* IPCM_FAILURE; otherwise IPCM_PENDING, and the caller waits.
CallAsync(c) ==
  LET t == nextTid + 1
  IN
  /\ pc[c] = "idle"
  /\ nextTid < MaxCalls
  /\ nextTid' = t
  /\ ctid' = [ctid EXCEPT ![c] = t]
  /\ pgen' = [pgen EXCEPT ![c] = @ + 1]
  /\ pret' = NewTransactionState(c)
  /\ \/ /\ pend' = AddTransactionState(t, c, pgen[c] + 1)
        /\ kreq' = kreq \cup {t}
        /\ palive' = [palive EXCEPT ![c] = TRUE]
        /\ polls' = [polls EXCEPT ![c] = 0]
        /\ \E m \in WaitModes[c] : pc' = [pc EXCEPT ![c] = WaitEntry[m]]
        /\ UNCHANGED rv
     \/ /\ rv' = [rv EXCEPT ![c] = [val |-> "FAILURE", how |-> "call"]]
        /\ UNCHANGED <<pend, kreq, palive, polls, pc>>
  /\ UNCHANGED <<resp, el, outcome>>

\* Promise::wait, loop head: if (ret != IPCM_PENDING) return ret.
WaitCheck(c) ==
  /\ pc[c] = "check"
  /\ \/ /\ pret[c] # "PENDING"
        /\ Return(c, pret[c], "result")
     \/ /\ pret[c] = "PENDING"
        /\ pc' = [pc EXCEPT ![c] = "sleep"]
        /\ UNCHANGED <<rv, palive>>
  /\ UNCHANGED <<ctid, pret, pgen, polls, nextTid, pend, kreq, resp, el, outcome>>

\* Mutant: the loop counter is not incremented.
WaitSleepNoIncrement(c) ==
  /\ pc[c] = "sleep"
  /\ pc' = [pc EXCEPT ![c] = "check"]
  /\ UNCHANGED <<ctid, pret, pgen, palive, polls, rv, nextTid, pend, kreq,
                 resp, el, outcome>>

\* wait_cond.timedwait(0, PROMISE_RETRY_NSEC) ends (signalled or timed out,
\* the exception is swallowed), ++i, and the loop goes on while
\* i < PROMISE_TIMEOUT_S * (1s / PROMISE_RETRY_NSEC).
WaitSleep(c) ==
  /\ pc[c] = "sleep"
  /\ polls' = [polls EXCEPT ![c] = @ + 1]
  /\ pc' = [pc EXCEPT ![c] = IF polls[c] + 1 < Polls THEN "check" ELSE "expired"]
  /\ UNCHANGED <<ctid, pret, pgen, palive, rv, nextTid, pend, kreq, resp, el,
                 outcome>>

\* Mutant: the hard timeout also removes the caller's transaction from
\* pend_transactions.
WaitTimeoutRemoves(c) ==
  /\ pc[c] = "expired"
  /\ pret' = [pret EXCEPT ![c] = "FAILURE"]
  /\ pend' = [pend EXCEPT ![ctid[c]] = None]
  /\ Return(c, "FAILURE", "timeout")
  /\ UNCHANGED <<ctid, pgen, polls, nextTid, kreq, resp, el, outcome>>

\* Hard timeout: ret = IPCM_FAILURE; return ret. The transaction stays in
\* pend_transactions.
WaitTimeout(c) ==
  /\ pc[c] = "expired"
  /\ pret' = [pret EXCEPT ![c] = "FAILURE"]
  /\ Return(c, "FAILURE", "timeout")
  /\ UNCHANGED <<ctid, pgen, polls, nextTid, pend, kreq, resp, el, outcome>>

\* Mutant: the caller takes the IPCM_PENDING that timed_wait returns on a
\* timeout as the result and lets the promise go.
TimedWaitGiveUp(c) ==
  /\ pc[c] = "tw"
  /\ Return(c, pret[c], "result")
  /\ UNCHANGED <<ctid, pret, pgen, polls, nextTid, pend, kreq, resp, el, outcome>>

\* Promise::timed_wait: if (ret != IPCM_PENDING) return ret; otherwise
\* wait_cond.timedwait(seconds, 0) and, signalled or on the timeout
\* exception, return ret, which may still be IPCM_PENDING. A caller that
\* gets IPCM_PENDING keeps its promise and calls timed_wait again, as the
\* API requires; those rounds change nothing, so the call is modelled as
\* returning once ret is no longer IPCM_PENDING.
TimedWait(c) ==
  /\ pc[c] = "tw"
  /\ pret[c] # "PENDING"
  /\ Return(c, pret[c], "result")
  /\ UNCHANGED <<ctid, pret, pgen, polls, nextTid, pend, kreq, resp, el, outcome>>

-----------------------------------------------------------------------------
(* IPC processes and the IPC Manager event loop                           *)

\* An IPC process answers a request, successfully or not.
ProcessAnswers ==
  \E t \in kreq, v \in Results :
    /\ kreq' = kreq \ {t}
    /\ resp' = resp \cup {[tid |-> t, res |-> v]}
    /\ UNCHANGED <<pc, ctid, pret, pgen, palive, polls, rv, nextTid, pend, el,
                   outcome>>

\* Mutant: the response handler hits an error and drops the transaction
\* without calling completed().
EventLoopGetDrop ==
  /\ el = None
  /\ \E r \in resp :
       /\ resp' = resp \ {r}
       /\ el' = IF pend[r.tid] = None THEN None
                ELSE [tid |-> r.tid, res |-> r.res, done |-> TRUE,
                      caller |-> pend[r.tid].caller, gen |-> pend[r.tid].gen]
  /\ UNCHANGED <<pc, ctid, pret, pgen, palive, polls, rv, nextTid, pend, kreq,
                 outcome>>

\* A response event: get_transaction_state(tid) under the read lock; the
\* pointer it returns is used after the lock is released. No state: the
\* response is dropped.
EventLoopGet ==
  /\ el = None
  /\ \E r \in resp :
       /\ resp' = resp \ {r}
       /\ el' = IF pend[r.tid] = None THEN None
                ELSE [tid |-> r.tid, res |-> r.res, done |-> FALSE,
                      caller |-> pend[r.tid].caller, gen |-> pend[r.tid].gen]
  /\ UNCHANGED <<pc, ctid, pret, pgen, palive, polls, rv, nextTid, pend, kreq,
                 outcome>>

\* TransactionState::completed(ret): promise->ret = ret; signal. The write
\* goes to whatever now occupies the promise's frame slot.
Completed ==
  /\ el # None
  /\ ~el.done
  /\ pret' = [pret EXCEPT ![el.caller] = el.res]
  /\ outcome' = [outcome EXCEPT ![el.tid] = el.res]
  /\ el' = [el EXCEPT !.done = TRUE]
  /\ UNCHANGED <<pc, ctid, pgen, palive, polls, rv, nextTid, pend, kreq, resp>>

\* remove_transaction_state(tid), then the state is deleted.
RemoveTransactionState ==
  /\ el # None
  /\ el.done
  /\ pend' = [pend EXCEPT ![el.tid] = None]
  /\ el' = None
  /\ UNCHANGED <<pc, ctid, pret, pgen, palive, polls, rv, nextTid, kreq, resp,
                 outcome>>

-----------------------------------------------------------------------------

Init ==
  /\ pc = [c \in Callers |-> "idle"]
  /\ ctid = [c \in Callers |-> 0]
  /\ pret = [c \in Callers |-> "PENDING"]
  /\ pgen = [c \in Callers |-> 0]
  /\ palive = [c \in Callers |-> FALSE]
  /\ polls = [c \in Callers |-> 0]
  /\ rv = [c \in Callers |-> None]
  /\ nextTid = 0
  /\ pend = [t \in Tids |-> None]
  /\ kreq = {}
  /\ resp = {}
  /\ el = None
  /\ outcome = [t \in Tids |-> None]

CallerStep(c) ==
  WaitCheck(c) \/ WaitSleep(c) \/ WaitTimeout(c) \/ TimedWait(c)

EventLoopStep == EventLoopGet \/ Completed \/ RemoveTransactionState

Next ==
  \/ \E c \in Callers : CallAsync(c) \/ CallerStep(c)
  \/ EventLoopStep
  \/ ProcessAnswers

\* Callers and the event loop are threads the scheduler runs. Starting a
\* call is never forced.
ThreadFairness ==
  /\ \A c \in Callers : WF_vars(CallerStep(c))
  /\ WF_vars(EventLoopStep)

\* IPC processes answer every request.
Spec == Init /\ [][Next]_vars /\ ThreadFairness /\ WF_vars(ProcessAnswers)

-----------------------------------------------------------------------------
(* Properties                                                              *)

TypeOK ==
  /\ pc \in [Callers -> {"idle", "check", "sleep", "expired", "tw"}]
  /\ ctid \in [Callers -> 0..MaxCalls]
  /\ pret \in [Callers -> Codes]
  /\ polls \in [Callers -> 0..Polls]
  /\ nextTid \in 0..MaxCalls
  /\ pend \in [Tids -> [caller: Callers, gen: 0..MaxCalls] \cup {None}]
  /\ kreq \subseteq Tids
  /\ resp \subseteq [tid: Tids, res: Results]
  /\ outcome \in [Tids -> Results \cup {None}]

\* The callers that only ever wait with Promise::timed_wait.
TimedWaiters == {c \in Callers : WaitModes[c] = {"timed_wait"}}

\* completed() writes promise->ret only while that promise is in scope:
\* the promise of the call that created the transaction, whose caller has
\* not returned (the API comment: "the promise shall always be accessible
\* until ... promise->ret value is different than IPCM_PENDING"), for the
\* transactions of the callers in cs.
PromiseAliveAtCompletion(cs) ==
  el # None /\ ~el.done /\ el.caller \in cs =>
    /\ palive[el.caller]
    /\ pgen[el.caller] = el.gen

\* The API comment holds for every transaction.
CompletedPromiseAlive == PromiseAliveAtCompletion(Callers)

\* It holds for the transactions of the callers that use timed_wait,
\* whatever the threads that use wait do.
TimedWaitPromiseAlive == PromiseAliveAtCompletion(TimedWaiters)

\* A call that returned a result (not a timeout) returned the result that
\* completed() reported for its own transaction, never a value left in the
\* promise by an earlier call; for the callers that use timed_wait.
ResultIsOwn ==
  \A c \in TimedWaiters :
    pc[c] = "idle" /\ rv[c] # None /\ rv[c].how = "result" =>
      outcome[ctid[c]] = rv[c].val

\* Promise::wait reports IPCM_FAILURE for a timeout only when the
\* transaction has not completed: a result completed() has already
\* delivered is never replaced by the timeout.
TimeoutOnlyIfIncomplete ==
  [][\A c \in Callers :
       pc[c] = "expired" /\ pc'[c] = "idle" => outcome[ctid[c]] = None]_vars

\* get_transaction_state returns the TransactionState pointer after its
\* read lock is released (ipcm.h 640-651), and the event loop goes on to
\* call completed() through it and then removes it. No other thread removes
\* and deletes that transaction in between: while the event loop holds a
\* transaction, it is still the one recorded in pend_transactions.
HeldStateStillPending ==
  el # None => pend[el.tid] = [caller |-> el.caller, gen |-> el.gen]

\* Every wait ends: a caller blocked on its promise returns.
WaitReturns ==
  \A c \in Callers : pc[c] # "idle" ~> pc[c] = "idle"

=============================================================================
