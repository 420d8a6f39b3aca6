# TLA+ models of the RINA stack sources

This directory holds TLA+ models of the code under `src/`. TLC checks them.
Each model is written from the source lines that `PROJECT.json` ("map") names
for it. `PROJECT.json` also lists the runs, the mutants that show each checked
property can fail, the findings and the hazards of the code.

## The system and its parts

| Part | Source | Role | Model |
|---|---|---|---|
| Netlink request/response matching | `src/librina/src/core.cc` | librina's `RINAManager`: application threads send netlink requests and block until the reply arrives. One reader thread dispatches incoming replies, peer requests and notifications. All session tables sit under one mutex, `sendReceiveLock`. | `NetlinkRPC` (abstract), `RINAManager` (partly) |
| IPC Manager transactions | `src/rinad/src/ipcm/ipcm.h` | `Promise`/`TransactionState`: a caller waits, with a timeout, for a transaction that the event-loop thread completes. | `IPCMTransactions` (partly) |
| Shim Ethernet VLAN factory | `src/linux/net/rina/shim-eth-vlan.c` | Kernel factory of shim IPC processes, registered with the default personality's KIPCM. | `KernelModules` (partly) |
| Default personality | `src/linux/net/rina/default.c` | Kernel module init/fini of the RINA components and the forwarding of personality operations. | `DefaultPersonality`, `KernelModules` |
| Policy parameters | `src/linux/net/rina/policies.c` | Policies with an intrusive list of name/value parameters. | `PolicyParams` (abstract), `Policies` (partly) |
| EFCP helpers | `src/linux/net/rina/efcp-utils.h` | Declarations only. | not modelled |
| RIB engine and its test | `src/librina/test/test-rib_v2.cc` | Unit test of the RIB engine (schemas, RIBs, object trees, AE associations, remote operation dispatch). The engine itself is not under `src/`. | `RIB` (partly) |

How the parts interact:

- librina (`core.cc`) is the user-space side of the netlink channel. The IPC
  Manager (`ipcm.h`) is its user: its event loop takes the IPC events that
  librina's reader thread queues, and completes the transactions that IPC
  Manager callers wait on.
- The kernel modules (`default.c`, `shim-eth-vlan.c`, `policies.c`) are the
  peers on the other side of that channel. The shim module uses the
  `default_kipcm` symbol that `default.c` exports, so the two are modelled
  together.
- The RIB engine runs inside librina-based applications; its remote requests
  arrive from a peer over a CDAP connection.

Every module has its own `MC_*.tla` instantiation and `.cfg` files. Model
values and small sets stand for threads, objects and names.

## RINAManager: netlink request/response matching

### State

| Variable | Code |
|---|---|
| `lockOwner` | `sendReceiveLock` |
| `sessions`, `localPending`, `remotePending` | `netlinkSessions` and the two tables of each `NetlinkSession`. Sequence numbers stand for message objects. |
| `slot[r]` | `responseMessage` of the `PendingNetlinkMessage` of requester `r`. Its condition-variable wait is the guard `slot[r] # None`. |
| `events` | the `BlockingFIFOQueue<IPCEvent>` |
| `inbox` | the socket receive queue |
| `toPeer` | requests sent and not yet answered |
| `pc` | where each thread is |
| `aborted` | the process ended on an uncaught exception |
| `freed` | stored peer requests that a responder has deleted (`core.cc:351`); a new copy stored under the same source and sequence number is a live object again |

### Actions

Each code path is split at every lock and unlock, because those are where
other threads can interleave:

- `Requester*`: `sendRequestMessageAndWaitForReply` and
  `getResponseMessage`.
- `Reader*`: `doNetlinkMessageReaderWork`, `netlinkResponseMessageArrived`,
  `netlinkRequestMessageArrived` and `setResponseMessage`.
  After queueing the event of a message, the reader reads the message once
  more (`isNotificationMessage`, line 208) before it deletes notifications;
  that read is the step `ReaderNotifCheck`.
- `Responder*`: `sendResponseOrNotficationMessage`. A successful answer
  takes the request out of the session's remote table and deletes it
  (`Delete`).
- `Peer*`: the environment. Peers answer requests in any order and originate
  requests and notifications.

Faults are bounded by constants:

- `MaxStray`: a duplicated message, or an unsolicited reply with sequence
  number 0.
- `MaxLost`: a `getMessage` error, which drops the message.

Unlocking a mutex the thread does not own is undefined behaviour. It is
modelled as either of the two outcomes a build can produce:

- the default mutex is released;
- an error-checking mutex fails, Lockable throws, and the process ends.

### Runs

| Run | Config | Checks | Result |
|---|---|---|---|
| `rinamanager` | `MC_RINAManager.cfg` | `TypeOK`, `MutualExclusion`, `ReplyMatchesRequest`, `NoDanglingPending`, `ResponderFindsRequest`, `RPCImplemented` (refinement, with liveness) | Pass, about 334k distinct states. Reliable netlink. |
| `rinamanager_faults` | `MC_RINAManager_faults.cfg` | `ReplyMatchesRequest`, `NoDanglingPending` | Pass, about 526k states. One stray message and one receive error. |
| `rinamanager_double_unlock` | `MC_RINAManager_double_unlock.cfg` | `MutualExclusion` | Violated (see below). |
| `rinamanager_reader_uaf` | `MC_RINAManager_reader_uaf.cfg` | `ReaderMessageAlive` | Violated (see below). Reliable netlink. |

What the passing runs show: the reply matching in `core.cc` is correct. Every
reply reaches the thread that sent the request, whatever order the peers answer
in. No table entry outlives its waiting thread.

### Refinement

`NetlinkRPC.tla` states what `sendRequestMessageAndWaitForReply` promises,
without sockets, threads or tables:

- a call sends a request under a sequence number no other outstanding call
  carries;
- it receives exactly one reply, the reply to its own request;
- it returns with that reply.

The mapping in `RINAManager.tla` (`RPC`) gives a requester an outstanding
call from the successful send until `getResponseMessage` returns. Its reply
is what `setResponseMessage` stored. `RPCImplemented` checks `RPC!Spec`,
weak fairness on delivery and return included, so it also says every
blocked caller returns. The refinement is not checked under faults. A stray
reply makes the reader unlock twice (below), after which two threads may
write the session `std::map`s at once. That is undefined behaviour, and the
model, which makes each table operation one atomic step, cannot show its
outcome. A pass there would hide the double unlock rather than check the
matching. Lost replies also make the liveness part false. The faults run
therefore checks only the matching invariants.

What the violation shows: a code bug at `core.cc:383`. A reply that matches no
pending request (a duplicate, or an unsolicited reply from a port that has a
session) makes `netlinkResponseMessageArrived` unlock twice. The trace runs:

1. The reader unlocks at line 381.
2. A requester locks.
3. The reader unlocks again at line 383, which frees the requester's lock.
4. A second requester locks, and two threads now run the session-table code at
   once.

The second violation is a code bug at `core.cc:208` that needs no fault.
The reader stores a peer request, puts its event in the events queue, and
only then calls `isNotificationMessage()` on it. In the 9-state trace a
responder takes the event, sends the answer and deletes the request
(line 351) before that call, which then reads freed memory; if the stale
field reads true the reader deletes the message again.

### Bounds

- Two requesters and two peer ports, so replies can come back crossed or out
  of order.
- Two sequence numbers (`MaxSeq`), so two requests can be in flight at once.
- Up to two peer-originated messages (one in the faults run). With two, the
  faults run reaches about 10M states in nearly four minutes, and with two
  strays as well it does not finish in fifteen, so it keeps one.
- One responder. Concurrent responders contend on the same lock as the
  requesters do.

### Fairness

- Weak fairness on each thread's steps (the scheduler runs runnable threads).
- Weak fairness on peers answering requests: the kernel answers what it
  receives.
- No fairness on issuing requests, peer-originated traffic or faults.

### Deadlock checking

Deadlock checking is off. Once the bounds are used up, the reader blocks in
`getMessage` for good, which is a legitimate final state.

### Not modelled

- Message payloads.
- `NetlinkPortIdMap` and `set`/`getNelinkPortId` (see the general list).
- The leak of the first copy of a duplicated peer request: `freed` is kept
  per source and sequence number, so two copies are one object to the model.

## IPCMTransactions: promises and the transaction table

### State and actions

- `pc`, `ctid`, `polls`, `rv`: each caller thread's place in its call, its
  transaction id, the polling rounds left in `Promise::wait`, and what the
  call returned.
- `pret`, `pgen`, `palive`: the caller's promise (`promise->ret`), which call
  the promise object in the caller's frame belongs to, and whether it is
  still in scope.
- `nextTid`, `pend`: `__tid_gen` and `pend_transactions`.
- `kreq`, `resp`, `outcome`: requests sent to IPC processes, responses
  queued for the event loop, and the result each transaction really had.
- `el`: the transaction the event loop is processing.

Actions:

- `CallAsync`: an API call that records a `TransactionState`.
- `WaitCheck`, `WaitSleep`, `WaitTimeout`: the polling loop of
  `Promise::wait`.
- `TimedWait`, `TimedWaitGiveUp`: `Promise::timed_wait`.
- `ProcessAnswers`: the IPC process.
- `EventLoopGet`, `EventLoopGetDrop`, `Completed`, `RemoveTransactionState`:
  the event loop looks the transaction up, calls `completed()` and removes
  the transaction.

Time is not modelled. A timed wait ending is a step that can fall before or
after the response.

### Runs

| Run | Config | Checks | Result |
|---|---|---|---|
| `ipcm_mixed_waits` | `MC_IPCMTransactions.cfg` | `TypeOK`, `TimedWaitPromiseAlive`, `ResultIsOwn`, `HeldStateStillPending`, `WaitReturns` (liveness) | Pass, about 44k states. |
| `ipcm_late_completion` | `MC_IPCMTransactions_late.cfg` | `CompletedPromiseAlive` | Violated. |
| `ipcm_timeout_overwrite` | `MC_IPCMTransactions_overwrite.cfg` | `TimeoutOnlyIfIncomplete` | Violated. |

The passing run has one caller in `Promise::wait` and one in `timed_wait`.
It shows four things:

- every wait returns;
- a caller that uses `timed_wait` only ever sees its own transaction's
  result;
- such a caller's promise is still in scope when `completed()` writes to
  it, even while the other thread times out and leaves transactions behind;
- the state pointer that `get_transaction_state` hands the event loop
  (`ipcm.h:640`) is still the table's entry when the loop uses it, because
  no caller removes a transaction, even on timeout.

Whether every transaction is eventually removed is not checked. A failed
send's cleanup is in `ipcm.cc`, outside `src/`, and the event loop is the
only remover that is modelled, so such a property would hold by
assumption.

The two violations concern `Promise::wait`:

- `ipcm.h:199`: the hard timeout sets `IPCM_FAILURE` but leaves the
  transaction in the table. The API comment lets the caller drop the
  promise at that point, so a late response writes into a promise that is
  out of scope. That can be the caller's next promise.
- `ipcm.h:106`: the loop stores `IPCM_FAILURE` after its last round
  without checking again. A result that arrived during that round is lost.

### Bounds and fairness

- Two callers and three calls, so one caller makes a second call whose
  promise reuses the frame slot of its first.
- Two polling rounds stand for the 500 of `Promise::wait`. A response can
  arrive before the first check, between rounds, or in the last round.
- Weak fairness on each caller's and the event loop's steps, since they are
  threads.
- Weak fairness on `ProcessAnswers`: IPC processes answer.
- No fairness on starting calls.

## DefaultPersonality and KernelModules: kernel module load/unload

`DefaultPersonality` models `default.c`:

- `ptr[c]` is each pointer of `personality_data`. It is `"null"`, `"live"`
  or `"dead"`; a pointer is dead when its component was finalised and the
  pointer kept.
- `finis[c]` counts fini calls on the current object.
- `InitStep(c)` is one step of `default_init`, with its error path through
  `DefaultFini`. `DefaultFini` is the set of outcomes of `default_fini`.
- `Use(op)` is a forwarded personality operation behind
  `is_personality_ok`.

`KernelModules` composes it with the shim module. Its actions:

- `DefaultModInit` and `DefaultModExit`;
- `ShimModInit` and `ShimModExit`: factory register and unregister through
  `default_kipcm`;
- `CreateShimInstance`: `default_ipc_create` down to `eth_vlan_create`.

The kernel serialises module loads and unloads, and refuses to unload
`default` while the shim uses its symbol. So every action is a whole call.

| Run | Config | Checks | Result |
|---|---|---|---|
| `kernel_use_after_fini` | `MC_KernelModules_use_after_fini.cfg` | `NoUseAfterFini` | Violated. |
| `kernel_shim_oops` | `MC_KernelModules_shim_oops.cfg` | `NoOops` | Violated. |

What the violations show:

- `default.c:199`: when a component init fails and `default_fini`
  succeeds, `default_init` carries on with the next step. It can report
  success. `default_fini` never clears the pointers it finalised, so a later
  failure finalises a component twice, and personality calls reach
  finalised components. TLC's trace: nlset comes up, then `kipcm_init`
  fails. `default_fini` finalises nlset and init goes on. Then `efcp_init`
  fails, and `default_fini` finalises nlset a second time.
- `shim-eth-vlan.c:332`: `list_add` has swapped arguments on a list head
  that was never initialised. Every instance creation dereferences NULL.
  The shim's configure, destroy and register paths need an instance, so
  they are unreachable, and they are not modelled.

Init and fini failures are switched on by the `InitMayFail` and
`FiniMayFail` constants.

## Policies and PolicyParams: parameter lists and their refinement

`PolicyParams` is the abstract promise of the policy API:

- a policy holds an ordered list of parameters;
- a parameter is on at most one policy;
- removing a parameter succeeds exactly when it is there.

`Policies` models the code of `policies.c`:

- the `next`/`prev` pointers of every `list_head` (`nxt`, `prv`),
  including `LIST_POISON` left by `list_del`;
- `ListOf` walks a list recursively;
- each `policy_*` function is one action; the file takes no lock.

`Implements` checks `Abstract!Spec`. The refinement mapping takes each live
policy's list walk to `params`.

| Run | Config | Checks | Result |
|---|---|---|---|
| `policies` | `MC_Policies.cfg` | `TypeOK`, `ListWellFormed`, `Implements` | Pass, about 870k states. Callers pass `policy_param_rem` the list entry itself. |
| `policies_rem` | `MC_Policies_rem.cfg` | `Implements` | Violated. |

The violation lets callers pass any parameter carrying the name.
`policy_param_rem` (`policies.c:172`) finds the entry by name and then
`list_del`s its argument. It reports success while the entry stays on the list, which
breaks the refinement.

Bounds and symmetry:

- Two policies, three parameters and two names, so a policy can hold two
  parameters, two parameters can share a name, and a parameter can move
  between policies.
- Symmetry over names and over policies, both of which the code only
  compares for equality.

## RIB: the RIB engine as the test drives it

The RIB engine's code is not in this tree, so its operations are modelled
from the design the specification documents. They are marked
`spec_modelled` in the map. Its inputs are exactly what
`test-rib_v2.cc` passes:

- the schema and create-callback bindings;
- the RIBs and associations;
- valid and invalid object names;
- the six remote requests of `testOperations`, with the test's handlers and
  callbacks deciding the results.

`MC_RIB` names these inputs, mapped to the test's lines.

State:

- `life`: the engine's init/fini state.
- `schemas`, `bindings`: the schema registry and create-callback
  bindings.
- `ribVer`, `assoc`: the RIBs (a handle and its version) and the
  version/AE association table.
- `objs`, `nextId`: each RIB's object tree (fqn to id and class) and
  instance-id counter.
- `held`, `removal`: the ids the application kept, and the last removal.
- `rq`: the request being dispatched.

An fqn is a character sequence. Name validation and derivation of the
parent from the longest existing ancestor therefore do what the string
code does with `/`.

Proxy calls and remote lookups each run whole under the engine's lock, so
each is one step. The handler of a request runs as a separate step,
`RemoteReply`.

| Run | Config | Checks | Result |
|---|---|---|---|
| `rib` | `MC_RIB.cfg` | `TypeOK`, `ChildrenKeepParent` (action property), `RemoveHitsItsObject` | Pass, about 244k states. |

What the run shows:

- Removing objects never changes a remaining object's parent. Only adding a
  nearer ancestor does.
- An instance id kept from an earlier `addObjRIB` never removes another
  object. The test removes `inst_id2` twice.

Name validation and one-to-one associations are the `ValidName` and
`AssocConflict` guards themselves. Invariants that restated them were
dropped.

Bounds and deadlock checking:

- Two RIB handles and three instance ids per RIB. The test adds four
  objects to one RIB, which these bounds cannot all reach. Three ids still
  cover an ancestor added after its descendant, a removal followed by an
  insertion, and a repeated removal.
- No fairness: nothing in the test must eventually happen.
- Deadlock checking is off, because after `fini` no call is allowed.

There is a disagreement that is not a run. The test expects a
`read_request` for an unknown AE to throw (`test-rib_v2.cc:923`), while the
specification says the error goes back through the provider. It is recorded
in the component note.

## Fairness, summarised

Weak fairness is assumed only for steps of threads that exist and are
runnable, and for peers answering a request they received. Starting calls,
peer-originated traffic and faults are never forced.

## Not modelled

- `efcp-utils.h` holds declarations only.
- The shim's configure, destroy and `application_register` are unreachable
  behind the instance-creation fault.
- Message payloads.
- `NetlinkPortIdMap` and the port-id setters of `core.cc` (lines 31-85,
  413-429). The maps are only ever added to, under a reader/writer lock,
  and the port id is one integer under a lock. A lookup that reads the node
  after unlocking (line 53) reads a node that is never freed, and sees the
  value of some put. No interleaving can break anything a property could
  state.
- IPCM operations beyond the promise and transaction machinery.
- The syscall transaction table of `ipcm.h` (`pend_sys_trans`, lines
  680-720). Its add and remove are defined in `ipcm.cc`, outside `src/`, and
  the one inline function is a locked lookup shaped like
  `get_transaction_state`, so it would repeat the transaction model.
- The string setters and getters of `policies.c` (lines 187-277). Each
  stores or returns one pointer and touches no list. Tracking the strings
  would add state no property reads, and about 128 times the states of the
  policies run.
- The wrap of netlink sequence numbers. The counter is in
  `netlink-manager.cc`, outside `src/`, so its width is unknown here.
- Most of the RIB engine's remote operations beyond the six test requests.
- `open_connection` and CDAP.
- The RIB dispatcher race, where a handler runs after the lock is released
  on an object another thread has removed. The design document says both:
  locks are not held across handlers (section 5), and `remove` deletes the
  object (section 4.2). Whether the engine keeps the object alive is decided
  in code that is not in this tree. Showing the race would take a violation
  run, and all twelve run slots hold findings against code that is under
  `src/`. It stays a hazard without a property.

## Plan for later sittings

The project is at twelve runs, so each new violation run below needs an
existing run merged or retired first.

1. A RIB run for the dispatcher race. This needs a target identity in the
   request record and a concurrent `removeObjRIB`. Try `MaxIds = 4` if the
   state space allows it.
2. The leak of the first copy of a duplicated peer request (`core.cc:152`),
   by giving each delivered copy its own identity.
3. More of `ipcm.h`: the IPCP table and the `assign_to_dif`/registration
   transactions built on the same promises.
4. The `policies.c` hazards that have no property yet:
   - a second `policy_param_rem` that follows `LIST_POISON` (line 172);
   - adding a parameter that is already listed (line 157);
   - freeing uninitialised name pointers (line 106).
5. The shim's configure path with its one-byte name buffer and the read lock
   it leaves held (`shim-eth-vlan.c:402`, `444`). It would be modelled as it
   would run if creation succeeded.
6. The stale read after erase in `core.cc` (line 148) under an allocator
   that reuses the node at once.
