---------------------------- MODULE RINAManager ----------------------------
(***************************************************************************)
(* Netlink request/response matching of librina: class RINAManager and    *)
(* NetlinkSession of src/librina/src/core.cc.                              *)
(*                                                                         *)
(* Application threads send requests and block until the matching reply   *)
(* arrives (sendRequestMessageAndWaitForReply); one reader thread takes    *)
(* every incoming message off the netlink socket and either hands a reply *)
(* to the waiting thread (netlinkResponseMessageArrived) or records a      *)
(* peer's request and queues it as an event (netlinkRequestMessageArrived)*)
(* for application threads that answer it (sendResponseOrNotficationMessage*)
(* ). All session tables are guarded by one mutex, sendReceiveLock.       *)
(*                                                                         *)
(* The peers (the kernel and other netlink users) are the environment:    *)
(* they answer our requests in any order, originate requests and          *)
(* notifications, and, as faults bounded by MaxStray, deliver a message  *)
(* twice or send a reply that matches no request of ours.                  *)
(***************************************************************************)
EXTENDS Naturals, Sequences, FiniteSets

CONSTANTS
  Requesters,   \* threads calling sendRequestMessageAndWaitForReply
  Responders,   \* threads taking IPC events off the event queue and answering them
  Reader,       \* the thread running doNetlinkMessageReaderWork
  Ports,        \* netlink port ids of the peers
  MyPort,       \* netlink port id of this process
  NoOwner,      \* sendReceiveLock is free
  None,         \* NULL pointer / empty slot
  MaxSeq,       \* bound on the sequence numbers this process issues
  MaxPeerMsgs,  \* bound on the requests and notifications peers originate
  MaxStray,     \* bound on duplicated or unsolicited messages
  MaxLost       \* bound on receive errors of the reader thread

ASSUME /\ Reader \notin Requesters \cup Responders
       /\ Requesters \cap Responders = {}
       /\ MyPort \notin Ports
       /\ {MaxSeq, MaxPeerMsgs, MaxStray, MaxLost} \subseteq Nat

Threads == Requesters \cup Responders \cup {Reader}
Seqs    == 1..MaxSeq
PeerSeqs == 1..MaxPeerMsgs

\* A netlink message, abstracted to what the matching code reads: its kind,
\* source and destination port ids, sequence number, and (standing for the
\* payload) the requester whose request it carries or answers.
Msg == [kind: {"req", "resp", "notif"}, src: Ports \cup {MyPort},
        dst: Ports \cup {MyPort}, seq: Nat, from: Requesters \cup {None}]

\* An IPC event produced by toIPCEvent() from a request or notification.
Event == [kind: {"req", "notif"}, src: Ports, seq: Nat]

VARIABLES
  lockOwner,     \* holder of sendReceiveLock
  pc,            \* program counter of every thread
  seqCounter,    \* last sequence number handed out by the NetlinkManager
  sessions,      \* ports with a NetlinkSession in netlinkSessions
  localPending,  \* localPendingMessages of each session: seq -> waiting requester
  remotePending, \* remotePendingMessages of each session: seqs of stored peer requests
  cur,           \* request each requester is currently sending: [port, seq]
  slot,          \* responseMessage of each requester's PendingNetlinkMessage
  rmsg,          \* message the reader thread is processing
  rpending,      \* PendingNetlinkMessage the reader took out of the table
  events,        \* the BlockingFIFOQueue<IPCEvent>
  hev,           \* event each responder is handling
  toPeer,        \* requests sent to peers, not yet answered by them
  inbox,         \* netlink socket receive queue of this process
  sentByPeer,    \* every message a peer has sent us (history, for duplicates)
  requested,     \* ports we ever sent a request to (history of the peers)
  peerMsgs,      \* number of requests and notifications peers originated
  strays,        \* number of duplicated or unsolicited messages injected
  lost,          \* number of receive errors
  aborted,       \* the process died of an uncaught exception
  freed          \* stored peer requests a responder has deleted: [src, seq]

vars == <<lockOwner, pc, seqCounter, sessions, localPending, remotePending,
          cur, slot, rmsg, rpending, events, hev, toPeer, inbox, sentByPeer,
          requested, peerMsgs, strays, lost, aborted, freed>>

-----------------------------------------------------------------------------
(* sendReceiveLock, a pthread mutex wrapped by Lockable.                   *)

\* lock(): block until the mutex is free, then own it.
Lock(t) ==
  /\ lockOwner = NoOwner
  /\ lockOwner' = t

\* unlock(). Unlocking a mutex the thread does not own is undefined
\* behaviour: a default glibc mutex is simply released, whoever holds it;
\* an error-checking one makes unlock() fail, and Lockable throws an
\* exception nobody on these paths catches, which ends the process.
Unlock(t) ==
  \/ /\ lockOwner' = NoOwner
     /\ UNCHANGED aborted
  \/ /\ lockOwner # t
     /\ aborted' = TRUE
     /\ UNCHANGED lockOwner

\* A thread steps from one label to the next, unless the process is gone.
Goto(t, from, to) ==
  /\ ~aborted
  /\ pc[t] = from
  /\ pc' = [pc EXCEPT ![t] = to]

\* std::map::operator[] assignment and erase on a session's local table.
PutLocal(p, s, r) == [localPending EXCEPT ![p][s] = r]
EraseLocal(p, s)  == [localPending EXCEPT ![p][s] = None]

\* putRemotePendingMessage / takeRemotePendingMessage on a session's table
\* of stored peer requests, keyed by sequence number.
PutRemote(p, s)  == [remotePending EXCEPT ![p] = @ \cup {s}]
TakeRemote(p, s) == [remotePending EXCEPT ![p] = @ \ {s}]

\* getAndCreateNetlinkSession: the session of port p, created if missing.
GetAndCreateNetlinkSession(p) == sessions \cup {p}

\* getNetlinkSession: whether port p has a session (non-NULL result).
GetNetlinkSession(p) == p \in sessions

-----------------------------------------------------------------------------
(* sendRequestMessageAndWaitForReply (core.cc 295-324)                     *)

\* Take sendReceiveLock to send a request to port p.
RequesterLock(r) ==
  /\ seqCounter < MaxSeq
  /\ Goto(r, "idle", "send")
  /\ Lock(r)
  /\ \E p \in Ports : cur' = [cur EXCEPT ![r] = [port |-> p, seq |-> 0]]
  /\ UNCHANGED <<seqCounter, sessions, localPending, remotePending, slot,
                 rmsg, rpending, events, hev, toPeer, inbox, sentByPeer,
                 requested, peerMsgs, strays, lost, aborted, freed>>

\* getAndCreateNetlinkSession, take the next sequence number and send the
\* message; a failing send unlocks and rethrows to the caller.
RequesterSend(r) ==
  LET p == cur[r].port
      s == seqCounter + 1
  IN
  /\ ~aborted
  /\ pc[r] = "send"
  /\ seqCounter < MaxSeq
  /\ sessions' = GetAndCreateNetlinkSession(p)
  /\ seqCounter' = s
  /\ cur' = [cur EXCEPT ![r].seq = s]
  /\ \/ /\ toPeer' = toPeer \cup {[kind |-> "req", src |-> MyPort, dst |-> p,
                                   seq |-> s, from |-> r]}
        /\ requested' = requested \cup {p}
        /\ pc' = [pc EXCEPT ![r] = "put"]
        /\ UNCHANGED <<lockOwner, aborted>>
     \/ /\ Unlock(r)
        /\ pc' = [pc EXCEPT ![r] = "idle"]
        /\ UNCHANGED <<toPeer, requested>>
  /\ UNCHANGED <<localPending, remotePending, slot, rmsg, rpending, events,
                 hev, inbox, sentByPeer, peerMsgs, strays, lost, freed>>

\* new PendingNetlinkMessage, putLocalPendingMessage, unlock.
RequesterPut(r) ==
  /\ Goto(r, "put", "wait")
  /\ localPending' = PutLocal(cur[r].port, cur[r].seq, r)
  /\ Unlock(r)
  /\ UNCHANGED <<seqCounter, sessions, remotePending, cur, slot, rmsg,
                 rpending, events, hev, toPeer, inbox, sentByPeer, requested,
                 peerMsgs, strays, lost, freed>>

\* getResponseMessage: wait on the condition variable until the reply is
\* set, then delete the PendingNetlinkMessage and return the reply.
RequesterWait(r) ==
  /\ slot[r] # None
  /\ Goto(r, "wait", "idle")
  /\ slot' = [slot EXCEPT ![r] = None]
  /\ UNCHANGED <<lockOwner, seqCounter, sessions, localPending, remotePending,
                 cur, rmsg, rpending, events, hev, toPeer, inbox, sentByPeer,
                 requested, peerMsgs, strays, lost, aborted, freed>>

-----------------------------------------------------------------------------
(* doNetlinkMessageReaderWork (core.cc 174-216)                            *)

ReaderUnchanged ==
  UNCHANGED <<seqCounter, cur, toPeer, sentByPeer, requested, peerMsgs,
              strays, hev, freed>>

\* Mutant: the dispatch tests "not a notification" where it should test
\* isResponseMessage(), so peer requests take the reply path.
ReaderGetMisroute ==
  /\ ~aborted
  /\ inbox # <<>>
  /\ pc[Reader] = "get"
  /\ inbox' = Tail(inbox)
  /\ \/ /\ lost < MaxLost
        /\ lost' = lost + 1
        /\ UNCHANGED <<pc, rmsg>>
     \/ /\ rmsg' = Head(inbox)
        /\ pc' = [pc EXCEPT ![Reader] = IF Head(inbox).kind # "notif"
                                        THEN "rlock" ELSE "enq"]
        /\ UNCHANGED lost
  /\ UNCHANGED <<lockOwner, sessions, localPending, remotePending, slot,
                 rpending, events, aborted>>
  /\ ReaderUnchanged

\* getMessage(): take the next message off the socket and dispatch on its
\* kind; a receive error is logged and the loop continues without it.
ReaderGet ==
  /\ ~aborted
  /\ inbox # <<>>
  /\ pc[Reader] = "get"
  /\ inbox' = Tail(inbox)
  /\ \/ /\ lost < MaxLost
        /\ lost' = lost + 1
        /\ UNCHANGED <<pc, rmsg>>
     \/ /\ rmsg' = Head(inbox)
        /\ pc' = [pc EXCEPT ![Reader] = CASE Head(inbox).kind = "resp" -> "rlock"
                                          [] Head(inbox).kind = "req"  -> "qlock"
                                          [] OTHER                     -> "enq"]
        /\ UNCHANGED lost
  /\ UNCHANGED <<lockOwner, sessions, localPending, remotePending, slot,
                 rpending, events, aborted>>
  /\ ReaderUnchanged

\* Mutant: netlinkRequestMessageArrived without sendReceiveLock.lock().
ReaderReqLockMissing ==
  /\ Goto(Reader, "qlock", "qstore")
  /\ UNCHANGED <<lockOwner, sessions, localPending, remotePending, slot, rmsg,
                 rpending, events, inbox, lost, aborted>>
  /\ ReaderUnchanged

\* netlinkResponseMessageArrived: lock.
ReaderRespLock ==
  /\ Goto(Reader, "rlock", "rtake")
  /\ Lock(Reader)
  /\ UNCHANGED <<sessions, localPending, remotePending, slot, rmsg, rpending,
                 events, inbox, lost, aborted>>
  /\ ReaderUnchanged

\* Mutants of the reply path: the session is looked up by the destination
\* port; the entry is not erased; the first pending entry of the session is
\* taken instead of the one with the reply's sequence number.
ReaderRespTakeByDest ==
  LET p == rmsg.dst
  IN
  /\ ~aborted
  /\ pc[Reader] = "rtake"
  /\ Unlock(Reader)
  /\ p \notin sessions
  /\ pc' = [pc EXCEPT ![Reader] = "get"]
  /\ UNCHANGED <<localPending, rpending>>
  /\ UNCHANGED <<sessions, remotePending, slot, rmsg, events, inbox, lost>>
  /\ ReaderUnchanged

ReaderRespTakeNoErase ==
  LET p == rmsg.src
      s == rmsg.seq
      w == IF s \in Seqs THEN localPending[p][s] ELSE None
  IN
  /\ ~aborted
  /\ pc[Reader] = "rtake"
  /\ Unlock(Reader)
  /\ \/ /\ p \notin sessions \/ w = None
        /\ pc' = [pc EXCEPT ![Reader] = IF p \in sessions THEN "unlock2" ELSE "get"]
        /\ UNCHANGED rpending
     \/ /\ p \in sessions
        /\ w # None
        /\ rpending' = w
        /\ pc' = [pc EXCEPT ![Reader] = "set"]
  /\ UNCHANGED <<localPending, sessions, remotePending, slot, rmsg, events,
                 inbox, lost>>
  /\ ReaderUnchanged

ReaderRespTakeFirst ==
  LET p == rmsg.src
      busy == {q \in Seqs : localPending[p][q] # None}
  IN
  /\ ~aborted
  /\ pc[Reader] = "rtake"
  /\ Unlock(Reader)
  /\ \/ /\ p \notin sessions \/ busy = {}
        /\ pc' = [pc EXCEPT ![Reader] = IF p \in sessions THEN "unlock2" ELSE "get"]
        /\ UNCHANGED <<localPending, rpending>>
     \/ /\ p \in sessions
        /\ busy # {}
        /\ LET q == CHOOSE q \in busy : \A o \in busy : q <= o
           IN /\ localPending' = EraseLocal(p, q)
              /\ rpending' = localPending[p][q]
        /\ pc' = [pc EXCEPT ![Reader] = "set"]
  /\ UNCHANGED <<sessions, remotePending, slot, rmsg, events, inbox, lost>>
  /\ ReaderUnchanged

\* getNetlinkSession(source port): none -> unlock and return. Otherwise
\* takeLocalPendingMessage(seq) and unlock; when no request matches, the
\* code goes on to unlock a second time.
ReaderRespTake ==
  LET p == rmsg.src
      s == rmsg.seq
      w == IF s \in Seqs THEN localPending[p][s] ELSE None
  IN
  /\ ~aborted
  /\ pc[Reader] = "rtake"
  /\ Unlock(Reader)
  /\ \/ /\ ~GetNetlinkSession(p)
        /\ pc' = [pc EXCEPT ![Reader] = "get"]
        /\ UNCHANGED <<localPending, rpending>>
     \/ /\ GetNetlinkSession(p)
        /\ w = None
        /\ pc' = [pc EXCEPT ![Reader] = "unlock2"]
        /\ UNCHANGED <<localPending, rpending>>
     \/ /\ GetNetlinkSession(p)
        /\ w # None
        /\ localPending' = EraseLocal(p, s)
        /\ rpending' = w
        /\ pc' = [pc EXCEPT ![Reader] = "set"]
  /\ UNCHANGED <<sessions, remotePending, slot, rmsg, events, inbox, lost>>
  /\ ReaderUnchanged

\* The second sendReceiveLock.unlock() of the no-match path (core.cc 383).
ReaderUnlockAgain ==
  /\ Goto(Reader, "unlock2", "get")
  /\ Unlock(Reader)
  /\ UNCHANGED <<sessions, localPending, remotePending, slot, rmsg, rpending,
                 events, inbox, lost>>
  /\ ReaderUnchanged

\* setResponseMessage: store the reply and signal the waiting thread.
ReaderSetResponse ==
  /\ Goto(Reader, "set", "get")
  /\ slot' = [slot EXCEPT ![rpending] = rmsg]
  /\ rpending' = None
  /\ UNCHANGED <<lockOwner, sessions, localPending, remotePending, rmsg,
                 events, inbox, lost, aborted>>
  /\ ReaderUnchanged

\* netlinkRequestMessageArrived: lock.
ReaderReqLock ==
  /\ Goto(Reader, "qlock", "qstore")
  /\ Lock(Reader)
  /\ UNCHANGED <<sessions, localPending, remotePending, slot, rmsg, rpending,
                 events, inbox, lost, aborted>>
  /\ ReaderUnchanged

\* Mutant: the request is not stored (putRemotePendingMessage missing).
ReaderReqStoreNoPut ==
  /\ Goto(Reader, "qstore", "enq")
  /\ sessions' = sessions \cup {rmsg.src}
  /\ Unlock(Reader)
  /\ UNCHANGED <<localPending, remotePending, slot, rmsg, rpending, events,
                 inbox, lost>>
  /\ ReaderUnchanged

\* getAndCreateNetlinkSession(source port), putRemotePendingMessage, unlock.
ReaderReqStore ==
  /\ Goto(Reader, "qstore", "enq")
  /\ sessions' = GetAndCreateNetlinkSession(rmsg.src)
  /\ remotePending' = PutRemote(rmsg.src, rmsg.seq)
  /\ freed' = freed \ {[src |-> rmsg.src, seq |-> rmsg.seq]}
  /\ Unlock(Reader)
  /\ UNCHANGED <<localPending, slot, rmsg, rpending, events, inbox, lost,
                 seqCounter, cur, toPeer, sentByPeer, requested, peerMsgs,
                 strays, hev>>

\* eventsQueue->put(message->toIPCEvent()): from here on a responder can
\* take the event and answer the request.
ReaderEnqueue ==
  /\ Goto(Reader, "enq", "notif")
  /\ events' = Append(events, [kind |-> rmsg.kind, src |-> rmsg.src,
                               seq |-> rmsg.seq])
  /\ UNCHANGED <<lockOwner, sessions, localPending, remotePending, slot, rmsg,
                 rpending, inbox, lost, aborted>>
  /\ ReaderUnchanged

\* if (incomingMessage->isNotificationMessage()) delete message: the
\* message is read again after its event was queued. Its contents do not
\* change what this process does next (a request was stored, a
\* notification is deleted), so the step only moves the reader on.
ReaderNotifCheck ==
  /\ Goto(Reader, "notif", "get")
  /\ UNCHANGED <<lockOwner, sessions, localPending, remotePending, slot, rmsg,
                 rpending, events, inbox, lost, aborted>>
  /\ ReaderUnchanged

-----------------------------------------------------------------------------
(* Application threads answering peer requests:                            *)
(* sendResponseOrNotficationMessage (core.cc 326-364)                      *)

ResponderUnchanged ==
  UNCHANGED <<seqCounter, localPending, cur, slot, rmsg, rpending, inbox,
              sentByPeer, requested, peerMsgs, strays, lost>>

\* The stored request of port p with sequence number s is deleted.
Delete(p, s) == freed \cup {[src |-> p, seq |-> s]}

\* Take the next IPC event; a request event is answered.
ResponderTake(h) ==
  /\ ~aborted
  /\ events # <<>>
  /\ pc[h] = "idle"
  /\ events' = Tail(events)
  /\ hev' = [hev EXCEPT ![h] = Head(events)]
  /\ pc' = [pc EXCEPT ![h] = IF Head(events).kind = "req" THEN "lock" ELSE "idle"]
  /\ UNCHANGED <<lockOwner, sessions, remotePending, toPeer, aborted, freed>>
  /\ ResponderUnchanged

ResponderLock(h) ==
  /\ Goto(h, "lock", "send")
  /\ Lock(h)
  /\ UNCHANGED <<sessions, remotePending, events, hev, toPeer, aborted, freed>>
  /\ ResponderUnchanged

\* getNetlinkSession(destination port) and takeRemotePendingMessage(seq);
\* either missing -> unlock and throw. Otherwise delete the stored request
\* (`delete requestMessage`),
\* send the reply and unlock. A failing send unlocks and throws after the
\* request was deleted, so it leaves this process in the same state; the
\* reply itself is observed by nothing in this process and is not kept.
ResponderSend(h) ==
  LET p == hev[h].src
      s == hev[h].seq
  IN
  /\ Goto(h, "send", "idle")
  /\ Unlock(h)
  /\ \/ /\ ~GetNetlinkSession(p) \/ s \notin remotePending[p]
        /\ UNCHANGED <<remotePending, freed>>
     \/ /\ GetNetlinkSession(p)
        /\ s \in remotePending[p]
        /\ remotePending' = TakeRemote(p, s)
        /\ freed' = Delete(p, s)
  /\ UNCHANGED <<sessions, events, hev, toPeer>>
  /\ ResponderUnchanged

-----------------------------------------------------------------------------
(* The peers (environment).                                                *)

PeerUnchanged ==
  UNCHANGED <<lockOwner, pc, seqCounter, sessions, localPending,
              remotePending, cur, slot, rmsg, rpending, events, hev, lost,
              aborted, freed>>

\* A peer processes one of our requests and replies with the same
\* sequence number, from its own port.
PeerReply ==
  \E m \in toPeer :
    /\ m.kind = "req"
    /\ LET rep == [kind |-> "resp", src |-> m.dst, dst |-> MyPort,
                   seq |-> m.seq, from |-> m.from]
       IN /\ inbox' = Append(inbox, rep)
          /\ sentByPeer' = sentByPeer \cup {rep}
    /\ toPeer' = toPeer \ {m}
    /\ UNCHANGED <<requested, peerMsgs, strays>>
    /\ PeerUnchanged

\* A peer originates a request or a notification.
PeerOriginate ==
  \E p \in Ports, k \in {"req", "notif"} :
    /\ peerMsgs < MaxPeerMsgs
    /\ peerMsgs' = peerMsgs + 1
    /\ LET m == [kind |-> k, src |-> p, dst |-> MyPort,
                 seq |-> peerMsgs + 1, from |-> None]
       IN /\ inbox' = Append(inbox, m)
          /\ sentByPeer' = sentByPeer \cup {m}
    /\ UNCHANGED <<toPeer, requested, strays>>
    /\ PeerUnchanged

\* Fault: a message a peer sent is delivered a second time.
PeerDuplicate ==
  \E m \in sentByPeer :
    /\ strays < MaxStray
    /\ strays' = strays + 1
    /\ inbox' = Append(inbox, m)
    /\ UNCHANGED <<toPeer, sentByPeer, requested, peerMsgs>>
    /\ PeerUnchanged

\* Fault: a reply from a port we never sent a request to. Messages a peer
\* sends on its own carry sequence number 0, which this process never issues.
PeerUnsolicited ==
  \E p \in Ports \ requested :
    /\ strays < MaxStray
    /\ strays' = strays + 1
    /\ inbox' = Append(inbox, [kind |-> "resp", src |-> p, dst |-> MyPort,
                               seq |-> 0, from |-> None])
    /\ UNCHANGED <<toPeer, sentByPeer, requested, peerMsgs>>
    /\ PeerUnchanged

-----------------------------------------------------------------------------

Init ==
  /\ lockOwner = NoOwner
  /\ pc = [t \in Threads |-> IF t = Reader THEN "get" ELSE "idle"]
  /\ seqCounter = 0
  /\ sessions = {}
  /\ localPending = [p \in Ports |-> [s \in Seqs |-> None]]
  /\ remotePending = [p \in Ports |-> {}]
  /\ cur = [r \in Requesters |-> [port |-> CHOOSE p \in Ports : TRUE, seq |-> 0]]
  /\ slot = [r \in Requesters |-> None]
  /\ rmsg = None
  /\ rpending = None
  /\ events = <<>>
  /\ hev = [h \in Responders |-> None]
  /\ toPeer = {}
  /\ inbox = <<>>
  /\ sentByPeer = {}
  /\ requested = {}
  /\ peerMsgs = 0
  /\ strays = 0
  /\ lost = 0
  /\ aborted = FALSE
  /\ freed = {}

ReaderStep ==
  \/ ReaderGet \/ ReaderRespLock \/ ReaderRespTake \/ ReaderUnlockAgain
  \/ ReaderSetResponse \/ ReaderReqLock \/ ReaderReqStore \/ ReaderEnqueue
  \/ ReaderNotifCheck

RequesterStep(r) ==
  RequesterSend(r) \/ RequesterPut(r) \/ RequesterWait(r)

ResponderStep(h) ==
  ResponderTake(h) \/ ResponderLock(h) \/ ResponderSend(h)

Next ==
  \/ ReaderStep
  \/ \E r \in Requesters : RequesterLock(r) \/ RequesterStep(r)
  \/ \E h \in Responders : ResponderStep(h)
  \/ PeerReply \/ PeerOriginate
  \/ PeerDuplicate \/ PeerUnsolicited

\* Every thread runs once it can (the scheduler is fair to runnable
\* threads) and the peers answer what they receive. Issuing a new request,
\* originating peer traffic and faults are never forced.
Fairness ==
  /\ WF_vars(ReaderStep)
  /\ \A r \in Requesters : WF_vars(RequesterStep(r))
  /\ \A h \in Responders : WF_vars(ResponderStep(h))
  /\ WF_vars(PeerReply)

Spec == Init /\ [][Next]_vars /\ Fairness

-----------------------------------------------------------------------------
(* Properties                                                              *)

TypeOK ==
  /\ lockOwner \in Threads \cup {NoOwner}
  /\ seqCounter \in 0..MaxSeq
  /\ sessions \subseteq Ports
  /\ localPending \in [Ports -> [Seqs -> Requesters \cup {None}]]
  /\ remotePending \in [Ports -> SUBSET PeerSeqs]
  /\ slot \in [Requesters -> {m \in Msg : m.kind = "resp"} \cup {None}]
  /\ rmsg \in Msg \cup {None}
  /\ rpending \in Requesters \cup {None}
  /\ events \in Seq(Event)
  /\ hev \in [Responders -> Event \cup {None}]
  /\ toPeer \subseteq Msg
  /\ inbox \in Seq(Msg)
  /\ aborted \in BOOLEAN
  /\ freed \subseteq [src: Ports, seq: PeerSeqs]

\* The threads that are between lock() and unlock() of sendReceiveLock.
InCritical(t) ==
  \/ t \in Requesters /\ pc[t] \in {"send", "put"}
  \/ t = Reader /\ pc[t] \in {"rtake", "qstore"}
  \/ t \in Responders /\ pc[t] = "send"

\* sendReceiveLock gives mutual exclusion: no two threads are ever inside
\* the session-table critical sections of core.cc at the same time.
MutualExclusion ==
  \A t1, t2 \in Threads : InCritical(t1) /\ InCritical(t2) => t1 = t2

\* The reply the reader thread hands to a waiting requester
\* (setResponseMessage) answers that requester's own request: same port,
\* same sequence number, same payload, even when peers answer out of
\* order or repeat a reply.
ReplyMatchesRequest ==
  \A r \in Requesters :
    slot[r] # None =>
      /\ pc[r] = "wait"
      /\ slot[r].from = r
      /\ slot[r].src = cur[r].port
      /\ slot[r].seq = cur[r].seq

\* No entry of localPendingMessages outlives its PendingNetlinkMessage:
\* every entry names a requester still waiting on exactly that port and
\* sequence number with no reply yet, so a later reply is never handed to
\* an object the requester has already deleted.
NoDanglingPending ==
  \A p \in Ports, s \in Seqs :
    LET r == localPending[p][s] IN
      r # None =>
        /\ pc[r] = "wait"
        /\ cur[r] = [port |-> p, seq |-> s]
        /\ slot[r] = None

\* A thread answering a peer's request always finds the stored request in
\* the session (takeRemotePendingMessage), because the reader thread stores
\* it before it queues the event.
ResponderFindsRequest ==
  \A h \in Responders :
    pc[h] = "send" => /\ hev[h].src \in sessions
                      /\ hev[h].seq \in remotePending[hev[h].src]

\* The reader thread never touches a peer request a responder has
\* deleted: when doNetlinkMessageReaderWork tests isNotificationMessage()
\* on the message whose event it has just queued (core.cc 206-208), an
\* application thread has not yet answered that request and deleted the
\* stored message (sendResponseOrNotficationMessage, core.cc 351).
ReaderMessageAlive ==
  pc[Reader] = "notif" /\ rmsg.kind = "req" =>
    [src |-> rmsg.src, seq |-> rmsg.seq] \notin freed

-----------------------------------------------------------------------------
(* Refinement of the promise of sendRequestMessageAndWaitForReply          *)

\* A thread has a request outstanding from the moment it is sent until
\* getResponseMessage returns; the reply it holds is the message
\* setResponseMessage stored for it.
RPC == INSTANCE NetlinkRPC WITH
  call  <- [r \in Requesters |-> IF pc[r] \in {"put", "wait"} THEN cur[r] ELSE None],
  reply <- [r \in Requesters |-> IF slot[r] = None THEN None
                                 ELSE [port |-> slot[r].src, seq |-> slot[r].seq]]

\* sendRequestMessageAndWaitForReply keeps its promise whatever the reader
\* thread, the responders and the peers do in between: each request gets
\* exactly one reply, the reply to that request, and, with peers that
\* answer, every blocked caller returns with it.
RPCImplemented == RPC!Spec

=============================================================================
