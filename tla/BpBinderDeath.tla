---------------------------- MODULE BpBinderDeath ----------------------------
(***************************************************************************)
(* Death notification of one binder proxy (BpBinder.cpp).                  *)
(*                                                                         *)
(* Several threads hold strong references to one BpBinder and call         *)
(* linkToDeath, unlinkToDeath and transact on it.  Binder threads run      *)
(* sendObituary when the transport reports the death of the remote         *)
(* object: it flips mAlive, detaches mObituaries under mLock and then      *)
(* calls binderDied on every recipient with the lock released.  The last   *)
(* strong reference to go away runs onLastStrongRef, which silently drops  *)
(* the pending obituaries of a kernel proxy.                               *)
(*                                                                         *)
(* Every section that the code runs under mLock is one atomic action; the *)
(* steps the code takes with the lock released (the unlocked prefix of    *)
(* sendObituary, the delivery loop, the transport round trip of transact, *)
(* the gap between the last decStrong and onLastStrongRef) are separate    *)
(* actions, so other threads interleave with them.                         *)
(*                                                                         *)
(* The history variables linked, removed, dropped, delivered and skipped   *)
(* record what happened to every obituary, named by the order of the      *)
(* linkToDeath call that created it.                                       *)
(***************************************************************************)
EXTENDS Naturals, Sequences, FiniteSets, SequencesExt

CONSTANTS
  Threads,            \* threads calling into the proxy
  Recipients,         \* DeathRecipient objects
  Cookies,            \* the opaque cookie argument
  Flags,              \* the flags argument of link/unlinkToDeath
  NULL,               \* nullptr
  RpcKinds,           \* values of isRpcBinder() the proxy may be created with
  IpcShutdown,        \* IPCThreadState::shutdown may run while the proxy is used
  MaxIncomingThreads, \* rpcSession()->getMaxIncomingThreads()
  PromoteFromZero,    \* IPCThreadState::attemptIncStrongHandle succeeds
  MaxLinks            \* bound on the number of linkToDeath calls

ASSUME RpcKinds \subseteq BOOLEAN /\ RpcKinds /= {}
ASSUME IpcShutdown \in BOOLEAN /\ PromoteFromZero \in BOOLEAN
ASSUME MaxIncomingThreads \in Nat /\ MaxLinks \in Nat \ {0}
ASSUME NULL \notin Recipients

VARIABLES
  mAlive,         \* BpBinder::mAlive
  mObitsSent,     \* BpBinder::mObitsSent
  mObituaries,    \* BpBinder::mObituaries: NULL or a Vector<Obituary>
  deathRequests,  \* requestDeathNotification minus clearDeathNotification
  remoteDead,     \* the remote object has died
  deathPending,   \* the transport owes this proxy a sendObituary call
  strong,         \* strong[t]: thread t holds an sp<> to the proxy
  recipientAlive, \* recipientAlive[r]: some sp<DeathRecipient> to r exists
  pc,             \* program counter of each thread
  obits,          \* obits[t]: the local `obits` list of sendObituary
  isRpcBinder,    \* mHandle holds an RpcHandle rather than a BinderHandle
  remoteStrong,   \* strong references on the node this proxy holds in the driver
  ipcGone,        \* IPCThreadState::self() returns nullptr (after shutdown)
  crashed,        \* the process died on a null IPCThreadState
  nextId, linked, removed, dropped, delivered, skipped

vars == <<mAlive, mObitsSent, mObituaries, deathRequests, remoteDead,
          deathPending, strong, recipientAlive, pc, obits,
          isRpcBinder, remoteStrong, ipcGone, crashed,
          nextId, linked, removed, dropped, delivered, skipped>>

process == <<isRpcBinder, ipcGone, crashed>>

history == <<nextId, linked, removed, dropped, delivered, skipped>>

Ids == 1..MaxLinks

Obituary == [recipient : Recipients, cookie : Cookies, flags : Flags, id : Ids]

\* The list a Vector<Obituary>* points to, the empty list for nullptr.
ListOf(p) == IF p = NULL THEN <<>> ELSE p

IdsOf(s) == {s[i].id : i \in DOMAIN s}

Idle(t) == pc[t] = "idle"

\* The transport's death notification is requested (kernel handle only).
RequestDeath == IF isRpcBinder THEN 0 ELSE 1

\* onFirstRef: a kernel proxy takes a strong reference on the node.
FirstRef == IF isRpcBinder THEN 0 ELSE 1

\* A kernel-IPC step would go through the null IPCThreadState::self().
SelfNull == ipcGone /\ ~isRpcBinder

-----------------------------------------------------------------------------
(* Variants of the operations, each a plausible mistake in the code, used *)
(* to confirm that the properties below can tell them apart.               *)

\* sendObituary copies mObituaries instead of taking it.
SendLockedKeepsList(t) ==
  /\ pc[t] = "send_lock"
  /\ obits' = [obits EXCEPT ![t] = ListOf(mObituaries)]
  /\ mObitsSent' = TRUE
  /\ pc' = [pc EXCEPT ![t] = "deliver"]
  /\ UNCHANGED <<process, remoteStrong, mAlive, mObituaries, deathRequests, remoteDead, deathPending,
                 strong, recipientAlive, history>>

\* unlinkToDeath frees the emptied list without clearDeathNotification.
UnlinkNoClear(t, r, c, f) ==
  LET match(o) == (o.recipient = r \/ (r = NULL /\ o.cookie = c)) /\ o.flags = f
      i == SelectInSeq(ListOf(mObituaries), match)
      rest == RemoveAt(mObituaries, i)
  IN /\ Idle(t) /\ strong[t]
     /\ ~mObitsSent
     /\ i > 0
     /\ mObituaries' = IF rest = <<>> THEN NULL ELSE rest
     /\ removed' = removed \cup {mObituaries[i].id}
     /\ UNCHANGED <<process, remoteStrong, mAlive, mObitsSent, deathRequests, remoteDead, deathPending,
                    strong, recipientAlive, pc, obits,
                    nextId, linked, dropped, delivered, skipped>>

\* unlinkToDeath deletes the emptied list but leaves mObituaries pointing at it.
UnlinkKeepsEmptyList(t, r, c, f) ==
  LET match(o) == (o.recipient = r \/ (r = NULL /\ o.cookie = c)) /\ o.flags = f
      i == SelectInSeq(ListOf(mObituaries), match)
      rest == RemoveAt(mObituaries, i)
  IN /\ Idle(t) /\ strong[t]
     /\ ~mObitsSent
     /\ i > 0
     /\ mObituaries' = rest
     /\ deathRequests' = IF rest = <<>> THEN deathRequests - RequestDeath
                                        ELSE deathRequests
     /\ removed' = removed \cup {mObituaries[i].id}
     /\ UNCHANGED <<process, remoteStrong, mAlive, mObitsSent, remoteDead, deathPending, strong,
                    recipientAlive, pc, obits,
                    nextId, linked, dropped, delivered, skipped>>

\* linkToDeath inserts the new obituary at the front of the list.
LinkAtFront(t, r, c, f) ==
  LET ob == [recipient |-> r, cookie |-> c, flags |-> f, id |-> nextId]
      first == mObituaries = NULL
  IN /\ Idle(t) /\ strong[t] /\ recipientAlive[r]
     /\ nextId <= MaxLinks
     /\ ~(isRpcBinder /\ MaxIncomingThreads < 1)
     /\ ~mObitsSent
     /\ mObituaries' = Cons(ob, ListOf(mObituaries))
     /\ deathRequests' = IF first THEN deathRequests + RequestDeath ELSE deathRequests
     /\ deathPending' = (deathPending \/ (first /\ ~isRpcBinder /\ remoteDead))
     /\ nextId' = nextId + 1
     /\ linked' = linked \cup {nextId}
     /\ UNCHANGED <<process, remoteStrong, mAlive, mObitsSent, remoteDead, strong, recipientAlive,
                    pc, obits, removed, dropped, delivered, skipped>>

\* linkToDeath appends even after the obituaries have been sent.
LinkAfterSent(t, r, c, f) ==
  LET ob == [recipient |-> r, cookie |-> c, flags |-> f, id |-> nextId]
      first == mObituaries = NULL
  IN /\ Idle(t) /\ strong[t] /\ recipientAlive[r]
     /\ nextId <= MaxLinks
     /\ ~(isRpcBinder /\ MaxIncomingThreads < 1)
     /\ mObituaries' = Append(ListOf(mObituaries), ob)
     /\ deathRequests' = IF first THEN deathRequests + RequestDeath ELSE deathRequests
     /\ deathPending' = (deathPending \/ (first /\ ~isRpcBinder /\ remoteDead))
     /\ nextId' = nextId + 1
     /\ linked' = linked \cup {nextId}
     /\ UNCHANGED <<process, remoteStrong, mAlive, mObitsSent, remoteDead, strong, recipientAlive,
                    pc, obits, removed, dropped, delivered, skipped>>

\* The delivery loop walks the taken list from its end.
ReportLastFirst(t) ==
  LET o == Last(obits[t])
  IN /\ pc[t] = "deliver" /\ obits[t] /= <<>>
     /\ obits' = [obits EXCEPT ![t] = Front(@)]
     /\ IF recipientAlive[o.recipient]
          THEN /\ delivered' = Append(delivered, o.id) /\ UNCHANGED skipped
          ELSE /\ skipped' = skipped \cup {o.id} /\ UNCHANGED delivered
     /\ UNCHANGED <<process, remoteStrong, mAlive, mObitsSent, mObituaries, deathRequests, remoteDead,
                    deathPending, strong, recipientAlive, pc,
                    nextId, linked, removed, dropped>>

\* onIncStrongAttempted reports success without asking the driver.
PromoteWithoutDriver(t) ==
  /\ Idle(t) /\ ~strong[t]
  /\ \A u \in Threads : ~strong[u]
  /\ ~isRpcBinder /\ ~ipcGone /\ PromoteFromZero
  /\ strong' = [strong EXCEPT ![t] = TRUE]
  /\ UNCHANGED <<process, remoteStrong, mAlive, mObitsSent, mObituaries, deathRequests,
                 remoteDead, deathPending, recipientAlive, pc, obits, history>>

-----------------------------------------------------------------------------
(* The proxy.                                                              *)

Init ==
  /\ mAlive = TRUE
  /\ mObitsSent = FALSE
  /\ mObituaries = NULL
  /\ deathRequests = 0
  /\ remoteDead = FALSE
  /\ deathPending = FALSE
  /\ strong = [t \in Threads |-> TRUE]
  /\ recipientAlive = [r \in Recipients |-> TRUE]
  /\ pc = [t \in Threads |-> "idle"]
  /\ obits = [t \in Threads |-> <<>>]
  /\ isRpcBinder \in RpcKinds
  /\ remoteStrong = FirstRef
  /\ ipcGone = FALSE /\ crashed = FALSE
  /\ nextId = 1
  /\ linked = {} /\ removed = {} /\ dropped = {}
  /\ delivered = <<>> /\ skipped = {}

(* linkToDeath: an RPC proxy without incoming threads refuses with       *)
(* INVALID_OPERATION; once mObitsSent it answers DEAD_OBJECT; otherwise   *)
(* the first registration allocates the list and, for a kernel handle,    *)
(* requests the death notification, and the obituary is appended.  The    *)
(* refusals change nothing and are the stuttering steps of this action.   *)
Link(t, r, c, f) ==
  LET ob == [recipient |-> r, cookie |-> c, flags |-> f, id |-> nextId]
      first == mObituaries = NULL
  IN /\ Idle(t) /\ strong[t] /\ recipientAlive[r]
     /\ nextId <= MaxLinks
     /\ ~(isRpcBinder /\ MaxIncomingThreads < 1)
     /\ ~mObitsSent
     /\ ~(first /\ SelfNull)
     /\ mObituaries' = Append(ListOf(mObituaries), ob)
     /\ deathRequests' = IF first THEN deathRequests + RequestDeath ELSE deathRequests
     \* the kernel answers a request on a dead node with BR_DEAD_BINDER
     /\ deathPending' = (deathPending \/ (first /\ ~isRpcBinder /\ remoteDead))
     /\ nextId' = nextId + 1
     /\ linked' = linked \cup {nextId}
     /\ UNCHANGED <<process, remoteStrong, mAlive, mObitsSent, remoteDead, strong, recipientAlive,
                    pc, obits, removed, dropped, delivered, skipped>>

(* unlinkToDeath: DEAD_OBJECT once mObitsSent, NAME_NOT_FOUND without a   *)
(* match; otherwise the first match is removed and an emptied list is     *)
(* freed after clearing the kernel death notification.  r = NULL is the   *)
(* null wp<> that matches on the cookie.                                  *)
Unlink(t, r, c, f) ==
  LET match(o) == (o.recipient = r \/ (r = NULL /\ o.cookie = c)) /\ o.flags = f
      i == SelectInSeq(ListOf(mObituaries), match)
      rest == RemoveAt(mObituaries, i)
  IN /\ Idle(t) /\ strong[t]
     /\ ~mObitsSent
     /\ i > 0
     /\ ~(rest = <<>> /\ SelfNull)
     /\ mObituaries' = IF rest = <<>> THEN NULL ELSE rest
     /\ deathRequests' = IF rest = <<>> THEN deathRequests - RequestDeath
                                        ELSE deathRequests
     /\ removed' = removed \cup {mObituaries[i].id}
     /\ UNCHANGED <<process, remoteStrong, mAlive, mObitsSent, remoteDead, deathPending, strong,
                    recipientAlive, pc, obits,
                    nextId, linked, dropped, delivered, skipped>>

(* transact, first half: with mAlive set the call goes to the transport;  *)
(* a dead proxy answers DEAD_OBJECT at once and a user call on a binder   *)
(* of the wrong stability answers BAD_TYPE, neither changing any state.   *)
TransactBegin(t) ==
  /\ Idle(t) /\ strong[t] /\ mAlive
  /\ ~SelfNull
  /\ pc' = [pc EXCEPT ![t] = "transact"]
  /\ UNCHANGED <<process, remoteStrong, mAlive, mObitsSent, mObituaries, deathRequests, remoteDead,
                 deathPending, strong, recipientAlive, obits, history>>

(* transact, second half: the transport answers DEAD_OBJECT exactly when  *)
(* the remote has died, and DEAD_OBJECT clears mAlive.                     *)
TransactEnd(t) ==
  /\ pc[t] = "transact"
  /\ mAlive' = (mAlive /\ ~remoteDead)
  /\ pc' = [pc EXCEPT ![t] = "idle"]
  /\ UNCHANGED <<process, remoteStrong, mObitsSent, mObituaries, deathRequests, remoteDead,
                 deathPending, strong, recipientAlive, obits, history>>

(* sendObituary, unlocked prefix: an idle binder thread takes the          *)
(* transport's death notice, clears mAlive and returns if mObitsSent is    *)
(* already set (read without the lock).                                    *)
SendObituary(t) ==
  /\ Idle(t) /\ deathPending
  /\ ~SelfNull
  /\ deathPending' = FALSE
  /\ mAlive' = FALSE
  /\ pc' = [pc EXCEPT ![t] = IF mObitsSent THEN "idle" ELSE "send_lock"]
  /\ UNCHANGED <<process, remoteStrong, mObitsSent, mObituaries, deathRequests, remoteDead, strong,
                 recipientAlive, obits, history>>

(* sendObituary under mLock: take the list, clear the kernel death        *)
(* notification if there was one, set mObitsSent.                          *)
SendLocked(t) ==
  /\ pc[t] = "send_lock"
  /\ ~(mObituaries /= NULL /\ SelfNull)
  /\ obits' = [obits EXCEPT ![t] = ListOf(mObituaries)]
  /\ mObituaries' = NULL
  /\ deathRequests' = IF mObituaries /= NULL THEN deathRequests - RequestDeath
                                             ELSE deathRequests
  /\ mObitsSent' = TRUE
  /\ pc' = [pc EXCEPT ![t] = "deliver"]
  /\ UNCHANGED <<process, remoteStrong, mAlive, remoteDead, deathPending, strong, recipientAlive,
                 history>>

(* reportOneDeath for the next obituary of the taken list: promote the    *)
(* weak recipient and call binderDied if it is still alive.               *)
ReportOneDeath(t) ==
  LET o == Head(obits[t])
  IN /\ pc[t] = "deliver" /\ obits[t] /= <<>>
     /\ obits' = [obits EXCEPT ![t] = Tail(@)]
     /\ IF recipientAlive[o.recipient]
          THEN /\ delivered' = Append(delivered, o.id) /\ UNCHANGED skipped
          ELSE /\ skipped' = skipped \cup {o.id} /\ UNCHANGED delivered
     /\ UNCHANGED <<process, remoteStrong, mAlive, mObitsSent, mObituaries, deathRequests, remoteDead,
                    deathPending, strong, recipientAlive, pc,
                    nextId, linked, removed, dropped>>

\* sendObituary: the walk is over and the list is deleted.
SendDone(t) ==
  /\ pc[t] = "deliver" /\ obits[t] = <<>>
  /\ pc' = [pc EXCEPT ![t] = "idle"]
  /\ UNCHANGED <<process, remoteStrong, mAlive, mObitsSent, mObituaries, deathRequests, remoteDead,
                 deathPending, strong, recipientAlive, obits, history>>

(* RefBase::decStrong: the thread drops its reference; the one that drops *)
(* the last goes on to onLastStrongRef.                                    *)
DecStrong(t) ==
  /\ Idle(t) /\ strong[t]
  /\ strong' = [strong EXCEPT ![t] = FALSE]
  /\ pc' = [pc EXCEPT ![t] = IF \E u \in Threads \ {t} : strong[u]
                               THEN "idle" ELSE "last_ref"]
  /\ UNCHANGED <<process, remoteStrong, mAlive, mObitsSent, mObituaries, deathRequests, remoteDead,
                 deathPending, recipientAlive, obits, history>>

(* onLastStrongRef: an RPC proxy only sends its decStrong.  A kernel      *)
(* proxy drops its strong reference on the node, then takes mObituaries   *)
(* under mLock, clears the death notification and deletes the list        *)
(* without telling the recipients; both driver calls are skipped when     *)
(* IPCThreadState::self() is null, the list is deleted all the same.       *)
OnLastStrongRef(t) ==
  /\ pc[t] = "last_ref"
  /\ pc' = [pc EXCEPT ![t] = "idle"]
  /\ remoteStrong' = IF isRpcBinder \/ ipcGone THEN remoteStrong ELSE remoteStrong - 1
  /\ IF isRpcBinder \/ mObituaries = NULL
       THEN UNCHANGED <<mObituaries, deathRequests, dropped>>
       ELSE /\ mObituaries' = NULL
            /\ deathRequests' = IF ipcGone THEN deathRequests ELSE deathRequests - 1
            /\ dropped' = dropped \cup IdsOf(mObituaries)
  /\ UNCHANGED <<process, mAlive, mObitsSent, remoteDead, deathPending, strong,
                 recipientAlive, obits, nextId, linked, removed, delivered,
                 skipped>>

\* RefBase::incStrong while another strong reference exists (an sp<> copy).
IncStrong(t) ==
  /\ Idle(t) /\ ~strong[t]
  /\ \E u \in Threads : strong[u]
  /\ strong' = [strong EXCEPT ![t] = TRUE]
  /\ UNCHANGED <<process, remoteStrong, mAlive, mObitsSent, mObituaries, deathRequests, remoteDead,
                 deathPending, recipientAlive, pc, obits, history>>

(* wp<>::promote with no strong reference left: onIncStrongAttempted       *)
(* refuses for RPC and with a null IPCThreadState, and otherwise asks the *)
(* kernel driver for a new strong reference on the node.                   *)
OnIncStrongAttempted(t) ==
  /\ Idle(t) /\ ~strong[t]
  /\ \A u \in Threads : ~strong[u]
  /\ ~isRpcBinder /\ ~ipcGone /\ PromoteFromZero
  /\ strong' = [strong EXCEPT ![t] = TRUE]
  /\ remoteStrong' = remoteStrong + 1
  /\ UNCHANGED <<process, mAlive, mObitsSent, mObituaries, deathRequests, remoteDead,
                 deathPending, recipientAlive, pc, obits, history>>

-----------------------------------------------------------------------------
(* The environment: the remote process and the users of the recipients.   *)

(* The remote dies.  The kernel queues BR_DEAD_BINDER for a requested     *)
(* notification; an RPC session calls sendObituary on all its proxies     *)
(* when it shuts down.                                                     *)
RemoteDies ==
  /\ ~remoteDead
  /\ remoteDead' = TRUE
  /\ deathPending' = (isRpcBinder \/ deathRequests > 0)
  /\ UNCHANGED <<process, remoteStrong, mAlive, mObitsSent, mObituaries, deathRequests, strong,
                 recipientAlive, pc, obits, history>>

\* The last sp<DeathRecipient> to r goes away; the obituary holds a wp<>.
RecipientGone(r) ==
  /\ recipientAlive[r]
  /\ recipientAlive' = [recipientAlive EXCEPT ![r] = FALSE]
  /\ UNCHANGED <<process, remoteStrong, mAlive, mObitsSent, mObituaries, deathRequests, remoteDead,
                 deathPending, strong, pc, obits, history>>

(* IPCThreadState::shutdown at process exit: from now on                  *)
(* IPCThreadState::self() returns nullptr.                                 *)
IpcThreadStateShutdown ==
  /\ IpcShutdown /\ ~ipcGone
  /\ ipcGone' = TRUE
  /\ UNCHANGED <<isRpcBinder, crashed, remoteStrong, mAlive, mObitsSent, mObituaries,
                 deathRequests, remoteDead, deathPending, strong, recipientAlive,
                 pc, obits, history>>

(* A kernel-IPC call through the null IPCThreadState::self(): transact,   *)
(* linkToDeath requesting the first notification, unlinkToDeath clearing  *)
(* the last, or sendObituary clearing a list.  Only onLastStrongRef,      *)
(* onIncStrongAttempted and onFirstRef test the pointer; here the process *)
(* dies.                                                                   *)
NullSelfCrash(t) ==
  /\ SelfNull
  /\ \/ Idle(t) /\ strong[t] /\ mAlive
     \/ /\ Idle(t) /\ strong[t] /\ ~mObitsSent /\ mObituaries = NULL
        /\ nextId <= MaxLinks /\ \E r \in Recipients : recipientAlive[r]
     \/ Idle(t) /\ strong[t] /\ ~mObitsSent /\ Len(ListOf(mObituaries)) = 1
     \/ pc[t] = "send_lock" /\ mObituaries /= NULL
  /\ crashed' = TRUE
  /\ UNCHANGED <<isRpcBinder, ipcGone, remoteStrong, mAlive, mObitsSent, mObituaries,
                 deathRequests, remoteDead, deathPending, strong, recipientAlive,
                 pc, obits, history>>

\* Nothing happens in a process that has died.
Next ==
  /\ ~crashed
  /\ \/ \E t \in Threads :
       \/ \E r \in Recipients, c \in Cookies, f \in Flags : Link(t, r, c, f)
       \/ \E r \in Recipients \cup {NULL}, c \in Cookies, f \in Flags :
            Unlink(t, r, c, f)
       \/ TransactBegin(t) \/ TransactEnd(t)
       \/ SendObituary(t) \/ SendLocked(t) \/ ReportOneDeath(t) \/ SendDone(t)
       \/ DecStrong(t) \/ OnLastStrongRef(t)
       \/ IncStrong(t) \/ OnIncStrongAttempted(t)
       \/ NullSelfCrash(t)
     \/ RemoteDies
     \/ \E r \in Recipients : RecipientGone(r)
     \/ IpcThreadStateShutdown

(* A thread that has started a step with the lock released finishes it    *)
(* (the code never blocks there for good), and a death notice the         *)
(* transport owes is taken by a binder thread whenever one is repeatedly  *)
(* free.                                                                   *)
Fairness ==
  /\ \A t \in Threads :
       /\ WF_vars(TransactEnd(t))
       /\ WF_vars(SendLocked(t))
       /\ WF_vars(ReportOneDeath(t))
       /\ WF_vars(SendDone(t))
       /\ WF_vars(OnLastStrongRef(t))
  /\ SF_vars(\E t \in Threads : SendObituary(t))

Spec == Init /\ [][Next]_vars /\ Fairness

-----------------------------------------------------------------------------
(* Properties.                                                             *)

TypeOK ==
  /\ mAlive \in BOOLEAN /\ mObitsSent \in BOOLEAN
  /\ mObituaries = NULL \/ mObituaries \in Seq(Obituary) \ {<<>>}
  /\ deathRequests \in Int
  /\ remoteDead \in BOOLEAN /\ deathPending \in BOOLEAN
  /\ strong \in [Threads -> BOOLEAN]
  /\ recipientAlive \in [Recipients -> BOOLEAN]
  /\ pc \in [Threads -> {"idle", "transact", "send_lock", "deliver", "last_ref"}]
  /\ obits \in [Threads -> Seq(Obituary)]
  /\ isRpcBinder \in BOOLEAN /\ remoteStrong \in Nat
  /\ ipcGone \in BOOLEAN /\ crashed \in BOOLEAN
  /\ nextId \in 1..(MaxLinks + 1)
  /\ linked \subseteq Ids /\ removed \subseteq Ids /\ dropped \subseteq Ids
  /\ delivered \in Seq(Ids) /\ skipped \subseteq Ids

(* The kernel death notification is requested exactly while the proxy    *)
(* has a list of obituaries: linkToDeath requests it for the first entry, *)
(* and unlinkToDeath, sendObituary and onLastStrongRef each clear it when  *)
(* they free the list.  A second request would make the driver refuse it  *)
(* and leak the weak reference taken for it; a clear without a request    *)
(* would drop a weak reference the proxy does not own.                     *)
DeathRequestMatchesList ==
  deathRequests = IF mObituaries = NULL THEN 0 ELSE RequestDeath

(* The driver holds one strong reference on the node for a kernel proxy  *)
(* while any sp<> to it exists, plus one for each thread between dropping *)
(* the last sp<> and running onLastStrongRef: onFirstRef takes the first, *)
(* a promotion from zero takes another through attemptIncStrongHandle, and *)
(* onLastStrongRef gives one back.  One too many keeps the remote object  *)
(* alive for ever; one too few lets it go while the proxy is still used.   *)
RemoteStrongBalanced ==
  ~isRpcBinder =>
    remoteStrong = (IF \E t \in Threads : strong[t] THEN 1 ELSE 0)
                   + Cardinality({t \in Threads : pc[t] = "last_ref"})

\* Occurrences of obituary id among the places an obituary can be.
Copies(id) ==
  Cardinality({i \in DOMAIN ListOf(mObituaries) : ListOf(mObituaries)[i].id = id})
  + MapThenSumSet(LAMBDA t : Cardinality({i \in DOMAIN obits[t] : obits[t][i].id = id}),
                  Threads)
  + Cardinality({i \in DOMAIN delivered : delivered[i] = id})
  + (IF id \in skipped THEN 1 ELSE 0)
  + (IF id \in removed THEN 1 ELSE 0)
  + (IF id \in dropped THEN 1 ELSE 0)

(* Every obituary a successful linkToDeath created is, at every moment,   *)
(* in exactly one place: still registered, taken by a sendObituary that   *)
(* has not reached it, reported with binderDied, skipped because its      *)
(* recipient was gone, removed by a successful unlinkToDeath, or dropped  *)
(* by onLastStrongRef.  So no recipient hears of a death twice, and none  *)
(* hears of it after unlinkToDeath returned NO_ERROR for it.               *)
ObituaryAccounting ==
  \A id \in linked : Copies(id) = 1

(* binderDied calls come in the order of the linkToDeath calls.           *)
DeliveredInLinkOrder ==
  IsSorted(delivered, <)

(* Once the remote has died, every obituary registered by linkToDeath is  *)
(* eventually reported, or skipped, removed or dropped: no registration   *)
(* slips between the transport's notice and mObitsSent and stays unheard. *)
ObituaryEventuallySettled ==
  \A id \in Ids :
    (id \in linked /\ remoteDead) ~>
      (\E i \in DOMAIN delivered : delivered[i] = id)
        \/ id \in skipped \/ id \in removed \/ id \in dropped

(* The data model of the specification: once mAlive is false no new      *)
(* obituary may be registered; linkToDeath must answer DEAD_OBJECT.       *)
NoLinkAfterDeath ==
  [][nextId' /= nextId => mAlive]_vars

(* The proxy implements the death-notification API: under the mapping    *)
(* below (registered = the ids in mObituaries, taken = the ids in the     *)
(* lists sendObituary threads hold, sent = mObitsSent) every step of      *)
(* linkToDeath, unlinkToDeath, sendObituary and onLastStrongRef is a step *)
(* of DeathNotification or leaves its state alone: nothing registers or   *)
(* is removed after the list was taken, the list is taken whole and once, *)
(* and the taken obituaries are reported earliest first.                  *)
DN == INSTANCE DeathNotification WITH
        reg <- IdsOf(ListOf(mObituaries)),
        sent <- mObitsSent,
        taken <- UNION {IdsOf(obits[t]) : t \in Threads},
        next <- nextId

DeathNotificationSpec == DN!Spec

=============================================================================
