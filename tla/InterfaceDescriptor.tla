-------------------------- MODULE InterfaceDescriptor --------------------------
(***************************************************************************)
(* The set-once descriptor cache of BpBinder: isDescriptorCached and      *)
(* getInterfaceDescriptor.                                                 *)
(*                                                                         *)
(* A caller checks the cache under mLock; when it is still the sentinel   *)
(* kDescriptorUninit it issues INTERFACE_TRANSACTION with the lock         *)
(* released, then takes mLock again and assigns the reply only if the     *)
(* cache is still the sentinel.  It returns mDescriptorCache, read without *)
(* the lock.  The cache is compared by buffer identity (c_str()), so a     *)
(* value here is the identity of a String16 buffer: the sentinel, or the  *)
(* reply buffer of one call, named <<thread, call number>>.  The           *)
(* transaction may fail (dead peer or any transport error); it then       *)
(* leaves the cache alone.                                                 *)
(***************************************************************************)
EXTENDS Naturals, FiniteSets

CONSTANTS
  Threads,    \* threads calling getInterfaceDescriptor on one proxy
  MaxCalls,   \* calls each thread makes
  Uninit,     \* kDescriptorUninit
  None        \* no call has returned yet

ASSUME MaxCalls \in Nat \ {0}

\* The String16 buffer read from the reply of a thread's n-th call.
Buffers == Threads \X (1..MaxCalls)

VARIABLES
  mDescriptorCache,
  pc,        \* pc[t]: "idle", "txn" (INTERFACE in flight), "assign", "ret"
  calls,     \* calls[t]: calls thread t has started
  res,       \* res[t]: the reply buffer of t's current call, or Uninit
  returned,  \* returned[t]: what t's last call returned, or None
  lastOk,    \* lastOk[t]: the INTERFACE transaction of t's last call succeeded
  okTxns     \* INTERFACE transactions that returned NO_ERROR

vars == <<mDescriptorCache, pc, calls, res, returned, lastOk, okTxns>>

Init ==
  /\ mDescriptorCache = Uninit
  /\ pc = [t \in Threads |-> "idle"]
  /\ calls = [t \in Threads |-> 0]
  /\ res = [t \in Threads |-> Uninit]
  /\ returned = [t \in Threads |-> None]
  /\ lastOk = [t \in Threads |-> FALSE]
  /\ okTxns = 0

-----------------------------------------------------------------------------
(* Variants of the steps, each a plausible mistake in the code.            *)

\* The reply is assigned without re-checking the cache under the lock.
AssignNoRecheck(t) ==
  /\ pc[t] = "assign"
  /\ mDescriptorCache' = res[t]
  /\ pc' = [pc EXCEPT ![t] = "ret"]
  /\ UNCHANGED <<calls, res, returned, lastOk, okTxns>>

\* The reply is read but never stored: success goes straight to the return.
ReplySkipsAssign(t) ==
  /\ pc[t] = "txn"
  /\ pc' = [pc EXCEPT ![t] = "ret"]
  /\ res' = [res EXCEPT ![t] = <<t, calls[t]>>]
  /\ lastOk' = [lastOk EXCEPT ![t] = TRUE]
  /\ okTxns' = okTxns + 1
  /\ UNCHANGED <<mDescriptorCache, calls, returned>>

-----------------------------------------------------------------------------
(* getInterfaceDescriptor's first step: isDescriptorCached() under mLock.  *)
(* A cached descriptor is returned at once; otherwise the INTERFACE        *)
(* transaction is issued with the lock released.                           *)
Call(t) ==
  /\ pc[t] = "idle"
  /\ calls[t] < MaxCalls
  /\ calls' = [calls EXCEPT ![t] = @ + 1]
  /\ pc' = [pc EXCEPT ![t] = IF mDescriptorCache /= Uninit THEN "ret" ELSE "txn"]
  /\ res' = [res EXCEPT ![t] = Uninit]
  /\ lastOk' = [lastOk EXCEPT ![t] = FALSE]
  /\ UNCHANGED <<mDescriptorCache, returned, okTxns>>

(* transact(INTERFACE_TRANSACTION) returns NO_ERROR: the reply string is  *)
(* read into res.                                                          *)
ReplyOk(t) ==
  /\ pc[t] = "txn"
  /\ pc' = [pc EXCEPT ![t] = "assign"]
  /\ res' = [res EXCEPT ![t] = <<t, calls[t]>>]
  /\ lastOk' = [lastOk EXCEPT ![t] = TRUE]
  /\ okTxns' = okTxns + 1
  /\ UNCHANGED <<mDescriptorCache, calls, returned>>

\* transact returns an error (dead peer, transport failure): nothing is cached.
ReplyFailed(t) ==
  /\ pc[t] = "txn"
  /\ pc' = [pc EXCEPT ![t] = "ret"]
  /\ UNCHANGED <<mDescriptorCache, calls, res, returned, lastOk, okTxns>>

(* Under mLock again: mDescriptorCache could have been assigned while the *)
(* lock was released, so the reply is stored only over the sentinel.      *)
Assign(t) ==
  /\ pc[t] = "assign"
  /\ mDescriptorCache' = IF mDescriptorCache = Uninit THEN res[t] ELSE mDescriptorCache
  /\ pc' = [pc EXCEPT ![t] = "ret"]
  /\ UNCHANGED <<calls, res, returned, lastOk, okTxns>>

\* return mDescriptorCache, read without mLock.
Return(t) ==
  /\ pc[t] = "ret"
  /\ returned' = [returned EXCEPT ![t] = mDescriptorCache]
  /\ pc' = [pc EXCEPT ![t] = "idle"]
  /\ UNCHANGED <<mDescriptorCache, calls, res, lastOk, okTxns>>

Next ==
  \E t \in Threads :
    \/ Call(t) \/ ReplyOk(t) \/ ReplyFailed(t) \/ Assign(t) \/ Return(t)

(* The transport answers every transaction and a thread that holds the    *)
(* proxy runs on: every started call is weakly fair.                       *)
Fairness ==
  \A t \in Threads :
    WF_vars(ReplyOk(t) \/ ReplyFailed(t)) /\ WF_vars(Assign(t)) /\ WF_vars(Return(t))

Spec == Init /\ [][Next]_vars /\ Fairness

-----------------------------------------------------------------------------
(* Properties.                                                             *)

(* Set once, stable reference: a descriptor any call has returned is      *)
(* still the cached one, so concurrent callers converge on one buffer     *)
(* and a returned descriptor is never replaced under its holder.          *)
ReturnedDescriptorIsCached ==
  \A t \in Threads : returned[t] \in Buffers => returned[t] = mDescriptorCache

(* A call whose INTERFACE transaction succeeded never hands back the      *)
(* uninitialised sentinel, even when another caller won the race to set   *)
(* the cache.                                                              *)
SuccessNeverReturnsUninit ==
  \A t \in Threads : pc[t] = "idle" /\ lastOk[t] => returned[t] /= Uninit

(* The specification's cached-descriptor scenario: concurrent callers     *)
(* issue one INTERFACE transaction between them.                           *)
OneInterfaceTransaction == okTxns <= 1

=============================================================================
