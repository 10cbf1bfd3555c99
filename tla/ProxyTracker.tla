----------------------------- MODULE ProxyTracker -----------------------------
(***************************************************************************)
(* The process-wide binder proxy budget of BpBinder.cpp: sTrackingMap,     *)
(* sLastLimitCallbackMap and the watermarks, guarded by sTrackingLock.     *)
(*                                                                         *)
(* BpBinder::create(handle) counts the new kernel proxy against the        *)
(* calling uid, raises the limit flag and calls sLimitCallback at the high *)
(* watermark and may refuse the proxy when throttling; ~BpBinder takes it  *)
(* off the count again and lowers the flag at the low watermark.  Every    *)
(* one of these runs under sTrackingLock, so each is one atomic action.    *)
(*                                                                         *)
(* sTrackingMap holds a packed word: the top bit is LIMIT_REACHED_MASK and *)
(* the rest COUNTING_VALUE_MASK.  The model keeps the packing and the      *)
(* unsigned wrap-around with a word of Width bits instead of 32.  A uid    *)
(* missing from a map is the value 0, which is what operator[] inserts.    *)
(***************************************************************************)
EXTENDS Integers, FiniteSets

CONSTANTS
  Uids,        \* calling uids that create proxies
  Proxies,     \* slots for BpBinder objects with a kernel handle
  Width,       \* bits of the packed sTrackingMap word (32 in the code)
  InitHigh,    \* initial sBinderProxyCountHighWatermark
  InitLow,     \* initial sBinderProxyCountLowWatermark
  Watermarks,  \* <<high, low>> int pairs given to setBinderProxyCountWatermarks
  Throttles,   \* the values sBinderProxyThrottleCreate is set to at start
  None         \* no proxy in a slot; no callback in a step

ASSUME Width \in Nat /\ Width >= 2
ASSUME Throttles \subseteq BOOLEAN /\ Throttles /= {}
ASSUME None \notin Uids

Word == 2^Width
LIMIT_REACHED_MASK == 2^(Width - 1)

\* A tracked proxy remembers its uid; mTrackedUid = -1 is not tracked.
Untracked == -1

\* The counting bits and the limit flag of a packed value.
CountOf(v) == v % LIMIT_REACHED_MASK
LimitReached(v) == v >= LIMIT_REACHED_MASK

\* An int argument stored into a uint32_t watermark: taken modulo the word.
ToUnsigned(i) == i % Word

VARIABLES
  sTrackingMap,          \* [Uids -> 0..Word-1]
  sLastLimitCallbackMap, \* [Uids -> Nat]
  sCountByUidEnabled,
  sLimitCallbackSet,     \* sLimitCallback is non-null
  high, low,             \* the two watermarks
  sBinderProxyThrottleCreate,
  proxy,                 \* proxy[p]: None, or the mTrackedUid of a live BpBinder
  fired                  \* the sLimitCallback call of the last step, or None

vars == <<sTrackingMap, sLastLimitCallbackMap, sCountByUidEnabled,
          sLimitCallbackSet, high, low, sBinderProxyThrottleCreate, proxy, fired>>

settings == <<sCountByUidEnabled, sLimitCallbackSet, high, low,
              sBinderProxyThrottleCreate>>

\* The call of sLimitCallback(uid) at count n, if a callback is installed.
Callback(uid, n) == IF sLimitCallbackSet THEN [uid |-> uid, count |-> n] ELSE None

Init ==
  /\ sTrackingMap = [u \in Uids |-> 0]
  /\ sLastLimitCallbackMap = [u \in Uids |-> 0]
  /\ sCountByUidEnabled = FALSE
  /\ sLimitCallbackSet = FALSE
  /\ high = InitHigh /\ low = InitLow
  /\ sBinderProxyThrottleCreate \in Throttles
  /\ proxy = [p \in Proxies |-> None]
  /\ fired = None

-----------------------------------------------------------------------------
(* Variants of the operations, each a plausible mistake in the code, used *)
(* to confirm that the properties below can tell them apart.               *)

\* ~BpBinder clears the flag by subtracting the mask without testing it.
ReleaseSubtractsMask(v) == IF CountOf(v) <= low THEN v - LIMIT_REACHED_MASK ELSE v

\* create re-fires without checking that the count grew since the last call.
RefireUnguarded(n, last) == (n - last) % Word > high

\* create counts the proxy it then refuses for throttling.
RefuseCountingThrottled(uid) ==
  /\ sTrackingMap' = [sTrackingMap EXCEPT ![uid] = (@ + 1) % Word]
  /\ UNCHANGED <<sLastLimitCallbackMap, proxy>>
  /\ fired' = None

-----------------------------------------------------------------------------
(* The condition of ~BpBinder that lowers the limit flag, and the value   *)
(* it leaves.                                                              *)
ReleaseFlag(v) == IF LimitReached(v) /\ CountOf(v) <= low
                    THEN v - LIMIT_REACHED_MASK ELSE v

(* create refuses the proxy of a uid whose limit flag is set while       *)
(* throttling, and leaves the tracking state alone.                        *)
RefuseThrottled(uid) ==
  /\ UNCHANGED <<sTrackingMap, sLastLimitCallbackMap, proxy>>
  /\ fired' = None

(* create re-fires the callback when the count has grown by more than the *)
(* high watermark since the last call.                                     *)
Refire(n, last) == n > last /\ n - last > high

(* BpBinder::create(int32_t handle) for a caller of the given uid.  With  *)
(* counting disabled the proxy is untracked.  With the limit flag already *)
(* set it is refused when throttling, otherwise the callback is fired     *)
(* again by the excess-delta rule; without the flag, reaching the high    *)
(* watermark sets the flag, fires the callback and, when throttling,      *)
(* refuses the proxy.  An accepted proxy increments the packed word.      *)
CreateTracked(p, uid) ==
  LET v == sTrackingMap[uid]
      n == CountOf(v)
      last == sLastLimitCallbackMap[uid]
      Accept(w) == /\ sTrackingMap' = [sTrackingMap EXCEPT ![uid] = (w + 1) % Word]
                   /\ proxy' = [proxy EXCEPT ![p] = uid]
  IN /\ proxy[p] = None
     /\ sCountByUidEnabled
     /\ \/ /\ LimitReached(v) /\ sBinderProxyThrottleCreate
           /\ RefuseThrottled(uid)
        \/ /\ LimitReached(v) /\ ~sBinderProxyThrottleCreate
           /\ IF Refire(n, last)
                THEN /\ fired' = Callback(uid, n)
                     /\ sLastLimitCallbackMap' = [sLastLimitCallbackMap EXCEPT ![uid] = n]
                ELSE /\ fired' = None /\ UNCHANGED sLastLimitCallbackMap
           /\ Accept(v)
        \/ /\ ~LimitReached(v) /\ n >= high
           /\ fired' = Callback(uid, n)
           /\ sLastLimitCallbackMap' = [sLastLimitCallbackMap EXCEPT ![uid] = n]
           /\ IF sBinderProxyThrottleCreate
                THEN /\ sTrackingMap' = [sTrackingMap EXCEPT ![uid] = v + LIMIT_REACHED_MASK]
                     /\ UNCHANGED proxy
                ELSE Accept(v + LIMIT_REACHED_MASK)
        \/ /\ ~LimitReached(v) /\ n < high
           /\ fired' = None
           /\ UNCHANGED sLastLimitCallbackMap
           /\ Accept(v)
     /\ UNCHANGED settings

\* BpBinder::create(int32_t handle) with counting disabled: mTrackedUid = -1.
CreateUntracked(p) ==
  /\ proxy[p] = None
  /\ ~sCountByUidEnabled
  /\ proxy' = [proxy EXCEPT ![p] = Untracked]
  /\ fired' = None
  /\ UNCHANGED <<sTrackingMap, sLastLimitCallbackMap, settings>>

(* ~BpBinder of a kernel proxy.  A tracked one lowers the limit flag if   *)
(* its uid is at or below the low watermark (counted before this proxy is *)
(* taken off), forgets the last callback count, and decrements; a word    *)
(* that reaches 0 is erased.  A zero count is only logged.                 *)
Destroy(p) ==
  LET uid == proxy[p]
      v == sTrackingMap[uid]
  IN /\ proxy[p] /= None
     /\ proxy' = [proxy EXCEPT ![p] = None]
     /\ fired' = None
     /\ IF uid = Untracked \/ CountOf(v) = 0
          THEN UNCHANGED <<sTrackingMap, sLastLimitCallbackMap>>
          ELSE /\ sTrackingMap' = [sTrackingMap EXCEPT ![uid] = ReleaseFlag(v) - 1]
               /\ sLastLimitCallbackMap' =
                    IF ReleaseFlag(v) /= v
                      THEN [sLastLimitCallbackMap EXCEPT ![uid] = 0]
                      ELSE sLastLimitCallbackMap
     /\ UNCHANGED settings

\* enableCountByUid, disableCountByUid, setCountByUidEnabled.
SetCountByUidEnabled(b) ==
  /\ sCountByUidEnabled' = b
  /\ fired' = None
  /\ UNCHANGED <<sTrackingMap, sLastLimitCallbackMap, sLimitCallbackSet,
                 high, low, sBinderProxyThrottleCreate, proxy>>

\* setLimitCallback, with a callback or with nullptr.
SetLimitCallback(b) ==
  /\ sLimitCallbackSet' = b
  /\ fired' = None
  /\ UNCHANGED <<sTrackingMap, sLastLimitCallbackMap, sCountByUidEnabled,
                 high, low, sBinderProxyThrottleCreate, proxy>>

(* setBinderProxyCountWatermarks(int high, int low): the uint32_t        *)
(* watermarks take the converted values, so a negative one is huge.       *)
SetBinderProxyCountWatermarks(h, l) ==
  /\ high' = ToUnsigned(h) /\ low' = ToUnsigned(l)
  /\ fired' = None
  /\ UNCHANGED <<sTrackingMap, sLastLimitCallbackMap, sCountByUidEnabled,
                 sLimitCallbackSet, sBinderProxyThrottleCreate, proxy>>

\* getBinderProxyCount(uid): the counting bits of the uid's word.
GetBinderProxyCount(uid) == CountOf(sTrackingMap[uid])

Next ==
  \/ \E p \in Proxies :
       \/ \E uid \in Uids : CreateTracked(p, uid)
       \/ CreateUntracked(p)
       \/ Destroy(p)
  \/ \E b \in BOOLEAN : SetCountByUidEnabled(b) \/ SetLimitCallback(b)
  \/ \E w \in Watermarks : SetBinderProxyCountWatermarks(w[1], w[2])

Spec == Init /\ [][Next]_vars

-----------------------------------------------------------------------------
(* Properties.                                                             *)

TypeOK ==
  /\ sTrackingMap \in [Uids -> 0..(Word - 1)]
  /\ sLastLimitCallbackMap \in [Uids -> 0..(Word - 1)]
  /\ sCountByUidEnabled \in BOOLEAN /\ sLimitCallbackSet \in BOOLEAN
  /\ <<high, low>> \in {<<ToUnsigned(w[1]), ToUnsigned(w[2])>> : w \in Watermarks}
                        \cup {<<InitHigh, InitLow>>}
  /\ sBinderProxyThrottleCreate \in BOOLEAN
  /\ proxy \in [Proxies -> Uids \cup {Untracked, None}]
  /\ fired \in [uid : Uids, count : 0..(Word - 1)] \cup {None}

\* Live proxies that count against uid.
Held(uid) == Cardinality({p \in Proxies : proxy[p] = uid})

(* getBinderProxyCount(uid) equals the number of live proxies created     *)
(* for uid while counting was enabled, whatever the interleaving of       *)
(* creates, refusals, destructions and switching counting on and off.     *)
CountMatchesLiveProxies ==
  \A uid \in Uids : GetBinderProxyCount(uid) = Held(uid)

(* sLimitCallback is only ever called for a uid holding at least the high *)
(* watermark of proxies, first when it reaches it and later by the        *)
(* excess-delta rule, also after the count has fallen back below the      *)
(* count of the last call.                                                 *)
CallbackOnlyOverHigh ==
  fired /= None => fired.count >= high

(* The specification's hysteresis, against ~BpBinder's flag test: the     *)
(* limit flag is lowered once the count has dropped to the low watermark, *)
(* so in particular a uid whose proxies are all gone is not left flagged. *)
FlagDownAtLow ==
  \A uid \in Uids : LimitReached(sTrackingMap[uid]) => GetBinderProxyCount(uid) > low

=============================================================================
