----------------------------- MODULE ObjectManager -----------------------------
(***************************************************************************)
(* The attached-object table of one BpBinder: BpBinder::ObjectManager and *)
(* the wrappers attachObject, findObject, detachObject and                *)
(* lookupOrCreateWeak, which take mLock around it, and ~ObjectManager,    *)
(* which calls kill() when the proxy is destroyed.                         *)
(*                                                                         *)
(* attach, find and detach run whole under mLock and are single actions.  *)
(* lookupOrCreateWeak holds mLock across the caller's make(makeArgs), so  *)
(* it is split at that call: make may itself call back into the proxy.    *)
(* kill() runs without mLock in the destructor and visits the entries one *)
(* at a time; a cleanup it calls may call back into the proxy too.        *)
(*                                                                         *)
(* A weak slot holds a Tag, a heap wrapper around wp<IBinder>; the binder *)
(* objects that make returns are promotable while some thread holds the   *)
(* sp<> it was handed.  Ids used with attachObject and ids used with      *)
(* lookupOrCreateWeak are disjoint sets, as the callers' static ids are.  *)
(***************************************************************************)
EXTENDS Naturals, FiniteSets

CONSTANTS
  Threads,
  AttachIds,        \* objectIDs passed to attachObject / detachObject
  WeakIds,          \* objectIDs passed to lookupOrCreateWeak
  Objects,          \* user objects to attach, each attached at most once
  Tags,             \* heap Tag wrappers (new Tag)
  Binders,          \* objects make(makeArgs) can return
  MakeReenters,     \* make calls back into this proxy (e.g. findObject)
  CleanupReenters,  \* a cleanup run by kill attaches to this proxy
  None

ASSUME MakeReenters \in BOOLEAN /\ CleanupReenters \in BOOLEAN

\* Cleanup functions of an entry_t; "none" is a null object_cleanup_func.
Funcs == {"user", "cleanWeak", "none"}

VARIABLES
  mObjects,   \* [ids in use -> [object, binder, func]]
  mLock,      \* the thread holding mLock, or None
  pc,         \* pc[t]: "idle", "make", "reenter", "withLock"
  slot,       \* slot[t]: the id of t's lookupOrCreateWeak call
  held,       \* held[t]: the sp<IBinder> t holds from lookupOrCreateWeak, or None
  made,       \* binders make has returned
  used,       \* user objects and Tags handed out so far
  cleanups,   \* cleanups[v]: times a cleanup function ran for v
  owed,       \* values whose cleanup the table owes: in it with a non-null func
  dying,      \* ~ObjectManager has started kill()
  visited,    \* ids kill() has moved past
  cleaning,   \* the id whose cleanup kill() is running, or None
  snapshot,   \* the ids in mObjects when kill() started
  destroyed   \* mObjects.clear() done: the table is gone

vars == <<mObjects, mLock, pc, slot, held, made, used, cleanups, owed, dying,
          visited, cleaning, snapshot, destroyed>>

Values == Objects \cup Tags

Init ==
  /\ mObjects = [i \in {} |-> <<>>]
  /\ mLock = None
  /\ pc = [t \in Threads |-> "idle"]
  /\ slot = [t \in Threads |-> None]
  /\ held = [t \in Threads |-> None]
  /\ made = {}
  /\ used = {}
  /\ cleanups = [v \in Values |-> 0]
  /\ owed = {}
  /\ dying = FALSE /\ visited = {} /\ cleaning = None /\ snapshot = {} /\ destroyed = FALSE

\* A Tag's wp<IBinder> promotes while some thread holds an sp<> to its binder.
Promotable(b) == \E t \in Threads : held[t] = b

\* Insert a new entry into mObjects.
Insert(id, e) == [i \in DOMAIN mObjects \cup {id} |-> IF i = id THEN e ELSE mObjects[i]]

(* ObjectManager::find: the stored object, or None for a free id.          *)
FindObject(id) == IF id \in DOMAIN mObjects THEN mObjects[id].object ELSE None

\* The proxy is in use: not destroyed and mLock free.
Usable == ~dying /\ mLock = None

-----------------------------------------------------------------------------
(* Variants of the steps, each a plausible mistake in the code.            *)

\* A weak slot whose binder cannot be promoted gets a fresh Tag; the old
\* one is leaked.
LookupNewTag(t, id) ==
  /\ pc[t] = "idle" /\ held[t] = None /\ Usable
  /\ made /= Binders   \* bound: make has a binder left to return
  /\ id \in DOMAIN mObjects => ~Promotable(mObjects[id].binder)
  /\ \E g \in Tags \ used :
       /\ mObjects' = [i \in DOMAIN mObjects \cup {id} |->
                         IF i = id THEN [object |-> g, binder |-> None, func |-> "none"]
                         ELSE mObjects[i]]
       /\ used' = used \cup {g}
  /\ mLock' = t
  /\ pc' = [pc EXCEPT ![t] = "make"]
  /\ slot' = [slot EXCEPT ![t] = id]
  /\ UNCHANGED <<held, made, cleanups, owed, dying, visited, cleaning, snapshot, destroyed>>

\* lookupOrCreateWeak never promotes the stored reference: make always runs.
LookupNoPromote(t, id) ==
  /\ pc[t] = "idle" /\ held[t] = None /\ Usable
  /\ made /= Binders   \* bound: make has a binder left to return
  /\ IF id \in DOMAIN mObjects
       THEN UNCHANGED <<mObjects, used>>
       ELSE \E g \in Tags \ used :
              /\ mObjects' = Insert(id, [object |-> g, binder |-> None, func |-> "none"])
              /\ used' = used \cup {g}
  /\ mLock' = t
  /\ pc' = [pc EXCEPT ![t] = "make"]
  /\ slot' = [slot EXCEPT ![t] = id]
  /\ UNCHANGED <<held, made, cleanups, owed, dying, visited, cleaning, snapshot, destroyed>>

\* A new weak slot keeps the null object operator[] inserted: no new Tag.
LookupNoTag(t, id) ==
  /\ pc[t] = "idle" /\ held[t] = None /\ Usable
  /\ IF id \in DOMAIN mObjects /\ Promotable(mObjects[id].binder)
       THEN /\ held' = [held EXCEPT ![t] = mObjects[id].binder]
            /\ slot' = [slot EXCEPT ![t] = id]
            /\ UNCHANGED <<mObjects, mLock, pc, used>>
       ELSE /\ made /= Binders
            /\ IF id \in DOMAIN mObjects
                 THEN UNCHANGED mObjects
                 ELSE mObjects' = Insert(id, [object |-> None, binder |-> None,
                                              func |-> "none"])
            /\ mLock' = t
            /\ pc' = [pc EXCEPT ![t] = "make"]
            /\ slot' = [slot EXCEPT ![t] = id]
            /\ UNCHANGED <<held, used>>
  /\ UNCHANGED <<made, cleanups, owed, dying, visited, cleaning, snapshot, destroyed>>

\* kill() comes back from a cleanup without moving past the entry.
KillReturnNoAdvance ==
  /\ cleaning /= None
  /\ cleaning' = None
  /\ UNCHANGED <<mObjects, mLock, pc, slot, held, made, used, cleanups, owed, dying,
                 visited, snapshot, destroyed>>

-----------------------------------------------------------------------------
(* attachObject: under mLock, ObjectManager::attach.  An id in use keeps  *)
(* its entry (the existing object is returned); otherwise the new entry   *)
(* is inserted.  Also the path of a cleanup that calls back while kill()  *)
(* waits for it, when CleanupReenters.                                     *)
AttachObject(id, o, f) ==
  /\ mLock = None /\ ~destroyed
  /\ ~dying \/ (CleanupReenters /\ cleaning /= None)
  /\ o \in Objects \ used
  /\ IF id \in DOMAIN mObjects
       THEN UNCHANGED <<mObjects, used>>
       ELSE /\ mObjects' = Insert(id, [object |-> o, binder |-> None, func |-> f])
            /\ used' = used \cup {o}
  /\ owed' = IF id \notin DOMAIN mObjects /\ f /= "none" THEN owed \cup {o} ELSE owed
  /\ UNCHANGED <<mLock, pc, slot, held, made, cleanups, dying, visited, cleaning,
                 snapshot, destroyed>>

\* detachObject: under mLock, remove the entry; no cleanup runs.
DetachObject(id) ==
  /\ Usable
  /\ id \in DOMAIN mObjects
  /\ mObjects' = [i \in DOMAIN mObjects \ {id} |-> mObjects[i]]
  /\ owed' = owed \ {mObjects[id].object}
  /\ UNCHANGED <<mLock, pc, slot, held, made, used, cleanups, dying, visited, cleaning,
                 snapshot, destroyed>>

(* lookupOrCreateWeak up to make: take mLock, mObjects[objectID] (which   *)
(* inserts an empty entry); a Tag whose binder promotes is returned and   *)
(* the lock released; an empty entry gets a new Tag; then make runs with  *)
(* mLock still held.                                                       *)
LookupOrCreateWeak(t, id) ==
  /\ pc[t] = "idle" /\ held[t] = None /\ Usable
  /\ IF id \in DOMAIN mObjects /\ Promotable(mObjects[id].binder)
       THEN /\ held' = [held EXCEPT ![t] = mObjects[id].binder]
            /\ slot' = [slot EXCEPT ![t] = id]
            /\ UNCHANGED <<mObjects, mLock, pc, used>>
       ELSE /\ made /= Binders   \* bound: make has a binder left to return
            /\ IF id \in DOMAIN mObjects
                 THEN UNCHANGED <<mObjects, used>>
                 ELSE \E g \in Tags \ used :
                        /\ mObjects' = Insert(id, [object |-> g, binder |-> None,
                                                   func |-> "none"])
                        /\ used' = used \cup {g}
            /\ mLock' = t
            /\ pc' = [pc EXCEPT ![t] = "make"]
            /\ slot' = [slot EXCEPT ![t] = id]
            /\ UNCHANGED held
  /\ UNCHANGED <<made, cleanups, owed, dying, visited, cleaning, snapshot, destroyed>>

(* make(makeArgs) returns a new binder: the Tag's weak reference is set,  *)
(* cleanupCookie cleared, func set to cleanWeak, mLock released and the   *)
(* sp<> returned to the caller.                                            *)
Make(t) ==
  /\ pc[t] = "make"
  /\ \E b \in Binders \ made :
       /\ mObjects' = [mObjects EXCEPT ![slot[t]].binder = b,
                                       ![slot[t]].func = "cleanWeak"]
       /\ made' = made \cup {b}
       /\ held' = [held EXCEPT ![t] = b]
  /\ owed' = owed \cup {mObjects[slot[t]].object}
  /\ mLock' = None
  /\ pc' = [pc EXCEPT ![t] = "idle"]
  /\ UNCHANGED <<slot, used, cleanups, dying, visited, cleaning, snapshot, destroyed>>

(* make calls back into the proxy (findObject, attachObject, ...), which  *)
(* takes mLock, a non-recursive Mutex that this thread already holds: the *)
(* call waits for ever ("reenter" has no step out).                        *)
MakeCallsBack(t) ==
  /\ pc[t] = "make"
  /\ MakeReenters
  /\ pc' = [pc EXCEPT ![t] = "reenter"]
  /\ UNCHANGED <<mObjects, mLock, slot, held, made, used, cleanups, owed, dying,
                 visited, cleaning, snapshot, destroyed>>

(* withLock(doWithLock): take mLock and run the caller's function with it *)
(* held; the table is left to the function, which here does not touch it. *)
WithLock(t) ==
  /\ pc[t] = "idle" /\ Usable
  /\ mLock' = t
  /\ pc' = [pc EXCEPT ![t] = "withLock"]
  /\ UNCHANGED <<mObjects, slot, held, made, used, cleanups, owed, dying,
                 visited, cleaning, snapshot, destroyed>>

\* doWithLock returns and the AutoMutex releases mLock.
WithLockDone(t) ==
  /\ pc[t] = "withLock"
  /\ mLock' = None
  /\ pc' = [pc EXCEPT ![t] = "idle"]
  /\ UNCHANGED <<mObjects, slot, held, made, used, cleanups, owed, dying,
                 visited, cleaning, snapshot, destroyed>>

\* The caller drops the sp<IBinder> lookupOrCreateWeak returned.
ReleaseRef(t) ==
  /\ held[t] /= None
  /\ held' = [held EXCEPT ![t] = None]
  /\ UNCHANGED <<mObjects, mLock, pc, slot, made, used, cleanups, owed, dying,
                 visited, cleaning, snapshot, destroyed>>

(* The last reference to the proxy goes: ~ObjectManager calls kill().     *)
DestroyProxy ==
  /\ Usable
  /\ \A t \in Threads : pc[t] = "idle"
  /\ dying' = TRUE
  /\ snapshot' = DOMAIN mObjects
  /\ UNCHANGED <<mObjects, mLock, pc, slot, held, made, used, cleanups, owed,
                 visited, cleaning, destroyed>>

(* kill(): one iteration of the range-for over mObjects, at an entry    *)
(* whose func is null: nothing is called and the loop moves on.  The map  *)
(* is walked in key order; keys are addresses, so the model lets the loop *)
(* take the entries in any order.                                          *)
KillOne(id) ==
  /\ dying /\ ~destroyed /\ cleaning = None
  /\ id \in DOMAIN mObjects \ visited
  /\ mObjects[id].func = "none"
  /\ visited' = visited \cup {id}
  /\ UNCHANGED <<mObjects, mLock, pc, slot, held, made, used, cleanups, owed, dying,
                 cleaning, snapshot, destroyed>>

(* kill(): the iteration at an entry with a cleanup calls                 *)
(* func(id, object, cookie); the loop waits for it to return.             *)
KillCall(id) ==
  /\ dying /\ ~destroyed /\ cleaning = None
  /\ id \in DOMAIN mObjects \ visited
  /\ mObjects[id].func /= "none"
  /\ cleanups' = [cleanups EXCEPT ![mObjects[id].object] = @ + 1]
  /\ cleaning' = id
  /\ UNCHANGED <<mObjects, mLock, pc, slot, held, made, used, owed, dying,
                 visited, snapshot, destroyed>>

\* The cleanup returns and the loop moves past its entry.
KillReturn ==
  /\ cleaning /= None
  /\ visited' = visited \cup {cleaning}
  /\ cleaning' = None
  /\ UNCHANGED <<mObjects, mLock, pc, slot, held, made, used, cleanups, owed, dying,
                 snapshot, destroyed>>

(* kill(): mObjects.clear() once the loop is done.  The loop has covered  *)
(* the entries present when it began.  An entry a cleanup inserted on the *)
(* way is reached when its key lies after the loop's position and missed  *)
(* when it lies before; the model lets the loop end either way.           *)
KillClear ==
  /\ dying /\ ~destroyed /\ cleaning = None
  /\ snapshot \subseteq visited
  /\ mObjects' = [i \in {} |-> <<>>]
  /\ destroyed' = TRUE
  /\ UNCHANGED <<mLock, pc, slot, held, made, used, cleanups, owed, dying,
                 visited, cleaning, snapshot>>

Next ==
  \/ \E id \in AttachIds :
       \/ \E o \in Objects, f \in {"user", "none"} : AttachObject(id, o, f)
       \/ DetachObject(id)
  \/ \E t \in Threads :
       \/ \E id \in WeakIds : LookupOrCreateWeak(t, id)
       \/ Make(t) \/ MakeCallsBack(t) \/ ReleaseRef(t)
       \/ WithLock(t) \/ WithLockDone(t)
  \/ DestroyProxy
  \/ \E id \in AttachIds \cup WeakIds : KillOne(id) \/ KillCall(id)
  \/ KillReturn \/ KillClear

(* A thread inside lookupOrCreateWeak whose make returns, or inside       *)
(* withLock whose function returns, runs on, and the                       *)
(* destructor's loop runs to its end.                                      *)
Fairness ==
  /\ \A t \in Threads : WF_vars(Make(t)) /\ WF_vars(WithLockDone(t))
  /\ WF_vars(\E id \in AttachIds \cup WeakIds : KillOne(id) \/ KillCall(id))
  /\ WF_vars(KillReturn) /\ WF_vars(KillClear)

Spec == Init /\ [][Next]_vars /\ Fairness

-----------------------------------------------------------------------------
(* Properties.                                                             *)

TypeOK ==
  /\ \A id \in DOMAIN mObjects :
       mObjects[id] \in [object : Values, binder : Binders \cup {None}, func : Funcs]
  /\ DOMAIN mObjects \subseteq AttachIds \cup WeakIds
  /\ mLock \in Threads \cup {None}
  /\ pc \in [Threads -> {"idle", "make", "reenter", "withLock"}]
  /\ held \in [Threads -> Binders \cup {None}]
  /\ made \subseteq Binders /\ used \subseteq Values
  /\ cleanups \in [Values -> Nat] /\ owed \subseteq used
  /\ visited \subseteq snapshot \cup AttachIds \cup WeakIds
  /\ cleaning \in AttachIds \cup WeakIds \cup {None}

(* Spec scenario 6: callers of lookupOrCreateWeak for one id that hold    *)
(* their results at the same time hold the same binder, whatever the      *)
(* interleaving of lookups, releases and re-creation by make.             *)
WeakSlotShared ==
  \A t, u \in Threads :
    held[t] /= None /\ held[u] /= None /\ slot[t] = slot[u] => held[t] = held[u]

(* Specification invariant 3: a cleanup runs at most once and only for an *)
(* entry that owes one (attached with a cleanup, or a weak slot's Tag,    *)
(* and not detached); once the proxy is destroyed every owed cleanup has  *)
(* run.                                                                    *)
CleanupExactlyOnce ==
  /\ \A v \in Values : cleanups[v] <= (IF v \in owed THEN 1 ELSE 0)
  /\ destroyed => \A v \in owed : cleanups[v] = 1

(* The table implements AttachedObjects: while kill() runs, the cleanups  *)
(* it has still to call count as made, and the table as gone.              *)
Pending(v) ==
  IF \E id \in DOMAIN mObjects \ (visited \cup {cleaning}) :
       mObjects[id].object = v /\ mObjects[id].func /= "none"
    THEN 1 ELSE 0

AO == INSTANCE AttachedObjects WITH
        Ids <- AttachIds \cup WeakIds,
        Values <- Values,
        Funcs <- Funcs,
        NoFunc <- "none",
        table <- IF dying THEN [i \in {} |-> <<>>]
                 ELSE [id \in DOMAIN mObjects |->
                         [object |-> mObjects[id].object,
                          func |-> IF mObjects[id].object \in Tags THEN "cleanWeak"
                                   ELSE mObjects[id].func]],
        cleanups <- IF dying THEN [v \in Values |-> cleanups[v] + Pending(v)]
                    ELSE cleanups,
        destroyed <- dying

(* attach is first-writer-wins, detach and weak slots keep their entries, *)
(* and destruction runs each remaining cleanup once: the abstract table.  *)
AttachedObjectsSpec == AO!Spec

(* Every lookupOrCreateWeak call returns, also when make calls back into  *)
(* the proxy.                                                              *)
EveryLookupReturns ==
  \A t \in Threads : pc[t] /= "idle" ~> pc[t] = "idle"

=============================================================================
