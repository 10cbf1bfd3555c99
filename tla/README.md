# TLA+ models of the binder proxy (BpBinder)

This directory holds TLA+ models of `src/frameworks/native/libs/binder/BpBinder.cpp`,
the client-side proxy of a remote binder object, with TLC configurations that
check them. Every module is written from the source. `PROJECT.json` maps each
definition to the lines it models. It also lists the runs, the mutants that
confirm each property can fail, the findings and the hazards.

## 1. Inventory

### Components of BpBinder.cpp

| Component | State in the code | Operations | Concurrency |
|---|---|---|---|
| Proxy handle | `mHandle`: `BinderHandle{int32}` or `RpcHandle{session, address}` | `create(handle)`, `create(session, address)`, accessors | immutable |
| Proxy object | `mAlive`, `mStability`, `mTrackedUid` | `transact`, `pingBinder`, `dump`, `start/stopRecordingBinder` | `mAlive` is read and written without a lock |
| Descriptor cache | `mDescriptorCache` (sentinel `kDescriptorUninit`) | `isDescriptorCached`, `getInterfaceDescriptor` | double-checked: INTERFACE transaction without `mLock`, set-once under it |
| Attached-object table | `mObjects: map<id, {object, cookie, func}>` | `attachObject`, `findObject`, `detachObject`, `lookupOrCreateWeak`, `~ObjectManager/kill` | under `mLock`; `make()` runs under it |
| Death notification | `mObitsSent`, `mObituaries: Vector<Obituary>*` | `linkToDeath`, `unlinkToDeath`, `sendObituary`, `reportOneDeath` | recipients are called with `mLock` released |
| Ref-count hooks | RefBase strong/weak counts | `onFirstRef`, `onLastStrongRef`, `onIncStrongAttempted`, `~BpBinder` | RefBase calls them from whichever thread drops or takes the reference |
| Proxy budget tracker | `sTrackingMap` (packed flag and count), `sLastLimitCallbackMap`, watermarks, `sCountByUidEnabled`, `sLimitCallback`, `sBinderProxyThrottleCreate` | accounting in `create(handle)` and `~BpBinder`, `getBinderProxyCount`, `getCountByUid`, setters | under `sTrackingLock`; the enable flag is atomic |

The other files under `src/` are not part of this subsystem:

- `String8.h` is libutils' string class. Its inline members (assignment,
  append, `compare` and the relational operators, the accessors) are modelled
  in `String8.tla`. Its out-of-line members have no body in `src`.
- `ftl/details/concat.h` holds compile-time string views.
- `ElfInterfaceArm.h` holds unwinder declarations and an iterator over the
  ARM exidx table with a lazy address cache. The iterator and its cache are
  modelled in `ElfInterfaceArm.tla`.
- `benchmarks/Utils.cpp` does measurement I/O.
- `libbinder_ndk_unit_test.cpp` holds tests.

Only `String8` and `ElfInterfaceArm` of these are modelled. `PROJECT.json` gives the reason for
each.

### How the components interact

- `create(handle)` asks the tracker to count the proxy against the calling uid,
  and the tracker can refuse it. `~BpBinder` takes it off the count again.
- `linkToDeath` asks the transport for a death notification on the first
  link. `unlinkToDeath`, `sendObituary` and `onLastStrongRef` clear it when
  they free the list. The transport calls `sendObituary` when the remote
  dies: the kernel sends `BR_DEAD_BINDER`, and an RPC session calls it at
  shutdown.
- A `transact` that returns `DEAD_OBJECT` clears `mAlive` but sends no
  obituaries.
- `onLastStrongRef` drops the obituaries of a kernel proxy without telling the
  recipients. A weak reference can bring the proxy back through
  `onIncStrongAttempted`.
- `onFirstRef`, `onLastStrongRef` and `onIncStrongAttempted` keep the driver's
  strong count on the remote node in step with the proxy's strong references.
  All three skip the driver when `IPCThreadState::self()` is null, which it is
  after `IPCThreadState::shutdown`. The other driver calls do not check for
  null.

### What is hard

- The unlocked windows. `sendObituary` clears `mAlive` and reads `mObitsSent`
  before it takes `mLock`, and it calls recipients after releasing it.
  `getInterfaceDescriptor` transacts without the lock and checks again under
  it. `transact` checks `mAlive` and then waits on the transport.
- Pairing the transport's death request with exactly one clear across four
  code paths.
- The packed counter of the tracker. Its flag has hysteresis between two
  watermarks. Its excess-delta re-fire rule uses unsigned arithmetic.
- Re-entrancy. A recipient, a cleanup function or `make()` can call back into
  the proxy.

### What makes each component correct

- Death notification: each obituary that `linkToDeath` created is in exactly
  one place at any moment. Recipients are told in link order. After the remote
  dies each obituary is eventually reported or otherwise settled. The death
  request is outstanding exactly while the list exists. The driver holds one
  strong reference for the proxy while it is strongly referenced.
- Tracker: the per-uid count equals the number of live tracked proxies. The
  callback fires only at or over the high watermark. The flag has the
  specified hysteresis, so a drained uid is not left throttled.
- Descriptor cache: the cache is set once, every returned descriptor is the
  cached one, and a caller whose transaction succeeded never gets the
  sentinel.
- Attached-object table: the first writer wins, each cleanup runs exactly
  once, and callers of `lookupOrCreateWeak` holding their results at the
  same time share one object.
- `String8`: the comparisons order strings as C strings, by unsigned byte up
  to the first NUL.

## 2. Modules and what they model

### `BpBinderDeath.tla`: death notification, alive flag and ref-count hooks

This module models one proxy and a set of `Threads`.

- **Code state.** `mAlive`, `mObitsSent` and `mObituaries` mirror the fields of
  the same names. `mObituaries` is `NULL` or a non-empty sequence of obituary
  records.
- **Environment state.** `deathRequests` counts `requestDeathNotification`
  calls minus `clearDeathNotification` calls. `remoteDead` and `deathPending`
  hold the transport's state. `strong[t]` says whether thread `t` holds an
  `sp<>`. `recipientAlive` holds the recipients' own lifetimes.
- **Per-thread state.** `pc` is each thread's program counter. `obits` is
  `sendObituary`'s local list.
- **Process state.** `isRpcBinder` is the kind of handle. It is chosen at
  creation from `RpcKinds` and never changes. `remoteStrong` counts the strong
  references the driver holds on the node for this proxy. It starts at 1 for
  a kernel proxy (`FirstRef`, from `onFirstRef`). `ipcGone` says that
  `IPCThreadState::self()` returns null. `crashed` says the process died
  calling through that null pointer.
- **History.** `linked`, `removed`, `dropped`, `delivered` and `skipped` record
  what happened to each obituary.

Each section the code runs under `mLock` is one action. Each step the code
takes with the lock released is a separate action:

- `Link`, `Unlink`: `linkToDeath` and `unlinkToDeath`, whole.
- `TransactBegin` / `TransactEnd`: `transact` before and after the transport.
- `SendObituary` / `SendLocked` / `ReportOneDeath` / `SendDone`:
  `sendObituary`'s unlocked prefix, its locked section, one `reportOneDeath`
  per step, and the end of the loop.
- `DecStrong` / `OnLastStrongRef`: RefBase's decrement, then the hook.
  `OnLastStrongRef` takes the hook's `decStrongHandle`, made before
  `mLock` is taken, into the same step as the locked section. Another thread
  could run between the two, but no property tells the two orders apart: the
  driver count and the obituary list are separate pieces of state.
  `IncStrong` copies an `sp<>`. `OnIncStrongAttempted` promotes a `wp<>` when
  no strong reference is left.
- `RemoteDies` and `RecipientGone` are the environment.
- `IpcThreadStateShutdown` happens only when the constant `IpcShutdown` is
  TRUE. It makes `self()` null for good. After it:
  - `onLastStrongRef` still deletes the list but skips `decStrongHandle` and
    `clearDeathNotification`.
  - `onIncStrongAttempted` refuses.
  - Any other kernel-IPC step through `self()` is `NullSelfCrash`, and after
    that nothing happens.

Refusals that change no state are the action's stuttering steps: `BAD_TYPE`,
`DEAD_OBJECT` before the transport, `INVALID_OPERATION` and `NAME_NOT_FOUND`.

Fairness:

- Each started unlocked step gets weak fairness. The code never blocks there
  for good.
- Taking up a pending death notice gets strong fairness over all threads. A
  binder thread that is repeatedly free eventually runs `sendObituary`.

### `DeathNotification.tla`: what the death API promises

This is an abstract module with no threads, locks or transport. Its state:

- `reg`: the registrations held.
- `sent`: whether the obituaries have been taken.
- `taken`: obituaries taken but not yet reported.
- `delivered`, `skipped`, `removed`, `dropped`: where each registration ended up.

Its actions:

- `Register` and `Remove` are allowed only before `sent`.
- `Take` moves every registration to `taken`, once.
- `Report` reports or skips the earliest taken registration.
- `Drop` discards the registrations when the last reference goes.

`BpBinderDeath` instantiates it as `DN` with this mapping:

- `reg` is the ids in `mObituaries`.
- `taken` is the ids in the `obits` lists that `sendObituary` threads hold.
- `sent` is `mObitsSent`.

`DeathNotificationSpec == DN!Spec` is checked in the `death` run. Some steps
change nothing in the abstract state, and they map to stuttering steps:

- a second `sendObituary` that takes an empty list;
- `onLastStrongRef` with no list.

### `ProxyTracker.tla`: the proxy budget

- `sTrackingMap` keeps the packed word, modulo `2^Width` (`Width` = 4
  instead of 32). `CountOf` and `LimitReached` are the two masks.
- `sBinderProxyThrottleCreate` is a public static with no setter in `src`. It
  is chosen at start from `Throttles` and never changes.
- `setBinderProxyCountWatermarks` takes `int`s and stores them in `uint32_t`s.
  `ToUnsigned` reduces them modulo the word, so a -1 watermark becomes the
  largest value.
- `proxy[p]` is the `mTrackedUid` of a live proxy. `fired` is the
  `sLimitCallback` call made in the last step.
- `CreateTracked` models `create(handle)` under `sTrackingLock`: refusal,
  re-fire, first fire and throttling, and the increment.
- `CreateUntracked` is `create` with counting off.
- `Destroy` is `~BpBinder`'s accounting.
- The three setters are actions. `GetBinderProxyCount` is the query.

### `InterfaceDescriptor.tla`: the descriptor cache

- `mDescriptorCache` is the identity of a `String16` buffer: the sentinel
  `Uninit` (`kDescriptorUninit`) or the reply buffer of one call, named
  `<<thread, call number>>`. The code compares `c_str()` pointers, so
  identity is what matters, not the text.
- `Call` is `isDescriptorCached()` under `mLock`. `ReplyOk` / `ReplyFailed`
  are the INTERFACE transaction, run without the lock; it may fail for any
  transport reason. `Assign` is the locked re-check and store. `Return` is
  the unlocked read of `mDescriptorCache`.
- Ghost state: `returned`, `lastOk` and `okTxns` (successful INTERFACE
  transactions).
- Fairness: weak fairness on the reply, the assignment and the return of each
  thread. The transport answers every transaction, and nothing in the call
  blocks.

### `ObjectManager.tla` and `AttachedObjects.tla`: the attached-object table

- `mObjects` maps an id to `[object, binder, func]`. `binder` is the
  `wp<IBinder>` inside a weak slot's `Tag`. `func` is `"user"`,
  `"cleanWeak"` or `"none"`, where `"none"` is a null cleanup.
- `AttachObject` and `DetachObject` are the wrappers with `mLock` around
  `attach` and `detach`. `FindObject` is the query.
- `lookupOrCreateWeak` is split at the caller's `make`, which runs with
  `mLock` held.
  - `LookupOrCreateWeak` locks the table and indexes it. That either returns
    a promotable binder or allocates a `Tag`.
  - `Make` stores the new binder and unlocks.
  - `MakeCallsBack` is a `make` that calls into the proxy. It waits for ever
    on the mutex its own thread holds.
- `DestroyProxy` starts `~ObjectManager`. `kill()`'s range-for is split per
  entry:
  - `KillOne` passes an entry with a null function;
  - `KillCall` calls an entry's cleanup, and `cleaning` names that entry
    until `KillReturn` moves the loop past it;
  - `KillClear` is `mObjects.clear()`.

  `std::map` is walked in key order and the keys are addresses, so the
  model takes the entries in any order. The loop is sure to reach the
  entries present when it started. An entry that a cleanup inserts (only
  between `KillCall` and `KillReturn`) is reached when its key lies ahead of
  the loop and missed when it lies behind; `KillClear` may come either way.
- `ReleaseRef` drops a caller's `sp<>`. A `Tag`'s weak reference promotes
  while some thread still holds its binder.
- Two constants decide whether callbacks may call back into the proxy:
  - `MakeReenters`: `make` may call back.
  - `CleanupReenters`: a cleanup that `kill()` is running may call
    `attachObject` on the dying proxy.
- The ids used with `attachObject` and with `lookupOrCreateWeak` are disjoint,
  as the callers' static ids are.
- `AttachedObjects` is the abstract table of specification 4.3:
  - `attach` is first-writer-wins.
  - `detach` removes an entry without its cleanup.
  - A weak slot keeps its wrapper.
  - An atomic `Destroy` runs every owed cleanup once.
- `ObjectManager` instantiates `AttachedObjects` as `AO`. The mapping has two
  cases:
  - Before destruction: the table with a `Tag`'s function shown as
    `cleanWeak`.
  - Once `kill()` has started: an empty table, with the cleanups still to
    come counted as done.

  `AttachedObjectsSpec == AO!Spec` is checked as a property.
- `WithLock` takes `mLock` for the caller's function and `WithLockDone`
  releases it when the function returns. The function here does not touch
  the table. While it runs, every other table operation waits.
- Fairness: weak fairness on `Make`, on `WithLockDone` and on `kill()`'s
  steps. A `make` or a `withLock` function that returns lets its caller go
  on, and the destructor runs to its end.

### `String8.tla`: libutils' string

- `s[v]` is the buffer of String8 `v` without its terminator. It is a
  sequence of unsigned bytes and may hold a NUL of its own.
  - `CStr` is what a `const char*` reads, up to the first NUL.
  - `View` is what `std::string_view` reads: all `length()` bytes.
- `StrcmpFrom` is a RECURSIVE `strcmp`. `Compare`, `CompareType`,
  `StrictlyOrderType`, `Relations` and `RelationsChars` are `compare`, the two
  free functions and the twelve relational operators, each defined as
  `strcmp` against 0.
- The actions are the inline `operator=`, `operator+=` and `operator+` for a
  `String8` and for a `const char*` argument. The out-of-line `setTo` and
  `append` have no body in `src`. They are taken as copy and concatenation,
  and a `const char*` argument is read up to its NUL.
- `Init` is every buffer of at most `MaxLen` bytes. That includes buffers with
  a NUL inside, which `String8(const char*, size_t)` produces. Because every
  pair of buffers is already an initial state, the actions reach no new
  state: the run checks the comparisons over all of them, and the actions
  only show that the operators stay within the bound.
- `MCString8` gives the bytes: NUL, `'a'`, and 200, a byte that is negative
  as a signed `char`. It also gives three literals.

### `ElfInterfaceArm.tla`: the exidx iterator and its address cache

- `addrs` is `addrs_`, the map from entry index to address. `Cached` is
  `addrs_[index_]`, which inserts 0 for a missing key. `Store` writes a key.
- `Prel31` is the table: the address each entry resolves to.
  `GetPrel31Addr(i)` is a read of entry `i` that may fail (its body is not in
  `src`). `TotalEntries`, `Begin` and `End` are `total_entries_`, `begin()`
  and `end()`.
- `PreInc`, `PostInc`, `PreDec`, `PostDec` and `Equal` are the iterator's
  operators. `operator++(int)` adds its argument, so `it++` adds 0; no user
  under `src` writes `it++`, and the walks do not use it.
- `Deref` is `operator*`:
  - a cached value other than 0 is returned;
  - otherwise the entry is read;
  - a failed read returns 0 and leaves the inserted 0;
  - a successful read is stored and returned.
- The iterators' users are walks over the table:
  - a forward walk, `for (it = begin(); it != end(); ++it) *it`;
  - a backward walk, which steps with `--it` until `begin()`.

  `Test`, `Deref` and `Step` are the loop's steps. The walks interleave and
  share one cache.
- Fairness: weak fairness on each walk's steps. A walk is a loop of one
  thread that keeps running.
- `MCElfInterfaceArm` gives a three-entry table whose middle entry resolves
  to address 0, the cache's "not cached" value.

## 3. Runs

| Run | Config | Checks | Result |
|---|---|---|---|
| death | `BpBinderDeath.cfg` | `TypeOK`, `DeathRequestMatchesList`, `RemoteStrongBalanced`, `ObituaryAccounting`, `DeliveredInLinkOrder`, `ObituaryEventuallySettled`, `DeathNotificationSpec` | pass, about 534k states |
| death_link_after_dead | `BpBinderDeathLinkAfterDeath.cfg` | `NoLinkAfterDeath` | violation (finding) |
| death_ipc_shutdown | `BpBinderDeathIpcShutdown.cfg` | `DeathRequestMatchesList` | violation (finding) |
| tracker_throttle | `ProxyTracker.cfg` | `TypeOK`, `CountMatchesLiveProxies`, `CallbackOnlyOverHigh` | pass, about 26k states |
| tracker_hysteresis | `ProxyTrackerHysteresis.cfg` | `FlagDownAtLow` | violation (findings 2 and 3) |
| descriptor_cache | `InterfaceDescriptor.cfg` | `ReturnedDescriptorIsCached`, `SuccessNeverReturnsUninit` | pass, about 6.5k states |
| descriptor_one_txn | `InterfaceDescriptorOneTxn.cfg` | `OneInterfaceTransaction` | violation (finding) |
| objects | `ObjectManager.cfg` | `TypeOK`, `WeakSlotShared`, `CleanupExactlyOnce`, `AttachedObjectsSpec` | pass, about 200k states |
| objects_reentrant_cleanup | `ObjectManagerReentrantCleanup.cfg` | `CleanupExactlyOnce` | violation (finding) |
| objects_reentrant_make | `ObjectManagerReentrantMake.cfg` | `EveryLookupReturns` | violation (finding) |
| string8 | `String8.cfg` | `ComparisonIsLexicographic` | pass, 1600 states |
| elf_iterator | `ElfInterfaceArm.cfg` | `TypeOK`, `DerefAgreesWithMemory`, `SuccessfulReadOnce` | pass, about 33k states |

What the passing runs show, beyond the properties' names:

- `elf_iterator`: every `*it` returns the entry's address, or 0 when its own
  read failed. A failed read is retried by the next dereference, whichever
  walk makes it. Each nonzero address is read from memory once.
- The mutants of `PROJECT.json` show that each of these can fail:
  - a cache tested for presence rather than for 0 answers a failed read's
    0 for ever;
  - a cache that is never written reads again.

### Bounds

**Death runs.** The bounds are 2 threads, 2 recipients, 2 cookies, flags
{0,1} and at most 3 links. The `death` run has kernel and RPC handles, with
one incoming RPC thread. These are enough to reach:

- two concurrent `sendObituary` calls,
- a link or unlink inside every unlocked window,
- removal from the middle of the list,
- matching by null recipient and cookie,
- a recipient that is gone at delivery,
- an `onLastStrongRef` that races the death notice;
- a promotion from zero before the thread that dropped the last reference
  has run `onLastStrongRef`.

The shutdown run has a kernel proxy, one recipient and two links. That is
enough to link, drop the last reference after shutdown, and leave the request
behind.

`PromoteFromZero = TRUE` lets a weak reference bring the proxy back after its
last strong reference. This is the `HAS_BC_ATTEMPT_ACQUIRE` build of the
driver wrapper. Without it, `attemptIncStrongHandle` always fails.

Deadlock checking is off in these runs. Once the remote is dead, every
reference is dropped and the bounds are spent, the proxy really has nothing
left to do.

**Tracker runs.** `tracker_throttle` has 2 uids and 6 proxy slots, a 4-bit
word, and throttling on or off. The watermarks start at 3/1 and may move to
2/1, 3/2 or -1/-1. That is enough to reach:

- the flag,
- a refusal while throttling,
- a re-fire after growing more than `high` past the last call,
- a fall below the last callback count,
- a change of watermarks while a uid is flagged;
- -1 watermarks, stored as 15: the callback never fires again and every
  destroy lowers the flag.

The proxy bound stays below the carry into the flag bit. Carrying into it
would take 2^31 live proxies for one uid, which no process can hold.

**Descriptor runs.** Three threads make two calls each, and any call's
transaction may fail. That is enough to reach:

- two successful replies racing to assign,
- a failed caller reading the cache while another assigns,
- a retry after a failure finding the cache set.

**Object runs.** The bounds are 2 threads, 2 attach ids, 1 weak id, 3 user
objects, 2 `Tag`s and 3 binders. That is enough to reach:

- both threads sharing a slot,
- the last `sp<>` dropped and the slot re-made with its old `Tag`,
- an attach to an id in use,
- a detach,
- destruction with user, weak and null-cleanup entries present,
- a `withLock` holding the table while the other thread's operations wait.

A lookup that would need a fourth binder waits; that is the named bound.

**Tracker finding run.** The watermarks are 3/0 from the start, and
throttling is on. One uid and four proxies reach the flag and the
decrements down to 0. The passing run keeps its low watermark above 0: at 0
the flag never goes down, which is this run's finding.

**Iterator run.** Three entries (one at address 0), two forward walks and one
backward walk. Any read may fail. That is enough to reach:

- a read failed by one walk and retried by another;
- an entry cached by one walk and used by another;
- the 0-address entry read more than once;
- walks in both directions crossing.

Deadlock checking is off: every walk ends, and then nothing is left to do.

**String8 run.** Two variables hold every buffer of up to 3 bytes over NUL,
`'a'` and 200: 1600 states. That includes buffers with a NUL at every
position and pairs that differ only after it.

### Findings

1. `linkToDeath` tests only `mObitsSent`. After `mAlive` is cleared it still
   returns `NO_ERROR`. This happens in `sendObituary`'s unlocked window, or
   after a `transact` got `DEAD_OBJECT`. The specification says it must fail
   with dead peer. The obituary is still delivered, so only the return value
   is wrong.
2. `~BpBinder` tests the low watermark before the decrement. So the flag
   clears one proxy later than the specification's hysteresis says. With
   high 3 and low 1, a uid holding one proxy is still throttled.
3. With a low watermark of 0 the flag never goes down. This has the same
   cause as finding 2, and `tracker_hysteresis`'s trace, at 3/0, ends in it. A uid whose proxies are
   all gone keeps an entry with the flag set, and with throttling it can never
   create a proxy again.
4. `getInterfaceDescriptor` checks the cache and then transacts without the
   lock. Two concurrent first callers therefore both issue a successful
   INTERFACE transaction. The specification's scenario says exactly one is
   issued. The cache itself stays set-once, and `descriptor_cache` passes.
5. `kill()` runs its cleanups without any guard against re-entry. A cleanup
   that attaches to the dying proxy inserts into the map being iterated.
   When the new key lies before the loop's position the loop never reaches
   it, and `clear()` drops that entry without its cleanup. The specification
   says every cleanup runs exactly once, and that implementations must
   prevent such re-entry.
6. `lookupOrCreateWeak` holds `mLock` while it runs the caller's `make`. A
   `make` that calls back into the proxy therefore deadlocks. The
   specification says the per-proxy lock is never held across user
   callbacks, with `withLock` as the only exception.
7. After `IPCThreadState::shutdown`, `onLastStrongRef` deletes the obituary
   list but skips `clearDeathNotification`, because `self()` is null. The
   driver keeps the death request, and the weak reference `linkToDeath` took
   for it, with no list behind them. It also keeps the strong reference that
   `decStrongHandle` would have dropped. The specification says the last
   strong reference unlinks at the transport and decrements the remote count.
   `linkToDeath`, `unlinkToDeath`, `sendObituary` and `transact` do not check
   for null at all, and crash (`NullSelfCrash`).

## 4. Not modelled, and why

- **Stability check and large-transaction warning.** Neither changes any
  state.
- **A `withLock` function that calls back into the proxy.** It deadlocks
  like the `make` of finding 6. That is the exception the specification
  documents.
- **The driver weak handle.** The constructor's `incWeakHandle` and the
  destructor's `expungeHandle`/`decWeakHandle` are not modelled. RefBase's
  weak count is abstracted away.
- **`onFirstRef` as a step.** It runs before any thread can use the proxy,
  so `Init` starts after it.
- **Counts near 2^31.** These would need more proxies than a process can
  hold.
- **`String8`'s out-of-line members, and `find`, `contains` and `removeAll`.**
  They have no body in `src`.
- **Mixing attach ids and weak ids.** Reading a user object as a `Tag` is
  undefined behaviour, and no build fixes its outcome.
- **Detaching a weak slot.** Callers never do this.
- **`ftl/details/concat.h`.** It has three constructors of a
  `std::string_view` and no state. Its one risk, the size of the `to_chars`
  buffer, lies in `ftl/string.h`, which is not in `src`.
- **The rest of `ElfInterfaceArm`.** `Init`, `GetPrel31Addr`, `FindEntry`,
  `Step`, `StepExidx` and `GetFunctionName` have no body in `src`.
  `set_load_bias` sets a field nothing here reads.
- **An iterator moved below `begin()` or past `end()`.** `index_` is a
  `size_t`, so it wraps, and the read goes outside the table. Every user in
  the model stays in range, as the standard algorithms do.
- **`ElfInterfaceArm` shared between threads.** `operator*` writes `addrs_`
  (an `unordered_map`) without a lock. Whether two threads share one
  interface is up to code that is not in `src`.

## 5. Further work

Done:

- `InterfaceDescriptor`;
- `ObjectManager` refining `AttachedObjects`, with `withLock`;
- `BpBinderDeath` refining `DeathNotification`, with the driver strong count
  and `IPCThreadState` shutdown;
- the `String8` comparisons;
- the `ElfInterfaceArm` iterator and its cache.

Open:

1. **Compose.** A `Proxy.tla` could compose the tracker with several proxies'
   lifecycles: creation through the tracker, and destruction once the last
   strong and weak references are gone. That would add the driver weak
   handle.
2. **Dropped while held.** `BpBinderDeath` could gain a property that an
   obituary linked under a strong reference is not dropped while that
   reference is held.
