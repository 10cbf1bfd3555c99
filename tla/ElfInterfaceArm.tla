---------------------------- MODULE ElfInterfaceArm ----------------------------
(***************************************************************************)
(* The ARM exidx table of unwindstack::ElfInterfaceArm as its iterator     *)
(* sees it (ElfInterfaceArm.h).                                             *)
(*                                                                         *)
(* The table has total_entries_ entries of 8 bytes from start_offset_.     *)
(* iterator::operator* reads the function address of entry index_ through *)
(* the lazy cache addrs_: a cached value other than 0 is returned as it    *)
(* is; otherwise GetPrel31Addr reads the entry from memory and, when the   *)
(* read succeeds, the result is stored.  addrs_[index_] inserts a 0 for an *)
(* absent key, so 0 is both "not read yet" and "read failed".               *)
(*                                                                         *)
(* Iterators are walks over [begin(), end()) of one interface, sharing its *)
(* cache: forward walks with ++it, backward ones with --it, as the         *)
(* standard algorithms over a bidirectional iterator do.  GetPrel31Addr,   *)
(* whose body is elsewhere, reads memory that may fail for any entry; an   *)
(* entry that can be read always yields the same address.                  *)
(***************************************************************************)
EXTENDS Naturals, FiniteSets

CONSTANTS
  Prel31,   \* Prel31[i]: the address entry i resolves to, for i in 0..total_entries_-1
  Walks,    \* iterators walking the table
  Forward,  \* the walks that go from begin() to end(); the others go back
  None

\* total_entries_, set by Init from the PT_ARM_EXIDX header.
TotalEntries == Cardinality(DOMAIN Prel31)
Entries == 0 .. TotalEntries - 1

ASSUME DOMAIN Prel31 = Entries /\ Forward \subseteq Walks

VARIABLES
  addrs,   \* addrs_: [keys inserted so far -> cached address or 0]
  index,   \* index[w]: index_ of walk w's iterator
  pc,      \* pc[w]: "test" (it != end / begin), "deref", "step", "done"
  last,    \* last[w]: the last *it of w: [idx, val, failed], or None
  reads    \* reads[i]: successful GetPrel31Addr calls for entry i

vars == <<addrs, index, pc, last, reads>>

-----------------------------------------------------------------------------
(* The iterator and its interface.                                         *)

\* begin() and end().
Begin == 0
End == TotalEntries

\* operator++(int increment), which adds its argument: the postfix
\* expression it++ passes 0.
PostInc(i, n) == i + n

\* operator++().
PreInc(i) == i + 1

\* operator--() and operator--(int decrement).
PreDec(i) == i - 1
PostDec(i, n) == i - n

\* operator== and operator!= compare index_ alone.
Equal(i, j) == i = j

\* The entry's offset computed with a stride of 4 instead of 8 bytes.
GetPrel31AddrHalfStride(i) ==
  {[ok |-> FALSE, addr |-> 0], [ok |-> TRUE, addr |-> Prel31[i \div 2]]}

(* GetPrel31Addr(start_offset_ + index_ * 8, &addr): the outcomes of     *)
(* reading entry i, a failure (addr untouched) or its address.            *)
GetPrel31Addr(i) == {[ok |-> FALSE, addr |-> 0], [ok |-> TRUE, addr |-> Prel31[i]]}

\* addrs_[i], which inserts 0 for a key not yet present.
Cached(i) == IF i \in DOMAIN addrs THEN addrs[i] ELSE 0

\* addrs_ with key i set to a.
Store(i, a) == [k \in DOMAIN addrs \cup {i} |-> IF k = i THEN a ELSE addrs[k]]

Init ==
  /\ addrs = [k \in {} |-> 0]
  /\ index = [w \in Walks |-> IF w \in Forward THEN Begin ELSE End]
  /\ pc = [w \in Walks |-> "test"]
  /\ last = [w \in Walks |-> None]
  /\ reads = [i \in Entries |-> 0]

-----------------------------------------------------------------------------
(* Variants, each a plausible mistake in the code.                         *)

\* The cache is tested for presence instead of for 0: the 0 that operator[]
\* inserted on a failed read is returned from then on.
DerefByPresence(w) ==
  /\ pc[w] = "deref"
  /\ LET i == index[w] IN
     IF i \in DOMAIN addrs
       THEN /\ last' = [last EXCEPT ![w] = [idx |-> i, val |-> addrs[i], failed |-> FALSE]]
            /\ UNCHANGED <<addrs, reads>>
       ELSE \E r \in GetPrel31Addr(i) :
              /\ addrs' = Store(i, r.addr)
              /\ last' = [last EXCEPT ![w] = [idx |-> i, val |-> r.addr, failed |-> ~r.ok]]
              /\ reads' = IF r.ok THEN [reads EXCEPT ![i] = @ + 1] ELSE reads
  /\ pc' = [pc EXCEPT ![w] = "step"]
  /\ UNCHANGED index

\* The address read is returned but never stored.
DerefNoStore(w) ==
  /\ pc[w] = "deref"
  /\ LET i == index[w] IN
     IF Cached(i) /= 0
       THEN /\ last' = [last EXCEPT ![w] = [idx |-> i, val |-> Cached(i), failed |-> FALSE]]
            /\ UNCHANGED <<addrs, reads>>
       ELSE \E r \in GetPrel31Addr(i) :
              /\ addrs' = Store(i, 0)
              /\ last' = [last EXCEPT ![w] = [idx |-> i, val |-> r.addr, failed |-> ~r.ok]]
              /\ reads' = IF r.ok THEN [reads EXCEPT ![i] = @ + 1] ELSE reads
  /\ pc' = [pc EXCEPT ![w] = "step"]
  /\ UNCHANGED index

-----------------------------------------------------------------------------
(* The steps.                                                              *)

(* operator*(): addr = addrs_[index_]; when it is 0, GetPrel31Addr reads  *)
(* the entry; a failed read returns 0 (the 0 operator[] inserted stays),  *)
(* a successful one is stored in addrs_[index_] and returned.             *)
Deref(w) ==
  /\ pc[w] = "deref"
  /\ LET i == index[w] IN
     IF Cached(i) /= 0
       THEN /\ last' = [last EXCEPT ![w] = [idx |-> i, val |-> Cached(i), failed |-> FALSE]]
            /\ UNCHANGED <<addrs, reads>>
       ELSE \E r \in GetPrel31Addr(i) :
              /\ addrs' = Store(i, r.addr)
              /\ last' = [last EXCEPT ![w] = [idx |-> i, val |-> r.addr, failed |-> ~r.ok]]
              /\ reads' = IF r.ok THEN [reads EXCEPT ![i] = @ + 1] ELSE reads
  /\ pc' = [pc EXCEPT ![w] = "step"]
  /\ UNCHANGED index

(* The loop test: a forward walk runs while it != end(); a backward walk  *)
(* runs while it != begin() and steps back with --it before each *it.     *)
Test(w) ==
  /\ pc[w] = "test"
  /\ IF Equal(index[w], IF w \in Forward THEN End ELSE Begin)
       THEN /\ pc' = [pc EXCEPT ![w] = "done"]
            /\ UNCHANGED index
       ELSE /\ pc' = [pc EXCEPT ![w] = "deref"]
            /\ index' = IF w \in Forward THEN index ELSE [index EXCEPT ![w] = PreDec(@)]
  /\ UNCHANGED <<addrs, last, reads>>

\* After *it: ++it on a forward walk; a backward walk stepped before it.
Step(w) ==
  /\ pc[w] = "step"
  /\ index' = IF w \in Forward THEN [index EXCEPT ![w] = PreInc(@)] ELSE index
  /\ pc' = [pc EXCEPT ![w] = "test"]
  /\ UNCHANGED <<addrs, last, reads>>

Next == \E w \in Walks : Test(w) \/ Deref(w) \/ Step(w)

\* Each walk is a loop of one thread that keeps running until it ends.
Spec == Init /\ [][Next]_vars /\ \A w \in Walks : WF_vars(Test(w) \/ Deref(w) \/ Step(w))

-----------------------------------------------------------------------------
(* Properties.                                                             *)

TypeOK ==
  /\ DOMAIN addrs \subseteq Entries
  /\ \A i \in DOMAIN addrs : addrs[i] \in {0, Prel31[i]}
  /\ index \in [Walks -> 0 .. TotalEntries]
  /\ pc \in [Walks -> {"test", "deref", "step", "done"}]
  /\ reads \in [Entries -> Nat]

(* Whatever the walks before it read, failed to read or cached, *it       *)
(* returns the address of the entry the iterator is at, and 0 only when   *)
(* the read of this very call failed: a failed read is retried by the     *)
(* next dereference, not answered from the cache.                          *)
DerefAgreesWithMemory ==
  \A w \in Walks :
    last[w] /= None =>
      last[w].val = IF last[w].failed THEN 0 ELSE Prel31[last[w].idx]

(* The cache saves every read after the first: an entry whose address is  *)
(* not 0 is read successfully at most once, by whichever walk gets there  *)
(* first.  (An entry at address 0 is read again each time: 0 is the       *)
(* "not cached" sentinel.)                                                 *)
SuccessfulReadOnce ==
  \A i \in Entries : Prel31[i] /= 0 => reads[i] <= 1

=============================================================================
