--------------------------- MODULE DeathNotification ---------------------------
(***************************************************************************)
(* What the death-notification API of a proxy promises (linkToDeath,      *)
(* unlinkToDeath, sendObituary), without threads, locks or the transport. *)
(*                                                                         *)
(* A registration is named by the order of its linkToDeath call.  It is   *)
(* registered until unlinkToDeath removes it, the last strong reference   *)
(* drops it, or the obituaries are taken; once taken no registration is   *)
(* accepted or removed any more, and the taken ones are reported (or      *)
(* skipped when the recipient is gone) one at a time in registration      *)
(* order.                                                                  *)
(***************************************************************************)
EXTENDS Naturals, Sequences, FiniteSets

CONSTANT MaxLinks

VARIABLES
  reg,        \* registrations currently held
  sent,       \* the obituaries have been taken
  taken,      \* taken and not yet reported
  delivered,  \* reported with binderDied, in order
  skipped,    \* taken but the recipient was gone
  removed,    \* removed by unlinkToDeath
  dropped,    \* dropped when the last strong reference went away
  next        \* the name the next registration gets

Init ==
  /\ reg = {} /\ sent = FALSE /\ taken = {}
  /\ delivered = <<>> /\ skipped = {} /\ removed = {} /\ dropped = {}
  /\ next = 1

Register ==
  /\ ~sent /\ next <= MaxLinks
  /\ reg' = reg \cup {next}
  /\ next' = next + 1
  /\ UNCHANGED <<sent, taken, delivered, skipped, removed, dropped>>

Remove(id) ==
  /\ ~sent /\ id \in reg
  /\ reg' = reg \ {id}
  /\ removed' = removed \cup {id}
  /\ UNCHANGED <<sent, taken, delivered, skipped, dropped, next>>

Take ==
  /\ ~sent
  /\ sent' = TRUE
  /\ taken' = taken \cup reg
  /\ reg' = {}
  /\ UNCHANGED <<delivered, skipped, removed, dropped, next>>

\* The earliest taken registration is reported or skipped.
Report ==
  \E id \in taken :
    /\ \A j \in taken : id <= j
    /\ taken' = taken \ {id}
    /\ \/ delivered' = Append(delivered, id) /\ UNCHANGED skipped
       \/ skipped' = skipped \cup {id} /\ UNCHANGED delivered
    /\ UNCHANGED <<reg, sent, removed, dropped, next>>

Drop ==
  /\ reg /= {}
  /\ dropped' = dropped \cup reg
  /\ reg' = {}
  /\ UNCHANGED <<sent, taken, delivered, skipped, removed, next>>

Next ==
  Register \/ (\E id \in 1..MaxLinks : Remove(id)) \/ Take \/ Report \/ Drop

Spec ==
  Init /\ [][Next]_<<reg, sent, taken, delivered, skipped, removed, dropped, next>>

=============================================================================
