---------------------------- MODULE AttachedObjects ----------------------------
(***************************************************************************)
(* What the attached-object table of a proxy promises (specification      *)
(* 4.3 and invariant 3): attach is first-writer-wins, detach removes an    *)
(* entry without its cleanup, a weak slot keeps its wrapper object once    *)
(* installed, and destroying the proxy runs the cleanup of every entry    *)
(* left, each exactly once, in one step, after which the table is gone.   *)
(***************************************************************************)
EXTENDS Naturals

CONSTANTS
  Ids,        \* opaque object ids
  Values,     \* everything an entry can hold: user objects and wrappers
  Funcs,      \* cleanup functions, NoFunc among them
  NoFunc      \* a null object_cleanup_func

VARIABLES
  table,      \* [D -> [object, func]] for the ids D in use
  cleanups,   \* cleanups[v]: times a cleanup ran for value v
  destroyed   \* the proxy is gone

Entry == [object : Values, func : Funcs]

Init ==
  /\ table = [i \in {} |-> <<>>]
  /\ cleanups = [v \in Values |-> 0]
  /\ destroyed = FALSE

\* Install e under id, unless id is in use (then nothing changes).
Attach(id, e) ==
  /\ ~destroyed
  /\ id \notin DOMAIN table
  /\ table' = [i \in DOMAIN table \cup {id} |-> IF i = id THEN e ELSE table[i]]
  /\ UNCHANGED <<cleanups, destroyed>>

\* Remove id's entry; its cleanup does not run.
Detach(id) ==
  /\ ~destroyed
  /\ id \in DOMAIN table
  /\ table' = [i \in DOMAIN table \ {id} |-> table[i]]
  /\ UNCHANGED <<cleanups, destroyed>>

\* A weak slot: a new wrapper w for a free id, or a cleanup function set
\* on the wrapper already there.
Weak(id, w, f) ==
  /\ ~destroyed
  /\ \/ /\ id \notin DOMAIN table
        /\ Attach(id, [object |-> w, func |-> f])
     \/ /\ id \in DOMAIN table
        /\ table' = [table EXCEPT ![id].func = f]
        /\ UNCHANGED <<cleanups, destroyed>>

\* Destruction: every entry's cleanup runs once.
Destroy ==
  /\ ~destroyed
  /\ cleanups' = [v \in Values |->
                    cleanups[v] + (IF \E i \in DOMAIN table :
                                        table[i].object = v /\ table[i].func /= NoFunc
                                     THEN 1 ELSE 0)]
  /\ table' = [i \in {} |-> <<>>]
  /\ destroyed' = TRUE

Next ==
  \/ \E id \in Ids : \/ \E e \in Entry : Attach(id, e)
                     \/ Detach(id)
                     \/ \E w \in Values, f \in Funcs : Weak(id, w, f)
  \/ Destroy

Spec == Init /\ [][Next]_<<table, cleanups, destroyed>>

=============================================================================
