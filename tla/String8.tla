------------------------------- MODULE String8 -------------------------------
(***************************************************************************)
(* The inline members of android::String8 (String8.h).                     *)
(*                                                                         *)
(* A String8 owns a buffer of length() bytes followed by a terminating     *)
(* NUL; mString points at it.  The buffer may hold NUL bytes of its own    *)
(* (String8(const char*, size_t) copies them), so the bytes up to the      *)
(* first NUL, which is what every const char* consumer and strcmp see,     *)
(* can be shorter than the length() bytes std::string_view sees.           *)
(*                                                                         *)
(* A value is the buffer without its terminator, a sequence of bytes.      *)
(* Bytes are unsigned char values, as strcmp compares them.  The state is  *)
(* a few String8 variables; the actions are the inline assignment and      *)
(* append operators, the out-of-line setTo and append they call taken as   *)
(* copying and concatenating the buffers (append of a const char* stops at *)
(* its NUL).                                                               *)
(***************************************************************************)
EXTENDS Naturals, Sequences, SequencesExt

CONSTANTS
  Vars,     \* String8 objects
  Bytes,    \* byte values, 0 (NUL) among them
  Lits,     \* const char* arguments: byte arrays, possibly with a NUL inside
  MaxLen    \* bound on length()

ASSUME 0 \in Bytes /\ Bytes \subseteq 0..255 /\ MaxLen \in Nat

\* Every buffer a String8 of at most MaxLen bytes can hold.
Buffers == BoundedSeq(Bytes, MaxLen)

VARIABLE s   \* s[v]: the buffer of String8 v

-----------------------------------------------------------------------------
(* Conversions and queries.                                                *)

\* The C string a const char* to buffer p reads: the bytes before the first NUL.
CStr(p) ==
  LET i == SelectInSeq(p, LAMBDA b : b = 0)
  IN IF i = 0 THEN p ELSE SubSeq(p, 1, i - 1)

\* c_str(), string(), operator const char*(): mString.
CString(v) == CStr(s[v])

\* size(), bytes(), empty(), isEmpty(): all by length().
Size(v) == Len(s[v])
Empty(v) == Size(v) = 0

\* operator std::string_view(): {mString, length()}.
View(v) == s[v]

(* strcmp(p, q) on NUL-terminated buffers: walk both until the bytes      *)
(* differ or both end, and answer the difference of the unsigned bytes.  *)
RECURSIVE StrcmpFrom(_, _, _)
StrcmpFrom(p, q, i) ==
  LET a == IF i <= Len(p) THEN p[i] ELSE 0
      b == IF i <= Len(q) THEN q[i] ELSE 0
  IN IF a /= b THEN a - b
     ELSE IF a = 0 THEN 0
     ELSE StrcmpFrom(p, q, i + 1)

-----------------------------------------------------------------------------
(* Variants, each a plausible mistake in the code.                         *)

\* operator<= written with a strict comparison.
RelationsLeStrict(p, q) ==
  LET c == StrcmpFrom(p, q, 1)
  IN [lt |-> c < 0, le |-> c < 0, eq |-> c = 0,
      ne |-> c /= 0, ge |-> c >= 0, gt |-> c > 0]

-----------------------------------------------------------------------------
(* The comparisons.                                                        *)

\* compare(other): strcmp(mString, other.mString).
Compare(p, q) == StrcmpFrom(p, q, 1)

\* compare_type and strictly_order_type, the order SortedVector uses.
CompareType(p, q) == Compare(p, q)
StrictlyOrderType(p, q) == CompareType(p, q) < 0

(* operator<, <=, ==, !=, >=, > against another String8: each tests       *)
(* strcmp(mString, other.mString) against 0.                               *)
Relations(p, q) ==
  LET c == Compare(p, q)
  IN [lt |-> c < 0, le |-> c <= 0, eq |-> c = 0,
      ne |-> c /= 0, ge |-> c >= 0, gt |-> c > 0]

\* The same six against a const char*: strcmp(mString, other).
RelationsChars(p, lit) == Relations(p, lit)

-----------------------------------------------------------------------------
(* The operators that change a String8.                                    *)

Init == s \in [Vars -> Buffers]

\* operator=(const String8&): setTo(other) shares other's buffer.
AssignString8(v, w) ==
  s' = [s EXCEPT ![v] = s[w]]

\* operator=(const char*): setTo(other) copies up to other's NUL.
AssignChars(v, lit) ==
  s' = [s EXCEPT ![v] = CStr(lit)]

\* operator+=(const String8&): append(other) adds other's length() bytes.
AppendString8(v, w) ==
  /\ Len(s[v]) + Len(s[w]) <= MaxLen
  /\ s' = [s EXCEPT ![v] = @ \o s[w]]

\* operator+=(const char*): append(other) adds the bytes before other's NUL.
AppendChars(v, lit) ==
  /\ Len(s[v]) + Len(CStr(lit)) <= MaxLen
  /\ s' = [s EXCEPT ![v] = @ \o CStr(lit)]

(* v = w + u: operator+(const String8&) copies w into a temporary, adds  *)
(* u with operator+=, and the result is assigned to v.                    *)
AssignSum(v, w, u) ==
  /\ Len(s[w]) + Len(s[u]) <= MaxLen
  /\ s' = [s EXCEPT ![v] = s[w] \o s[u]]

\* v = w + lit: operator+(const char*) in the same way.
AssignSumChars(v, w, lit) ==
  /\ Len(s[w]) + Len(CStr(lit)) <= MaxLen
  /\ s' = [s EXCEPT ![v] = s[w] \o CStr(lit)]

Next ==
  \E v, w \in Vars :
    \/ AssignString8(v, w)
    \/ AppendString8(v, w)
    \/ \E u \in Vars : AssignSum(v, w, u)
    \/ \E lit \in Lits : AssignChars(v, lit) \/ AppendChars(v, lit)
                         \/ AssignSumChars(v, w, lit)

Spec == Init /\ [][Next]_s

-----------------------------------------------------------------------------
(* Properties.                                                             *)

\* Reference: u is below v in the lexicographic order of unsigned bytes.
LexBelow(u, v) ==
  \/ IsStrictPrefix(u, v)
  \/ \E i \in 1..Len(u) :
       i <= Len(v) /\ SubSeq(u, 1, i - 1) = SubSeq(v, 1, i - 1) /\ u[i] < v[i]

\* The six answers r agree with the reference order of C strings u and x.
AgreesWithLex(r, u, x) ==
  LET below == LexBelow(u, x)
      same == u = x
  IN /\ r.lt = below /\ r.le = (below \/ same) /\ r.eq = same
     /\ r.ne = ~same /\ r.ge = ~below /\ r.gt = LexBelow(x, u)

(* The twelve relational operators and compare_type of String8 order the  *)
(* strings as C strings: exactly by the lexicographic order of their      *)
(* unsigned bytes up to the first NUL, against a String8 or a const char*, *)
(* so strictly_order_type is a strict weak order SortedVector can rely on. *)
ComparisonIsLexicographic ==
  \A v \in Vars :
    /\ \A w \in Vars :
         /\ AgreesWithLex(Relations(s[v], s[w]), CString(v), CString(w))
         /\ StrictlyOrderType(s[v], s[w]) = LexBelow(CString(v), CString(w))
    /\ \A lit \in Lits : AgreesWithLex(RelationsChars(s[v], lit), CString(v), CStr(lit))

=============================================================================
