------------------------------ MODULE MCString8 ------------------------------
(* Model-checking instance of String8.                                     *)
EXTENDS String8

\* NUL, 'a', and a byte above 127 (negative as a signed char).
S8Bytes == {0, 97, 200}

\* Literals: "a", "\xc8a", and "a\0b", whose bytes after the NUL are unread.
S8Lits == {<<97>>, <<200, 97>>, <<97, 0, 98>>}

=============================================================================
