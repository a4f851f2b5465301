----------------------------- MODULE MCProtocol -----------------------------
(* Protocol for TLC: bits for bytes, so that a word wraps at 16. *)
EXTENDS Protocol

Bits(n) == [i \in 1..n |-> i % 2]

(* Ordinary, too large by one, and so large that the length wraps: 16      *)
(* bytes are announced as none.                                            *)
MCMessages ==
  {[type |-> 1, id |-> 9, payload |-> Bits(2)],
   [type |-> 0, id |-> 14, payload |-> Bits(3)],
   [type |-> 1, id |-> 5, payload |-> Bits(16)]}
=============================================================================
