--------------------------- MODULE ScrambledString ---------------------------
(***************************************************************************)
(* ScrambledString keeps a text as bytes that are xor-ed with a random key *)
(* and, every other time, turned around.  Bytes have one bit here, so xor  *)
(* is addition modulo 2.  What is kept is a record of the buffer, the key  *)
(* and the permutation's index.                                            *)
(***************************************************************************)
EXTENDS Naturals, Sequences

Bit == 0..1
Keys == [0..3 -> Bit]

Xor(a, b) == (a + b) % 2

(* The i-th byte of the key that is used for position i, from 1. *)
KeyByte(key, i) == key[(i - 1) % 4]

(* Where encrypt puts a position, and decrypt takes it back to. *)
Place(i, len, perm) == IF perm = 0 THEN i ELSE len + 1 - i

Encrypt(text, key, perm) ==
    [buffer |-> [i \in DOMAIN text |->
                   LET from == Place(i, Len(text), perm)
                   IN  Xor(text[from], KeyByte(key, from))],
     key |-> key, perm |-> perm]

(* The key byte goes by the position in the buffer, not in the text. *)
Decrypt(s) ==
    [i \in DOMAIN s.buffer |->
       LET at == Place(i, Len(s.buffer), s.perm)
       IN  Xor(s.buffer[at], KeyByte(s.key, at))]

(* A text of at most one byte is never turned around. *)
Scrambled(text) ==
    {Encrypt(text, key, perm) : key \in Keys,
                                perm \in IF Len(text) > 1 THEN Bit ELSE {0}}
=============================================================================
