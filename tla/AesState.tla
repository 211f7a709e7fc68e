------------------------------ MODULE AesState ------------------------------
(***************************************************************************)
(* The operations of lib/plusaes.hpp on a state of sixteen bytes, and the   *)
(* key expansion.  The code keeps the state in four little-endian words;    *)
(* byte r of word c is byte 4 * c + r here, which is its place in memory.   *)
(* A key is a sequence of bytes, a word of it a sequence of four.           *)
(***************************************************************************)
EXTENDS Integers, Sequences

CONSTANTS
  Xor(_, _), \* exclusive or of two bytes
  mul2(_),   \* the product of a byte and 2 in the cipher's field
  mul(_, _), \* the product of two bytes
  kSbox(_), kInvSbox(_)

Byte == 0..255
Place == 0..15
Block == [Place -> Byte]

-----------------------------------------------------------------------------
add_round_key(key, state) == [p \in Place |-> Xor(state[p], key[p])]

sub_bytes(state) == [p \in Place |-> kSbox(state[p])]
inv_sub_bytes(state) == [p \in Place |-> kInvSbox(state[p])]

\* Byte r of word c comes from the word r places further, or r places back.
shift_rows(state) == [p \in Place |-> state[(p + 4 * (p % 4)) % 16]]
inv_shift_rows(state) == [p \in Place |-> state[(p + 16 - 4 * (p % 4)) % 16]]

Xor4(a, b, c, d) == Xor(Xor(a, b), Xor(c, d))

\* Each byte of a word from the four of the word, its own first.
Mixed(state, Mix(_, _, _, _)) ==
  [p \in Place |->
     LET v(k) == state[4 * (p \div 4) + ((p + k) % 4)]
     IN Mix(v(0), v(1), v(2), v(3))]

Thrice(b) == Xor(mul2(b), b)

MixByte(v0, v1, v2, v3) == Xor4(mul2(v0), Thrice(v1), v2, v3)
InvMixByte(v0, v1, v2, v3) == Xor4(mul(v0, 14), mul(v1, 11), mul(v2, 13), mul(v3, 9))

mix_columns(state) == Mixed(state, MixByte)
inv_mix_columns(state) == Mixed(state, InvMixByte)

-----------------------------------------------------------------------------
(* One pass of the loop of encrypt_state, and what follows the loop; the    *)
(* same of decrypt_state.                                                   *)

EncryptRound(key, s) == add_round_key(key, mix_columns(shift_rows(sub_bytes(s))))
EncryptLast(key, s) == add_round_key(key, shift_rows(sub_bytes(s)))

DecryptFirst(key, s) == inv_sub_bytes(inv_shift_rows(add_round_key(key, s)))

DecryptRound(key, s) ==
  inv_sub_bytes(inv_shift_rows(inv_mix_columns(add_round_key(key, s))))

-----------------------------------------------------------------------------
(* Whole blocks.  The round keys are rkeys[0] to rkeys[last]; state i of the  *)
(* two sequences is the one between the passes with rkeys[i] and rkeys[i+1]. *)

\* s: TLC evaluates a function at each use, and a sequence it concatenated once.
Evaluated(s) == LET bytes == [k \in 1..16 |-> s[k - 1]] \o <<>>
                IN [p \in Place |-> bytes[p + 1]]

Encryption(rkeys, last, data) ==
  LET s[i \in 0..(last - 1)] ==
        Evaluated(IF i = 0 THEN add_round_key(rkeys[0], data)
                  ELSE EncryptRound(rkeys[i], s[i - 1]))
  IN s

Decryption(rkeys, last, data) ==
  LET s[i \in 0..(last - 1)] ==
        Evaluated(IF i = last - 1 THEN DecryptFirst(rkeys[last], data)
                  ELSE DecryptRound(rkeys[i + 1], s[i + 1]))
  IN s

EncryptState(rkeys, last, data) ==
  EncryptLast(rkeys[last], Encryption(rkeys, last, data)[last - 1])

DecryptState(rkeys, last, data) ==
  add_round_key(rkeys[0], Decryption(rkeys, last, data)[0])

-----------------------------------------------------------------------------
(* The round keys *)

get_round_count(size) == CASE size = 16 -> 10 [] size = 24 -> 12 [] size = 32 -> 14

WordXor(v, w) == <<Xor(v[1], w[1]), Xor(v[2], w[2]), Xor(v[3], w[3]), Xor(v[4], w[4])>>
sub_word(w) == <<kSbox(w[1]), kSbox(w[2]), kSbox(w[3]), kSbox(w[4])>>
rot_word(w) == <<w[2], w[3], w[4], w[1]>>
rcon == <<1, 2, 4, 8, 16, 32, 64, 128, 27, 54>>

FollowsPlain(t, i, nk) ==   \* mutant: without the rule for keys of 256 bits
  IF i % nk = 0 THEN WordXor(sub_word(rot_word(t)), <<rcon[i \div nk], 0, 0, 0>>) ELSE t

\* What word i - nk is combined with, when t is word i - 1.
Follows(t, i, nk) ==
  IF i % nk = 0 THEN WordXor(sub_word(rot_word(t)), <<rcon[i \div nk], 0, 0, 0>>)
  ELSE IF nk > 6 /\ i % nk = 4 THEN sub_word(t)
  ELSE t

\* The word after the words of w: the code counts them from 0.
NextWord(w, nk) == WordXor(Follows(w[Len(w)], Len(w), nk), w[Len(w) - nk + 1])

\* All words, the key's own first.
Words(key) ==
  LET nk == Len(key) \div 4
      more == 4 * (get_round_count(Len(key)) + 1) - nk
      w[i \in 0..more] ==
        IF i = 0 THEN [k \in 1..nk |-> <<key[4 * k - 3], key[4 * k - 2],
                                          key[4 * k - 1], key[4 * k]>>]
        ELSE LET before == w[i - 1] IN Append(before, NextWord(before, nk))
  IN w[more]

expand_key(key) ==
  LET w == Words(key)
  IN [n \in 0..get_round_count(Len(key)) |->
        [p \in Place |-> w[4 * n + (p \div 4) + 1][(p % 4) + 1]]]

\* What the rounds need of a key.
KeyExpands(key) == expand_key(key) \in [0..get_round_count(Len(key)) -> Block]

-----------------------------------------------------------------------------
(* What decryption needs of the tables and the arithmetic.  All of it is    *)
(* about single bytes: TLC checks it, value by value.                       *)

TablesInvert ==
  \A b \in Byte : kSbox(b) \in Byte /\ kInvSbox(b) \in Byte /\ kInvSbox(kSbox(b)) = b

\* On halves of bytes Xor is a group in which each element is its own inverse,
\* and it treats the halves of a byte apart.
XorFits ==
  /\ \A a \in 0..15 : Xor(a, a) = 0 /\ Xor(a, 0) = a
  /\ \A a, b \in 0..15 : Xor(a, b) \in 0..15 /\ Xor(a, b) = Xor(b, a)
  /\ \A a, b, c \in 0..15 : Xor(a, Xor(b, c)) = Xor(Xor(a, b), c)
  /\ \A a, b \in Byte : Xor(a, b) = 16 * Xor(a \div 16, b \div 16) + Xor(a % 16, b % 16)

Factors == {9, 11, 13, 14}

\* The two matrices multiply to the identity: what a byte contributes to its
\* own place is the byte, and to the other three places of its word nothing.
MatricesFit ==
  \A x \in Byte :
    /\ Xor4(mul(mul2(x), 14), mul(x, 11), mul(x, 13), mul(Thrice(x), 9)) = x
    /\ Xor4(mul(Thrice(x), 14), mul(mul2(x), 11), mul(x, 13), mul(x, 9)) = 0
    /\ Xor4(mul(x, 14), mul(Thrice(x), 11), mul(mul2(x), 13), mul(x, 9)) = 0
    /\ Xor4(mul(x, 14), mul(x, 11), mul(Thrice(x), 13), mul(mul2(x), 9)) = 0

ProductsFit ==
  /\ \A a \in Byte : mul2(a) \in Byte /\ \A m \in Factors : mul(a, m) \in Byte
  /\ \A a, b \in Byte, m \in Factors : mul(Xor(a, b), m) = Xor(mul(a, m), mul(b, m))
  /\ MatricesFit

TablesFit == TablesInvert /\ XorFits /\ ProductsFit
=============================================================================
