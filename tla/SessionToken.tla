---------------------------- MODULE SessionToken ----------------------------
(***************************************************************************)
(* The text a login session travels under (__encrypt and __decrypt of       *)
(* lib/rojcppUtils.hpp, with the modes of lib/plusaes.hpp they use): the     *)
(* decimal digits of the session's number, padded, encrypted block by block *)
(* and written in hexadecimal.  A text is a sequence of bytes.              *)
(***************************************************************************)
EXTENDS Integers, Sequences

CONSTANTS
  encrypt_state(_), decrypt_state(_), \* on blocks, with the server's key
  key_size                            \* of that key, in bytes

kStateSize == 16

\* std::to_string, for a number given by its digits
to_string(digits) == [k \in 1..Len(digits) |-> 48 + digits[k]]

-----------------------------------------------------------------------------
(* ECB mode.  Every caller of the repository asks for padding.              *)

BlockOf(bytes, b) == [p \in 0..15 |-> bytes[kStateSize * b + p + 1]]

Blockwise(F(_), bytes) ==
  [k \in 1..Len(bytes) |-> F(BlockOf(bytes, (k - 1) \div kStateSize))[(k - 1) % kStateSize]]

Zeros(n) == [k \in 1..n |-> 0]

is_valid_key_size(size) == size \in {16, 24, 32}

get_padded_encrypted_size(data_size) == data_size + kStateSize - (data_size % kStateSize)

check_encrypt_cond(data_size, encrypted_size) ==
  IF ~is_valid_key_size(key_size) THEN "InvalidKeySize"
  ELSE IF encrypted_size < get_padded_encrypted_size(data_size) THEN "InvalidBufferSize"
  ELSE "Ok"

\* The smallest size the last test allows is data_size - 16, an unsigned
\* number that no buffer has if there are no data.
check_decrypt_cond(data_size, decrypted_size) ==
  IF data_size % kStateSize # 0 THEN "InvalidDataSize"
  ELSE IF ~is_valid_key_size(key_size) THEN "InvalidKeySize"
  ELSE IF data_size = 0 \/ decrypted_size < data_size - kStateSize THEN "InvalidBufferSize"
  ELSE "Ok"

check_short_padding(padding, last) ==   \* mutant: no block is all padding
  /\ padding < kStateSize
  /\ \A k \in 0..(padding - 1) : last[kStateSize - 1 - k] = padding

\* The last bytes of the block all say how many they are.
check_padding(padding, last) ==
  /\ padding <= kStateSize
  /\ \A k \in 0..(padding - 1) : last[kStateSize - 1 - k] = padding

encrypt_ecb(data, encrypted_size) ==
  LET e == check_encrypt_cond(Len(data), encrypted_size)
      pad_v == kStateSize - (Len(data) % kStateSize)
  IN [e |-> e,
      encrypted |-> IF e # "Ok" THEN Zeros(encrypted_size)
                    ELSE Blockwise(encrypt_state, data \o [k \in 1..pad_v |-> pad_v])]

\* The last block is copied to the result up to its padding, or not at all.
decrypt_ecb(data, decrypted_size) ==
  LET e == check_decrypt_cond(Len(data), decrypted_size)
      bc == (Len(data) \div kStateSize) - 1
      blocks == Blockwise(decrypt_state, data)
      last == decrypt_state(BlockOf(data, bc))
      padded == last[kStateSize - 1]
      good == check_padding(padded, last)
      copied == kStateSize * bc + (IF good THEN kStateSize - padded ELSE 0)
  IN IF e # "Ok" THEN [e |-> e, padded |-> 0, decrypted |-> Zeros(decrypted_size)]
     ELSE [e |-> IF ~good THEN "InvalidKey"
                 ELSE IF decrypted_size < copied THEN "InvalidBufferSize" ELSE "Ok",
           padded |-> padded,
           decrypted |-> [k \in 1..decrypted_size |-> IF k <= copied THEN blocks[k] ELSE 0]]

-----------------------------------------------------------------------------
(* Hexadecimal *)

toHex(t) == IF t <= 9 THEN t + 48 ELSE t - 10 + 65

Hex(bytes) ==
  [k \in 1..(2 * Len(bytes)) |->
     LET byte == bytes[(k + 1) \div 2]
     IN toHex(IF k % 2 = 1 THEN byte \div 16 ELSE byte % 16)]

\* What a character adds to the byte that is read, whose upper half is lost.
HexDigit(t, ch) ==
  IF ch \in 48..57 THEN ((16 * t) % 256) + (ch - 48)
  ELSE IF ch \in 65..70 THEN ((16 * t) % 256) + (ch - 65 + 10)
  ELSE t

strToNum(a0, a1) == HexDigit(HexDigit(0, a0), a1)

-----------------------------------------------------------------------------
(* The two functions, for texts of even length *)

\* __encrypt; the error of encrypt_ecb is not looked at.
Encrypt(digits) ==
  LET data == to_string(digits)
      encrypted_size == Len(data) + (kStateSize - (Len(data) % kStateSize))
  IN Hex(encrypt_ecb(data, encrypted_size).encrypted)

\* __decrypt, up to the number it reads from num_str; e is not looked at.
Decrypt(s) ==
  LET encrypted_size == Len(s) \div 2
      encrypted == [k \in 1..encrypted_size |-> strToNum(s[2 * k - 1], s[2 * k])]
      result == decrypt_ecb(encrypted, encrypted_size)
  IN [e |-> result.e,
      num_str |-> SubSeq(result.decrypted, 1, encrypted_size - result.padded)]

\* The number with these digits is read from its own token, without an error.
ReadBack(digits) == Decrypt(Encrypt(digits)) = [e |-> "Ok", num_str |-> to_string(digits)]
=============================================================================
