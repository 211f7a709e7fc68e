----------------------------- MODULE TokenProofs ----------------------------
(***************************************************************************)
(* A session's number is read back from its token, for numbers of any       *)
(* length and any cipher that can be reversed; and the cipher of            *)
(* lib/plusaes.hpp can be, given what TLC checks of single bytes.           *)
(***************************************************************************)
EXTENDS CodecProofs, AesState

\* What the token needs of the cipher.
Reversible ==
  \A b \in Block : encrypt_state(b) \in Block /\ decrypt_state(encrypt_state(b)) = b

Bytes == Seq(Byte)

-----------------------------------------------------------------------------
(* Hexadecimal *)

\* Two hexadecimal digits are read as the byte they were written for.
LEMMA HexDigitsReadBack ==
  ASSUME NEW x \in Byte
  PROVE strToNum(toHex(x \div 16), toHex(x % 16)) = x
<1> DEFINE high == x \div 16
           low == x % 16
<1>1. high \in 0..15 /\ low \in 0..15 /\ x = 16 * high + low
  BY DEF Byte
<1>2. HexDigit(0, toHex(high)) = high
  BY <1>1 DEF HexDigit, toHex
<1>3. HexDigit(high, toHex(low)) = ((16 * high) % 256) + low
  BY <1>1 DEF HexDigit, toHex
<1>4. (16 * high) % 256 = 16 * high
  BY <1>1
<1> QED BY <1>1, <1>2, <1>3, <1>4 DEF strToNum

\* A text of bytes is read back from its hexadecimal form.
LEMMA HexReadBack ==
  ASSUME NEW bytes \in Bytes
  PROVE /\ Len(Hex(bytes)) = 2 * Len(bytes)
        /\ \A k \in 1..Len(bytes) :
             strToNum(Hex(bytes)[2 * k - 1], Hex(bytes)[2 * k]) = bytes[k]
<1>1. Len(Hex(bytes)) = 2 * Len(bytes)
  BY DEF Hex, Bytes
<1>2. ASSUME NEW k \in 1..Len(bytes)
      PROVE strToNum(Hex(bytes)[2 * k - 1], Hex(bytes)[2 * k]) = bytes[k]
  <2>1. 2 * k - 1 \in 1..(2 * Len(bytes)) /\ 2 * k \in 1..(2 * Len(bytes))
    BY DEF Bytes
  <2>2. /\ (2 * k - 1 + 1) \div 2 = k /\ (2 * k - 1) % 2 = 1
        /\ (2 * k + 1) \div 2 = k /\ (2 * k) % 2 = 0
    OBVIOUS
  <2>3. Hex(bytes)[2 * k - 1] = toHex(bytes[k] \div 16)
    BY <2>1, <2>2 DEF Hex
  <2>4. Hex(bytes)[2 * k] = toHex(bytes[k] % 16)
    BY <2>1, <2>2 DEF Hex
  <2>5. bytes[k] \in Byte
    BY DEF Bytes
  <2> QED BY <2>3, <2>4, <2>5, HexDigitsReadBack
<1> QED BY <1>1, <1>2

-----------------------------------------------------------------------------
(* Blocks *)

\* Byte k of a text is byte (k - 1) % 16 of block (k - 1) \div 16.
LEMMA BlockPlaces ==
  ASSUME NEW m \in Nat, NEW k \in 1..(16 * m)
  PROVE /\ (k - 1) \div 16 \in 0..(m - 1) /\ (k - 1) % 16 \in 0..15
        /\ 16 * ((k - 1) \div 16) + ((k - 1) % 16) + 1 = k
<1> DEFINE q == (k - 1) \div 16
           r == (k - 1) % 16
<1>1. q \in Int /\ r \in 0..15 /\ k - 1 = 16 * q + r
  OBVIOUS
<1> HIDE DEF q, r
<1>2. q \in 0..(m - 1)
  BY <1>1
<1> QED BY <1>1, <1>2 DEF q, r

\* The other way round: byte p of block b is byte 16 * b + p + 1 of the text.
LEMMA PlaceInBlock ==
  ASSUME NEW b \in Nat, NEW p \in 0..15
  PROVE (16 * b + p + 1 - 1) \div 16 = b /\ (16 * b + p + 1 - 1) % 16 = p
OBVIOUS

\* A block of a text of bytes is a block.
LEMMA BlockOfType ==
  ASSUME NEW m \in Nat, NEW bytes \in Bytes, Len(bytes) = 16 * m, NEW b \in 0..(m - 1)
  PROVE BlockOf(bytes, b) \in Block
<1>1. \A p \in 0..15 : 16 * b + p + 1 \in 1..Len(bytes)
  OBVIOUS
<1>2. \A p \in 0..15 : bytes[16 * b + p + 1] \in Byte
  BY <1>1 DEF Bytes
<1> QED BY <1>2 DEF BlockOf, Block, Place, kStateSize

\* Encryption gives a text whose blocks are those of the argument, encrypted.
LEMMA EncryptedBlocks ==
  ASSUME Reversible, NEW m \in Nat, NEW bytes \in Bytes, Len(bytes) = 16 * m
  PROVE LET out == Blockwise(encrypt_state, bytes)
        IN /\ out \in Bytes /\ Len(out) = 16 * m
           /\ \A b \in 0..(m - 1) : BlockOf(out, b) = encrypt_state(BlockOf(bytes, b))
<1> DEFINE out == Blockwise(encrypt_state, bytes)
<1>1. \A b \in 0..(m - 1) : encrypt_state(BlockOf(bytes, b)) \in Block
  BY BlockOfType DEF Reversible
<1>2. ASSUME NEW k \in 1..(16 * m)
      PROVE encrypt_state(BlockOf(bytes, (k - 1) \div 16))[(k - 1) % 16] \in Byte
  BY <1>1, BlockPlaces DEF Block, Place
<1>3. out = [k \in 1..(16 * m) |->
               encrypt_state(BlockOf(bytes, (k - 1) \div 16))[(k - 1) % 16]]
  BY DEF Blockwise, kStateSize
<1>4. out \in Bytes /\ Len(out) = 16 * m
  <2> HIDE DEF out
  <2>1. out \in [1..(16 * m) -> Byte]
    BY <1>2, <1>3
  <2> QED BY <2>1 DEF Bytes
<1>5. ASSUME NEW b \in 0..(m - 1)
      PROVE BlockOf(out, b) = encrypt_state(BlockOf(bytes, b))
  <2>1. ASSUME NEW p \in 0..15
        PROVE out[16 * b + p + 1] = encrypt_state(BlockOf(bytes, b))[p]
    <3>1. 16 * b + p + 1 \in 1..(16 * m)
      OBVIOUS
    <3> QED BY <1>3, <3>1, PlaceInBlock
  <2>2. BlockOf(out, b) = [p \in 0..15 |-> encrypt_state(BlockOf(bytes, b))[p]]
    <3> HIDE DEF out
    <3> QED BY <2>1 DEF BlockOf, kStateSize
  <2> QED BY <1>1, <2>2 DEF Block, Place
<1> QED BY <1>4, <1>5

\* Decryption finds the blocks, and the bytes, of the text that was encrypted.
LEMMA DecryptedBlocks ==
  ASSUME Reversible, NEW m \in Nat, NEW bytes \in Bytes, Len(bytes) = 16 * m
  PROVE LET out == Blockwise(encrypt_state, bytes)
        IN /\ \A b \in 0..(m - 1) : decrypt_state(BlockOf(out, b)) = BlockOf(bytes, b)
           /\ \A k \in 1..(16 * m) : Blockwise(decrypt_state, out)[k] = bytes[k]
<1> DEFINE out == Blockwise(encrypt_state, bytes)
<1>1. \A b \in 0..(m - 1) : decrypt_state(BlockOf(out, b)) = BlockOf(bytes, b)
  BY EncryptedBlocks, BlockOfType DEF Reversible
<1>2. Len(out) = 16 * m
  BY EncryptedBlocks
<1> HIDE DEF out
<1>3. ASSUME NEW k \in 1..(16 * m)
      PROVE Blockwise(decrypt_state, out)[k] = bytes[k]
  <2> DEFINE b == (k - 1) \div 16
             p == (k - 1) % 16
  <2>1. b \in 0..(m - 1) /\ p \in 0..15 /\ 16 * b + p + 1 = k
    BY BlockPlaces
  <2>2. Blockwise(decrypt_state, out)[k] = decrypt_state(BlockOf(out, b))[p]
    BY <1>2 DEF Blockwise, kStateSize
  <2> HIDE DEF b, p
  <2>3. BlockOf(bytes, b)[p] = bytes[k]
    BY <2>1 DEF BlockOf, kStateSize
  <2> QED BY <1>1, <2>1, <2>2, <2>3
<1> QED BY <1>1, <1>3 DEF out

-----------------------------------------------------------------------------
\* __decrypt reads from the text that __encrypt wrote for a number exactly the
\* number's digits, and decrypt_ecb reports no error, whatever the number of
\* digits: short of a block, a full block or several.
THEOREM TokenReadsBack ==
  ASSUME is_valid_key_size(key_size), Reversible, NEW digits \in Seq(0..9)
  PROVE ReadBack(digits)
<1> DEFINE data == to_string(digits)
           n == Len(data)
           pad == 16 - (n % 16)
           m == (n \div 16) + 1
           padded == data \o [k \in 1..pad |-> pad]
           out == Blockwise(encrypt_state, padded)
           result == decrypt_ecb(out, 16 * m)
<1>1. data \in Seq(48..57)
  BY DEF to_string
<1>2. n \in Nat /\ pad \in 1..16 /\ m \in Nat \ {0} /\ n + pad = 16 * m
  <2>1. n \in Nat
    BY <1>1
  <2> HIDE DEF data, n
  <2> QED BY <2>1
<1> HIDE DEF data, n, pad, m
<1>3. /\ padded \in Bytes /\ Len(padded) = 16 * m
      /\ \A k \in 1..n : padded[k] = data[k]
      /\ \A k \in (n + 1)..(16 * m) : padded[k] = pad
  <2>1. [k \in 1..pad |-> pad] \in Seq(Byte) /\ data \in Seq(Byte)
    BY <1>1, <1>2 DEF Byte
  <2>2. Len([k \in 1..pad |-> pad]) = pad
    BY <1>2
  <2> QED BY <1>2, <2>1, <2>2 DEF Bytes, n
<1> HIDE DEF padded
<1>4. /\ out \in Bytes /\ Len(out) = 16 * m
      /\ \A b \in 0..(m - 1) : decrypt_state(BlockOf(out, b)) = BlockOf(padded, b)
      /\ \A k \in 1..(16 * m) : Blockwise(decrypt_state, out)[k] = padded[k]
  BY <1>2, <1>3, EncryptedBlocks, DecryptedBlocks
<1>5. Encrypt(digits) = Hex(out)
  <2>1. check_encrypt_cond(n, n + pad) = "Ok"
    BY <1>2 DEF check_encrypt_cond, get_padded_encrypted_size, kStateSize, pad
  <2> QED BY <2>1 DEF Encrypt, encrypt_ecb, kStateSize, padded, pad, n, data
<1> HIDE DEF out
<1>6. result.e = "Ok" /\ result.padded = pad
      /\ result.decrypted = [k \in 1..(16 * m) |-> IF k <= n THEN padded[k] ELSE 0]
  <2> DEFINE last == decrypt_state(BlockOf(out, m - 1))
  <2>1. check_decrypt_cond(16 * m, 16 * m) = "Ok"
    BY <1>2 DEF check_decrypt_cond, kStateSize
  <2>2. (16 * m) \div 16 = m
    BY <1>2
  <2>3. \A p \in 0..15 : last[p] = padded[16 * (m - 1) + p + 1]
    <3>1. m - 1 \in 0..(m - 1)
      BY <1>2
    <3>2. last = BlockOf(padded, m - 1)
      BY <1>4, <3>1
    <3> HIDE DEF last
    <3> QED BY <3>2 DEF BlockOf, kStateSize
  <2> HIDE DEF last
  <2>4. \A p \in (16 - pad)..15 : last[p] = pad
    <3>1. ASSUME NEW p \in (16 - pad)..15
          PROVE p \in 0..15 /\ 16 * (m - 1) + p + 1 \in (n + 1)..(16 * m)
      BY <1>2
    <3>2. \A k \in (n + 1)..(16 * m) : padded[k] = pad
      BY <1>3
    <3> QED BY <2>3, <3>1, <3>2
  <2>5. last[15] = pad /\ check_padding(pad, last)
    BY <1>2, <2>4 DEF check_padding, kStateSize
  <2>6. 16 * (m - 1) + (16 - pad) = n /\ n <= 16 * m
    BY <1>2
  <2>7. result = [e |-> "Ok", padded |-> pad,
                  decrypted |-> [k \in 1..(16 * m) |->
                    IF k <= n THEN Blockwise(decrypt_state, out)[k] ELSE 0]]
    <3>1. Len(out) = 16 * m /\ ~(16 * m < n)
      BY <1>2, <1>4
    <3>2. /\ decrypt_state(BlockOf(out, (Len(out) \div 16) - 1)) = last
          /\ 16 * ((Len(out) \div 16) - 1) + (16 - pad) = n
          /\ 16 - 1 = 15
      BY <3>1, <2>2, <2>6 DEF last
    <3>3. check_decrypt_cond(Len(out), 16 * m) = "Ok"
      BY <3>1, <2>1
    <3> QED BY <3>1, <3>2, <3>3, <2>5 DEF decrypt_ecb, kStateSize
  <2>8. \A k \in 1..(16 * m) : Blockwise(decrypt_state, out)[k] = padded[k]
    BY <1>4
  <2> HIDE DEF result
  <2> QED BY <2>7, <2>8
<1>7. Decrypt(Hex(out)) =
        [e |-> result.e, num_str |-> SubSeq(result.decrypted, 1, 16 * m - result.padded)]
  <2>1. out \in Bytes /\ Len(out) = 16 * m
    BY <1>4
  <2>2. Len(Hex(out)) \div 2 = 16 * m
    <3>1. Len(Hex(out)) = 2 * (16 * m)
      BY <2>1, HexReadBack
    <3>2. (2 * (16 * m)) \div 2 = 16 * m
      BY <1>2
    <3> QED BY <3>1, <3>2
  <2>3. [k \in 1..(16 * m) |-> strToNum(Hex(out)[2 * k - 1], Hex(out)[2 * k])] = out
    <3>1. out = [k \in 1..(16 * m) |-> out[k]]
      BY <2>1 DEF Bytes
    <3>2. \A k \in 1..(16 * m) : strToNum(Hex(out)[2 * k - 1], Hex(out)[2 * k]) = out[k]
      BY <2>1, HexReadBack
    <3> QED BY <3>1, <3>2
  <2> QED BY <2>2, <2>3 DEF Decrypt
<1> HIDE DEF result
<1>8. SubSeq(result.decrypted, 1, n) = data
  <2> DEFINE decrypted == [k \in 1..(16 * m) |-> IF k <= n THEN padded[k] ELSE 0]
  <2>1. decrypted \in Seq(Byte) /\ Len(decrypted) = 16 * m
    <3>1. 16 * m \in Nat /\ \A k \in 1..(16 * m) : padded[k] \in Byte
      BY <1>2, <1>3 DEF Bytes
    <3>2. \A k \in 1..(16 * m) : (IF k <= n THEN padded[k] ELSE 0) \in Byte
      BY <3>1 DEF Byte
    <3>3. decrypted \in [1..(16 * m) -> Byte] /\ DOMAIN decrypted = 1..(16 * m)
      BY <3>2
    <3> HIDE DEF decrypted
    <3>4. decrypted \in Seq(Byte)
      BY <3>1, <3>3
    <3> QED BY <3>1, <3>3, <3>4
  <2>2. n <= 16 * m /\ \A k \in 1..n : decrypted[k] = data[k]
    BY <1>2, <1>3
  <2> HIDE DEF decrypted
  <2>3. SubSeq(decrypted, 1, n) = [k \in 1..n |-> decrypted[k]]
    BY <1>2, <2>1, <2>2
  <2>4. data = [k \in 1..n |-> data[k]]
    BY <1>1 DEF n
  <2>5. [k \in 1..n |-> decrypted[k]] = [k \in 1..n |-> data[k]]
    BY <2>2
  <2>6. result.decrypted = decrypted
    BY <1>6 DEF decrypted
  <2> QED BY <2>3, <2>4, <2>5, <2>6
<1>9. 16 * m - pad = n
  BY <1>2
<1> QED BY <1>5, <1>6, <1>7, <1>8, <1>9 DEF ReadBack, data

-----------------------------------------------------------------------------
(* Exclusive or, from what is known of halves of bytes *)

\* Xor gives bytes, whose halves are the Xor of the halves.
LEMMA XorHalves ==
  ASSUME XorFits, NEW a \in Byte, NEW b \in Byte
  PROVE /\ Xor(a, b) \in Byte
        /\ Xor(a, b) \div 16 = Xor(a \div 16, b \div 16)
        /\ Xor(a, b) % 16 = Xor(a % 16, b % 16)
<1> DEFINE high == Xor(a \div 16, b \div 16)
           low == Xor(a % 16, b % 16)
<1>1. a \div 16 \in 0..15 /\ a % 16 \in 0..15 /\ b \div 16 \in 0..15 /\ b % 16 \in 0..15
  BY DEF Byte
<1>2. high \in 0..15 /\ low \in 0..15
  <2>1. \A x, y \in 0..15 : Xor(x, y) \in 0..15
    BY DEF XorFits
  <2> QED BY <1>1, <2>1
<1>3. Xor(a, b) = 16 * high + low
  BY DEF XorFits
<1> HIDE DEF high, low
<1>4. 16 * high + low \in Byte /\ (16 * high + low) \div 16 = high /\ (16 * high + low) % 16 = low
  BY <1>2 DEF Byte
<1> QED BY <1>3, <1>4 DEF high, low

\* Bytes with equal halves are equal.
LEMMA SameHalves ==
  ASSUME NEW a \in Byte, NEW b \in Byte
  PROVE a \div 16 = b \div 16 /\ a % 16 = b % 16 => a = b
<1> DEFINE high(x) == x \div 16
           low(x) == x % 16
<1>1. \A x \in Byte : high(x) \in 0..15 /\ low(x) \in 0..15 /\ x = 16 * high(x) + low(x)
  BY DEF Byte
<1> HIDE DEF high, low
<1>2. high(a) = high(b) /\ low(a) = low(b) => a = b
  BY <1>1
<1> QED BY <1>2 DEF high, low

\* The bytes are a group under Xor, each its own inverse.
LEMMA XorGroup ==
  ASSUME XorFits
  PROVE /\ \A a, b \in Byte : Xor(a, b) \in Byte /\ Xor(a, b) = Xor(b, a)
        /\ \A a, b, c \in Byte : Xor(a, Xor(b, c)) = Xor(Xor(a, b), c)
        /\ \A a \in Byte : Xor(a, a) = 0 /\ Xor(a, 0) = a
<1> DEFINE high(x) == x \div 16
           low(x) == x % 16
<1>1. \A x, y \in Byte : /\ Xor(x, y) \in Byte
                         /\ high(Xor(x, y)) = Xor(high(x), high(y))
                         /\ low(Xor(x, y)) = Xor(low(x), low(y))
  BY XorHalves
<1>2. \A x \in Byte : high(x) \in 0..15 /\ low(x) \in 0..15
  BY DEF Byte
<1>3. \A x, y \in Byte : high(x) = high(y) /\ low(x) = low(y) => x = y
  BY SameHalves
<1>4. 0 \in Byte /\ high(0) = 0 /\ low(0) = 0
  BY DEF Byte
<1> HIDE DEF high, low
<1>5. ASSUME NEW a \in Byte, NEW b \in Byte
      PROVE Xor(a, b) \in Byte /\ Xor(a, b) = Xor(b, a)
  <2>1. \A x, y \in 0..15 : Xor(x, y) = Xor(y, x)
    BY DEF XorFits
  <2> QED BY <1>1, <1>2, <1>3, <2>1
<1>6. ASSUME NEW a \in Byte, NEW b \in Byte, NEW c \in Byte
      PROVE Xor(a, Xor(b, c)) = Xor(Xor(a, b), c)
  <2>1. /\ Xor(a, b) \in Byte /\ Xor(b, c) \in Byte
        /\ Xor(a, Xor(b, c)) \in Byte /\ Xor(Xor(a, b), c) \in Byte
    BY <1>1
  <2>2. \A x, y, z \in 0..15 : Xor(x, Xor(y, z)) = Xor(Xor(x, y), z)
    BY DEF XorFits
  <2>3. high(Xor(a, Xor(b, c))) = high(Xor(Xor(a, b), c))
    <3>1. high(Xor(a, Xor(b, c))) = Xor(high(a), Xor(high(b), high(c)))
      BY <1>1, <2>1
    <3>2. high(Xor(Xor(a, b), c)) = Xor(Xor(high(a), high(b)), high(c))
      BY <1>1, <2>1
    <3> QED BY <1>2, <2>2, <3>1, <3>2
  <2>4. low(Xor(a, Xor(b, c))) = low(Xor(Xor(a, b), c))
    <3>1. low(Xor(a, Xor(b, c))) = Xor(low(a), Xor(low(b), low(c)))
      BY <1>1, <2>1
    <3>2. low(Xor(Xor(a, b), c)) = Xor(Xor(low(a), low(b)), low(c))
      BY <1>1, <2>1
    <3> QED BY <1>2, <2>2, <3>1, <3>2
  <2> QED BY <1>3, <2>1, <2>3, <2>4
<1>7. ASSUME NEW a \in Byte
      PROVE Xor(a, a) = 0 /\ Xor(a, 0) = a
  <2>1. \A x \in 0..15 : Xor(x, x) = 0 /\ Xor(x, 0) = x
    BY DEF XorFits
  <2>2. Xor(a, a) \in Byte /\ Xor(a, 0) \in Byte
    BY <1>1, <1>4
  <2>3. high(Xor(a, a)) = 0 /\ low(Xor(a, a)) = 0
    BY <1>1, <1>2, <2>1
  <2>4. high(Xor(a, 0)) = high(a) /\ low(Xor(a, 0)) = low(a)
    BY <1>1, <1>2, <1>4, <2>1
  <2> QED BY <1>3, <1>4, <2>2, <2>3, <2>4
<1> QED BY <1>5, <1>6, <1>7

\* Sums of sums may be taken in another order.
LEMMA Interchange ==
  ASSUME XorFits, NEW a \in Byte, NEW b \in Byte, NEW c \in Byte, NEW d \in Byte
  PROVE Xor(Xor(a, b), Xor(c, d)) = Xor(Xor(a, c), Xor(b, d))
<1>1. Xor(c, d) \in Byte /\ Xor(b, d) \in Byte /\ Xor(b, c) \in Byte
  BY XorGroup
<1>2. Xor(b, Xor(c, d)) = Xor(c, Xor(b, d))
  <2>1. Xor(b, Xor(c, d)) = Xor(Xor(b, c), d)
    BY XorGroup
  <2>2. Xor(c, Xor(b, d)) = Xor(Xor(c, b), d)
    BY XorGroup
  <2> QED BY <2>1, <2>2, XorGroup
<1>3. Xor(Xor(a, b), Xor(c, d)) = Xor(a, Xor(b, Xor(c, d)))
  BY <1>1, XorGroup
<1>4. Xor(Xor(a, c), Xor(b, d)) = Xor(a, Xor(c, Xor(b, d)))
  BY <1>1, XorGroup
<1> QED BY <1>2, <1>3, <1>4

\* A sum of four bytes is a byte.
LEMMA Xor4Type ==
  ASSUME XorFits, NEW a \in Byte, NEW b \in Byte, NEW c \in Byte, NEW d \in Byte
  PROVE Xor4(a, b, c, d) \in Byte
BY XorGroup DEF Xor4

\* The last of four may as well come first.
LEMMA Xor4Rotated ==
  ASSUME XorFits, NEW a \in Byte, NEW b \in Byte, NEW c \in Byte, NEW d \in Byte
  PROVE Xor4(a, b, c, d) = Xor4(d, a, b, c)
<1>1. Xor(d, a) = Xor(a, d) /\ Xor(b, c) = Xor(c, b) /\ Xor(c, d) = Xor(d, c)
  BY XorGroup
<1>2. Xor(Xor(a, b), Xor(d, c)) = Xor(Xor(a, d), Xor(b, c))
  BY Interchange
<1> QED BY <1>1, <1>2 DEF Xor4

Word == Byte \X Byte \X Byte \X Byte
WordSum(w) == Xor4(w[1], w[2], w[3], w[4])

\* The sum of two sums of four is the sum of the four sums of two.
LEMMA SumOfWords ==
  ASSUME XorFits, NEW v \in Word, NEW w \in Word
  PROVE WordXor(v, w) \in Word /\ Xor(WordSum(v), WordSum(w)) = WordSum(WordXor(v, w))
<1>1. /\ v[1] \in Byte /\ v[2] \in Byte /\ v[3] \in Byte /\ v[4] \in Byte
      /\ w[1] \in Byte /\ w[2] \in Byte /\ w[3] \in Byte /\ w[4] \in Byte
  BY DEF Word
<1>2. /\ Xor(v[1], v[2]) \in Byte /\ Xor(v[3], v[4]) \in Byte
      /\ Xor(w[1], w[2]) \in Byte /\ Xor(w[3], w[4]) \in Byte
      /\ Xor(v[1], w[1]) \in Byte /\ Xor(v[2], w[2]) \in Byte
      /\ Xor(v[3], w[3]) \in Byte /\ Xor(v[4], w[4]) \in Byte
  BY <1>1, XorGroup
<1>3. Xor(WordSum(v), WordSum(w)) =
        Xor(Xor(Xor(v[1], v[2]), Xor(w[1], w[2])), Xor(Xor(v[3], v[4]), Xor(w[3], w[4])))
  BY <1>2, Interchange DEF WordSum, Xor4
<1>4. Xor(Xor(v[1], v[2]), Xor(w[1], w[2])) = Xor(Xor(v[1], w[1]), Xor(v[2], w[2]))
  BY <1>1, Interchange
<1>5. Xor(Xor(v[3], v[4]), Xor(w[3], w[4])) = Xor(Xor(v[3], w[3]), Xor(v[4], w[4]))
  BY <1>1, Interchange
<1>6. WordSum(WordXor(v, w)) = Xor(Xor(Xor(v[1], w[1]), Xor(v[2], w[2])),
                                 Xor(Xor(v[3], w[3]), Xor(v[4], w[4])))
  BY DEF WordSum, WordXor, Xor4
<1> QED BY <1>2, <1>3, <1>4, <1>5, <1>6 DEF WordXor, Word

\* The sum of the rows of a square is the sum of its columns.
LEMMA RowsAndColumns ==
  ASSUME XorFits, NEW a \in Word, NEW b \in Word, NEW c \in Word, NEW d \in Word
  PROVE Xor4(WordSum(a), WordSum(b), WordSum(c), WordSum(d)) =
          Xor4(Xor4(a[1], b[1], c[1], d[1]), Xor4(a[2], b[2], c[2], d[2]),
               Xor4(a[3], b[3], c[3], d[3]), Xor4(a[4], b[4], c[4], d[4]))
<1>1. /\ WordXor(a, b) \in Word /\ WordXor(c, d) \in Word
      /\ Xor(WordSum(a), WordSum(b)) = WordSum(WordXor(a, b))
      /\ Xor(WordSum(c), WordSum(d)) = WordSum(WordXor(c, d))
  BY SumOfWords
<1>2. Xor(WordSum(WordXor(a, b)), WordSum(WordXor(c, d))) =
        WordSum(WordXor(WordXor(a, b), WordXor(c, d)))
  BY <1>1, SumOfWords
<1>3. WordSum(WordXor(WordXor(a, b), WordXor(c, d))) =
          Xor4(Xor4(a[1], b[1], c[1], d[1]), Xor4(a[2], b[2], c[2], d[2]),
               Xor4(a[3], b[3], c[3], d[3]), Xor4(a[4], b[4], c[4], d[4]))
  BY DEF WordSum, WordXor, Xor4
<1> QED BY <1>1, <1>2, <1>3 DEF Xor4

-----------------------------------------------------------------------------
(* Mixing columns *)

\* A factor may be taken into a sum of four.
LEMMA ProductOfSum ==
  ASSUME XorFits, ProductsFit, NEW m \in Factors,
         NEW a \in Byte, NEW b \in Byte, NEW c \in Byte, NEW d \in Byte
  PROVE mul(Xor4(a, b, c, d), m) = Xor4(mul(a, m), mul(b, m), mul(c, m), mul(d, m))
<1>1. Xor(a, b) \in Byte /\ Xor(c, d) \in Byte
  BY XorGroup
<1> QED BY <1>1 DEF ProductsFit, Xor4

\* The products of mix_columns, and the bytes it computes, are bytes.
LEMMA MixTypes ==
  ASSUME XorFits, ProductsFit,
         NEW a \in Byte, NEW b \in Byte, NEW c \in Byte, NEW d \in Byte
  PROVE mul2(a) \in Byte /\ Thrice(a) \in Byte /\ MixByte(a, b, c, d) \in Byte
<1>1. mul2(a) \in Byte /\ mul2(b) \in Byte
  BY DEF ProductsFit
<1>2. Thrice(a) \in Byte /\ Thrice(b) \in Byte
  BY <1>1, XorGroup DEF Thrice
<1> QED BY <1>1, <1>2, Xor4Type DEF MixByte

\* inv_mix_columns finds the first byte of a word again, from the four bytes
\* mix_columns makes of the word.
LEMMA ByteUnmixed ==
  ASSUME XorFits, ProductsFit,
         NEW v0 \in Byte, NEW v1 \in Byte, NEW v2 \in Byte, NEW v3 \in Byte
  PROVE InvMixByte(MixByte(v0, v1, v2, v3), MixByte(v1, v2, v3, v0),
                   MixByte(v2, v3, v0, v1), MixByte(v3, v0, v1, v2)) = v0
<1>1. /\ mul2(v0) \in Byte /\ mul2(v1) \in Byte /\ mul2(v2) \in Byte /\ mul2(v3) \in Byte
      /\ Thrice(v0) \in Byte /\ Thrice(v1) \in Byte /\ Thrice(v2) \in Byte /\ Thrice(v3) \in Byte
  BY MixTypes
<1>2. 9 \in Factors /\ 11 \in Factors /\ 13 \in Factors /\ 14 \in Factors
  BY DEF Factors
<1>3. mul(MixByte(v0, v1, v2, v3), 14) =
        Xor4(mul(mul2(v0), 14), mul(Thrice(v1), 14), mul(v2, 14), mul(v3, 14))
  BY <1>1, <1>2, ProductOfSum DEF MixByte
<1>4. mul(MixByte(v1, v2, v3, v0), 11) =
        Xor4(mul(v0, 11), mul(mul2(v1), 11), mul(Thrice(v2), 11), mul(v3, 11))
  BY <1>1, <1>2, ProductOfSum, Xor4Rotated DEF MixByte
<1>5. mul(MixByte(v2, v3, v0, v1), 13) =
        Xor4(mul(v0, 13), mul(v1, 13), mul(mul2(v2), 13), mul(Thrice(v3), 13))
  <2>1. MixByte(v2, v3, v0, v1) = Xor4(v0, v1, mul2(v2), Thrice(v3))
    <3>1. Xor4(mul2(v2), Thrice(v3), v0, v1) = Xor4(v1, mul2(v2), Thrice(v3), v0)
      BY <1>1, Xor4Rotated
    <3>2. Xor4(v1, mul2(v2), Thrice(v3), v0) = Xor4(v0, v1, mul2(v2), Thrice(v3))
      BY <1>1, Xor4Rotated
    <3> QED BY <3>1, <3>2 DEF MixByte
  <2> QED BY <1>1, <1>2, <2>1, ProductOfSum
<1>6. mul(MixByte(v3, v0, v1, v2), 9) =
        Xor4(mul(Thrice(v0), 9), mul(v1, 9), mul(v2, 9), mul(mul2(v3), 9))
  <2>1. MixByte(v3, v0, v1, v2) = Xor4(Thrice(v0), v1, v2, mul2(v3))
    BY <1>1, Xor4Rotated DEF MixByte
  <2> QED BY <1>1, <1>2, <2>1, ProductOfSum
<1>7. \A b \in Byte, m \in Factors : mul(b, m) \in Byte
  BY DEF ProductsFit
<1>8. InvMixByte(MixByte(v0, v1, v2, v3), MixByte(v1, v2, v3, v0),
                 MixByte(v2, v3, v0, v1), MixByte(v3, v0, v1, v2)) =
        Xor4(Xor4(mul(mul2(v0), 14), mul(v0, 11), mul(v0, 13), mul(Thrice(v0), 9)),
             Xor4(mul(Thrice(v1), 14), mul(mul2(v1), 11), mul(v1, 13), mul(v1, 9)),
             Xor4(mul(v2, 14), mul(Thrice(v2), 11), mul(mul2(v2), 13), mul(v2, 9)),
             Xor4(mul(v3, 14), mul(v3, 11), mul(Thrice(v3), 13), mul(mul2(v3), 9)))
  <2>1. /\ mul(mul2(v0), 14) \in Byte /\ mul(Thrice(v1), 14) \in Byte
        /\ mul(v2, 14) \in Byte /\ mul(v3, 14) \in Byte
        /\ mul(v0, 11) \in Byte /\ mul(mul2(v1), 11) \in Byte
        /\ mul(Thrice(v2), 11) \in Byte /\ mul(v3, 11) \in Byte
        /\ mul(v0, 13) \in Byte /\ mul(v1, 13) \in Byte
        /\ mul(mul2(v2), 13) \in Byte /\ mul(Thrice(v3), 13) \in Byte
        /\ mul(Thrice(v0), 9) \in Byte /\ mul(v1, 9) \in Byte
        /\ mul(v2, 9) \in Byte /\ mul(mul2(v3), 9) \in Byte
    BY <1>1, <1>2, <1>7
  <2> DEFINE a == <<mul(mul2(v0), 14), mul(Thrice(v1), 14), mul(v2, 14), mul(v3, 14)>>
             b == <<mul(v0, 11), mul(mul2(v1), 11), mul(Thrice(v2), 11), mul(v3, 11)>>
             c == <<mul(v0, 13), mul(v1, 13), mul(mul2(v2), 13), mul(Thrice(v3), 13)>>
             d == <<mul(Thrice(v0), 9), mul(v1, 9), mul(v2, 9), mul(mul2(v3), 9)>>
  <2>2. a \in Word /\ b \in Word /\ c \in Word /\ d \in Word
    BY <2>1 DEF Word
  <2>3. InvMixByte(MixByte(v0, v1, v2, v3), MixByte(v1, v2, v3, v0),
                   MixByte(v2, v3, v0, v1), MixByte(v3, v0, v1, v2)) =
          Xor4(WordSum(a), WordSum(b), WordSum(c), WordSum(d))
    BY <1>3, <1>4, <1>5, <1>6 DEF InvMixByte, WordSum
  <2>4. Xor4(WordSum(a), WordSum(b), WordSum(c), WordSum(d)) =
          Xor4(Xor4(a[1], b[1], c[1], d[1]), Xor4(a[2], b[2], c[2], d[2]),
               Xor4(a[3], b[3], c[3], d[3]), Xor4(a[4], b[4], c[4], d[4]))
    <3> HIDE DEF a, b, c, d
    <3> QED BY <2>2, RowsAndColumns
  <2> QED BY <2>3, <2>4
<1>9. @ = Xor4(v0, 0, 0, 0)
  BY DEF ProductsFit, MatricesFit
<1>10. Xor4(v0, 0, 0, 0) = v0
  <2>1. 0 \in Byte
    BY DEF Byte
  <2> QED BY <2>1, XorGroup DEF Xor4
<1> QED BY <1>8, <1>9, <1>10

\* inv_mix_columns undoes mix_columns.
LEMMA ColumnsUndone ==
  ASSUME XorFits, ProductsFit, NEW s \in Block
  PROVE mix_columns(s) \in Block /\ inv_mix_columns(mix_columns(s)) = s
<1> DEFINE At(p, k) == 4 * (p \div 4) + ((p + k) % 4)
<1>1. ASSUME NEW p \in Place, NEW k \in 0..3
      PROVE At(p, k) \in Place
  BY DEF Place
<1>2. ASSUME NEW p \in Place
      PROVE /\ At(p, 0) = p
            /\ At(At(p, 1), 0) = At(p, 1) /\ At(At(p, 1), 1) = At(p, 2)
            /\ At(At(p, 1), 2) = At(p, 3) /\ At(At(p, 1), 3) = At(p, 0)
            /\ At(At(p, 2), 0) = At(p, 2) /\ At(At(p, 2), 1) = At(p, 3)
            /\ At(At(p, 2), 2) = At(p, 0) /\ At(At(p, 2), 3) = At(p, 1)
            /\ At(At(p, 3), 0) = At(p, 3) /\ At(At(p, 3), 1) = At(p, 0)
            /\ At(At(p, 3), 2) = At(p, 1) /\ At(At(p, 3), 3) = At(p, 2)
  BY DEF Place
<1>3. mix_columns(s) = [p \in Place |->
        MixByte(s[At(p, 0)], s[At(p, 1)], s[At(p, 2)], s[At(p, 3)])]
  BY DEF mix_columns, Mixed
<1>4. inv_mix_columns(mix_columns(s)) = [p \in Place |->
        InvMixByte(mix_columns(s)[At(p, 0)], mix_columns(s)[At(p, 1)],
                   mix_columns(s)[At(p, 2)], mix_columns(s)[At(p, 3)])]
  BY DEF inv_mix_columns, Mixed
<1> HIDE DEF At
<1>5. \A p \in Place, k \in 0..3 : s[At(p, k)] \in Byte
  BY <1>1 DEF Block
<1>6. mix_columns(s) \in Block
  <2>1. ASSUME NEW p \in Place
        PROVE MixByte(s[At(p, 0)], s[At(p, 1)], s[At(p, 2)], s[At(p, 3)]) \in Byte
    <3>1. /\ s[At(p, 0)] \in Byte /\ s[At(p, 1)] \in Byte
          /\ s[At(p, 2)] \in Byte /\ s[At(p, 3)] \in Byte
      BY <1>5
    <3> QED BY <3>1, MixTypes
  <2> QED BY <1>3, <2>1 DEF Block
<1>7. ASSUME NEW p \in Place
      PROVE inv_mix_columns(mix_columns(s))[p] = s[p]
  <2> DEFINE v0 == s[At(p, 0)]
             v1 == s[At(p, 1)]
             v2 == s[At(p, 2)]
             v3 == s[At(p, 3)]
  <2>1. At(p, 0) \in Place /\ At(p, 1) \in Place /\ At(p, 2) \in Place /\ At(p, 3) \in Place
    BY <1>1
  <2>2. /\ mix_columns(s)[At(p, 0)] = MixByte(v0, v1, v2, v3)
        /\ mix_columns(s)[At(p, 1)] = MixByte(v1, v2, v3, v0)
        /\ mix_columns(s)[At(p, 2)] = MixByte(v2, v3, v0, v1)
        /\ mix_columns(s)[At(p, 3)] = MixByte(v3, v0, v1, v2)
    BY <1>2, <1>3, <2>1
  <2>3. v0 \in Byte /\ v1 \in Byte /\ v2 \in Byte /\ v3 \in Byte
    BY <1>5
  <2> HIDE DEF v0, v1, v2, v3
  <2>4. inv_mix_columns(mix_columns(s))[p] = v0
    BY <1>4, <2>2, <2>3, ByteUnmixed
  <2> QED BY <1>2, <2>4 DEF v0
<1>8. DOMAIN inv_mix_columns(mix_columns(s)) = Place
  BY <1>4
<1>9. inv_mix_columns(mix_columns(s)) = [p \in Place |-> inv_mix_columns(mix_columns(s))[p]]
  BY <1>4
<1> QED BY <1>6, <1>7, <1>9 DEF Block

-----------------------------------------------------------------------------
(* The passes of the cipher *)

\* A round key added twice changes nothing.
LEMMA KeyUndone ==
  ASSUME XorFits, NEW key \in Block, NEW s \in Block
  PROVE add_round_key(key, s) \in Block /\ add_round_key(key, add_round_key(key, s)) = s
<1>1. ASSUME NEW p \in Place
      PROVE Xor(s[p], key[p]) \in Byte /\ Xor(Xor(s[p], key[p]), key[p]) = s[p]
  <2>1. s[p] \in Byte /\ key[p] \in Byte
    BY DEF Block
  <2> QED BY <2>1, XorGroup
<1> QED BY <1>1 DEF add_round_key, Block

\* inv_sub_bytes undoes sub_bytes.
LEMMA BytesUndone ==
  ASSUME TablesInvert, NEW s \in Block
  PROVE sub_bytes(s) \in Block /\ inv_sub_bytes(sub_bytes(s)) = s
BY DEF TablesInvert, sub_bytes, inv_sub_bytes, Block, Place

\* inv_shift_rows undoes shift_rows.
LEMMA RowsUndone ==
  ASSUME NEW s \in Block
  PROVE shift_rows(s) \in Block /\ inv_shift_rows(shift_rows(s)) = s
<1>1. \A p \in Place : (p + 4 * (p % 4)) % 16 \in Place
  BY DEF Place
<1>2. \A p \in Place : (p + 16 - 4 * (p % 4)) % 16 \in Place
  BY DEF Place
<1>3. \A p \in Place : LET q == (p + 16 - 4 * (p % 4)) % 16
                       IN (q + 4 * (q % 4)) % 16 = p
  BY DEF Place
<1>4. shift_rows(s) \in Block
  BY <1>1 DEF shift_rows, Block
<1>5. \A p \in Place : inv_shift_rows(shift_rows(s))[p] = s[p]
  BY <1>1, <1>2, <1>3 DEF shift_rows, inv_shift_rows
<1> QED BY <1>4, <1>5 DEF inv_shift_rows, Block

\* Each pass of decrypt_state undoes the pass of encrypt_state that used the
\* same round key; the passes around the loop undo one another as well.
THEOREM PassesUndone ==
  ASSUME TablesFit, NEW key \in Block, NEW s \in Block
  PROVE /\ DecryptRound(key, EncryptRound(key, s)) = s
        /\ DecryptFirst(key, EncryptLast(key, s)) = s
        /\ add_round_key(key, add_round_key(key, s)) = s
<1> USE DEF TablesFit
<1>1. sub_bytes(s) \in Block /\ inv_sub_bytes(sub_bytes(s)) = s
  BY BytesUndone
<1>2. shift_rows(sub_bytes(s)) \in Block
      /\ inv_shift_rows(shift_rows(sub_bytes(s))) = sub_bytes(s)
  BY <1>1, RowsUndone
<1>3. DecryptFirst(key, EncryptLast(key, s)) = s
  BY <1>1, <1>2, KeyUndone DEF DecryptFirst, EncryptLast
<1>4. DecryptRound(key, EncryptRound(key, s)) = s
  <2> DEFINE t == mix_columns(shift_rows(sub_bytes(s)))
  <2>1. t \in Block /\ inv_mix_columns(t) = shift_rows(sub_bytes(s))
    BY <1>2, ColumnsUndone
  <2> HIDE DEF t
  <2>2. add_round_key(key, add_round_key(key, t)) = t
    BY <2>1, KeyUndone
  <2> QED BY <1>1, <1>2, <2>1, <2>2 DEF DecryptRound, EncryptRound, t
<1> QED BY <1>3, <1>4, KeyUndone

-----------------------------------------------------------------------------
(* Whole blocks *)

\* The passes of encryption turn blocks into blocks.
LEMMA PassTypes ==
  ASSUME TablesFit, NEW key \in Block, NEW s \in Block
  PROVE  EncryptRound(key, s) \in Block /\ EncryptLast(key, s) \in Block
<1> USE DEF TablesFit
<1>1. sub_bytes(s) \in Block
  BY BytesUndone
<1>2. shift_rows(sub_bytes(s)) \in Block
  BY <1>1, RowsUndone
<1>3. mix_columns(shift_rows(sub_bytes(s))) \in Block
  BY <1>2, ColumnsUndone
<1> QED BY <1>2, <1>3, KeyUndone DEF EncryptRound, EncryptLast

\* Evaluated changes how TLC computes a state, not the state.
LEMMA EvaluatedSame ==
  ASSUME NEW s \in Block
  PROVE  Evaluated(s) = s
<1> DEFINE bytes == [k \in 1..16 |-> s[k - 1]]
<1>1. bytes \in Seq(Byte) /\ Len(bytes) = 16 /\ \A p \in Place : bytes[p + 1] = s[p]
  BY DEF Block, Place
<1>2. bytes \o <<>> = bytes
  <2> HIDE DEF bytes
  <2> QED BY <1>1
<1> QED BY <1>1, <1>2 DEF Evaluated, Block

\* The states of encryption exist and are blocks: each follows from the one before.
LEMMA EncryptionStates ==
  ASSUME TablesFit, NEW last \in Nat \ {0}, NEW rkeys \in [0..last -> Block], NEW data \in Block
  PROVE  LET e == Encryption(rkeys, last, data)
         IN /\ e \in [0..(last - 1) -> Block]
            /\ e[0] = add_round_key(rkeys[0], data)
            /\ \A i \in 1..(last - 1) : e[i] = EncryptRound(rkeys[i], e[i - 1])
<1> DEFINE n == last - 1
           First == add_round_key(rkeys[0], data)
           Step(i, s) == EncryptRound(rkeys[i], s)
           Chain(k, f) == /\ f \in [0..k -> Block] /\ f[0] = First
                          /\ \A i \in 1..k : f[i] = Step(i, f[i - 1])
           States(f) == [i \in 0..n |-> Evaluated(IF i = 0 THEN First ELSE Step(i, f[i - 1]))]
<1>1. n \in Nat /\ First \in Block
  <2>1. rkeys[0] \in Block
    OBVIOUS
  <2> QED BY <2>1, KeyUndone DEF TablesFit
<1>2. \A i \in 1..n : \A s \in Block : Step(i, s) \in Block
  <2> SUFFICES ASSUME NEW i \in 1..n, NEW s \in Block PROVE Step(i, s) \in Block
    OBVIOUS
  <2>1. rkeys[i] \in Block
    OBVIOUS
  <2> QED BY <2>1, PassTypes
<1>3. Encryption(rkeys, last, data) = CHOOSE f : f = States(f)
  BY DEF Encryption
<1> HIDE DEF n, First, Step
<1>4. \E f : Chain(n, f)
  <2> DEFINE G == {k \in 0..n : \E f : Chain(k, f)}
  <2>1. 0 \in G
    <3> DEFINE f == [i \in 0..0 |-> First]
    <3>1. Chain(0, f)
      BY <1>1
    <3> HIDE DEF f, Chain
    <3> QED BY <1>1, <3>1
  <2>2. ASSUME NEW k \in 0..(n - 1), k \in G
        PROVE  k + 1 \in G
    <3>1. PICK f : Chain(k, f)
      BY <2>2
    <3> DEFINE g == [i \in 0..(k + 1) |-> IF i = k + 1 THEN Step(k + 1, f[k]) ELSE f[i]]
    <3>2. k \in Nat /\ k + 1 \in 1..n /\ k \in 0..k
      BY <1>1
    <3>3. Step(k + 1, f[k]) \in Block
      <4>1. f[k] \in Block
        BY <3>1, <3>2
      <4> QED BY <1>2, <3>2, <4>1
    <3>4. g \in [0..(k + 1) -> Block] /\ g[0] = First
      BY <3>1, <3>2, <3>3
    <3>5. ASSUME NEW i \in 1..(k + 1) PROVE g[i] = Step(i, g[i - 1])
      <4>1. CASE i = k + 1
        <5>1. i - 1 = k /\ k \in 0..(k + 1) /\ k # k + 1
          BY <3>2, <4>1
        <5>2. g[i - 1] = f[k] /\ g[i] = Step(k + 1, f[k])
          BY <5>1, <4>1
        <5> QED BY <5>2, <4>1
      <4>2. CASE i # k + 1
        <5>1. i \in 1..k /\ i \in 0..(k + 1) /\ i - 1 \in 0..(k + 1) /\ i - 1 # k + 1
          BY <3>2, <4>2
        <5>2. g[i] = f[i] /\ g[i - 1] = f[i - 1]
          BY <5>1, <4>2
        <5> QED BY <3>1, <5>1, <5>2
      <4> QED BY <4>1, <4>2
    <3>6. Chain(k + 1, g)
      BY <3>4, <3>5
    <3>7. k + 1 \in 0..n
      BY <3>2
    <3> QED BY <3>6, <3>7
  <2> HIDE DEF G
  <2>3. 0..n \subseteq G
    BY <1>1, <2>1, <2>2, UpTo
  <2>4. n \in G
    BY <1>1, <2>3
  <2> QED BY <2>4 DEF G
<1>5. \E f : f = States(f)
  <2>1. PICK f : Chain(n, f)
    BY <1>4
  <2>2. ASSUME NEW i \in 0..n
        PROVE  f[i] = Evaluated(IF i = 0 THEN First ELSE Step(i, f[i - 1]))
    <3>1. f[i] = IF i = 0 THEN First ELSE Step(i, f[i - 1])
      BY <1>1, <2>1
    <3>2. f[i] \in Block
      BY <2>1
    <3> QED BY <3>1, <3>2, EvaluatedSame
  <2>3. f = States(f)
    BY <2>1, <2>2
  <2> QED BY <2>3
<1> DEFINE e == CHOOSE f : f = States(f)
<1>6. e = States(e)
  <2> HIDE DEF States
  <2> QED BY <1>5
<1> HIDE DEF e
<1>7. \A i \in 0..n : e[i] \in Block
  <2> DEFINE G == {i \in 0..n : e[i] \in Block}
  <2>1. 0 \in G
    <3>1. e[0] = Evaluated(First)
      BY <1>1, <1>6
    <3> QED BY <1>1, <3>1, EvaluatedSame
  <2>2. ASSUME NEW i \in 0..(n - 1), i \in G
        PROVE  i + 1 \in G
    <3>1. i + 1 \in 1..n /\ i + 1 \in 0..n /\ i + 1 # 0 /\ (i + 1) - 1 = i
      BY <1>1
    <3>2. e[i + 1] = Evaluated(Step(i + 1, e[i]))
      BY <1>6, <3>1
    <3>3. Step(i + 1, e[i]) \in Block
      BY <1>2, <2>2, <3>1
    <3> QED BY <3>1, <3>2, <3>3, EvaluatedSame
  <2> HIDE DEF G
  <2>3. 0..n \subseteq G
    BY <1>1, <2>1, <2>2, UpTo
  <2> QED BY <2>3 DEF G
<1>8. e[0] = First
  <2>1. e[0] = Evaluated(First)
    BY <1>1, <1>6
  <2> QED BY <1>1, <2>1, EvaluatedSame
<1>9. ASSUME NEW i \in 1..n PROVE e[i] = Step(i, e[i - 1])
  <2>1. i \in 0..n /\ i - 1 \in 0..n /\ i # 0
    BY <1>1
  <2>2. e[i] = Evaluated(Step(i, e[i - 1]))
    BY <1>6, <2>1
  <2>3. Step(i, e[i - 1]) \in Block
    BY <1>2, <1>7, <2>1
  <2> QED BY <2>2, <2>3, EvaluatedSame
<1>10. e \in [0..n -> Block]
  BY <1>6, <1>7
<1>11. Encryption(rkeys, last, data) = e
  BY <1>3 DEF e
<1> QED BY <1>8, <1>9, <1>10, <1>11 DEF n, First, Step

\* The states of decryption are those of encryption.
LEMMA DecryptionStates ==
  ASSUME TablesFit, NEW last \in Nat \ {0}, NEW rkeys \in [0..last -> Block], NEW data \in Block
  PROVE  LET e == Encryption(rkeys, last, data)
         IN Decryption(rkeys, last, EncryptLast(rkeys[last], e[last - 1])) = e
<1> DEFINE n == last - 1
           e == Encryption(rkeys, last, data)
           First == DecryptFirst(rkeys[last], EncryptLast(rkeys[last], e[n]))
           Step(i, s) == DecryptRound(rkeys[i + 1], s)
           States(f) == [i \in 0..n |-> Evaluated(IF i = n THEN First ELSE Step(i, f[i + 1]))]
<1>1. /\ n \in Nat /\ e \in [0..n -> Block]
      /\ \A i \in 1..n : e[i] = EncryptRound(rkeys[i], e[i - 1])
  <2>1. n \in Nat
    OBVIOUS
  <2> HIDE DEF e
  <2>2. /\ e \in [0..n -> Block]
        /\ \A i \in 1..n : e[i] = EncryptRound(rkeys[i], e[i - 1])
    <3> HIDE DEF n
    <3> QED BY EncryptionStates DEF e, n
  <2> QED BY <2>1, <2>2
<1>2. First = e[n]
  <2>1. rkeys[last] \in Block /\ e[n] \in Block
    BY <1>1
  <2> QED BY <2>1, PassesUndone
<1>3. ASSUME NEW i \in 0..n, i # n PROVE Step(i, e[i + 1]) = e[i]
  <2>1. i + 1 \in 1..n /\ (i + 1) - 1 = i
    BY <1>1, <1>3
  <2>2. e[i + 1] = EncryptRound(rkeys[i + 1], e[i])
    <3> HIDE DEF n, e
    <3> QED BY <1>1, <2>1
  <2>3. rkeys[i + 1] \in Block /\ e[i] \in Block
    BY <1>1, <2>1
  <2> QED BY <2>2, <2>3, PassesUndone
<1>4. Decryption(rkeys, last, EncryptLast(rkeys[last], e[n])) = CHOOSE f : f = States(f)
  BY DEF Decryption
<1> HIDE DEF n, e, First, Step
<1>5. e = States(e)
  <2>1. ASSUME NEW i \in 0..n
        PROVE  e[i] = Evaluated(IF i = n THEN First ELSE Step(i, e[i + 1]))
    <3>1. e[i] \in Block
      BY <1>1
    <3> QED BY <1>2, <1>3, <3>1, EvaluatedSame
  <2> QED BY <1>1, <2>1
<1> DEFINE d == CHOOSE f : f = States(f)
<1>6. d = States(d)
  <2> HIDE DEF States
  <2> QED BY <1>5
<1> HIDE DEF d
<1>7. \A i \in 0..n : d[i] = e[i]
  <2> DEFINE G == {k \in 0..n : d[n - k] = e[n - k]}
  <2>1. 0 \in G
    <3>1. d[n] = Evaluated(First)
      BY <1>1, <1>6
    <3>2. e[n] \in Block
      BY <1>1
    <3> QED BY <1>1, <1>2, <3>1, <3>2, EvaluatedSame
  <2>2. ASSUME NEW k \in 0..(n - 1), k \in G
        PROVE  k + 1 \in G
    <3> DEFINE i == n - (k + 1)
    <3>1. i \in 0..n /\ i # n /\ i + 1 = n - k /\ k + 1 \in 0..n
      BY <1>1
    <3>2. d[i] = Evaluated(Step(i, d[i + 1]))
      BY <1>6, <3>1
    <3>3. d[i + 1] = e[i + 1]
      BY <2>2, <3>1
    <3>4. e[i] \in Block
      BY <1>1, <3>1
    <3>5. d[i] = e[i]
      BY <1>3, <3>1, <3>2, <3>3, <3>4, EvaluatedSame
    <3> QED BY <3>1, <3>5
  <2> HIDE DEF G
  <2>3. 0..n \subseteq G
    BY <1>1, <2>1, <2>2, UpTo
  <2>4. ASSUME NEW i \in 0..n PROVE d[i] = e[i]
    <3>1. n - i \in 0..n /\ n - (n - i) = i
      BY <1>1
    <3> QED BY <2>3, <3>1 DEF G
  <2> QED BY <2>4
<1>8. d = e
  <2>1. DOMAIN d = 0..n /\ d = [i \in 0..n |-> d[i]]
    BY <1>6
  <2> QED BY <1>1, <1>7, <2>1
<1> QED BY <1>4, <1>8 DEF d, e, n

\* Every block is read back, for every number of rounds and every round keys: the
\* loops of decrypt_state go through the states of encrypt_state, backwards.
THEOREM BlocksReadBack ==
  ASSUME TablesFit, NEW last \in Nat \ {0}, NEW rkeys \in [0..last -> Block], NEW data \in Block
  PROVE  /\ EncryptState(rkeys, last, data) \in Block
         /\ DecryptState(rkeys, last, EncryptState(rkeys, last, data)) = data
<1> DEFINE e == Encryption(rkeys, last, data)
<1>1. /\ e \in [0..(last - 1) -> Block]
      /\ e[0] = add_round_key(rkeys[0], data)
  BY EncryptionStates
<1>2. Decryption(rkeys, last, EncryptLast(rkeys[last], e[last - 1])) = e
  BY DecryptionStates
<1>3. rkeys[0] \in Block /\ rkeys[last] \in Block /\ e[last - 1] \in Block
  BY <1>1
<1>4. EncryptState(rkeys, last, data) \in Block
  BY <1>3, PassTypes DEF EncryptState
<1>5. DecryptState(rkeys, last, EncryptState(rkeys, last, data)) = add_round_key(rkeys[0], e[0])
  BY <1>2 DEF DecryptState, EncryptState
<1> QED BY <1>1, <1>3, <1>4, <1>5, PassesUndone

-----------------------------------------------------------------------------
(* The round keys *)

AllWords(size) == 4 * (get_round_count(size) + 1)

\* The sizes of keys, in words and rounds: rcon has an entry for every pass.
LEMMA KeySizes ==
  ASSUME NEW size, is_valid_key_size(size)
  PROVE  LET nk == size \div 4
         IN /\ size \in Nat /\ nk \in {4, 6, 8} /\ size = 4 * nk
            /\ get_round_count(size) \in Nat \ {0}
            /\ AllWords(size) \in Nat /\ nk <= AllWords(size)
            /\ \A i \in Nat : nk <= i /\ i < AllWords(size) => i \div nk \in 1..10
<1>1. CASE size = 16
  <2>1. get_round_count(size) = 10 /\ AllWords(size) = 44 /\ size \div 4 = 4
    BY <1>1 DEF get_round_count, AllWords
  <2> QED BY <1>1, <2>1
<1>2. CASE size = 24
  <2>1. get_round_count(size) = 12 /\ AllWords(size) = 52 /\ size \div 4 = 6
    BY <1>2 DEF get_round_count, AllWords
  <2> QED BY <1>2, <2>1
<1>3. CASE size = 32
  <2>1. get_round_count(size) = 14 /\ AllWords(size) = 60 /\ size \div 4 = 8
    BY <1>3 DEF get_round_count, AllWords
  <2> QED BY <1>3, <2>1
<1> QED BY <1>1, <1>2, <1>3 DEF is_valid_key_size

\* The operations on words yield words.
LEMMA WordTypes ==
  ASSUME TablesInvert, XorFits, NEW v \in Word, NEW w \in Word
  PROVE  WordXor(v, w) \in Word /\ sub_word(w) \in Word /\ rot_word(w) \in Word
<1>1. /\ v[1] \in Byte /\ v[2] \in Byte /\ v[3] \in Byte /\ v[4] \in Byte
      /\ w[1] \in Byte /\ w[2] \in Byte /\ w[3] \in Byte /\ w[4] \in Byte
  BY DEF Word
<1>2. sub_word(w) \in Word
  BY <1>1 DEF sub_word, Word, TablesInvert
<1>3. rot_word(w) \in Word
  BY <1>1 DEF rot_word, Word
<1> QED BY <1>2, <1>3, SumOfWords

\* A word follows as long as rcon lasts.
LEMMA NextWordType ==
  ASSUME TablesInvert, XorFits, NEW nk \in Nat \ {0}, NEW w \in Seq(Word),
         nk <= Len(w), Len(w) \div nk \in 1..10
  PROVE  NextWord(w, nk) \in Word
<1> DEFINE n == Len(w)
           t == w[n]
<1>1. t \in Word /\ w[n - nk + 1] \in Word
  OBVIOUS
<1>2. <<rcon[n \div nk], 0, 0, 0>> \in Word
  <2>1. rcon[n \div nk] \in Byte
    <3>1. /\ rcon[1] \in Byte /\ rcon[2] \in Byte /\ rcon[3] \in Byte /\ rcon[4] \in Byte
          /\ rcon[5] \in Byte /\ rcon[6] \in Byte /\ rcon[7] \in Byte /\ rcon[8] \in Byte
          /\ rcon[9] \in Byte /\ rcon[10] \in Byte
      BY DEF rcon, Byte
    <3> DEFINE i == n \div nk
    <3>2. \/ i = 1 \/ i = 2 \/ i = 3 \/ i = 4 \/ i = 5
          \/ i = 6 \/ i = 7 \/ i = 8 \/ i = 9 \/ i = 10
      OBVIOUS
    <3> HIDE DEF i
    <3> QED BY <3>1, <3>2 DEF i
  <2>2. 0 \in Byte
    BY DEF Byte
  <2> DEFINE r == rcon[n \div nk]
  <2> HIDE DEF r
  <2>3. <<r, 0, 0, 0>> \in Word
    BY <2>1, <2>2 DEF Word, r
  <2> QED BY <2>3 DEF r
<1> HIDE DEF t, n
<1>3. WordXor(sub_word(rot_word(t)), <<rcon[n \div nk], 0, 0, 0>>) \in Word
  BY <1>1, <1>2, WordTypes
<1>4. Follows(t, n, nk) \in Word
  <2>1. sub_word(t) \in Word
    BY <1>1, WordTypes
  <2> QED BY <1>1, <1>3, <2>1 DEF Follows
<1>5. WordXor(Follows(t, n, nk), w[n - nk + 1]) \in Word
  BY <1>1, <1>4, WordTypes
<1> QED BY <1>5 DEF NextWord, t, n

\* The words of a key, one longer at each step; all of them are words.
LEMMA WordsType ==
  ASSUME TablesInvert, XorFits, NEW key \in Seq(Byte), is_valid_key_size(Len(key))
  PROVE  Words(key) \in Seq(Word) /\ Len(Words(key)) = AllWords(Len(key))
<1> DEFINE size == Len(key)
           nk == size \div 4
           more == 4 * (get_round_count(size) + 1) - nk
           Own == [k \in 1..nk |-> <<key[4 * k - 3], key[4 * k - 2], key[4 * k - 1], key[4 * k]>>]
           Longer(s) == Append(s, NextWord(s, nk))
           States(f) == [i \in 0..more |-> IF i = 0 THEN Own ELSE Longer(f[i - 1])]
           Val == {s \in Seq(Word) : nk <= Len(s)}
           step == [i \in 1..more |->
                      [s \in Val |-> IF Len(s) < AllWords(size) THEN Longer(s) ELSE s]]
           value == CHOOSE f : f = States(f)
<1>1. /\ nk \in Nat \ {0} /\ size = 4 * nk /\ more \in Nat /\ nk + more = AllWords(size)
      /\ \A i \in Nat : nk <= i /\ i < AllWords(size) => i \div nk \in 1..10
  <2>1. /\ size \in Nat /\ nk \in {4, 6, 8} /\ size = 4 * nk
        /\ AllWords(size) \in Nat /\ nk <= AllWords(size)
        /\ \A i \in Nat : nk <= i /\ i < AllWords(size) => i \div nk \in 1..10
    BY KeySizes
  <2>2. more = AllWords(size) - nk
    BY DEF AllWords
  <2> HIDE DEF size, nk, more
  <2>3. nk \in Nat \ {0} /\ more \in Nat /\ nk + more = AllWords(size)
    <3>1. /\ AllWords(size) \in Nat /\ nk <= AllWords(size)
          /\ (nk = 4 \/ nk = 6 \/ nk = 8)
      BY <2>1
    <3> QED BY <3>1, <2>2
  <2> QED BY <2>1, <2>3
<1>2. Own \in Val /\ Len(Own) = nk
  <2>1. ASSUME NEW k \in 1..nk
        PROVE  <<key[4 * k - 3], key[4 * k - 2], key[4 * k - 1], key[4 * k]>> \in Word
    <3>1. /\ 4 * k - 3 \in 1..size /\ 4 * k - 2 \in 1..size
          /\ 4 * k - 1 \in 1..size /\ 4 * k \in 1..size
      <4> HIDE DEF size, nk, more
      <4> QED BY <1>1
    <3>2. /\ key[4 * k - 3] \in Byte /\ key[4 * k - 2] \in Byte
          /\ key[4 * k - 1] \in Byte /\ key[4 * k] \in Byte
      BY <3>1
    <3> QED BY <3>2 DEF Word
  <2> DEFINE Quad(k) == <<key[4 * k - 3], key[4 * k - 2], key[4 * k - 1], key[4 * k]>>
  <2>2. \A k \in 1..nk : Quad(k) \in Word
    BY <2>1
  <2>3. Own = [k \in 1..nk |-> Quad(k)]
    OBVIOUS
  <2> HIDE DEF size, nk, more, Quad, Own
  <2>4. nk \in Nat
    BY <1>1
  <2> QED BY <2>2, <2>3, <2>4
<1>3. Words(key) = value[more]
  BY DEF Words
<1> HIDE DEF size, nk, more, Own
<1>4. ASSUME NEW s \in Val, Len(s) < AllWords(size)
      PROVE  Longer(s) \in Val /\ Len(Longer(s)) = Len(s) + 1
  <2>1. s \in Seq(Word) /\ nk <= Len(s) /\ Len(s) \in Nat
    OBVIOUS
  <2>2. Len(s) \div nk \in 1..10
    BY <1>1, <1>4, <2>1
  <2>3. NextWord(s, nk) \in Word
    BY <1>1, <2>1, <2>2, NextWordType
  <2>4. Longer(s) \in Seq(Word) /\ Len(Longer(s)) = Len(s) + 1
    BY <2>1, <2>3
  <2>5. nk <= Len(s) + 1
    BY <1>1, <2>1
  <2> QED BY <2>4, <2>5
<1> HIDE DEF Longer
<1>5. step \in Steps(more, Val)
  BY <1>4 DEF Steps
<1>6. PICK f \in [0..more -> Val] : f[0] = Own /\ \A i \in 1..more : f[i] = step[i][f[i - 1]]
  <2> HIDE DEF step, Val
  <2>1. Recursive(more, Val, Own, step) # {}
    BY <1>1, <1>2, <1>5, Recursion
  <2> QED BY <2>1 DEF Recursive
<1>7. ASSUME NEW i \in 0..more PROVE Len(f[i]) = nk + i
  <2> DEFINE G == {k \in 0..more : Len(f[k]) = nk + k}
  <2>1. 0 \in G
    BY <1>1, <1>2, <1>6
  <2>2. ASSUME NEW k \in 0..(more - 1), k \in G PROVE k + 1 \in G
    <3>1. k + 1 \in 1..more /\ k + 1 \in 0..more /\ (k + 1) - 1 = k /\ k \in 0..more
      BY <1>1
    <3>2. f[k] \in Val /\ Len(f[k]) = nk + k /\ Len(f[k]) < AllWords(size)
      <4>1. f[k] \in Val /\ Len(f[k]) = nk + k
        BY <1>6, <2>2, <3>1
      <4>2. nk + k < nk + more
        BY <1>1
      <4> QED BY <1>1, <4>1, <4>2
    <3>3. f[k + 1] = Longer(f[k])
      BY <1>6, <3>1, <3>2
    <3>4. Len(f[k + 1]) = nk + (k + 1)
      <4>1. Len(f[k + 1]) = Len(f[k]) + 1
        BY <1>4, <3>2, <3>3
      <4> QED BY <1>1, <3>2, <4>1
    <3> QED BY <3>1, <3>4
  <2> HIDE DEF G
  <2>3. 0..more \subseteq G
    BY <1>1, <2>1, <2>2, UpTo
  <2> QED BY <2>3 DEF G
<1>8. f = States(f)
  <2>1. ASSUME NEW i \in 0..more PROVE f[i] = IF i = 0 THEN Own ELSE Longer(f[i - 1])
    <3>1. CASE i = 0
      BY <1>6, <3>1
    <3>2. CASE i # 0
      <4>1. i \in 1..more /\ i - 1 \in 0..more
        BY <1>1, <3>2
      <4>2. f[i - 1] \in Val /\ Len(f[i - 1]) < AllWords(size)
        <5>1. Len(f[i - 1]) = nk + (i - 1)
          BY <1>7, <4>1
        <5>2. f[i - 1] \in Val
          BY <1>6, <4>1
        <5>3. nk + (i - 1) < nk + more
          BY <1>1, <4>1
        <5> QED BY <1>1, <5>1, <5>2, <5>3
      <4>3. step[i][f[i - 1]] = Longer(f[i - 1])
        BY <4>1, <4>2
      <4> QED BY <1>6, <3>2, <4>1, <4>3
    <3> QED BY <3>1, <3>2
  <2> HIDE DEF Val, step
  <2> QED BY <1>6, <2>1
<1>9. value = States(value)
  <2> HIDE DEF States
  <2> QED BY <1>8
<1> HIDE DEF value
<1>10. ASSUME NEW i \in 0..more PROVE value[i] = f[i]
  <2> DEFINE G == {k \in 0..more : value[k] = f[k]}
  <2> HIDE DEF Val, step
  <2>1. 0 \in G
    BY <1>1, <1>6, <1>9
  <2>2. ASSUME NEW k \in 0..(more - 1), k \in G PROVE k + 1 \in G
    <3>1. k + 1 \in 0..more /\ (k + 1) - 1 = k /\ k + 1 # 0
      BY <1>1
    <3>2. f[k + 1] = Longer(f[k])
      BY <1>8, <3>1
    <3>3. value[k + 1] = Longer(value[k])
      BY <1>9, <3>1
    <3> QED BY <2>2, <3>1, <3>2, <3>3
  <2> HIDE DEF G
  <2>3. 0..more \subseteq G
    BY <1>1, <2>1, <2>2, UpTo
  <2> QED BY <2>3 DEF G
<1>11. more \in 0..more /\ value[more] \in Seq(Word) /\ Len(value[more]) = AllWords(size)
  <2>1. more \in 0..more
    BY <1>1
  <2>2. value[more] = f[more] /\ Len(f[more]) = nk + more
    BY <1>7, <1>10, <2>1
  <2> QED BY <1>1, <1>6, <2>1, <2>2
<1> QED BY <1>3, <1>11 DEF size

\* The key expansion: a key of any of the three sizes gives as many round keys as
\* the rounds take, and each of them is a block (expand_key, KeyExpands).
THEOREM KeysExpand ==
  ASSUME TablesInvert, XorFits, NEW key \in Seq(Byte), is_valid_key_size(Len(key))
  PROVE  KeyExpands(key)
<1> DEFINE w == Words(key)
           rounds == get_round_count(Len(key))
<1>1. rounds \in Nat /\ AllWords(Len(key)) = 4 * (rounds + 1)
  BY KeySizes DEF AllWords
<1>2. w \in Seq(Word) /\ Len(w) = 4 * (rounds + 1)
  BY <1>1, WordsType
<1>3. expand_key(key) = [n \in 0..rounds |->
                           [p \in Place |-> w[4 * n + (p \div 4) + 1][(p % 4) + 1]]]
  BY DEF expand_key
<1> HIDE DEF w, rounds
<1>4. ASSUME NEW n \in 0..rounds, NEW p \in Place
      PROVE  w[4 * n + (p \div 4) + 1][(p % 4) + 1] \in Byte
  <2>1. p \div 4 \in 0..3 /\ p % 4 \in 0..3
    BY DEF Place
  <2>2. 4 * n + (p \div 4) + 1 \in 1..Len(w)
    <3> DEFINE c == p \div 4
    <3> HIDE DEF c
    <3> QED BY <1>1, <1>2, <2>1 DEF c
  <2>3. ASSUME NEW v \in Word, NEW b \in 0..3 PROVE v[b + 1] \in Byte
    <3>1. v[1] \in Byte /\ v[2] \in Byte /\ v[3] \in Byte /\ v[4] \in Byte
      BY DEF Word
    <3>2. b + 1 = 1 \/ b + 1 = 2 \/ b + 1 = 3 \/ b + 1 = 4
      OBVIOUS
    <3> QED BY <3>1, <3>2
  <2>4. w[4 * n + (p \div 4) + 1] \in Word
    BY <1>2, <2>2
  <2> QED BY <2>1, <2>3, <2>4
<1> QED BY <1>3, <1>4 DEF KeyExpands, Block, rounds

\* The cipher with a key: encrypt_state and decrypt_state on the key's round keys.
CipherOf(key) ==
  \A b \in Block :
    /\ encrypt_state(b) = EncryptState(expand_key(key), get_round_count(Len(key)), b)
    /\ decrypt_state(b) = DecryptState(expand_key(key), get_round_count(Len(key)), b)

\* Every number of a session is read back from its token without an error, with
\* the cipher of lib/plusaes.hpp and any key: the tables and single bytes are all
\* that is left to check value by value.
THEOREM SessionNumbersReadBack ==
  ASSUME TablesFit, NEW key \in Seq(Byte), Len(key) = key_size, is_valid_key_size(key_size),
         CipherOf(key), NEW digits \in Seq(0..9)
  PROVE  ReadBack(digits)
<1> DEFINE rkeys == expand_key(key)
           last == get_round_count(Len(key))
<1>1. last \in Nat \ {0} /\ rkeys \in [0..last -> Block]
  BY KeySizes, KeysExpand DEF TablesFit, KeyExpands
<1>2. \A b \in Block : /\ encrypt_state(b) = EncryptState(rkeys, last, b)
                       /\ decrypt_state(b) = DecryptState(rkeys, last, b)
  BY DEF CipherOf
<1> HIDE DEF rkeys, last
<1>3. Reversible
  <2> SUFFICES ASSUME NEW b \in Block
               PROVE  encrypt_state(b) \in Block /\ decrypt_state(encrypt_state(b)) = b
    BY DEF Reversible
  <2> QED BY <1>1, <1>2, BlocksReadBack
<1> QED BY <1>3, TokenReadsBack

\* Two sessions never travel under one text: numbers with the same token are the
\* same.  That is what Session takes for granted when it names a session by its
\* row's number, although cookie and cache know it by the token only.
THEOREM TokensApart ==
  ASSUME TablesFit, NEW key \in Seq(Byte), Len(key) = key_size, is_valid_key_size(key_size),
         CipherOf(key), NEW a \in Seq(0..9), NEW b \in Seq(0..9), Encrypt(a) = Encrypt(b)
  PROVE  a = b
<1>1. ReadBack(a) /\ ReadBack(b)
  BY SessionNumbersReadBack
<1>2. to_string(a) = to_string(b)
  BY <1>1 DEF ReadBack
<1>3. Len(a) \in Nat /\ Len(b) \in Nat
  OBVIOUS
<1>4. ASSUME NEW s \in Seq(0..9)
      PROVE  DOMAIN to_string(s) = 1..Len(s) /\ \A k \in 1..Len(s) : to_string(s)[k] = 48 + s[k]
  BY DEF to_string
<1>5. Len(a) = Len(b)
  <2>1. 1..Len(a) = 1..Len(b)
    BY <1>2, <1>4
  <2> QED BY <1>3, <2>1
<1>6. ASSUME NEW k \in 1..Len(a) PROVE a[k] = b[k]
  <2>1. to_string(a)[k] = 48 + a[k] /\ to_string(b)[k] = 48 + b[k]
    BY <1>4, <1>5
  <2>2. a[k] \in 0..9 /\ b[k] \in 0..9
    BY <1>5
  <2>3. 48 + a[k] = 48 + b[k]
    BY <1>2, <2>1, Zenon
  <2>4. \A x, y \in 0..9 : 48 + x = 48 + y => x = y
    OBVIOUS
  <2> QED BY <2>2, <2>3, <2>4, Zenon
<1>7. ASSUME NEW s \in Seq(0..9) PROVE s = [k \in 1..Len(s) |-> s[k]]
  OBVIOUS
<1>8. a = [k \in 1..Len(a) |-> a[k]] /\ b = [k \in 1..Len(b) |-> b[k]]
  BY <1>7
<1> QED BY <1>5, <1>6, <1>8, Zenon

-----------------------------------------------------------------------------
(* The numbers the specification tries *)

\* A login's token: every state's session number is read back, with the cipher
\* of lib/plusaes.hpp (TokensReadBack), whatever the bounds of the specification.
THEOREM TokensCorrect ==
  ASSUME TablesFit, NEW CONSTANT key \in Seq(Byte), Len(key) = key_size,
         is_valid_key_size(key_size), CipherOf(key)
  PROVE  Spec => []TokensReadBack
<1>1. Typed => TokensReadBack
  <2> SUFFICES ASSUME Typed, NEW zeros \in Scales
               PROVE  ReadBack([k \in 1..Len(Numeral(number)) |-> DigitValue(Numeral(number)[k])]
                               \o Zeros(zeros))
    BY DEF Typed, TokensReadBack
  <2> DEFINE n == Numeral(number)
             digits == [k \in 1..Len(n) |-> DigitValue(n[k])]
  <2>1. n \in Seq(DigitChars)
    BY NumeralReadBack DEF Typed
  <2>2. digits \in Seq(0..9)
    <3> HIDE DEF n
    <3>1. Len(n) \in Nat /\ \A k \in 1..Len(n) : DigitValue(n[k]) \in 0..9
      BY <2>1, DigitValues
    <3> QED BY <3>1
  <2>3. Zeros(zeros) \in Seq(0..9)
    BY CodecBounds DEF Zeros
  <2>4. digits \o Zeros(zeros) \in Seq(0..9)
    <3> HIDE DEF digits
    <3> QED BY <2>2, <2>3
  <2> HIDE DEF digits, n
  <2>5. ReadBack(digits \o Zeros(zeros))
    BY <2>4, SessionNumbersReadBack
  <2> QED BY <2>5 DEF digits, n
<1> QED BY <1>1, TypedHolds, PTL
=============================================================================
