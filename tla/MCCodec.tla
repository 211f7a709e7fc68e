------------------------------ MODULE MCCodec -------------------------------
(* The computations on messages: Codec on short texts over the characters its *)
(* conversions tell apart, with the cipher of lib/plusaes.hpp and the key of  *)
(* __user_config.hpp, and ScanLoop on every short message of a few codes.     *)
EXTENDS Codec, Aes, ScanLoop

TellingChars == {"n", "r", "7", "-", QUOTE, COMMA, BACKSLASH, LINE_FEED, RETURN}

\* Numbers of 1, 2, 15, 16, 17 and 20 digits among them.
BlockEdges == {0, 14, 15, 18}

ENCRYT_KEY == <<48, 49, 50, 51, 52, 53, 54, 55, 56, 57, 82, 79, 74, 67, 80, 80>>

Encipher(block) == EncryptState(ENCRYT_KEY, block)
Decipher(block) == DecryptState(ENCRYT_KEY, block)

MaxPoints == 4
Codes == {-1, 0, 1, 2, 9}
ShortMessages == UNION {[1..n -> Codes] : n \in 0..MaxPoints}
NoMessages == {<<>>}
MinusOne == -1

\* The two have nothing to do with each other: one message is scanned, or texts
\* are converted.
Converting == msg = <<>>

Convert == Converting /\ Next /\ UNCHANGED scanVars
Scan == text = <<>> /\ number = 0 /\ ScanPoint /\ UNCHANGED vars

ComputeInit == Init /\ ScanInit
ComputeNext == Convert \/ Scan
ComputeSpec == ComputeInit /\ [][ComputeNext]_<<vars, scanVars>>

\* The examples of FIPS 197, appendix C: one block, keys of the three sizes.
Example(size, bytes) ==
  [key |-> [k \in 1..size |-> k - 1],
   data |-> [p \in 0..15 |-> 17 * p],
   encrypted |-> [p \in 0..15 |-> bytes[p + 1]]]

Fips197 == <<
  Example(16, <<\h69, \hc4, \he0, \hd8, \h6a, \h7b, \h04, \h30,
                \hd8, \hcd, \hb7, \h80, \h70, \hb4, \hc5, \h5a>>),
  Example(24, <<\hdd, \ha9, \h7c, \ha4, \h86, \h4c, \hdf, \he0,
                \h6e, \haf, \h70, \ha0, \hec, \h0d, \h71, \h91>>),
  Example(32, <<\h8e, \ha2, \hb7, \hca, \h51, \h67, \h45, \hbf,
                \hea, \hfc, \h49, \h90, \h4b, \h49, \h60, \h89>>) >>

\* The cipher computes the standard's result for a key of each size and turns
\* it back into the block (lib/plusaes.hpp:224, 292, 312).
PublishedAnswers ==
  Converting /\ text = <<>> /\ number \in DOMAIN Fips197 =>
    LET a == Fips197[number]
    IN /\ EncryptState(a.key, a.data) = a.encrypted
       /\ DecryptState(a.key, a.encrypted) = a.data

\* What the proof about the cipher takes of its tables, its arithmetic and its
\* round keys: the tables undo each other, exclusive or undoes itself, so do the
\* products of mix_columns and inv_mix_columns, and a round key is sixteen bytes
\* (lib/plusaes.hpp:50-86, 136-197, 224-259).
TablesFit ==
  Converting /\ text = <<>> /\ number = 0 =>
    /\ State!TablesFit
    /\ State!KeyExpands(ENCRYT_KEY)
    /\ \A example \in DOMAIN Fips197 : State!KeyExpands(Fips197[example].key)
=============================================================================
