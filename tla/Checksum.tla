------------------------------ MODULE Checksum ------------------------------
(***************************************************************************)
(* ip_checksum of drivers/rtl8139.c, which the IP, ICMP and TCP headers    *)
(* that the driver sends are closed with.  The machine stores words with   *)
(* the low byte first, the network with the high byte first, and the       *)
(* driver swaps neither what it sums nor what it stores.                   *)
(***************************************************************************)
EXTENDS Integers, Sequences, Functions

CONSTANTS
  ByteBase,    \* the values of a byte (256)
  MaxLength    \* bound: bytes that are summed

ASSUME ChecksumAssumption == ByteBase \in Nat \ {0, 1} /\ MaxLength \in Nat

VARIABLES
  data, spc, word, sum

checksumVars == <<data, spc, word, sum>>

WordBase == ByteBase * ByteBase

ChecksumInit ==
  /\ data \in UNION {[1 .. n -> 0 .. (ByteBase - 1)] : n \in 0 .. MaxLength}
  /\ spc = "off" /\ word = 0 /\ sum = 0

ip_checksum ==
  /\ spc = "off"
  /\ spc' = "words"
  /\ UNCHANGED <<data, word, sum>>

\* The words, low byte first
AddWord ==
  /\ spc = "words" /\ word < Len(data) \div 2
  /\ sum' = sum + data[2 * word + 1] + ByteBase * data[2 * word + 2]
  /\ word' = word + 1
  /\ UNCHANGED <<data, spc>>

\* Mutant: the last byte is taken for the high one.
AddOddHigh ==
  /\ spc = "words" /\ word = Len(data) \div 2
  /\ sum' = IF Len(data) % 2 = 1 THEN sum + ByteBase * data[Len(data)] ELSE sum
  /\ spc' = "fold"
  /\ UNCHANGED <<data, word>>

\* A byte that is left over is a low byte
AddOdd ==
  /\ spc = "words" /\ word = Len(data) \div 2
  /\ sum' = IF Len(data) % 2 = 1 THEN sum + data[Len(data)] ELSE sum
  /\ spc' = "fold"
  /\ UNCHANGED <<data, word>>

\* The carries are added until there are none.
Fold ==
  /\ spc = "fold" /\ sum >= WordBase
  /\ sum' = (sum % WordBase) + (sum \div WordBase)
  /\ UNCHANGED <<data, spc, word>>

Complement ==
  /\ spc = "fold" /\ sum < WordBase
  /\ sum' = WordBase - 1 - sum
  /\ spc' = "done"
  /\ UNCHANGED <<data, word>>

ChecksumNext == ip_checksum \/ AddWord \/ AddOdd \/ Fold \/ Complement

ChecksumSpec == ChecksumInit /\ [][ChecksumNext]_checksumVars
-----------------------------------------------------------------------------
Swapped(w) == (w % ByteBase) * ByteBase + (w \div ByteBase)

\* RFC 1071: the one's complement of the one's complement sum of the words, high byte
\* first, the last filled up with a zero
BigEndianSum ==
  LET Part(k) == IF k % 2 = 1 THEN ByteBase * data[k] ELSE data[k]
  IN  FoldFunction(LAMBDA a, b : a + b, 0, [k \in DOMAIN data |-> Part(k)])
OnesComplement(n) == IF n = 0 THEN 0 ELSE ((n - 1) % (WordBase - 1)) + 1

(* What the driver stores, low byte first, is the checksum of the network: the order of *)
(* the bytes does not matter, the carries come round, and an odd byte is padded right.  *)
ChecksumIsRfc ==
  spc = "done" => Swapped(sum) = WordBase - 1 - OnesComplement(BigEndianSum)
=============================================================================
