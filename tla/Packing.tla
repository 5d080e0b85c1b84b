------------------------------- MODULE Packing -------------------------------
(***************************************************************************)
(* Util/ProtocoIStream.cpp: the Internet checksum of a packet and the      *)
(* seven-bit encoding of an unsigned number.  Pure functions: an instance  *)
(* chooses their arguments, packet and number, in its initial states.      *)
(***************************************************************************)
EXTENDS Integers, Sequences

CONSTANTS Octets,       \* bytes of a packet
          MaxOctets,    \* longest packet
          Numbers,      \* numbers to encode
          UInt          \* how many values an unsigned int has, 2^32

ASSUME PackingAssumption == /\ Octets \subseteq 0..255 /\ MaxOctets \in Nat /\ Numbers \subseteq Nat
                            /\ UInt \in Nat /\ UInt >= 2^16

VARIABLES packet, number
packingVars == <<packet, number>>

PackingInit ==
  /\ packet \in UNION {[1..n -> Octets] : n \in 0..MaxOctets}
  /\ number \in Numbers

PackingSpec == PackingInit /\ [][FALSE]_packingVars

-----------------------------------------------------------------------------
\* The words of a little-endian machine and the last byte added up: a byte left over counts
\* as a word whose other half is zero.
WordTotal(s) ==
  LET sum[i \in 1..(Len(s) + 2)] == IF i > Len(s) THEN 0
                        ELSE IF i = Len(s) THEN s[i]
                        ELSE s[i] + 256 * s[i + 1] + sum[i + 2]
  IN  sum[1]

\* cksum after the words and the last byte: an unsigned int, which wraps.
WordSum(s) == WordTotal(s) % UInt

\* The carries are added until there is none.
Carried(c) ==
  LET add[d \in Nat] == IF d < 2^16 THEN d ELSE add[(d \div 2^16) + (d % 2^16)]
  IN  add[c]

\* checksum: the complement, in 16 bits.
Checksum(s) == 2^16 - 1 - Carried(WordSum(s))

\* The bit that says there is more is set while the number is not yet shifted.
Write7BitEncode_Early(v) ==
  LET write[w \in Nat] == IF w = 0 THEN <<>> ELSE <<(w % 128) + 128>> \o write[w \div 128]
  IN  write[v]

\* write7BitEncode, for 32 and for 64 bits: low bits first, and 0x80 in every byte that is
\* not the last.
Write7BitEncode(v) ==
  LET write[w \in Nat] == IF w < 128 THEN <<w>>
                          ELSE <<(w % 128) + 128>> \o write[w \div 128]
  IN  write[v]

-----------------------------------------------------------------------------
(* Properties.                                                             *)

\* The two bytes of a checksum as the machine stores them, after a packet that is filled
\* up to whole words.
WithChecksum(s) ==
  LET c == Checksum(s)
  IN  s \o (IF Len(s) % 2 = 1 THEN <<0>> ELSE <<>>) \o <<c % 256, c \div 256>>

\* The sum does not wrap.
Fits(s) == WordTotal(WithChecksum(s)) < UInt

\* As long as the sum does not wrap, a receiver that sums a packet with its checksum gets
\* zero, whatever carries the sum made and whether the packet's length is even or odd
\* (ProtocoIStream.cpp:9).
ChecksumVerifies == Fits(packet) => Checksum(WithChecksum(packet)) = 0

\* The encoding ends where the number ends: every byte but the last says there is more, the
\* seven-bit groups give the number back, and no shorter encoding would do
\* (ProtocoIStream.cpp:27).
SevenBitsDecode ==
  LET e == Write7BitEncode(number)
      value[i \in 1..(Len(e) + 1)] == IF i > Len(e) THEN 0 ELSE (e[i] % 128) + 128 * value[i + 1]
  IN  /\ Len(e) >= 1
      /\ \A i \in DOMAIN e : e[i] >= 128 <=> i < Len(e)
      /\ value[1] = number
      /\ Len(e) > 1 => e[Len(e)] # 0
==============================================================================
