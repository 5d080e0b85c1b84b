----------------------------- MODULE Conversions -----------------------------
(***************************************************************************)
(* The pure functions that bytes go through on their way to a peer and     *)
(* back: the checksum and the seven-bit numbers of Packing and the line    *)
(* searches of LineSearch, each against its reference definition.          *)
(***************************************************************************)
EXTENDS Packing, LineSearch

\* The code's checksum, its 7-bit integers and its search for line ends
\* agree with their reference definitions, for every packet and number of the instance.
ConversionsAgree ==
  ChecksumVerifies /\ SevenBitsDecode /\ LinesAreFound(packet)
==============================================================================
