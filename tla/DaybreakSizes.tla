---------------------------- MODULE DaybreakSizes ----------------------------
(***************************************************************************)
(* What bounds the packets of a Daybreak session, and the headers they     *)
(* have (common/net/daybreak_connection.h, daybreak_structs.h).            *)
(***************************************************************************)
EXTENDS Integers

CONSTANTS
  MaxPacketSize,   \* m_max_packet_size of the session: 512
  CrcBytes         \* m_crc_bytes: 2

Header == 2           \* DaybreakHeader::size()
ReliableHeader == 4   \* DaybreakReliableHeader::size()
FragmentHeader == 8   \* DaybreakReliableFragmentHeader::size()
CompressFlag == 1
=============================================================================
