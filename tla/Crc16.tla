--------------------------------- MODULE Crc16 ---------------------------------
(***************************************************************************)
(* The CRC of sdk/channel/src/uni_communication.c, :150-197: a byte at a   *)
(* time through a table.  The entry of a byte is the remainder of the byte *)
(* shifted up by a checksum, divided by the polynomial Poly with its       *)
(* leading term; the table of the source is the one of 8 bits and 0x1021.  *)
(***************************************************************************)
EXTENDS Integers, Sequences, Bitwise

CONSTANTS Bits,  \* bits of a byte; a checksum has twice as many
          Poly

ByteValues == 2^Bits
CrcValues == ByteValues * ByteValues

TimesX(v) == IF 2 * v < CrcValues THEN 2 * v ELSE (2 * v - CrcValues) ^^ Poly

crc16tab ==
  [c \in 0..(ByteValues - 1) |->
     LET shifted[k \in 0..Bits] == IF k = 0 THEN c * ByteValues ELSE TimesX(shifted[k - 1])
     IN  shifted[Bits]]

Step == [crc \in 0..(CrcValues - 1), c \in 0..(ByteValues - 1) |->
           ((crc * ByteValues) % CrcValues) ^^ crc16tab[(crc \div ByteValues) ^^ c]]

Crc(s) ==
  LET crc[k \in 0..Len(s)] ==
        IF k = 0 THEN 0 ELSE LET before == crc[k - 1] IN Step[before, s[k]]
  IN  crc[Len(s)]
================================================================================
