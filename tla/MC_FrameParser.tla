----------------------------- MODULE MC_FrameParser -----------------------------
(* A byte has 16 values, the sync pattern two bytes, a header twelve: blocks of *)
(* 12, 36, 84 and 180 bytes against a limit of 96.  The checksum has 8 bits.     *)
EXTENDS FrameParser, Crc16

MCSync == <<1, 2>>

Sent(i, payload) == [seq |-> i % 16, rel |-> i % 2 = 0, ack |-> FALSE, nack |-> FALSE,
                     cmd |-> 16 + i, payload |-> payload]
Answers == {[seq |-> 5, rel |-> FALSE, ack |-> b, nack |-> ~ b, cmd |-> 0, payload |-> <<>>] :
              b \in BOOLEAN}

Filled(n) == [i \in 1..n |-> IF i % 7 = 1 THEN 1 ELSE 3]
\* The last one is the frame of command 17 with no payload.
MCPayload == <<<<>>, <<1, 3>>, <<3, 1>>, <<0, 3>>, <<3, 1, 2, 3>>, Filled(24), Filled(25),
              Filled(72), Filled(73), Filled(74), Filled(83),
              <<1, 2, 1, 0, 1, 1, 12, 14, 0, 0, 0, 0>>>>
ASSUME FrameOf(Sent(1, <<>>)) = MCPayload[12]

MCMessages == Answers \cup {Sent(i, MCPayload[i]) : i \in DOMAIN MCPayload}
=================================================================================
