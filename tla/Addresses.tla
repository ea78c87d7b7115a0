----------------------------- MODULE Addresses -----------------------------
(* IPv4 and MAC addresses as AppBase/Network.c converts them: dotted text,   *)
(* byte arrays, and integers with the first octet at the top.  An integer is *)
(* the sequence of its octets, top first; its C type says how many.          *)
EXTENDS Integers, SequencesExt

CONSTANTS
  Segments,     \* numbers that a text may hold: any int
  Macs,         \* MAC addresses, byte arrays
  MaxSteps      \* conversions in a row

VARIABLES
  value,     \* the address: form "text", "bytes" or "int", octets, and turned
  meant,     \* the octets of the address it stands for
  wide,      \* the integer is an uint64_t
  steps

addressVars == <<value, meant, wide, steps>>

Octet(n) == n % 256     \* (uint8_t)
Zeros(n) == [i \in 1..n |-> 0]

Init ==
  /\ value \in [form : {"text"}, octets : [1..4 -> Segments], turned : {FALSE}]
            \cup [form : {"bytes"}, octets : Macs, turned : {FALSE}]
  /\ meant = [i \in DOMAIN value.octets |-> Octet(value.octets[i])]
  /\ wide = FALSE /\ steps = 0

Become(form, octets, turned) ==
  /\ value' = [form |-> form, octets |-> octets, turned |-> turned]
  /\ UNCHANGED meant

(* sscanf takes any int; the casts drop what does not fit a byte.            *)
ConvertIPv4AddressToByteArr ==
  /\ value.form = "text"
  /\ Become("bytes", [i \in 1..4 |-> Octet(value.octets[i])], FALSE)
  /\ UNCHANGED wide

ConvertIPv4AddressToUInt32 ==
  /\ value.form = "text"
  /\ Become("int", [i \in 1..4 |-> Octet(value.octets[i])], FALSE)
  /\ wide' = FALSE

ConvertIPv4AddressToUInt64 ==
  /\ value.form = "text"
  /\ Become("int", Zeros(4) \o [i \in 1..4 |-> Octet(value.octets[i])], FALSE)
  /\ wide' = TRUE

ConvertByteArr2IPvToAddress ==
  /\ value.form = "bytes" /\ ~value.turned /\ Len(meant) = 4
  /\ Become("text", value.octets, FALSE)
  /\ UNCHANGED wide

(* Of the lowest octets.                                                     *)
Low == LET n == Len(value.octets) IN SubSeq(value.octets, n + 1 - Len(meant), n)

ConvertUIntToIPv4Address ==
  /\ value.form = "int" /\ Len(meant) = 4
  /\ Become("text", Low, FALSE)
  /\ UNCHANGED wide

(* IPv4ToUint32, ConvertIPv4ByteArr2Uint32: octet 0 on top.                  *)
IPv4ToUint32 ==
  /\ value.form = "bytes" /\ ~value.turned /\ Len(meant) = 4
  /\ Become("int", [i \in 1..4 |-> value.octets[i]], FALSE)
  /\ wide' = FALSE

MACToUint64 ==
  /\ value.form = "bytes" /\ ~value.turned /\ Len(meant) = 6
  /\ Become("int", Zeros(2) \o value.octets, FALSE)
  /\ wide' = TRUE

(* W5500CommCtl_Init hands the chip the bytes of a MAC as the integer's      *)
(* memory has them, lowest first.                                            *)
WriteMAC ==
  /\ value.form = "int" /\ Len(meant) = 6
  /\ Become("bytes", SubSeq(Reverse(value.octets), 1, 6), TRUE)
  /\ UNCHANGED wide

(* ConvertByteArrayToInt*_BigEndian shift what they have up by an octet for  *)
(* each byte; no more bytes than the type has.                               *)
BigEndian(bytes, size) ==
  LET limit == IF Len(bytes) > size THEN size ELSE Len(bytes)
      result[i \in 0..limit] == IF i = 0 THEN Zeros(size) ELSE Tail(result[i - 1]) \o <<bytes[i]>>
  IN  result[limit]

LittleEndian_unturned(bytes, size) ==
  LET limit == IF Len(bytes) > size THEN size ELSE Len(bytes)
  IN  [i \in 1..size |-> IF i <= limit THEN bytes[i] ELSE 0]

(* ConvertByteArrayToInt*_LittleEndian put byte i at 8 * i.                  *)
LittleEndian(bytes, size) ==
  LET limit == IF Len(bytes) > size THEN size ELSE Len(bytes)
  IN  [i \in 1..size |-> IF size + 1 - i <= limit THEN bytes[size + 1 - i] ELSE 0]

ConvertByteArrayToInt ==
  /\ value.form = "bytes"
  /\ \E size \in {n \in {4, 8} : n >= Len(meant)} :
       /\ Become("int", IF value.turned THEN LittleEndian(value.octets, size)
                        ELSE BigEndian(value.octets, size), FALSE)
       /\ wide' = (size = 8)

(* ReverseByteEndian swaps the ends, then inwards.                           *)
ReverseByteEndian ==
  /\ value.form = "bytes"
  /\ LET size == Len(value.octets)
         Partner(i) == size + 1 - i
     IN  Become("bytes", [i \in 1..size |-> value.octets[Partner(i)]], ~value.turned)
  /\ UNCHANGED wide

Next ==
  /\ steps < MaxSteps /\ steps' = steps + 1
  /\ \/ MACToUint64 \/ WriteMAC
     \/ ConvertIPv4AddressToByteArr \/ ConvertIPv4AddressToUInt32 \/ ConvertIPv4AddressToUInt64
     \/ ConvertByteArr2IPvToAddress \/ ConvertUIntToIPv4Address \/ IPv4ToUint32
     \/ ConvertByteArrayToInt \/ ReverseByteEndian

(* Whatever the conversions are chained (Network.c:52-301), the address      *)
(* stays the one meant: the same octets in the same order, however wide the  *)
(* integer, and reversed only where ReverseByteEndian or the chip's MAC      *)
(* (Module.c:374, which nothing turns back) has it so.                       *)
AddressIsKept ==
  LET octets == [i \in DOMAIN Low |-> Octet(Low[i])]
  IN  /\ (IF value.turned THEN Reverse(octets) ELSE octets) = meant
      /\ value.form = "int" => Len(value.octets) = (IF wide THEN 8 ELSE 4)
=============================================================================
