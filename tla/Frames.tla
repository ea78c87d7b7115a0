------------------------------- MODULE Frames -------------------------------
(* The frames of AppBase/AppFrame: a header with the type, a body, and a     *)
(* trailer with a checksum and a CRC, written by App_WriteFrame_*, read by   *)
(* App_ReadFrame_* and App_VerifyFrame_AuthRX after App_VerifyPacket.  The   *)
(* 80 bytes of Header.Info, which its writers leave to the caller, and the   *)
(* bytes of the body that no frame uses are left out.  The 32 bytes that are *)
(* left for the checksum never sum up to a carry.                            *)
EXTENDS Integers, Sequences, FiniteSets

CONSTANTS
  Seeds,       \* each makes the values of a frame's fields
  Challenges,  \* what AuthRX signs: sequences of 8 bytes
  Weak,        \* positions <<offset, bit>> that the network may change
  MaxFlips     \* changes of one frame

VARIABLES
  frame,    \* ZECUFrame_Generic_t, an array of bytes
  sent,     \* the type and the values last written
  flipped,  \* bits changed since
  verdict,  \* what the last reader returned
  keyed     \* the nodes, writer and reader, whose g_core_key is not 0

frameVars == <<frame, sent, flipped, verdict, keyed>>

Magic == 170       \* 0xAA
Body == 8          \* offset of the body
Trailer == 32      \* offset of the trailer
FrameSize == 40

(* eFrameType_*, as its four bytes lie in memory.                            *)
FrameType ==
  [AuthTX         |-> <<\h0A, 0, 0, \hAA>>,        AuthRX         |-> <<\h0B, 0, 0, \hAA>>,
   AuthFail       |-> <<\h0C, 0, 0, \hAA>>,        KeepAlive      |-> <<0, \hAA, 0, \h55>>,
   HeartBeat      |-> <<\h0A, \hFF, 0, \hFF>>,     EngineControl1 |-> <<\h0A, \hCC, 0, \hFF>>,
   EngineControl2 |-> <<\h0B, \hCC, 0, \hFF>>,     EngineControl3 |-> <<\h0C, \hCC, 0, \hFF>>,
   EmergencyStop  |-> <<\hFA, \hF0, \hF0, \hF0>>]
Kinds == DOMAIN FrameType

(* The fields of each body: <<offset, size>>.                                *)
Fields ==
  [AuthTX         |-> {<<1, 8>>},                  AuthRX         |-> {<<1, 8>>},
   AuthFail       |-> {<<1, 4>>},                  KeepAlive      |-> {<<1, 1>>},
   EngineControl1 |-> {<<1, 1>>, <<3, 1>>},        EngineControl2 |-> {<<1, 1>>, <<3, 1>>},
   EngineControl3 |-> {<<1, 1>>, <<3, 1>>, <<5, 1>>},
   HeartBeat      |-> {<<1, 1>>, <<3, 2>>, <<5, 2>>, <<7, 2>>, <<10, 1>>, <<11, 1>>, <<13, 4>>, <<17, 4>>},
   EmergencyStop  |-> {<<1, 4>>, <<6, 2>>, <<8, 2>>, <<10, 2>>, <<13, 1>>, <<14, 1>>, <<16, 4>>, <<20, 4>>}]

Weight == <<1, 2, 4, 8, 16, 32, 64, 128>>
Bits == [n \in 0..255 |-> {b \in 0..7 : (n \div Weight[b + 1]) % 2 = 1}]
Xor(a, b) == (a \ b) \cup (b \ a)
ByteOf(bits) ==
  LET Bit(b) == IF b \in bits THEN Weight[b + 1] ELSE 0
  IN  Bit(0) + Bit(1) + Bit(2) + Bit(3) + Bit(4) + Bit(5) + Bit(6) + Bit(7)

(* App_CalculateChecksum16: the sum, its carries added back, inverted.       *)
Checksum16(data) ==
  LET total[n \in 0..Len(data)] == IF n = 0 THEN 0 ELSE total[n - 1] + data[n]
      sum == total[Len(data)]
  IN  65535 - (IF sum > 65535 THEN (sum % 65536) + (sum \div 65536) ELSE sum)

(* App_CalculateCRC32, of words as the sets of their one bits.               *)
Polynomial == {5, 8, 9, 15, 19, 20, 21, 23, 24, 26, 27, 29, 30, 31}
Word == 0..31
Shift[crc \in SUBSET Word] ==
  LET half == {b - 1 : b \in crc \ {0}} IN IF 0 \in crc THEN Xor(half, Polynomial) ELSE half
AddByte[crc \in SUBSET Word, byte \in 0..255] ==
  Shift[Shift[Shift[Shift[Shift[Shift[Shift[Shift[Xor(crc, Bits[byte])]]]]]]]]
CRC32(data) ==
  LET crc[n \in 0..Len(data)] == IF n = 0 THEN Word ELSE AddByte[crc[n - 1], data[n]]
  IN  crc[Len(data)]
WordBytes(w) == [k \in 1..4 |-> ByteOf({b - 8 * (k - 1) : b \in w \cap (8 * (k - 1)..8 * k - 1)})]

Covered(f) == [i \in 1..Trailer |-> f[i - 1]]

(* App_UpdateTrailer.                                                        *)
Trailed(f) ==
  LET sum == Checksum16(Covered(f))
      crc == WordBytes(Xor(CRC32(Covered(f)), Word))
  IN  [i \in DOMAIN f |-> IF i < Trailer THEN f[i]
                          ELSE (<<Magic, sum % 256, sum \div 256, Magic>> \o crc)[i - Trailer + 1]]

VerifyPacket_checksumOnly(f) ==
  LET t == [i \in 1..8 |-> f[Trailer + i - 1]] IN
  /\ t[1] = Magic /\ t[4] = Magic
  /\ t[2] + 256 * t[3] = Checksum16(Covered(f))

(* App_VerifyPacket.                                                         *)
VerifyPacket(f) ==
  LET t == [i \in 1..8 |-> f[Trailer + i - 1]] IN
  /\ t[1] = Magic /\ t[4] = Magic
  /\ t[2] + 256 * t[3] = Checksum16(Covered(f))
  /\ SubSeq(t, 5, 8) = WordBytes(Xor(CRC32(Covered(f)), Word))

(* App_FormatHeader, then the fields, then the trailer.  KeepAlive puts the  *)
(* magic byte around its number.                                             *)
Written(kind, values) ==
  LET Type == FrameType[kind]
      Header == <<Magic, 4, Magic, Magic>> \o Type
      InField(i) == {field \in Fields[kind] : i - Body \in field[1]..field[1] + field[2] - 1}
      Cell(i) == CASE i < Body -> Header[i + 1]
                   [] InField(i) # {} -> LET f == CHOOSE f \in InField(i) : TRUE
                                         IN  values[f][i - Body - f[1] + 1]
                   [] i = Body \/ (kind = "KeepAlive" /\ i \in Body + 2..Body + 3) -> Magic
                   [] OTHER -> 0
  IN  Trailed([i \in 0..FrameSize - 1 |-> Cell(i)])

(* Auth_CalculateMAC: the key, twice, XORed in, then a permutation of the 64 *)
(* bits; its multiplication and second XOR are left out of it here.          *)
CoreKey == <<\hEF, \hBE, \hAD, \hDE>>
MAC(challenge) ==
  LET mixed == [i \in 1..8 |-> ByteOf(Xor(Bits[challenge[i]], Bits[CoreKey[((i - 1) % 4) + 1]]))]
      Bit(n) == IF n % 8 \in Bits[mixed[n \div 8 + 1]] THEN 1 ELSE 0
  IN  [i \in 1..8 |-> ByteOf({b \in 0..7 : Bit((8 * (i - 1) + b - 13) % 64) = 1})]

Values(kind, seed) == [f \in Fields[kind] |-> [i \in 1..f[2] |-> (seed * (i + f[1])) % 256]]
Nothing == [kind |-> "none", values |-> <<>>, challenge |-> <<>>]
NoVerdict == [code |-> "none", kind |-> "none", values |-> <<>>, challenge |-> <<>>]

Init ==
  /\ frame = [i \in 0..FrameSize - 1 |-> 0]
  /\ sent = Nothing /\ flipped = {} /\ verdict = NoVerdict /\ keyed = {}

Auth_SetCoreKey ==
  /\ \E node \in {"writer", "reader"} : keyed' = keyed \cup {node}
  /\ UNCHANGED <<frame, sent, flipped, verdict>>

Write(kind, values, challenge) ==
  /\ frame' = Written(kind, values)
  /\ sent' = [kind |-> kind, values |-> values, challenge |-> challenge]
  /\ flipped' = {} /\ verdict' = NoVerdict
  /\ UNCHANGED keyed

WriteFrame == \E kind \in Kinds \ {"AuthRX"}, seed \in Seeds : Write(kind, Values(kind, seed), <<>>)

(* App_WriteFrame_AuthRX leaves the frame alone while it has no key.         *)
WriteFrame_AuthRX ==
  /\ "writer" \in keyed
  /\ \E c \in Challenges : Write("AuthRX", [f \in Fields["AuthRX"] |-> MAC(c)], c)

(* The network changes some bits on the frame's way.                         *)
Corrupt ==
  /\ flipped = {}
  /\ \E F \in SUBSET Weak :
       /\ Cardinality(F) \in 1..MaxFlips
       /\ flipped' = F
       /\ frame' = [i \in DOMAIN frame |-> ByteOf(Xor(Bits[frame[i]], {p[2] : p \in {q \in F : q[1] = i}}))]
  /\ UNCHANGED <<sent, verdict, keyed>>

IsType(kind) == [i \in 1..4 |-> frame[i + 3]] = FrameType[kind]
Parsed(kind) == [f \in Fields[kind] |-> [i \in 1..f[2] |-> frame[Body + f[1] + i - 1]]]

(* App_ReadFrame_*; the signature of AuthRX is compared, not returned.       *)
Read ==
  /\ LET valid == VerifyPacket(frame) IN
     \/ \E kind \in Kinds \ {"AuthRX"} :
          verdict' = [code |-> IF ~valid THEN "CRC" ELSE IF IsType(kind) THEN "OKE" ELSE "INVALID_ARG",
                      kind |-> kind, values |-> Parsed(kind), challenge |-> <<>>]
     \/ \E c \in Challenges :
          verdict' = [code |-> CASE ~valid -> "CRC"
                                 [] valid /\ ~IsType("AuthRX") -> "INVALID_ARG"
                                 [] valid /\ IsType("AuthRX") /\ "reader" \notin keyed -> "INVALID_STATE"
                                 [] OTHER -> IF Parsed("AuthRX")[<<1, 8>>] = MAC(c) THEN "OKE" ELSE "PERMISSION",
                      kind |-> "AuthRX", values |-> Parsed("AuthRX"), challenge |-> c]
  /\ UNCHANGED <<frame, sent, flipped, keyed>>

(* One frame at a time: nothing of an earlier one is left in it.             *)
Next ==
  \/ sent = Nothing /\ (Auth_SetCoreKey \/ WriteFrame \/ WriteFrame_AuthRX)
  \/ verdict = NoVerdict /\ (Corrupt \/ Read)

(* A frame is accepted exactly when its reader is the one for its type (and  *)
(* its signature is that of the reader's challenge) and not one bit changed, *)
(* and then each field has its value: no frame of another type, and no       *)
(* damage of up to MaxFlips bits, wherever it is, passes (AppFrame.c:134).   *)
AcceptedIsWritten ==
  verdict # NoVerdict =>
    /\ verdict.code = "OKE" <=> /\ flipped = {} /\ verdict.kind = sent.kind
                                /\ verdict.challenge = sent.challenge
                                /\ verdict.kind = "AuthRX" => "reader" \in keyed
    /\ verdict.code = "OKE" => verdict.values = sent.values
=============================================================================
