-------------------------- MODULE NativeDriverProofs --------------------------
(***************************************************************************)
(* What the native program leaves behind, for every set of requests and    *)
(* every width of its counters.                                            *)
(***************************************************************************)
EXTENDS NativeDriver, RunInvocationProofs, SequenceTheorems, WellFoundedInduction

-----------------------------------------------------------------------------
(* The packing of codec.c and the quantizers is a bijection, for every     *)
(* count and both widths.                                                  *)

Widths == {4, 8}

\* A set of natural numbers has a least element.
LEMMA LeastElement ==
  ASSUME NEW S \in SUBSET Nat, S # {}
  PROVE  \E i \in S : \A j \in S : i <= j
<1>1. PICK i \in S : \A j \in S : ~(<<j, i>> \in OpToRel(<, Nat))
  BY WFMin, NatLessThanWellFounded
<1>2. ASSUME NEW j \in S PROVE i <= j
  <2>1. ~(<<j, i>> \in {p \in Nat \X Nat : p[1] < p[2]})
    BY <1>1, <1>2 DEF OpToRel
  <2>2. <<j, i>> \in Nat \X Nat /\ <<j, i>>[1] = j /\ <<j, i>>[2] = i
    OBVIOUS
  <2>3. ~(j < i)
    BY <2>1, <2>2
  <2> QED
    BY <2>3
<1> QED
  BY <1>2

\* A function on 1..n is a sequence of its values.
LEMMA FunctionIsSeq ==
  ASSUME NEW S, NEW n \in Nat, NEW f, f \in [1..n -> S]
  PROVE  f \in Seq(S) /\ Len(f) = n
OBVIOUS

\* A chain of checks answers OK exactly when none of them holds, and otherwise
\* with the status of one that does.
LEMMA FirstOfChecks ==
  ASSUME NEW n \in Nat, NEW checks, DOMAIN checks = 1..n,
         \A i \in 1..n : checks[i][1] => checks[i][2] # "OK"
  PROVE  /\ FirstOf(checks) = "OK" <=> \A i \in 1..n : ~checks[i][1]
         /\ \/ FirstOf(checks) = "OK"
            \/ \E i \in 1..n : checks[i][1] /\ FirstOf(checks) = checks[i][2]
<1> DEFINE hits == {i \in 1..n : checks[i][1]}
<1>1. CASE hits = {}
  BY <1>1 DEF FirstOf
<1>2. CASE hits # {}
  <2>1. \E i \in hits : \A j \in hits : i <= j
    <3>1. hits \in SUBSET Nat
      OBVIOUS
    <3> HIDE DEF hits
    <3> QED
      BY <1>2, <3>1, LeastElement
  <2> DEFINE first == CHOOSE i \in hits : \A j \in hits : i <= j
  <2>2. first \in hits
    BY <2>1
  <2>3. FirstOf(checks) = checks[first][2]
    BY <1>2 DEF FirstOf
  <2> HIDE DEF first
  <2> QED
    BY <2>2, <2>3
<1> QED
  BY <1>1, <1>2

\* A byte is its two nibbles, and each can be read back.
LEMMA Nibbles ==
  /\ \A lo, hi \in 0..15 : (lo + 16 * hi) % 16 = lo /\ (lo + 16 * hi) \div 16 = hi
  /\ \A b \in Byte : /\ b \in Nat /\ b = (b % 16) + 16 * (b \div 16)
                     /\ b % 16 \in 0..15 /\ b \div 16 \in 0..15
BY DEF Byte

\* Where sq_decode_record finds an element: even indexes in the low nibbles.
LEMMA CodePlace ==
  ASSUME NEW p, NEW b \in Nat, NEW i \in Nat
  PROVE  /\ CodeAt(8, p, i) = p[i]
         /\ (i % 2 = 1 /\ (i + 1) \div 2 = b) => CodeAt(4, p, i) = p[b] % 16
         /\ (i % 2 # 1 /\ i \div 2 = b) => CodeAt(4, p, i) = p[b] \div 16
BY DEF CodeAt

\* What sq_encode_payload packs, sq_decode_record reads back, element by
\* element, for every tensor length and both widths: the nibble order and the
\* index arithmetic of encoder and decoder agree.
THEOREM PackInverts ==
  ASSUME NEW bits \in Widths,
         NEW codes \in Seq(0..(2 * SignedLimit(bits))),
         NEW i \in 1..Len(codes)
  PROVE  CodeAt(bits, Pack(bits, codes), i) = codes[i]
<1>1. CASE bits = 8
  BY <1>1 DEF CodeAt, Pack
<1>2. CASE bits = 4
  <2>1. \A j \in 1..Len(codes) : codes[j] \in 0..15
    BY <1>2 DEF SignedLimit
  <2>2. PayloadSize(4, Len(codes)) = (Len(codes) \div 2) + (Len(codes) % 2) /\ Len(codes) \in Nat
    BY DEF PayloadSize
  <2>3. CASE i % 2 = 1
    <3> DEFINE b == (i + 1) \div 2
    <3>1. b \in 1..PayloadSize(4, Len(codes)) /\ 2 * b - 1 = i
      BY <2>2, <2>3
    <3>2. Pack(bits, codes)[b] = codes[i] + (IF 2 * b <= Len(codes) THEN 16 * codes[2 * b] ELSE 0)
      BY <1>2, <3>1 DEF Pack
    <3>3. CASE 2 * b <= Len(codes)
      <4>1. 2 * b \in 1..Len(codes)
        BY <3>1, <3>3
      <4>2. (codes[i] + 16 * codes[2 * b]) % 16 = codes[i]
        BY <2>1, <4>1, Nibbles
      <4>3. CodeAt(4, Pack(bits, codes), i) = Pack(bits, codes)[b] % 16
        BY <2>3, CodePlace
      <4> HIDE DEF b
      <4> QED BY <1>2, <3>2, <3>3, <4>2, <4>3
    <3>4. CASE ~(2 * b <= Len(codes))
      <4>1. Pack(bits, codes)[b] = codes[i]
        BY <2>1, <3>2, <3>4
      <4>2. codes[i] % 16 = codes[i]
        BY <2>1
      <4>3. CodeAt(4, Pack(bits, codes), i) = Pack(bits, codes)[b] % 16
        BY <2>3, CodePlace
      <4> QED BY <1>2, <4>1, <4>2, <4>3
    <3> QED BY <3>3, <3>4
  <2>4. CASE i % 2 # 1
    <3> DEFINE b == i \div 2
    <3>1. b \in 1..PayloadSize(4, Len(codes)) /\ 2 * b = i /\ 2 * b - 1 \in 1..Len(codes)
      BY <2>2, <2>4
    <3>2. Pack(bits, codes)[b] = codes[2 * b - 1] + 16 * codes[i]
      BY <1>2, <3>1 DEF Pack
    <3>3. (codes[2 * b - 1] + 16 * codes[i]) \div 16 = codes[i]
      BY <2>1, <3>1, Nibbles
    <3>4. CodeAt(4, Pack(bits, codes), i) = Pack(bits, codes)[b] \div 16
      BY <2>4, CodePlace
    <3> HIDE DEF b
    <3> QED BY <1>2, <3>2, <3>3, <3>4
  <2> QED BY <2>3, <2>4
<1> QED BY <1>1, <1>2 DEF Widths

\* Whatever bytes a payload holds, what is read from it is a natural number.
LEMMA CodeIsNatural ==
  ASSUME NEW bits \in Widths, NEW n \in Nat, NEW payload \in Seq(Byte),
         Len(payload) = PayloadSize(bits, n), NEW i \in 1..n
  PROVE  CodeAt(bits, payload, i) \in Nat
<1>1. CASE bits = 8
  <2>1. i \in 1..Len(payload)
    BY <1>1 DEF PayloadSize
  <2>2. payload[i] \in Byte
    BY <2>1
  <2>3. CodeAt(8, payload, i) = payload[i]
    BY CodePlace
  <2>4. payload[i] \in Nat
    BY <2>2, Nibbles
  <2> QED BY <1>1, <2>3, <2>4
<1>2. CASE bits = 4
  <2>1. i % 2 = 1 => (i + 1) \div 2 \in 1..Len(payload)
    BY <1>2 DEF PayloadSize
  <2>2. i % 2 # 1 => i \div 2 \in 1..Len(payload)
    BY <1>2 DEF PayloadSize
  <2>3. i % 2 = 1 => CodeAt(4, payload, i) = payload[(i + 1) \div 2] % 16
    BY CodePlace
  <2>4. i % 2 # 1 => CodeAt(4, payload, i) = payload[i \div 2] \div 16
    BY CodePlace
  <2>5. \A b \in 1..Len(payload) : payload[b] % 16 \in Nat /\ payload[b] \div 16 \in Nat
    BY Nibbles
  <2> QED BY <1>2, <2>1, <2>2, <2>3, <2>4, <2>5
<1> QED BY <1>1, <1>2 DEF Widths

\* The other direction: a payload of the right length whose padding nibble is
\* zero is the packing of the codes that sq_decode_record reads from it.  With
\* the checks in front of it, no two payloads decode to the same codes.
THEOREM CodesInvert ==
  ASSUME NEW bits \in Widths, NEW n \in Nat,
         NEW payload \in Seq(Byte), Len(payload) = PayloadSize(bits, n),
         (bits = 4 /\ n % 2 = 1) => payload[Len(payload)] \div 16 = 0
  PROVE  Pack(bits, [i \in 1..n |-> CodeAt(bits, payload, i)]) = payload
<1> DEFINE codes == [i \in 1..n |-> CodeAt(bits, payload, i)]
<1>0. codes \in Seq(Nat) /\ Len(codes) = n
  <2>1. \A i \in 1..n : CodeAt(bits, payload, i) \in Nat
    BY CodeIsNatural
  <2> QED BY <2>1
<1>1. CASE bits = 8
  BY <1>0, <1>1 DEF CodeAt, Pack, PayloadSize
<1>2. CASE bits = 4
  <2>1. Len(payload) = (n \div 2) + (n % 2)
    BY <1>2 DEF PayloadSize
  <2>2. ASSUME NEW b \in 1..Len(payload)
        PROVE  codes[2 * b - 1] + (IF 2 * b <= n THEN 16 * codes[2 * b] ELSE 0) = payload[b]
    <3>1. 2 * b - 1 \in 1..n /\ (2 * b - 1) % 2 = 1 /\ ((2 * b - 1) + 1) \div 2 = b
      BY <2>1
    <3>2. codes[2 * b - 1] = payload[b] % 16
      BY <1>2, <3>1 DEF CodeAt
    <3>3. payload[b] \in Nat /\ payload[b] = (payload[b] % 16) + 16 * (payload[b] \div 16)
      BY Nibbles
    <3>4. CASE 2 * b <= n
      <4>1. 2 * b \in 1..n /\ (2 * b) % 2 # 1 /\ (2 * b) \div 2 = b
        BY <3>4
      <4>2. codes[2 * b] = payload[b] \div 16
        BY <1>2, <4>1 DEF CodeAt
      <4> HIDE DEF codes
      <4> QED BY <3>2, <3>3, <3>4, <4>2
    <3>5. CASE ~(2 * b <= n)
      <4>1. n % 2 = 1 /\ b = Len(payload)
        BY <2>1, <3>1, <3>5
      <4>2. payload[b] \div 16 = 0
        BY <1>2, <4>1
      <4> HIDE DEF codes
      <4> QED BY <3>2, <3>3, <3>5, <4>2
    <3> QED BY <3>4, <3>5
  <2>3. PayloadSize(4, Len(codes)) = Len(payload)
    BY <1>0, <1>2
  <2>4. Pack(bits, codes) = [b \in 1..Len(payload) |-> payload[b]]
    <3> HIDE DEF codes
    <3>1. Pack(bits, codes) =
            [b \in 1..Len(payload) |->
               codes[2 * b - 1] + (IF 2 * b <= n THEN 16 * codes[2 * b] ELSE 0)]
      <4>1. Len(codes) = n
        BY <1>0
      <4>2. bits # 8
        BY <1>2
      <4>3. Pack(bits, codes) =
              [b \in 1..PayloadSize(4, Len(codes)) |->
                 codes[2 * b - 1] + (IF 2 * b <= Len(codes) THEN 16 * codes[2 * b] ELSE 0)]
        BY <4>2, Zenon DEF Pack
      <4> QED BY <2>3, <4>1, <4>3, Zenon
    <3>2. \A b \in 1..Len(payload) :
            codes[2 * b - 1] + (IF 2 * b <= n THEN 16 * codes[2 * b] ELSE 0) = payload[b]
      BY <2>2, Zenon
    <3> QED BY <3>1, <3>2, Zenon
  <2> QED BY <2>4
<1> QED BY <1>1, <1>2 DEF Widths

-----------------------------------------------------------------------------
(* Whole records *)

DecodeErrors ==
  {"PAYLOAD_LENGTH", "MAGIC", "VERSION", "BIT_WIDTH", "RESERVED", "SCALE",
   "PADDING_NIBBLE", "CODE", "ZERO_SCALE_CODE"}

\* The codes that a record of this width and scale may hold.
LegalCodes(bits, scale, codes) ==
  /\ codes \in Seq(0..(2 * SignedLimit(bits)))
  /\ IsZero(scale) => \A i \in 1..Len(codes) : codes[i] = SignedLimit(bits)
CodesOf(stored) ==
  [i \in 1..stored.header.count |-> CodeAt(stored.header.bits, stored.payload, i)]

\* The checks in front of the payload accept exactly the well-formed frames.
LEMMA FrameChecks ==
  ASSUME NEW stored
  PROVE  LET h == stored.header IN
         /\ FrameStatus(stored) = "OK" <=>
              /\ stored.complete /\ h.magic /\ h.version = 1 /\ h.bits \in {4, 8}
              /\ h.reserved = 0 /\ Len(stored.payload) = PayloadSize(h.bits, h.count)
              /\ HeaderStatus(h.count, h.scale) = "OK"
         /\ FrameStatus(stored) \in DecodeErrors \cup {"OK"}
<1> DEFINE h == stored.header
           checks == << <<~stored.complete, "PAYLOAD_LENGTH">>,
                        <<~h.magic, "MAGIC">>,
                        <<h.version # 1, "VERSION">>,
                        <<h.bits \notin {4, 8}, "BIT_WIDTH">>,
                        <<h.reserved # 0, "RESERVED">>,
                        <<Len(stored.payload) # PayloadSize(h.bits, h.count), "PAYLOAD_LENGTH">>,
                        <<HeaderStatus(h.count, h.scale) # "OK", "SCALE">> >>
<1>1. FrameStatus(stored) = FirstOf(checks)
  BY DEF FrameStatus
<1>2. DOMAIN checks = 1..7
  OBVIOUS
<1>3. \A i \in 1..7 : checks[i][2] \in DecodeErrors /\ checks[i][2] # "OK"
  BY DEF DecodeErrors
<1>4. (\A i \in 1..7 : ~checks[i][1]) <=>
        /\ stored.complete /\ h.magic /\ h.version = 1 /\ h.bits \in {4, 8}
        /\ h.reserved = 0 /\ Len(stored.payload) = PayloadSize(h.bits, h.count)
        /\ HeaderStatus(h.count, h.scale) = "OK"
  <2>1. (\A i \in 1..7 : ~checks[i][1]) <=>
          /\ ~checks[1][1] /\ ~checks[2][1] /\ ~checks[3][1] /\ ~checks[4][1]
          /\ ~checks[5][1] /\ ~checks[6][1] /\ ~checks[7][1]
    <3> HIDE DEF checks
    <3> QED OBVIOUS
  <2> QED BY <2>1
<1> HIDE DEF checks
<1>5. /\ FirstOf(checks) = "OK" <=> \A i \in 1..7 : ~checks[i][1]
      /\ FirstOf(checks) \in DecodeErrors \cup {"OK"}
  BY <1>2, <1>3, FirstOfChecks
<1> QED
  BY <1>1, <1>4, <1>5

\* The loop over the codes accepts exactly the legal ones.
LEMMA CodeChecks ==
  ASSUME NEW stored, stored.header.count \in Nat
  PROVE  LET h == stored.header
             code(i) == CodeAt(h.bits, stored.payload, i)
         IN /\ CodesStatus(stored) = "OK" <=>
                 \A i \in 1..h.count :
                   /\ ~(code(i) > 2 * SignedLimit(h.bits))
                   /\ IsZero(h.scale) => code(i) = SignedLimit(h.bits)
            /\ CodesStatus(stored) \in DecodeErrors \cup {"OK"}
<1> DEFINE h == stored.header
           code(i) == CodeAt(h.bits, stored.payload, i)
           bad(i) == << <<code(i) > 2 * SignedLimit(h.bits), "CODE">>,
                        <<IsZero(h.scale) /\ code(i) # SignedLimit(h.bits), "ZERO_SCALE_CODE">> >>
           loop == [i \in 1..h.count |-> <<FirstOf(bad(i)) # "OK", FirstOf(bad(i))>>]
<1>1. CodesStatus(stored) = FirstOf(loop)
  BY DEF CodesStatus
<1>2. ASSUME NEW i \in 1..h.count
      PROVE  /\ FirstOf(bad(i)) = "OK" <=>
                  /\ ~(code(i) > 2 * SignedLimit(h.bits))
                  /\ IsZero(h.scale) => code(i) = SignedLimit(h.bits)
             /\ FirstOf(bad(i)) \in DecodeErrors \cup {"OK"}
  <2> DEFINE checks == bad(i)
  <2>1. DOMAIN checks = 1..2
    OBVIOUS
  <2>2. \A k \in 1..2 : checks[k][2] \in DecodeErrors /\ checks[k][2] # "OK"
    BY DEF DecodeErrors
  <2>3. (\A k \in 1..2 : ~checks[k][1]) <=>
          /\ ~(code(i) > 2 * SignedLimit(h.bits))
          /\ IsZero(h.scale) => code(i) = SignedLimit(h.bits)
    <3>1. (\A k \in 1..2 : ~checks[k][1]) <=> ~checks[1][1] /\ ~checks[2][1]
      <4> HIDE DEF checks
      <4> QED OBVIOUS
    <3> HIDE DEF code
    <3> QED BY <3>1
  <2> HIDE DEF checks
  <2>4. /\ FirstOf(checks) = "OK" <=> \A k \in 1..2 : ~checks[k][1]
        /\ FirstOf(checks) \in DecodeErrors \cup {"OK"}
    BY <2>1, <2>2, FirstOfChecks
  <2> USE DEF checks
  <2> QED
    BY <2>3, <2>4
<1> HIDE DEF bad
<1>3. /\ DOMAIN loop = 1..h.count
      /\ \A i \in 1..h.count : /\ loop[i][1] <=> FirstOf(bad(i)) # "OK"
                               /\ loop[i][2] = FirstOf(bad(i))
  OBVIOUS
<1> HIDE DEF loop
<1>4. /\ FirstOf(loop) = "OK" <=> \A i \in 1..h.count : ~loop[i][1]
      /\ \/ FirstOf(loop) = "OK"
         \/ \E i \in 1..h.count : loop[i][1] /\ FirstOf(loop) = loop[i][2]
  BY <1>3, FirstOfChecks
<1> HIDE DEF code
<1>5. FirstOf(loop) = "OK" <=>
        \A i \in 1..h.count : /\ ~(code(i) > 2 * SignedLimit(h.bits))
                              /\ IsZero(h.scale) => code(i) = SignedLimit(h.bits)
  BY <1>2, <1>3, <1>4
<1>6. FirstOf(loop) \in DecodeErrors \cup {"OK"}
  BY <1>2, <1>3, <1>4
<1> USE DEF code
<1> QED
  BY <1>1, <1>5, <1>6

\* sq_decode_record returns OK or one of its own errors.
LEMMA DecodeStatusRange ==
  ASSUME NEW stored, stored.header.count \in Nat
  PROVE  DecodeStatus(stored) \in DecodeErrors \cup {"OK"}
BY FrameChecks, CodeChecks DEF DecodeStatus, DecodeErrors

\* A payload has the size its header promises, and it consists of bytes.
LEMMA PackBytes ==
  ASSUME NEW bits \in Widths, NEW codes \in Seq(0..(2 * SignedLimit(bits)))
  PROVE  /\ Pack(bits, codes) \in Seq(Byte)
         /\ Len(Pack(bits, codes)) = PayloadSize(bits, Len(codes))
         /\ PayloadSize(bits, Len(codes)) \in Nat
<1>1. CASE bits = 8
  BY <1>1 DEF Pack, PayloadSize, SignedLimit, Byte
<1>2. CASE bits = 4
  <2> DEFINE n == PayloadSize(4, Len(codes))
             byte(b) == codes[2 * b - 1]
                          + (IF 2 * b <= Len(codes) THEN 16 * codes[2 * b] ELSE 0)
  <2>1. Len(codes) \in Nat /\ n = (Len(codes) \div 2) + (Len(codes) % 2) /\ n \in Nat
    BY DEF PayloadSize
  <2>2. \A j \in 1..Len(codes) : codes[j] \in 0..14
    BY <1>2 DEF SignedLimit
  <2>3. ASSUME NEW b \in 1..n PROVE byte(b) \in Byte
    <3>1. 2 * b - 1 \in 1..Len(codes)
      BY <2>1
    <3>2. 2 * b <= Len(codes) => 2 * b \in 1..Len(codes)
      BY <2>1
    <3>3. codes[2 * b - 1] \in 0..14 /\ (2 * b <= Len(codes) => codes[2 * b] \in 0..14)
      BY <2>2, <3>1, <3>2
    <3>4. CASE 2 * b <= Len(codes)
      <4> DEFINE lo == codes[2 * b - 1]
                 hi == codes[2 * b]
      <4>1. byte(b) = lo + 16 * hi
        BY <3>4, Zenon
      <4>2. lo \in 0..14 /\ hi \in 0..14
        BY <3>3, <3>4
      <4> HIDE DEF lo, hi, byte
      <4> QED
        BY <4>1, <4>2 DEF Byte
    <3>5. CASE ~(2 * b <= Len(codes))
      <4> DEFINE lo == codes[2 * b - 1]
      <4>1. byte(b) = lo + 0
        BY <3>5, Zenon
      <4>2. lo \in 0..14
        BY <3>3
      <4> HIDE DEF lo, byte
      <4> QED
        BY <4>1, <4>2 DEF Byte
    <3> QED
      BY <3>4, <3>5
  <2>4. Pack(bits, codes) = [b \in 1..n |-> byte(b)]
    BY <1>2 DEF Pack
  <2> HIDE DEF n, byte
  <2>5. Pack(bits, codes) \in Seq(Byte) /\ Len(Pack(bits, codes)) = n
    BY <2>1, <2>3, <2>4
  <2> QED
    BY <1>2, <2>1, <2>5 DEF n
<1> QED
  BY <1>1, <1>2 DEF Widths

\* Every record the encoder makes from legal codes is one decompress accepts,
\* and it returns those codes.
THEOREM DecodeEncode ==
  ASSUME NEW bits \in Widths, NEW scale \in Scales, NEW codes,
         LegalCodes(bits, scale, codes), HeaderStatus(Len(codes), scale) = "OK"
  PROVE  LET record == EncodeRecord(bits, scale, codes) IN
         /\ record \in Bodies
         /\ DecodeStatus(record) = "OK"
         /\ DecodeValues(record) =
              [i \in 1..Len(codes) |->
                 [k |-> codes[i] - SignedLimit(bits),
                  scale |-> IF IsZero(scale) THEN "zero" ELSE scale]]
<1> DEFINE record == EncodeRecord(bits, scale, codes)
<1>1. /\ codes \in Seq(0..(2 * SignedLimit(bits))) /\ Len(codes) \in Nat
      /\ bits \in {4, 8} /\ bits \in Nat
  BY DEF LegalCodes, Widths
<1>2. /\ record.complete = TRUE
      /\ record.header = [magic |-> TRUE, version |-> 1, bits |-> bits, reserved |-> 0,
                          count |-> Len(codes), scale |-> scale]
      /\ record.payload = Pack(bits, codes)
      /\ record = [complete |-> record.complete, header |-> record.header,
                   payload |-> record.payload]
  BY DEF EncodeRecord
<1>3. /\ record.payload \in Seq(Byte)
      /\ Len(record.payload) = PayloadSize(bits, Len(codes))
  BY <1>1, <1>2, PackBytes
<1> HIDE DEF record
<1>4. record \in Bodies
  <2>1. record.header \in [magic : BOOLEAN, version : Nat, bits : Nat, reserved : Nat,
                           count : Nat, scale : Scales]
    BY <1>1, <1>2
  <2> QED
    BY <1>2, <1>3, <2>1 DEF Bodies
<1>5. FrameStatus(record) = "OK"
  BY <1>1, <1>2, <1>3, FrameChecks
<1>6. \A i \in 1..Len(codes) : CodeAt(bits, record.payload, i) = codes[i]
  BY <1>1, <1>2, PackInverts
<1>7. PaddingOk(record)
  <2> SUFFICES ASSUME bits = 4, Len(codes) % 2 = 1
               PROVE  record.payload[Len(record.payload)] \div 16 = 0
    BY <1>2 DEF PaddingOk
  <2> DEFINE n == Len(record.payload)
  <2>1. n = (Len(codes) \div 2) + (Len(codes) % 2)
    BY <1>3 DEF PayloadSize
  <2>2. n \in 1..n /\ 2 * n - 1 = Len(codes) /\ n = PayloadSize(4, Len(codes))
    BY <1>1, <1>3, <2>1
  <2>3. record.payload[n] =
          codes[2 * n - 1] + (IF 2 * n <= Len(codes) THEN 16 * codes[2 * n] ELSE 0)
    <3>1. record.payload =
            [b \in 1..n |->
               codes[2 * b - 1] + (IF 2 * b <= Len(codes) THEN 16 * codes[2 * b] ELSE 0)]
      <4>1. bits # 8
        OBVIOUS
      <4> QED
        BY <1>2, <2>2, <4>1, Zenon DEF Pack
    <3> HIDE DEF n
    <3> QED
      BY <2>2, <3>1
  <2>4. codes[Len(codes)] \in 0..14
    BY <1>1, <2>2 DEF SignedLimit
  <2> HIDE DEF n
  <2>5. record.payload[n] = codes[Len(codes)]
    BY <1>1, <2>1, <2>2, <2>3, <2>4, SMTT(30)
  <2> QED
    BY <2>4, <2>5 DEF n
<1>8. CodesStatus(record) = "OK"
  <2>1. ASSUME NEW i \in 1..Len(codes)
        PROVE  /\ ~(codes[i] > 2 * SignedLimit(bits))
               /\ IsZero(scale) => codes[i] = SignedLimit(bits)
    BY <1>1 DEF LegalCodes, SignedLimit
  <2> QED
    BY <1>1, <1>2, <1>6, <2>1, CodeChecks
<1>9. DecodeStatus(record) = "OK"
  BY <1>5, <1>7, <1>8 DEF DecodeStatus
<1>10. DecodeValues(record) =
         [i \in 1..Len(codes) |->
            [k |-> codes[i] - SignedLimit(bits),
             scale |-> IF IsZero(scale) THEN "zero" ELSE scale]]
  <2> DEFINE value == IF IsZero(scale) THEN "zero" ELSE scale
  <2>1. record.header.count = Len(codes) /\ record.header.bits = bits
        /\ record.header.scale = scale
    BY <1>2
  <2>2. DecodeValues(record) =
          [i \in 1..Len(codes) |->
             [k |-> CodeAt(bits, record.payload, i) - SignedLimit(bits), scale |-> value]]
    BY <2>1, Zenon DEF DecodeValues
  <2> HIDE DEF value
  <2>3. DecodeValues(record) =
          [i \in 1..Len(codes) |-> [k |-> codes[i] - SignedLimit(bits), scale |-> value]]
    BY <1>6, <2>2, Zenon
  <2> QED
    BY <2>3 DEF value
<1> QED
  BY <1>4, <1>9, <1>10 DEF record

\* A file that decompress accepts is, bit for bit, the encoding of legal
\* codes, those it returns: no header or payload bit is ignored.
THEOREM EncodeDecode ==
  ASSUME NEW stored \in Bodies, DecodeStatus(stored) = "OK"
  PROVE  /\ stored.header.bits \in Widths
         /\ LegalCodes(stored.header.bits, stored.header.scale, CodesOf(stored))
         /\ Len(CodesOf(stored)) = stored.header.count
         /\ HeaderStatus(stored.header.count, stored.header.scale) = "OK"
         /\ stored = EncodeRecord(stored.header.bits, stored.header.scale, CodesOf(stored))
<1> DEFINE h == stored.header
           codes == CodesOf(stored)
<1>1. FrameStatus(stored) = "OK" /\ PaddingOk(stored) /\ CodesStatus(stored) = "OK"
  BY FrameChecks DEF DecodeStatus, DecodeErrors
<1>2. /\ h \in [magic : BOOLEAN, version : Nat, bits : Nat, reserved : Nat, count : Nat,
                scale : Scales]
      /\ stored.payload \in Seq(Byte) /\ stored.complete \in BOOLEAN
  BY DEF Bodies
<1>3. /\ stored.complete /\ h.magic /\ h.version = 1 /\ h.bits \in Widths
      /\ h.reserved = 0 /\ Len(stored.payload) = PayloadSize(h.bits, h.count)
      /\ HeaderStatus(h.count, h.scale) = "OK"
  BY <1>1, FrameChecks DEF Widths
<1>4. h.count \in Nat
  BY <1>2
<1>5. Pack(h.bits, codes) = stored.payload
  <2>1. (h.bits = 4 /\ h.count % 2 = 1) => stored.payload[Len(stored.payload)] \div 16 = 0
    BY <1>1 DEF PaddingOk
  <2> QED
    BY <1>2, <1>3, <1>4, <2>1, CodesInvert DEF CodesOf
<1>6. ASSUME NEW i \in 1..h.count
      PROVE  /\ CodeAt(h.bits, stored.payload, i) \in 0..(2 * SignedLimit(h.bits))
             /\ IsZero(h.scale) => CodeAt(h.bits, stored.payload, i) = SignedLimit(h.bits)
  <2>1. /\ ~(CodeAt(h.bits, stored.payload, i) > 2 * SignedLimit(h.bits))
        /\ IsZero(h.scale) => CodeAt(h.bits, stored.payload, i) = SignedLimit(h.bits)
    BY <1>1, <1>4, CodeChecks
  <2>2. CodeAt(h.bits, stored.payload, i) \in Nat
    BY <1>2, <1>3, <1>4, CodeIsNatural
  <2>3. SignedLimit(h.bits) \in Nat
    BY DEF SignedLimit
  <2> HIDE DEF h
  <2> QED
    BY <2>1, <2>2, <2>3
<1>7. codes \in Seq(0..(2 * SignedLimit(h.bits))) /\ Len(codes) = h.count
      /\ \A i \in 1..h.count : codes[i] = CodeAt(h.bits, stored.payload, i)
  <2> DEFINE code(i) == CodeAt(h.bits, stored.payload, i)
             top == 2 * SignedLimit(h.bits)
  <2>1. codes = [i \in 1..h.count |-> code(i)]
    BY DEF CodesOf
  <2>2. \A i \in 1..h.count : code(i) \in 0..top
    BY <1>6
  <2> HIDE DEF code, codes, top, h
  <2>3. codes \in [1..h.count -> 0..top]
    BY <2>1, <2>2, Zenon
  <2>4. \A i \in 1..h.count : codes[i] = code(i)
    BY <2>1, Zenon
  <2>5. codes \in Seq(0..top) /\ Len(codes) = h.count
    BY <1>4, <2>3, FunctionIsSeq
  <2> QED
    BY <2>4, <2>5 DEF code, top
<1>8. LegalCodes(h.bits, h.scale, codes)
  <2> HIDE DEF codes, h
  <2> QED
    BY <1>6, <1>7 DEF LegalCodes
<1>9. h = [magic |-> TRUE, version |-> 1, bits |-> h.bits, reserved |-> 0,
           count |-> h.count, scale |-> h.scale]
  <2> HIDE DEF h
  <2> QED
    BY <1>2, <1>3
<1>10. stored = [complete |-> TRUE, header |-> h, payload |-> Pack(h.bits, codes)]
  <2> HIDE DEF codes
  <2> QED
    BY <1>3, <1>5 DEF Bodies
<1> HIDE DEF codes
<1>11. stored = EncodeRecord(h.bits, h.scale, codes)
  BY <1>7, <1>9, <1>10 DEF EncodeRecord
<1> QED
  BY <1>3, <1>7, <1>8, <1>11 DEF codes

-----------------------------------------------------------------------------
(* The stages by their position: in every command the output is written     *)
(* right after the stage that makes it, and the report comes last.          *)

WriteAt(r) == IF r.command = "expect" THEN 4 ELSE IF CpuGpuOrigin(r) THEN 5 ELSE 3
LastAt(r) ==
  IF r.command = "compress" THEN 3
  ELSE IF r.command = "expect" THEN 5
  ELSE IF CpuGpuOrigin(r) THEN 8
  ELSE IF CudaBenches(r) THEN 4 ELSE 6

\* The benchmarks whose timed loop runs in main.c.
Timed(r) == r.command = "bench" /\ ~CudaBenches(r)

\* What the command line asks for.
WantedRecord(r) ==
  IF CudaBenches(r) THEN CudaBenchRecord(r) ELSE Record(r, r.seed, r.base)
WantedSums(r) ==
  [t \in 1..r.seeds |-> DecodeValues(Record(r, r.seedStart + t - 1, r.base))]
Wanted(r) ==
  IF r.command = "expect" THEN [kind |-> "sums", body |-> WantedSums(r)]
  ELSE RecordFile(WantedRecord(r))
Ids(r) == [i \in 1..r.reps |-> IdOf(r, r.warmups + i - 1)]

-----------------------------------------------------------------------------
(* The inductive invariant *)

TypeOK ==
  /\ request \in Requests
  /\ at \in 0..LastAt(request) \cup {Exited}
  /\ written \in BOOLEAN /\ kept \in BOOLEAN
  /\ run \in Nat

\* Nothing has happened before the command line is accepted, and only an
\* accepted one gets further without an error.
Admitted ==
  /\ at = 0 => buffer = NoRecord
  /\ at <= 1 => run = 0
  /\ (at # 0 /\ status = "OK") => ValidateStatus(request) = "OK"
  /\ at # Exited => status = "OK" /\ decoded = NotRun

\* While nothing has failed: the file is untouched until its turn comes, the
\* right output is at hand at that moment, and the file keeps it.
OutputState ==
  status = "OK" =>
    /\ at <= WriteAt(request) => file = request.old /\ ~written
    /\ at >= WriteAt(request) => EncodeStatus(request) = "OK"
    /\ at = WriteAt(request) => Output(request) = Wanted(request)
    /\ at > WriteAt(request) =>
         /\ written = request.output
         /\ file = (IF request.output THEN Wanted(request) ELSE request.old)

\* The sums hold the first run seeds, in order, of an input that has a scale.
SumsState ==
  (status = "OK" /\ request.command = "expect") =>
    /\ sums = [t \in 1..run |-> WantedSums(request)[t]]
    /\ run <= request.seeds
    /\ at > 2 => EncodeStatus(request) = "OK"
    /\ at > 3 => run = request.seeds

\* The samples measured so far carry the identifiers of their repetitions.
SamplesState ==
  (status = "OK" /\ request.command = "bench" /\ at > 1) =>
    /\ CudaBenches(request) /\ at > 2 => samples = Ids(request)
    /\ Timed(request) =>
         /\ samples = [i \in 1..request.reps |-> samples[i]]
         /\ \A i \in 1..request.reps :
              i <= run - request.warmups => samples[i] = Ids(request)[i]
         /\ run <= request.warmups + request.reps
         /\ at > WriteAt(request) + 2 => run = request.warmups + request.reps

\* A benchmark prints at its end, and only if nothing failed.
ReportState ==
  request.command = "bench" =>
    report = (IF at = Exited /\ status = "OK"
              THEN [printed |-> TRUE, ids |-> PrintedIds(request), samples |-> Ids(request)]
              ELSE NoReport)

\* What a process may leave at the output path.
FileState ==
  \/ file = request.old
  \/ file = Absent
  \/ /\ ValidateStatus(request) = "OK" /\ EncodeStatus(request) = "OK"
     /\ file = Wanted(request) \/ file \in Torn(Wanted(request))

\* After an error: a new file is left only by a failed write or remove, or by
\* a clock that fails after the host-host benchmark has written.
Failure ==
  status # "OK" =>
    /\ (status # "IO" /\ ~kept) =>
         \/ file = request.old
         \/ file = Absent
         \/ /\ status = "CLOCK" /\ WriteAt(request) = 3 /\ Timed(request)
            /\ file = Wanted(request)
    /\ status = "ID_OVERFLOW" => ~written /\ run = 0 /\ buffer = NoRecord

\* The second process has read the file as it is.
DecodedState ==
  decoded # NotRun =>
    /\ at = Exited /\ file.kind = "record"
    /\ decoded = (IF DecodeStatus(file.body) = "OK"
                  THEN [status |-> "OK", values |-> DecodeValues(file.body)]
                  ELSE [status |-> DecodeStatus(file.body)])

IInv ==
  /\ TypeOK /\ Admitted /\ OutputState /\ SumsState /\ SamplesState /\ ReportState
  /\ FileState /\ Failure /\ DecodedState

-----------------------------------------------------------------------------
(* Requests *)

LoadErrors == {"PAYLOAD_LENGTH", "NONFINITE"}
EncodeErrors == {"NONFINITE", "SCALE_OVERFLOW", "SCALE"}

\* What an accepted command line satisfies.
LEMMA ValidateChecks ==
  ASSUME NEW r, ValidateStatus(r) = "OK"
  PROVE  /\ Required(r)
         /\ r.bits \in Widths
         /\ r.command = "bench" => RowsFor(r) # {}
         /\ NeedsCuda(r) => r.cudaBuild
         /\ r.command = "bench" =>
              InvocationRangeValid(r.tensor, r.base, r.warmups, r.reps, BenchRow(r).step)
<1> DEFINE bench == r.command = "bench"
           cuda == r.backend = "cuda"
           step == IF bench /\ RowsFor(r) # {} THEN BenchRow(r).step ELSE 0
           badRow == RowsFor(r) = {} \/ ("policy" \in r.seen /\ ~BenchRow(r).transfers)
           runs == IF bench THEN <<r.warmups, r.reps>> ELSE <<0, 1>>
           valid == InvocationRangeValid(r.tensor, r.base, runs[1], runs[2], step)
           checks == << <<~Required(r), "ARGUMENT">>,
                        <<r.bits \notin {4, 8}, "BIT_WIDTH">>,
                        <<~cuda /\ "geometry" \in r.seen, "ARGUMENT">>,
                        <<bench /\ badRow, "ARGUMENT">>,
                        <<"timings" \in r.seen /\ ~cuda, "TIMINGS_BACKEND">>,
                        <<NeedsCuda(r) /\ ~r.cudaBuild, "CUDA_UNAVAILABLE">>,
                        <<r.backend # "cpu-avx2" /\ "threads" \in r.seen, "ARGUMENT">>,
                        <<r.backend = "cpu-avx2" /\ ~r.avx2, "AVX2_UNAVAILABLE">>,
                        <<~valid, "ID_OVERFLOW">> >>
<1>1. FirstOf(checks) = "OK"
  BY DEF ValidateStatus
<1> HIDE DEF bench, cuda, step, badRow, runs, valid
<1>2. DOMAIN checks = 1..9
  OBVIOUS
<1>3. \A i \in 1..9 : checks[i][2] # "OK"
  OBVIOUS
<1>4. /\ checks[1][1] = ~Required(r)
      /\ checks[2][1] = (r.bits \notin {4, 8})
      /\ checks[4][1] = (bench /\ badRow)
      /\ checks[6][1] = (NeedsCuda(r) /\ ~r.cudaBuild)
      /\ checks[9][1] = ~valid
  OBVIOUS
<1> HIDE DEF checks
<1>5. \A i \in 1..9 : ~checks[i][1]
  BY <1>1, <1>2, <1>3, FirstOfChecks
<1>6. ~checks[1][1] /\ ~checks[2][1] /\ ~checks[4][1] /\ ~checks[6][1] /\ ~checks[9][1]
  BY <1>5
<1>7. Required(r) /\ r.bits \in {4, 8} /\ ~(bench /\ badRow) /\ ~(NeedsCuda(r) /\ ~r.cudaBuild)
      /\ valid
  BY <1>4, <1>6, Zenon
<1>8. bench => RowsFor(r) # {}
  BY <1>7 DEF badRow
<1>9. bench => step = BenchRow(r).step
  BY <1>8 DEF step
<1>10. bench => runs[1] = r.warmups /\ runs[2] = r.reps
  BY DEF runs
<1> QED
  BY <1>7, <1>8, <1>9, <1>10 DEF Widths, bench, valid

\* The row of a legal benchmark, and the GPU paths without a CUDA build.
LEMMA BenchRows ==
  ASSUME NEW r, IsRequest(r), ValidateStatus(r) = "OK"
  PROVE  /\ r.command = "bench" => BenchRow(r).step \in {0, 1}
         /\ CpuGpuOrigin(r) \/ CudaBenches(r) => r.cudaBuild
<1>1. r.command = "bench" => BenchRow(r) \in RowsFor(r)
  BY ValidateChecks DEF BenchRow
<1>2. \A row \in LegalityTable : row.step \in {0, 1}
  BY DEF LegalityTable, Row
<1>3. CpuGpuOrigin(r) => NeedsCuda(r)
  <2> SUFFICES ASSUME CpuGpuOrigin(r) PROVE NeedsCuda(r)
    OBVIOUS
  <2>1. r.command = "bench" /\ r.backend = "cpu" /\ r.boundary = "gpu-origin"
    BY DEF CpuGpuOrigin
  <2> DEFINE row == Row("cpu", "gpu-origin", {"d2h_ms", "cpu_ms"}, TRUE, TRUE, FALSE, 1)
  <2>2. row \in LegalityTable
    BY DEF LegalityTable
  <2>3. row.backend = "cpu" /\ row.boundary = "gpu-origin" /\ row.needsCuda
    BY DEF Row
  <2> HIDE DEF row
  <2>4. row \in RowsFor(r)
    BY <2>1, <2>2, <2>3 DEF RowsFor
  <2> QED
    BY <2>1, <2>3, <2>4 DEF NeedsCuda
<1>4. CudaBenches(r) => NeedsCuda(r)
  BY DEF CudaBenches, NeedsCuda
<1> QED
  BY <1>1, <1>2, <1>3, <1>4, ValidateChecks DEF RowsFor

\* Where each stage stands, in a command line that was accepted.
LEMMA StageTable ==
  ASSUME NEW r, IsRequest(r), ValidateStatus(r) = "OK"
  PROVE  /\ Len(Stages(r)) = LastAt(r)
         /\ LastAt(r) \in 3..8 /\ WriteAt(r) \in 3..5 /\ WriteAt(r) <= LastAt(r)
         /\ Stages(r)[3] = "write" <=> WriteAt(r) = 3
         /\ \A i \in 1..LastAt(r) :
              /\ Stages(r)[i] = "load" => i = 1
              /\ Stages(r)[i] = "base" =>
                   /\ r.command # "expect" /\ ~CudaBenches(r)
                   /\ i + 1 = WriteAt(r) /\ i > 1
              /\ Stages(r)[i] = "cuda" => CudaBenches(r) /\ i = 2 /\ WriteAt(r) = 3
              /\ Stages(r)[i] = "scale" => r.command = "expect" /\ i = 2
              /\ Stages(r)[i] = "seeds" => r.command = "expect" /\ i = 3
              /\ Stages(r)[i] = "write" => i = WriteAt(r)
              /\ Stages(r)[i] = "create" => CpuGpuOrigin(r) /\ i = 2
              /\ Stages(r)[i] = "download" => CpuGpuOrigin(r) /\ i = 3
              /\ Stages(r)[i] = "clock" => Timed(r) /\ i = WriteAt(r) + 1
              /\ Stages(r)[i] = "loop" => Timed(r) /\ i = WriteAt(r) + 2
              /\ Stages(r)[i] = "print" => r.command # "compress" /\ i = LastAt(r)
         /\ r.command # "compress" => WriteAt(r) < LastAt(r)
         /\ Timed(r) => LastAt(r) = WriteAt(r) + 3
         /\ CudaBenches(r) => LastAt(r) = 4 /\ WriteAt(r) = 3
         /\ r.command = "expect" => LastAt(r) = 5 /\ WriteAt(r) = 4
<1>1. CpuGpuOrigin(r) \/ CudaBenches(r) => r.cudaBuild
  BY BenchRows
<1>2. /\ r.command \in {"compress", "bench", "expect"}
      /\ CpuGpuOrigin(r) => r.command = "bench" /\ r.backend = "cpu"
      /\ CudaBenches(r) => r.command = "bench" /\ r.backend = "cuda"
      /\ CpuGpuOrigin(r) \in BOOLEAN /\ CudaBenches(r) \in BOOLEAN
  BY DEF IsRequest, CpuGpuOrigin, CudaBenches
<1>3. CASE r.command = "compress"
  <2>1. Stages(r) = <<"load", "base", "write">>
    BY <1>2, <1>3 DEF Stages
  <2> QED
    BY <1>2, <1>3, <2>1 DEF LastAt, WriteAt, Timed
<1>4. CASE r.command = "expect"
  <2>1. Stages(r) = <<"load", "scale", "seeds", "write", "print">>
    BY <1>2, <1>4 DEF Stages
  <2> QED
    BY <1>2, <1>4, <2>1 DEF LastAt, WriteAt, Timed
<1>5. CASE r.command = "bench" /\ CpuGpuOrigin(r)
  <2>1. Stages(r) = <<"load", "create", "download", "base", "write", "clock", "loop", "print">>
    BY <1>1, <1>2, <1>5 DEF Stages
  <2> QED
    BY <1>2, <1>5, <2>1 DEF LastAt, WriteAt, Timed
<1>6. CASE r.command = "bench" /\ CudaBenches(r)
  <2>1. Stages(r) = <<"load", "cuda", "write", "print">>
    BY <1>1, <1>2, <1>6 DEF Stages
  <2> QED
    BY <1>2, <1>6, <2>1 DEF LastAt, WriteAt, Timed
<1>7. CASE r.command = "bench" /\ ~CpuGpuOrigin(r) /\ ~CudaBenches(r)
  <2>1. Stages(r) = <<"load", "base", "write", "clock", "loop", "print">>
    BY <1>2, <1>7 DEF Stages
  <2> QED
    BY <1>2, <1>7, <2>1 DEF LastAt, WriteAt, Timed
<1> QED
  BY <1>2, <1>3, <1>4, <1>5, <1>6, <1>7

\* The identifiers of a run that was accepted fit in 32 bits.
LEMMA StreamsAccepted ==
  ASSUME NEW r, IsRequest(r), ValidateStatus(r) = "OK", r.command = "bench",
         NEW index \in Nat, index < r.warmups + r.reps
  PROVE  ~StreamRefused(r, IdOf(r, index))
<1>1. BenchRow(r).step \in Nat
  BY BenchRows
<1>2. InvocationRangeValid(r.tensor, r.base, r.warmups, r.reps, BenchRow(r).step)
  BY ValidateChecks
<1>3. r.tensor \in Uint64 /\ r.base \in Uint64 /\ r.warmups \in Uint64 /\ r.reps \in Uint64
  BY DEF IsRequest
<1>4. IdOf(r, index) <= UINT32_MAX
    /\ IdOf(r, index) = r.base + Offset(r.warmups, r.reps, index) * BenchRow(r).step
  BY <1>1, <1>2, <1>3, RunIdsFit DEF IdOf
<1>5. IdOf(r, index) \in Nat /\ UINT32_MAX \in Int
  <2>1. /\ r.base \in Nat /\ r.warmups \in Nat /\ r.reps \in Nat
        /\ r.warmups + r.reps <= UINT64_MAX /\ UINT32_MAX \in Int
    BY <1>2, <1>3, WordWidths, WidthAssumption
    DEF Uint64, InvocationRangeValid, UINT64_MAX, UINT32_MAX
  <2>2. Offset(r.warmups, r.reps, index) \in Nat
    BY <1>3, <2>1, Offsets
  <2> DEFINE o == Offset(r.warmups, r.reps, index)
             s == BenchRow(r).step
             b == r.base
  <2>3. o \in Nat /\ s \in Nat /\ b \in Nat /\ IdOf(r, index) = b + o * s
    BY <1>1, <1>4, <2>1, <2>2
  <2> HIDE DEF o, s, b
  <2>4. b + o * s \in Nat
    BY <2>3, Z3
  <2> QED
    BY <2>1, <2>3, <2>4
<1> QED
  BY <1>4, <1>5 DEF StreamRefused

\* The statuses that the input can cause.
LEMMA LoadRange == ASSUME NEW r PROVE LoadStatus(r) \in LoadErrors \cup {"OK"}
<1> DEFINE checks ==
      << <<r.kind = "ragged" \/ (r.command = "expect" /\ r.count = 0), "PAYLOAD_LENGTH">>,
         <<r.words = "short", "PAYLOAD_LENGTH">>,
         <<r.command = "bench" /\ r.kind = "nonfinite", "NONFINITE">> >>
<1>1. LoadStatus(r) = FirstOf(checks)
  BY DEF LoadStatus
<1>2. DOMAIN checks = 1..3 /\ \A i \in 1..3 : checks[i][2] # "OK" /\ checks[i][2] \in LoadErrors
  BY DEF LoadErrors
<1> HIDE DEF checks
<1> QED
  BY <1>1, <1>2, FirstOfChecks

\* The statuses of the encoder, and what its OK says about the header.
LEMMA EncodeRange ==
  ASSUME NEW r
  PROVE  /\ EncodeStatus(r) \in EncodeErrors \cup {"OK"}
         /\ EncodeStatus(r) = "OK" => HeaderStatus(r.count, Scale(r)) = "OK"
<1> DEFINE checks ==
      << <<r.kind = "nonfinite" /\ r.scale = "none", "NONFINITE">>,
         <<r.kind = "overflow" /\ r.scale = "none", "SCALE_OVERFLOW">>,
         <<HeaderStatus(r.count, Scale(r)) # "OK", "SCALE">>,
         <<r.kind = "nonfinite", "NONFINITE">>,
         <<r.count # 0 /\ IsZero(Scale(r)) # (r.kind = "zero"), "SCALE">> >>
<1>1. EncodeStatus(r) = FirstOf(checks)
  BY DEF EncodeStatus
<1>2. DOMAIN checks = 1..5 /\ \A i \in 1..5 : checks[i][2] # "OK" /\ checks[i][2] \in EncodeErrors
  BY DEF EncodeErrors
<1>3. checks[3][1] = (HeaderStatus(r.count, Scale(r)) # "OK")
  OBVIOUS
<1> HIDE DEF checks
<1>4. /\ FirstOf(checks) \in EncodeErrors \cup {"OK"}
      /\ FirstOf(checks) = "OK" => \A i \in 1..5 : ~checks[i][1]
  BY <1>2, FirstOfChecks
<1>5. FirstOf(checks) = "OK" => ~checks[3][1]
  BY <1>4
<1> QED
  BY <1>1, <1>3, <1>4, <1>5

-----------------------------------------------------------------------------
(* Records *)

\* The stand-in codes are legal ones, for every seed and identifier.
LEMMA CodesLegal ==
  ASSUME NEW r, IsRequest(r), r.bits \in Widths, NEW seed \in Nat, NEW id \in Nat
  PROVE  /\ LegalCodes(r.bits, Scale(r), Codes(r, seed, id))
         /\ Len(Codes(r, seed, id)) = r.count
         /\ Scale(r) \in Scales
<1> DEFINE limit == SignedLimit(r.bits)
           draw == Draw(r, seed, id)
           code(i) == IF IsZero(Scale(r)) THEN limit ELSE (i + draw) % (2 * limit + 1)
           codes == Codes(r, seed, id)
<1>1. limit \in {7, 127} /\ r.count \in Nat
  BY DEF SignedLimit, IsRequest
<1>2. draw \in Nat
  BY DEF Draw
<1>3. codes = [i \in 1..r.count |-> code(i)]
  BY Zenon DEF Codes
<1> HIDE DEF limit, draw, codes
<1>4. ASSUME NEW i \in 1..r.count
      PROVE  code(i) \in 0..(2 * limit) /\ (IsZero(Scale(r)) => code(i) = limit)
  <2>1. limit \in 0..(2 * limit)
    BY <1>1
  <2>2. (i + draw) % (2 * limit + 1) \in 0..(2 * limit)
    BY <1>1, <1>2
  <2> QED
    BY <2>1, <2>2
<1> DEFINE S == 0..(2 * limit)
<1>5. \A i \in 1..r.count : code(i) \in S /\ (IsZero(Scale(r)) => code(i) = limit)
  BY <1>4
<1> HIDE DEF code, S
<1>6. codes \in [1..r.count -> S]
  BY <1>3, <1>5, Zenon
<1>7. codes \in Seq(S) /\ Len(codes) = r.count
  BY <1>1, <1>6, FunctionIsSeq
<1>8. \A i \in 1..r.count : IsZero(Scale(r)) => codes[i] = limit
  BY <1>3, <1>5, Zenon
<1>9. LegalCodes(r.bits, Scale(r), codes)
  BY <1>7, <1>8 DEF LegalCodes, limit, S
<1>10. Scale(r) \in Scales
  BY DEF Scale, Scales, IsRequest
<1> QED
  BY <1>7, <1>9, <1>10 DEF codes

\* The record of any compression that succeeds decodes to its codes.
LEMMA RecordDecodes ==
  ASSUME NEW r, IsRequest(r), ValidateStatus(r) = "OK", EncodeStatus(r) = "OK",
         NEW seed \in Nat, NEW id \in Nat
  PROVE  LET record == Record(r, seed, id) IN
         /\ record \in Bodies /\ DecodeStatus(record) = "OK"
         /\ record.header.count = r.count
         /\ Len(DecodeValues(record)) = r.count
         /\ \A i \in 1..r.count :
              DecodeValues(record)[i].k = Codes(r, seed, id)[i] - SignedLimit(r.bits)
<1> DEFINE record == Record(r, seed, id)
           codes == Codes(r, seed, id)
           value == IF IsZero(Scale(r)) THEN "zero" ELSE Scale(r)
<1>1. r.bits \in Widths /\ r.count \in Nat
  BY ValidateChecks DEF IsRequest
<1>2. LegalCodes(r.bits, Scale(r), codes) /\ Len(codes) = r.count /\ Scale(r) \in Scales
  BY <1>1, CodesLegal
<1>3. HeaderStatus(Len(codes), Scale(r)) = "OK"
  BY <1>2, EncodeRange
<1>4. record = EncodeRecord(r.bits, Scale(r), codes)
  BY DEF Record
<1> HIDE DEF record, codes, value
<1>5. /\ record \in Bodies /\ DecodeStatus(record) = "OK"
      /\ DecodeValues(record) =
           [i \in 1..Len(codes) |-> [k |-> codes[i] - SignedLimit(r.bits), scale |-> value]]
  BY <1>1, <1>2, <1>3, <1>4, DecodeEncode DEF value
<1>6. record.header.count = r.count
  BY <1>2, <1>4 DEF EncodeRecord
<1>7. Len(DecodeValues(record)) = r.count
  BY <1>1, <1>2, <1>5
<1>8. \A i \in 1..r.count : DecodeValues(record)[i].k = codes[i] - SignedLimit(r.bits)
  BY <1>1, <1>2, <1>5
<1> QED
  BY <1>5, <1>6, <1>7, <1>8 DEF record, codes

\* The record a command is asked for is a good one, and bench on the CUDA
\* backend and compress differ only in the sign of an empty record's scale.
LEMMA WantedIsGood ==
  ASSUME NEW r, IsRequest(r), ValidateStatus(r) = "OK", EncodeStatus(r) = "OK"
  PROVE  /\ WantedRecord(r) \in Bodies /\ DecodeStatus(WantedRecord(r)) = "OK"
         /\ Plain(WantedRecord(r)) = Plain(Record(r, r.seed, r.base))
         /\ Len(DecodeValues(WantedRecord(r))) = r.count
         /\ \A i \in 1..r.count :
              DecodeValues(WantedRecord(r))[i].k =
                Codes(r, r.seed, r.base)[i] - SignedLimit(r.bits)
<1>1. r.seed \in Nat /\ r.base \in Nat /\ r.bits \in Widths /\ r.count \in Nat
  BY ValidateChecks, WordWidths DEF IsRequest, Uint64, UINT64_MAX
<1>2. CASE WantedRecord(r) = Record(r, r.seed, r.base)
  BY <1>1, <1>2, RecordDecodes, SMTT(30)
<1>3. CASE WantedRecord(r) # Record(r, r.seed, r.base)
  <2> DEFINE empty == EncodeRecord(r.bits, "zero", <<>>)
             made == Record(r, r.seed, r.base)
             codes == Codes(r, r.seed, r.base)
  <2>1. r.count = 0 /\ WantedRecord(r) = empty
    BY <1>3 DEF WantedRecord, CudaBenchRecord
  <2>2. Len(codes) = 0 /\ codes \in Seq(Int)
    <3>1. LegalCodes(r.bits, Scale(r), codes) /\ Len(codes) = r.count
      BY <1>1, CodesLegal
    <3>2. 0..(2 * SignedLimit(r.bits)) \subseteq Int
      BY DEF SignedLimit
    <3> HIDE DEF codes
    <3> QED
      BY <2>1, <3>1, <3>2 DEF LegalCodes
  <2>3. codes = <<>>
    <3> HIDE DEF codes
    <3> QED
      BY <2>2
  <2>4. Plain(empty) = Plain(made)
    <3>1. made = EncodeRecord(r.bits, Scale(r), <<>>)
      BY <2>3 DEF Record
    <3> DEFINE scale == Scale(r)
               payload == Pack(r.bits, <<>>)
               bits == r.bits
               Rec(s) == [complete |-> TRUE,
                          header |-> [magic |-> TRUE, version |-> 1, bits |-> bits,
                                      reserved |-> 0, count |-> 0, scale |-> s],
                          payload |-> payload]
    <3>2. empty = Rec("zero") /\ made = Rec(scale)
      BY <3>1 DEF EncodeRecord
    <3> HIDE DEF scale, payload, bits, empty, made
    <3>3. Plain(Rec("zero")) = Rec("zero") /\ Plain(Rec(scale)) = Rec("zero")
      BY DEF Plain
    <3> QED
      BY <3>2, <3>3
  <2>5. LegalCodes(r.bits, "zero", <<>>) /\ HeaderStatus(Len(<<>>), "zero") = "OK"
    BY DEF LegalCodes, HeaderStatus, IsZero
  <2>6. empty \in Bodies /\ DecodeStatus(empty) = "OK"
    <3> DEFINE nil == <<>>
               zero == "zero"
    <3>1. zero \in Scales /\ LegalCodes(r.bits, zero, nil) /\ HeaderStatus(Len(nil), zero) = "OK"
      BY <2>5 DEF Scales
    <3> HIDE DEF nil, zero, empty
    <3>2. EncodeRecord(r.bits, zero, nil) \in Bodies
          /\ DecodeStatus(EncodeRecord(r.bits, zero, nil)) = "OK"
      BY <1>1, <3>1, DecodeEncode
    <3> QED
      BY <3>2 DEF nil, zero, empty
  <2>7. Len(DecodeValues(empty)) = 0
    <3>1. empty.header.count = 0
      BY DEF EncodeRecord
    <3> HIDE DEF empty
    <3> QED
      BY <3>1 DEF DecodeValues
  <2> HIDE DEF empty, made
  <2> QED
    BY <2>1, <2>4, <2>6, <2>7 DEF made
<1> QED
  BY <1>2, <1>3

\* A record with another payload.
LEMMA PayloadUpdate ==
  ASSUME NEW C, NEW H, NEW P, NEW record \in [complete : C, header : H, payload : P], NEW q
  PROVE  [record EXCEPT !.payload = q]
           = [complete |-> record.complete, header |-> record.header, payload |-> q]
OBVIOUS

\* A torn write of a good record: some file, and decompress accepts it only if
\* all of the record got there.
LEMMA TornRecords ==
  ASSUME NEW record \in Bodies, DecodeStatus(record) = "OK",
         NEW f \in Torn(RecordFile(record))
  PROVE  /\ f.kind = "record" /\ f = RecordFile(f.body) /\ f.body \in Bodies
         /\ DecodeStatus(f.body) = "OK" => f = RecordFile(record)
<1> DEFINE p == record.payload
           cut == [complete |-> FALSE, header |-> record.header, payload |-> <<>>]
           part(k) == [record EXCEPT !.payload = SubSeq(@, 1, k)]
<1>0. record = [complete |-> record.complete, header |-> record.header,
                payload |-> record.payload]
      /\ record.complete \in BOOLEAN
      /\ record.header \in [magic : BOOLEAN, version : Nat, bits : Nat, reserved : Nat,
                            count : Nat, scale : Scales]
  BY DEF Bodies
<1>1. p \in Seq(Byte) /\ Len(p) \in Nat
  BY DEF Bodies
<1>2. f = RecordFile(cut) \/ \E k \in 0..Len(p) : f = RecordFile(part(k))
  <2>1. RecordFile(record).kind = "record" /\ RecordFile(record).body = record
    BY DEF RecordFile
  <2> QED
    BY <2>1, Zenon DEF Torn
<1>3. \A b : RecordFile(b).kind = "record" /\ RecordFile(b).body = b
  BY DEF RecordFile
<1>4. CASE f = RecordFile(cut)
  <2>1. cut \in Bodies /\ ~cut.complete
    <3>1. <<>> \in Seq(Byte)
      OBVIOUS
    <3> QED
      BY <1>0, <3>1 DEF Bodies
  <2> HIDE DEF cut
  <2>2. f.body = cut
    BY <1>3, <1>4
  <2>3. DecodeStatus(cut) # "OK"
    BY <2>1, FrameChecks DEF DecodeStatus, DecodeErrors
  <2> QED
    BY <1>3, <1>4, <2>1, <2>2, <2>3
<1>5. ASSUME NEW k \in 0..Len(p), f = RecordFile(part(k))
      PROVE  /\ f.kind = "record" /\ f = RecordFile(f.body) /\ f.body \in Bodies
             /\ DecodeStatus(f.body) = "OK" => f = RecordFile(record)
  <2> DEFINE b == part(k)
             q == SubSeq(p, 1, k)
  <2>1. q \in Seq(Byte) /\ Len(q) = k
    <3> HIDE DEF p
    <3> QED
      BY <1>1, SubSeqProperties
  <2>2. b = [complete |-> record.complete, header |-> record.header, payload |-> q]
    <3> DEFINE H == [magic : BOOLEAN, version : Nat, bits : Nat, reserved : Nat,
                     count : Nat, scale : Scales]
    <3>1. record \in [complete : BOOLEAN, header : H, payload : Seq(Byte)]
      BY DEF Bodies
    <3>2. b = [record EXCEPT !.payload = q]
      OBVIOUS
    <3> HIDE DEF H, b, q
    <3>3. [record EXCEPT !.payload = q]
            = [complete |-> record.complete, header |-> record.header, payload |-> q]
      BY <3>1, PayloadUpdate
    <3> QED
      BY <3>2, <3>3, Zenon
  <2>3. record = [complete |-> record.complete, header |-> record.header, payload |-> p]
    BY <1>0
  <2> HIDE DEF b, q, part
  <2>4. b \in Bodies
    BY <1>0, <2>1, <2>2 DEF Bodies
  <2>5. b.header = record.header /\ b.payload = q
    BY <2>2
  <2> HIDE DEF b, q, p
  <2>6. f.body = b
    BY <1>3, <1>5 DEF b, part
  <2>7. DecodeStatus(b) = "OK" => b = record
    <3> SUFFICES ASSUME DecodeStatus(b) = "OK" PROVE b = record
      OBVIOUS
    <3>1. FrameStatus(b) = "OK" /\ FrameStatus(record) = "OK"
      BY FrameChecks DEF DecodeStatus, DecodeErrors
    <3>2. Len(q) = PayloadSize(record.header.bits, record.header.count)
          /\ Len(p) = PayloadSize(record.header.bits, record.header.count)
      BY <2>5, <3>1, FrameChecks DEF p
    <3>3. q = p
      BY <1>1, <2>1, <3>2, SubSeqFull DEF q
    <3> QED
      BY <2>2, <2>3, <3>3
  <2> QED
    BY <1>3, <1>5, <2>4, <2>6, <2>7 DEF b, part
<1> QED
  BY <1>2, <1>4, <1>5

-----------------------------------------------------------------------------
(* The steps *)

\* A run of the process between its validation and its exit.
Working == at \in 1..LastAt(request)

\* What is known between validation and exit.
LEMMA WhileWorking ==
  ASSUME IInv, Working
  PROVE  /\ IsRequest(request) /\ ValidateStatus(request) = "OK"
         /\ status = "OK" /\ at # Exited /\ decoded = NotRun
         /\ LastAt(request) \in 3..8 /\ WriteAt(request) \in 3..5
         /\ LastAt(request) = Len(Stages(request))
<1>1. request \in Requests
  BY DEF IInv, TypeOK
<1>2. IsRequest(request)
  BY <1>1, RequestsAssumption
<1>3. LastAt(request) \in 3..8 /\ WriteAt(request) \in 3..5
  BY DEF LastAt, WriteAt
<1>4. at \in 1..8 /\ at # Exited /\ at # 0
  BY <1>3 DEF Working, Exited
<1>5. status = "OK" /\ decoded = NotRun /\ ValidateStatus(request) = "OK"
  BY <1>4 DEF IInv, Admitted
<1> QED
  BY <1>2, <1>3, <1>4, <1>5, StageTable

\* The process is at work when it reaches a stage.
LEMMA AtStage ==
  ASSUME IInv, NEW s, Stage(s)
  PROVE  Working /\ Stages(request)[at] = s
<1>1. at \in 1..Len(Stages(request)) /\ Stages(request)[at] = s
  BY DEF Stage
<1>2. at \in 0..LastAt(request) \/ at = Exited
  BY DEF IInv, TypeOK
<1>3. LastAt(request) \in 3..8
  BY DEF LastAt
<1>4. at # Exited
  <2>1. Len(Stages(request)) <= 8
    BY DEF Stages
  <2> QED
    BY <1>1, <2>1 DEF Exited
<1>5. at \in Nat /\ at # 0
  BY <1>1
<1> QED
  BY <1>1, <1>2, <1>3, <1>4, <1>5 DEF Working

\* An error that is not one of the command line's ends the process with the
\* file untouched, or taken back, or kept by the host-host benchmark when the
\* clock fails.
LEMMA LeaveKeeps ==
  ASSUME IInv, Working, NEW e, Leave(e), e \notin {"OK", "ID_OVERFLOW"},
         \/ at <= WriteAt(request)
         \/ Timed(request) /\ (CpuGpuOrigin(request) \/ e = "CLOCK")
  PROVE  IInv'
<1>1. /\ IsRequest(request) /\ ValidateStatus(request) = "OK"
      /\ status = "OK" /\ decoded = NotRun
      /\ LastAt(request) \in 3..8 /\ WriteAt(request) \in 3..5
  BY WhileWorking
<1>2. /\ status' = e /\ at' = Exited /\ request' = request /\ buffer' = buffer
      /\ written' = written /\ run' = run /\ samples' = samples /\ sums' = sums
      /\ report' = report /\ decoded' = decoded
  BY DEF Leave
<1>3. \/ CleansUp(request) /\ written /\ file' = Absent /\ kept' = kept
      \/ CleansUp(request) /\ written /\ file' = file /\ kept' = TRUE
      \/ ~(CleansUp(request) /\ written) /\ file' = file /\ kept' = kept
  BY DEF Leave
<1>4. at \in 1..LastAt(request) /\ at # Exited
  BY WhileWorking DEF Working
<1>5. \/ file = request.old
      \/ /\ at > WriteAt(request) /\ file = Wanted(request) /\ written
         /\ EncodeStatus(request) = "OK"
  <2>1. at <= WriteAt(request) => file = request.old
    BY <1>1 DEF IInv, OutputState
  <2>2. at > WriteAt(request) =>
          /\ written = request.output
          /\ file = (IF request.output THEN Wanted(request) ELSE request.old)
          /\ EncodeStatus(request) = "OK"
    BY <1>1, <1>4 DEF IInv, OutputState
  <2>3. request.output \in BOOLEAN
    BY <1>1 DEF IsRequest
  <2> QED
    BY <1>1, <1>4, <2>1, <2>2, <2>3
<1>6. TypeOK'
  <2>1. kept' \in BOOLEAN
    BY <1>3 DEF IInv, TypeOK
  <2> QED
    BY <1>2, <2>1 DEF IInv, TypeOK
<1>7. Admitted'
  BY <1>2 DEF Admitted, Exited
<1>8. OutputState' /\ SumsState' /\ SamplesState'
  BY <1>2 DEF OutputState, SumsState, SamplesState
<1>9. ReportState'
  <2>1. request.command = "bench" => report = NoReport
    BY <1>4 DEF IInv, ReportState
  <2> QED
    BY <1>2, <2>1 DEF ReportState
<1>10. FileState'
  <2>1. file' = file \/ file' = Absent
    BY <1>3
  <2> QED
    BY <1>1, <1>2, <1>5, <2>1 DEF FileState
<1>11. Failure'
  <2>1. (e # "IO" /\ ~kept') =>
          \/ file' = request.old
          \/ file' = Absent
          \/ /\ e = "CLOCK" /\ WriteAt(request) = 3 /\ Timed(request)
             /\ file' = Wanted(request)
    <3>1. ~CpuGpuOrigin(request) /\ Timed(request) => WriteAt(request) = 3
      BY DEF Timed, WriteAt
    <3>2. CleansUp(request) <=> CpuGpuOrigin(request)
      BY DEF CleansUp
    <3>3. ~(at <= WriteAt(request) /\ at > WriteAt(request))
      BY <1>1, <1>4
    <3> QED
      BY <1>3, <1>5, <3>1, <3>2, <3>3
  <2> QED
    BY <1>2, <2>1 DEF Failure
<1>12. DecodedState'
  BY <1>1, <1>2 DEF DecodedState
<1> QED
  BY <1>6, <1>7, <1>8, <1>9, <1>10, <1>11, <1>12 DEF IInv

\* A stage that is passed without touching anything.
LEMMA MoveOn ==
  ASSUME IInv, Working, Advance,
         UNCHANGED <<request, status, buffer, written, run, samples, sums, file, report, kept,
                     decoded>>,
         at > 1, at < LastAt(request), at # WriteAt(request),
         ~(CudaBenches(request) /\ at = 2),
         at + 1 = WriteAt(request) =>
           EncodeStatus(request) = "OK" /\ Output(request) = Wanted(request),
         request.command = "expect" =>
           EncodeStatus(request) = "OK" /\ (at = 3 => run = request.seeds),
         Timed(request) /\ at = WriteAt(request) + 2 => run = request.warmups + request.reps
  PROVE  IInv'
<1>1. /\ IsRequest(request) /\ ValidateStatus(request) = "OK"
      /\ status = "OK" /\ decoded = NotRun /\ at # Exited
      /\ LastAt(request) \in 3..8 /\ WriteAt(request) \in 3..5
      /\ LastAt(request) = Len(Stages(request))
  BY WhileWorking
<1>2. at \in 2..7 /\ at' = at + 1 /\ at' # Exited
  BY <1>1 DEF Working, Advance, Exited
<1>3. /\ request' = request /\ status' = status /\ buffer' = buffer /\ written' = written
      /\ run' = run /\ samples' = samples /\ sums' = sums /\ file' = file /\ report' = report
      /\ kept' = kept /\ decoded' = decoded
  OBVIOUS
<1>4. TypeOK'
  BY <1>1, <1>2, <1>3 DEF IInv, TypeOK
<1>5. Admitted'
  BY <1>1, <1>2, <1>3 DEF Admitted
<1>6. OutputState'
  <2>1. at' <= WriteAt(request) => at <= WriteAt(request)
    BY <1>1, <1>2
  <2>2. at' >= WriteAt(request) => at >= WriteAt(request) \/ at + 1 = WriteAt(request)
    BY <1>1, <1>2
  <2>3. at' > WriteAt(request) => at > WriteAt(request)
    BY <1>1, <1>2
  <2>4. (Output(request))' = Output(request)
    BY <1>3 DEF Output
  <2> QED
    BY <1>1, <1>2, <1>3, <2>1, <2>2, <2>3, <2>4 DEF IInv, OutputState
<1>7. SumsState'
  BY <1>1, <1>2, <1>3 DEF IInv, SumsState
<1>8. SamplesState'
  <2>1. at > WriteAt(request) + 2 \/ at = WriteAt(request) + 2
          \/ ~(at' > WriteAt(request) + 2)
    BY <1>1, <1>2
  <2>2. at > 1 /\ at' > 1 /\ (at' > 2 => at > 2 \/ at = 2)
    BY <1>2
  <2> QED
    BY <1>1, <1>3, <2>1, <2>2 DEF IInv, SamplesState
<1>9. ReportState'
  BY <1>1, <1>2, <1>3 DEF IInv, ReportState
<1>10. FileState' /\ Failure' /\ DecodedState'
  BY <1>1, <1>3 DEF IInv, FileState, Failure, DecodedState
<1> QED
  BY <1>4, <1>5, <1>6, <1>7, <1>8, <1>9, <1>10 DEF IInv

\* The process starts with nothing done.
LEMMA InitIInv == ASSUME Init PROVE IInv
<1>1. IsRequest(request) /\ request \in Requests
  BY RequestsAssumption DEF Init
<1>2. /\ file = request.old /\ at = 0 /\ status = "OK" /\ buffer = NoRecord
      /\ written = FALSE /\ run = 0 /\ samples = <<>> /\ sums = <<>> /\ report = NoReport
      /\ kept = FALSE /\ decoded = NotRun
  BY DEF Init
<1>3. LastAt(request) \in 3..8 /\ WriteAt(request) \in 3..5
  BY DEF LastAt, WriteAt
<1>4. TypeOK
  <2>1. written \in BOOLEAN /\ kept \in BOOLEAN
    BY <1>2, Zenon
  <2>2. at \in 0..LastAt(request) /\ run \in Nat
    BY <1>2, <1>3
  <2> QED
    BY <1>1, <2>1, <2>2 DEF TypeOK
<1>5. Admitted
  BY <1>2 DEF Admitted, Exited
<1>6. OutputState
  BY <1>2, <1>3 DEF OutputState
<1>7. SumsState
  <2>1. request.seeds \in Nat
    BY <1>1, WordWidths DEF IsRequest, Uint64, UINT64_MAX
  <2>2. <<>> = [t \in 1..0 |-> WantedSums(request)[t]]
    OBVIOUS
  <2> QED
    BY <1>2, <2>1, <2>2 DEF SumsState
<1>8. SamplesState /\ FileState /\ Failure /\ DecodedState
  BY <1>2 DEF SamplesState, FileState, Failure, DecodedState
<1>9. ReportState
  BY <1>2 DEF ReportState, Exited
<1> QED
  BY <1>4, <1>5, <1>6, <1>7, <1>8, <1>9 DEF IInv

\* Validation: nothing has been compressed or written when it refuses.
LEMMA ValidateStep == ASSUME IInv, Validate PROVE IInv'
<1>1. /\ at = 0 /\ status = "OK" /\ decoded = NotRun /\ run = 0 /\ buffer = NoRecord
  BY DEF Validate, IInv, Admitted, Exited
<1>2. LastAt(request) \in 3..8 /\ WriteAt(request) \in 3..5
  BY DEF LastAt, WriteAt
<1>3. file = request.old /\ ~written
  BY <1>1, <1>2 DEF IInv, OutputState
<1>4. request.command = "bench" => report = NoReport
  BY <1>1 DEF IInv, ReportState, Exited
<1>5. CASE ValidateStatus(request) # "OK"
  <2>1. Leave(ValidateStatus(request))
    BY <1>5 DEF Validate
  <2>2. /\ status' = ValidateStatus(request) /\ at' = Exited /\ request' = request
        /\ buffer' = buffer /\ written' = written /\ run' = run /\ samples' = samples
        /\ sums' = sums /\ report' = report /\ decoded' = decoded
        /\ file' = file /\ kept' = kept
    BY <1>3, <2>1 DEF Leave
  <2>3. status' # "OK"
    BY <1>5, <2>2
  <2>4. TypeOK'
    BY <2>2 DEF IInv, TypeOK
  <2>5. Admitted'
    BY <2>2, <2>3 DEF Admitted, Exited
  <2>6. OutputState' /\ SumsState' /\ SamplesState'
    BY <2>3 DEF OutputState, SumsState, SamplesState
  <2>7. ReportState'
    BY <1>4, <2>2, <2>3 DEF ReportState
  <2>8. FileState' /\ Failure' /\ DecodedState'
    BY <1>1, <1>3, <2>2 DEF FileState, Failure, DecodedState
  <2> QED
    BY <2>4, <2>5, <2>6, <2>7, <2>8 DEF IInv
<1>6. CASE ValidateStatus(request) = "OK"
  <2>1. /\ at' = 1 /\ status' = status /\ request' = request
        /\ buffer' = buffer /\ written' = written /\ run' = run /\ samples' = samples
        /\ sums' = sums /\ report' = report /\ decoded' = decoded
        /\ file' = file /\ kept' = kept
    BY <1>6 DEF Validate
  <2>2. TypeOK'
    BY <1>2, <2>1 DEF IInv, TypeOK
  <2>3. Admitted'
    BY <1>1, <1>6, <2>1 DEF Admitted
  <2>4. OutputState'
    BY <1>2, <1>3, <2>1 DEF OutputState
  <2>5. SumsState'
    BY <1>1, <2>1 DEF IInv, SumsState
  <2>6. SamplesState'
    BY <2>1 DEF SamplesState
  <2>7. ReportState'
    BY <1>4, <2>1 DEF ReportState, Exited
  <2>8. FileState' /\ Failure' /\ DecodedState'
    BY <1>1, <1>3, <2>1 DEF FileState, Failure, DecodedState
  <2> QED
    BY <2>2, <2>3, <2>4, <2>5, <2>6, <2>7, <2>8 DEF IInv
<1> QED
  BY <1>5, <1>6

\* Loading clears the samples.
LEMMA LoadStep == ASSUME IInv, Load PROVE IInv'
<1>1. Stage("load")
  BY DEF Load
<1>2. Working /\ Stages(request)[at] = "load"
  BY <1>1, AtStage
<1>3. /\ IsRequest(request) /\ ValidateStatus(request) = "OK"
      /\ status = "OK" /\ decoded = NotRun /\ at # Exited
      /\ LastAt(request) \in 3..8 /\ WriteAt(request) \in 3..5
      /\ LastAt(request) = Len(Stages(request))
  BY <1>2, WhileWorking
<1>4. at = 1
  BY <1>2, <1>3, StageTable DEF Working
<1>5. ASSUME NEW e, Leave(e), e \in {"IO", "MEMORY"} \cup LoadErrors PROVE IInv'
  BY <1>2, <1>3, <1>4, <1>5, LeaveKeeps DEF LoadErrors
<1>6. CASE /\ LoadStatus(request) = "OK"
           /\ Advance
           /\ samples' = (IF request.command = "bench"
                          THEN [i \in 1..request.reps |-> NotMeasured] ELSE <<>>)
           /\ UNCHANGED <<request, status, buffer, written, run, sums, file, report, kept,
                          decoded>>
  <2>1. /\ at' = 2 /\ request' = request /\ status' = status /\ buffer' = buffer
        /\ written' = written /\ run' = run /\ sums' = sums /\ file' = file
        /\ report' = report /\ kept' = kept /\ decoded' = decoded
    BY <1>3, <1>4, <1>6 DEF Advance
  <2>2. run = 0
    BY <1>4 DEF IInv, Admitted
  <2>3. TypeOK'
    BY <1>3, <2>1 DEF IInv, TypeOK
  <2>4. Admitted'
    BY <1>3, <2>1 DEF Admitted
  <2>5. OutputState'
    BY <1>3, <1>4, <2>1 DEF IInv, OutputState
  <2>6. SumsState'
    BY <1>4, <2>1 DEF IInv, SumsState
  <2>7. SamplesState'
    <3>1. request.reps \in Nat /\ request.warmups \in Nat
      BY <1>3, WordWidths DEF IsRequest, Uint64, UINT64_MAX
    <3>2. request.command = "bench" => samples' = [i \in 1..request.reps |-> NotMeasured]
      BY <1>6
    <3>3. request.command = "bench" => samples' = [i \in 1..request.reps |-> samples'[i]]
      BY <3>2, Zenon
    <3>4. ~(at' > 2) /\ ~(at' > WriteAt(request) + 2)
      BY <1>3, <2>1
    <3>5. \A i \in 1..request.reps : ~(i <= run - request.warmups)
      BY <2>2, <3>1
    <3>6. run <= request.warmups + request.reps
      BY <2>2, <3>1
    <3> QED
      BY <2>1, <3>3, <3>4, <3>5, <3>6 DEF SamplesState
  <2>8. ReportState'
    BY <1>3, <2>1 DEF IInv, ReportState, Exited
  <2>9. FileState' /\ Failure' /\ DecodedState'
    BY <1>3, <2>1 DEF IInv, FileState, Failure, DecodedState
  <2> QED
    BY <2>3, <2>4, <2>5, <2>6, <2>7, <2>8, <2>9 DEF IInv
<1> QED
  BY <1>5, <1>6, LoadRange DEF Load

\* The base compression makes the record that is written next.
LEMMA BaseStep == ASSUME IInv, Base PROVE IInv'
<1>1. Stage("base")
  BY DEF Base
<1>2. Working /\ Stages(request)[at] = "base"
  BY <1>1, AtStage
<1>3. /\ IsRequest(request) /\ ValidateStatus(request) = "OK"
      /\ status = "OK" /\ decoded = NotRun /\ at # Exited
      /\ LastAt(request) \in 3..8 /\ WriteAt(request) \in 3..5
      /\ LastAt(request) = Len(Stages(request))
  BY <1>2, WhileWorking
<1>4. /\ request.command # "expect" /\ ~CudaBenches(request)
      /\ at + 1 = WriteAt(request) /\ at > 1 /\ at < LastAt(request)
      /\ at \in 1..LastAt(request)
  BY <1>2, <1>3, StageTable DEF Working
<1>5. ASSUME NEW e \in BaseErrors(request), Leave(e) PROVE IInv'
  <2>1. e \notin {"OK", "ID_OVERFLOW"}
    BY <1>5, EncodeRange DEF BaseErrors, EncodeErrors
  <2>2. at <= WriteAt(request)
    BY <1>3, <1>4
  <2> QED
    BY <1>2, <1>5, <2>1, <2>2, LeaveKeeps
<1>6. CASE /\ EncodeStatus(request) = "OK"
           /\ buffer' = Record(request, request.seed, request.base)
           /\ Advance
           /\ UNCHANGED <<request, status, written, run, samples, sums, file, report, kept,
                          decoded>>
  <2>1. /\ at' = WriteAt(request) /\ at' = at + 1 /\ request' = request /\ status' = status
        /\ samples' = samples /\ written' = written /\ run' = run /\ sums' = sums
        /\ file' = file /\ report' = report /\ kept' = kept /\ decoded' = decoded
    BY <1>3, <1>4, <1>6 DEF Advance
  <2>2. TypeOK'
    BY <1>3, <1>4, <2>1 DEF IInv, TypeOK
  <2>3. Admitted'
    BY <1>3, <1>4, <2>1 DEF Admitted, Exited
  <2>4. OutputState'
    <3>1. (Output(request))' = Wanted(request)
      BY <1>4, <1>6, <2>1 DEF Output, Wanted, WantedRecord
    <3>2. file = request.old /\ ~written
      BY <1>3, <1>4 DEF IInv, OutputState
    <3>3. ~(WriteAt(request) > WriteAt(request))
      BY <1>3
    <3> QED
      BY <1>6, <2>1, <3>1, <3>2, <3>3 DEF OutputState
  <2>5. SumsState'
    BY <1>4, <2>1 DEF SumsState
  <2>6. SamplesState'
    <3>1. ~(at' > WriteAt(request) + 2)
      BY <1>3, <2>1
    <3> QED
      BY <1>3, <1>4, <2>1, <3>1 DEF IInv, SamplesState
  <2>7. ReportState'
    BY <1>3, <2>1 DEF IInv, ReportState, Exited
  <2>8. FileState' /\ Failure' /\ DecodedState'
    BY <1>3, <2>1 DEF IInv, FileState, Failure, DecodedState
  <2> QED
    BY <2>2, <2>3, <2>4, <2>5, <2>6, <2>7, <2>8 DEF IInv
<1> QED
  BY <1>5, <1>6 DEF Base

\* Writing: the file becomes what was asked for, or an error leaves it torn.
LEMMA WriteStep == ASSUME IInv, Write PROVE IInv'
<1>1. Stage("write")
  BY DEF Write
<1>2. Working /\ Stages(request)[at] = "write"
  BY <1>1, AtStage
<1>3. /\ IsRequest(request) /\ ValidateStatus(request) = "OK"
      /\ status = "OK" /\ decoded = NotRun /\ at # Exited
      /\ LastAt(request) \in 3..8 /\ WriteAt(request) \in 3..5
      /\ LastAt(request) = Len(Stages(request))
      /\ at \in 1..LastAt(request)
  BY <1>2, WhileWorking DEF Working
<1>4. /\ at = WriteAt(request) /\ (request.command # "compress" => at < LastAt(request))
      /\ (request.command = "expect" => at = 4)
      /\ request.output \in BOOLEAN
  BY <1>2, <1>3, StageTable DEF Working, IsRequest
<1>5. /\ file = request.old /\ ~written /\ EncodeStatus(request) = "OK"
      /\ Output(request) = Wanted(request)
  BY <1>3, <1>4 DEF IInv, OutputState
<1>6. CASE Leave("IO")
  BY <1>2, <1>3, <1>4, <1>6, LeaveKeeps
<1>7. CASE /\ status' = "IO" /\ at' = Exited
           /\ file' \in Torn(Output(request))
           /\ UNCHANGED <<request, buffer, written, run, samples, sums, report, kept, decoded>>
  <2>1. /\ request' = request /\ buffer' = buffer /\ written' = written /\ run' = run
        /\ samples' = samples /\ sums' = sums /\ report' = report /\ kept' = kept
        /\ decoded' = decoded /\ status' = "IO" /\ at' = Exited
        /\ file' \in Torn(Wanted(request))
    BY <1>5, <1>7
  <2>2. TypeOK'
    BY <2>1 DEF IInv, TypeOK
  <2>3. Admitted'
    BY <2>1 DEF Admitted, Exited
  <2>4. OutputState' /\ SumsState' /\ SamplesState'
    BY <2>1 DEF OutputState, SumsState, SamplesState
  <2>5. ReportState'
    <3>1. request.command = "bench" => report = NoReport
      BY <1>3 DEF IInv, ReportState
    <3> QED
      BY <2>1, <3>1 DEF ReportState
  <2>6. FileState'
    BY <1>3, <1>5, <2>1 DEF FileState
  <2>7. Failure' /\ DecodedState'
    BY <1>3, <2>1 DEF Failure, DecodedState
  <2> QED
    BY <2>2, <2>3, <2>4, <2>5, <2>6, <2>7 DEF IInv
<1>8. CASE /\ file' = (IF request.output THEN Output(request) ELSE file)
           /\ written' = request.output
           /\ Advance
           /\ UNCHANGED <<request, status, buffer, run, samples, sums, report, kept, decoded>>
  <2>1. /\ request' = request /\ buffer' = buffer /\ written' = request.output /\ run' = run
        /\ samples' = samples /\ sums' = sums /\ report' = report /\ kept' = kept
        /\ decoded' = decoded /\ status' = status
        /\ file' = (IF request.output THEN Wanted(request) ELSE request.old)
    BY <1>5, <1>8
  <2>2. \/ at' = at + 1 /\ at < LastAt(request) /\ at' # Exited
        \/ at' = Exited /\ request.command = "compress"
    BY <1>3, <1>4, <1>8 DEF Advance, Exited
  <2>3. at' > WriteAt(request) /\ ~(at' <= 1) /\ at' # 0
    BY <1>3, <1>4, <2>2 DEF Exited
  <2>4. TypeOK'
    <3>1. at' \in 0..LastAt(request) \cup {Exited}
      BY <1>3, <2>2
    <3>2. written' \in BOOLEAN
      BY <1>4, <2>1
    <3> QED
      BY <2>1, <3>1, <3>2 DEF IInv, TypeOK
  <2>5. Admitted'
    BY <1>3, <2>1, <2>3 DEF Admitted
  <2>6. OutputState'
    <3>1. ~(at' <= WriteAt(request)) /\ ~(at' = WriteAt(request))
      BY <1>3, <1>4, <2>2 DEF Exited
    <3> QED
      BY <1>5, <2>1, <3>1 DEF OutputState
  <2>7. SumsState'
    BY <1>3, <1>4, <2>1 DEF IInv, SumsState
  <2>8. SamplesState'
    <3>1. request.command = "bench" => ~(at' > WriteAt(request) + 2)
      BY <1>3, <1>4, <2>2
    <3>2. at > 2 /\ at > 1
      BY <1>3, <1>4
    <3> QED
      BY <1>3, <2>1, <3>1, <3>2 DEF IInv, SamplesState
  <2>9. ReportState'
    BY <1>3, <2>1, <2>2 DEF IInv, ReportState
  <2>10. FileState' /\ Failure' /\ DecodedState'
    BY <1>3, <1>5, <2>1 DEF FileState, Failure, DecodedState
  <2> QED
    BY <2>4, <2>5, <2>6, <2>7, <2>8, <2>9, <2>10 DEF IInv
<1> QED
  BY <1>6, <1>7, <1>8 DEF Write

\* The stages that only pass or fail: the clock and the staging buffers.
LEMMA PassStep == ASSUME IInv, Clock \/ StagingCreate \/ StagingDownload PROVE IInv'
<1>1. Working
  BY AtStage DEF Clock, StagingCreate, StagingDownload
<1>2. /\ IsRequest(request) /\ ValidateStatus(request) = "OK"
      /\ LastAt(request) \in 3..8 /\ WriteAt(request) \in 3..5
      /\ at \in 1..LastAt(request)
  BY <1>1, WhileWorking DEF Working
<1>3. CASE Clock
  <2>1. Stages(request)[at] = "clock"
    BY <1>3, AtStage DEF Clock
  <2>2. Timed(request) /\ at = WriteAt(request) + 1 /\ LastAt(request) = WriteAt(request) + 3
    BY <1>2, <2>1, StageTable
  <2>3. ~(request.command = "expect") /\ ~CudaBenches(request)
    BY <2>2 DEF Timed
  <2>4. CASE Leave("CLOCK")
    BY <1>1, <2>2, <2>4, LeaveKeeps
  <2>5. CASE /\ Advance
             /\ UNCHANGED <<request, status, buffer, written, run, samples, sums, file,
                            report, kept, decoded>>
    BY <1>1, <1>2, <2>2, <2>3, <2>5, MoveOn
  <2> QED
    BY <1>3, <2>4, <2>5 DEF Clock
<1>4. CASE StagingCreate \/ StagingDownload
  <2>1. Stages(request)[at] \in {"create", "download"}
    BY <1>4, AtStage DEF StagingCreate, StagingDownload
  <2>2. CpuGpuOrigin(request) /\ at \in 2..3
    BY <1>2, <2>1, StageTable
  <2>3. /\ ~(request.command = "expect") /\ ~CudaBenches(request)
        /\ WriteAt(request) = 5 /\ LastAt(request) = 8
    BY <2>2 DEF CpuGpuOrigin, CudaBenches, WriteAt, LastAt
  <2>4. ASSUME NEW e \in {"CUDA", "MEMORY"}, Leave(e) PROVE IInv'
    BY <1>1, <2>2, <2>3, <2>4, LeaveKeeps
  <2>5. CASE /\ Advance
             /\ UNCHANGED <<request, status, buffer, written, run, samples, sums, file,
                            report, kept, decoded>>
    BY <1>1, <1>2, <2>2, <2>3, <2>5, MoveOn
  <2> QED
    BY <1>4, <2>4, <2>5 DEF StagingCreate, StagingDownload
<1> QED
  BY <1>3, <1>4

\* A timed run: the buffer is overwritten after the file is safe, and the
\* sample of a repetition carries its identifier.
LEMMA TimedRunStep == ASSUME IInv, TimedRun PROVE IInv'
<1>1. Stage("loop") /\ run < request.warmups + request.reps
  BY DEF TimedRun
<1>2. Working /\ Stages(request)[at] = "loop"
  BY <1>1, AtStage
<1>3. /\ IsRequest(request) /\ ValidateStatus(request) = "OK"
      /\ status = "OK" /\ decoded = NotRun /\ at # Exited
      /\ LastAt(request) \in 3..8 /\ WriteAt(request) \in 3..5
      /\ at \in 1..LastAt(request) /\ run \in Nat
  BY <1>2, WhileWorking DEF Working, IInv, TypeOK
<1>4. /\ Timed(request) /\ at = WriteAt(request) + 2 /\ LastAt(request) = WriteAt(request) + 3
      /\ request.command = "bench" /\ request.command # "expect" /\ ~CudaBenches(request)
  BY <1>2, <1>3, StageTable DEF Timed
<1>5. ~StreamRefused(request, IdOf(request, run))
  BY <1>1, <1>3, <1>4, StreamsAccepted
<1>6. ASSUME NEW e \in RunErrors(request, IdOf(request, run)), Leave(e) PROVE IInv'
  <2>1. e = "CLOCK" \/ (CpuGpuOrigin(request) /\ e = "CUDA")
    BY <1>5, <1>6 DEF RunErrors
  <2> QED
    BY <1>2, <1>4, <1>6, <2>1, LeaveKeeps
<1>7. CASE /\ buffer' = Record(request, request.seed, IdOf(request, run))
           /\ samples' = (IF run >= request.warmups
                          THEN [samples EXCEPT ![run - request.warmups + 1] = IdOf(request, run)]
                          ELSE samples)
           /\ run' = run + 1
           /\ UNCHANGED <<request, at, status, written, sums, file, report, kept, decoded>>
  <2>1. /\ request' = request /\ at' = at /\ status' = status /\ written' = written
        /\ sums' = sums /\ file' = file /\ report' = report /\ kept' = kept
        /\ decoded' = decoded /\ run' = run + 1
    BY <1>7
  <2>2. TypeOK'
    BY <1>3, <2>1 DEF IInv, TypeOK
  <2>3. Admitted'
    BY <1>3, <1>4, <2>1 DEF IInv, Admitted
  <2>4. OutputState'
    <3>1. at # WriteAt(request)
      BY <1>3, <1>4
    <3> QED
      BY <2>1, <3>1 DEF IInv, OutputState
  <2>5. SumsState'
    BY <1>4, <2>1 DEF SumsState
  <2>6. SamplesState'
    <3> DEFINE n == request.reps
               w == request.warmups
               k == run - w + 1
    <3>1. n \in Nat /\ w \in Nat /\ k \in Int
      BY <1>3, WordWidths DEF IsRequest, Uint64, UINT64_MAX
    <3>2. /\ samples = [i \in 1..n |-> samples[i]]
          /\ \A i \in 1..n : i <= run - w => samples[i] = Ids(request)[i]
      BY <1>3, <1>4 DEF IInv, SamplesState
    <3>3. run >= w => k \in 1..n /\ Ids(request)[k] = IdOf(request, run)
      <4> SUFFICES ASSUME run >= w PROVE k \in 1..n /\ Ids(request)[k] = IdOf(request, run)
        OBVIOUS
      <4>1. k \in 1..n /\ w + k - 1 = run
        BY <1>1, <1>3, <3>1
      <4> HIDE DEF k
      <4>2. Ids(request)[k] = IdOf(request, w + k - 1)
        BY <4>1 DEF Ids
      <4> QED
        BY <4>1, <4>2
    <3>4. run >= w => samples' = [samples EXCEPT ![k] = IdOf(request, run)]
      BY <1>7
    <3>5. ~(run >= w) => samples' = samples
      BY <1>7
    <3> HIDE DEF k, n, w
    <3>6. samples' = [i \in 1..n |-> samples'[i]]
      BY <3>2, <3>4, <3>5
    <3>7. ASSUME NEW i \in 1..n, i <= run' - w PROVE samples'[i] = Ids(request)[i]
      <4>1. i <= run - w \/ i = k
        BY <1>3, <2>1, <3>1, <3>7 DEF k
      <4>2. i = k => run >= w
        BY <1>3, <3>1 DEF k
      <4>3. CASE i = k
        <5>1. run >= w /\ k \in DOMAIN samples
          BY <3>2, <4>2, <4>3
        <5> QED
          BY <3>3, <3>4, <4>3, <5>1
      <4>4. CASE i # k
        <5>1. i <= run - w /\ i \in DOMAIN samples
          BY <3>2, <4>1, <4>4
        <5>2. samples'[i] = samples[i]
          BY <3>4, <3>5, <4>4, <5>1
        <5> QED
          BY <3>2, <5>1, <5>2
      <4> QED
        BY <4>3, <4>4
    <3>8. run' <= w + n
      BY <1>1, <1>3, <2>1, <3>1 DEF w, n
    <3>9. ~(at' > WriteAt(request) + 2)
      BY <1>3, <1>4, <2>1
    <3> QED
      BY <1>4, <2>1, <3>6, <3>7, <3>8, <3>9 DEF SamplesState, n, w
  <2>7. ReportState'
    BY <2>1 DEF IInv, ReportState
  <2>8. FileState' /\ Failure' /\ DecodedState'
    BY <1>3, <2>1 DEF IInv, FileState, Failure, DecodedState
  <2> QED
    BY <2>2, <2>3, <2>4, <2>5, <2>6, <2>7, <2>8 DEF IInv
<1> QED
  BY <1>6, <1>7 DEF TimedRun

\* The end of the loop.
LEMMA EndLoopStep == ASSUME IInv, EndLoop PROVE IInv'
<1>1. Working /\ Stages(request)[at] = "loop"
  BY AtStage DEF EndLoop
<1>2. /\ IsRequest(request) /\ ValidateStatus(request) = "OK"
      /\ LastAt(request) \in 3..8 /\ WriteAt(request) \in 3..5
      /\ at \in 1..LastAt(request)
  BY <1>1, WhileWorking DEF Working
<1>3. Timed(request) /\ at = WriteAt(request) + 2 /\ LastAt(request) = WriteAt(request) + 3
  BY <1>1, <1>2, StageTable
<1>4. request.command # "expect" /\ ~CudaBenches(request)
  BY <1>3 DEF Timed
<1>5. /\ run = request.warmups + request.reps /\ Advance
      /\ UNCHANGED <<request, status, buffer, written, run, samples, sums, file, report, kept,
                     decoded>>
  BY DEF EndLoop
<1>6. at > 1 /\ at < LastAt(request) /\ at # WriteAt(request) /\ at + 1 # WriteAt(request)
  BY <1>2, <1>3
<1> QED
  BY <1>1, <1>4, <1>5, <1>6, MoveOn

\* sq_cuda_bench: the record that is written next, and all samples.
LEMMA CudaBenchStep == ASSUME IInv, CudaBench PROVE IInv'
<1>1. Working /\ Stages(request)[at] = "cuda"
  BY AtStage DEF CudaBench
<1>2. /\ IsRequest(request) /\ ValidateStatus(request) = "OK"
      /\ status = "OK" /\ decoded = NotRun /\ at # Exited
      /\ LastAt(request) = Len(Stages(request)) /\ at \in 1..LastAt(request)
  BY <1>1, WhileWorking DEF Working
<1>3. /\ CudaBenches(request) /\ at = 2 /\ WriteAt(request) = 3 /\ LastAt(request) = 4
  BY <1>1, <1>2, StageTable
<1>4. request.command = "bench" /\ request.command # "expect" /\ ~Timed(request)
  BY <1>3 DEF CudaBenches, Timed
<1>5. ASSUME NEW e \in BaseErrors(request), Leave(e) PROVE IInv'
  <2>1. e \notin {"OK", "ID_OVERFLOW"}
    BY <1>5, EncodeRange DEF BaseErrors, EncodeErrors
  <2> QED
    BY <1>1, <1>3, <1>5, <2>1, LeaveKeeps
<1>6. CASE /\ EncodeStatus(request) = "OK"
           /\ buffer' = CudaBenchRecord(request)
           /\ samples' = [i \in 1..request.reps |-> IdOf(request, request.warmups + i - 1)]
           /\ Advance
           /\ UNCHANGED <<request, status, written, run, sums, file, report, kept, decoded>>
  <2>1. /\ at' = 3 /\ request' = request /\ status' = status /\ samples' = Ids(request)
        /\ written' = written /\ run' = run /\ sums' = sums
        /\ file' = file /\ report' = report /\ kept' = kept /\ decoded' = decoded
    <3>1. at' = 3
      <4>1. Advance
        BY <1>6
      <4>2. Len(Stages(request)) = 4
        BY <1>2, <1>3
      <4>3. at = 2
        BY <1>3
      <4> QED
        BY <4>1, <4>2, <4>3 DEF Advance
    <3>2. samples' = Ids(request)
      BY <1>6, Zenon DEF Ids
    <3> QED
      BY <1>6, <3>1, <3>2
  <2>2. TypeOK'
    BY <1>3, <2>1 DEF IInv, TypeOK
  <2>3. Admitted'
    BY <1>2, <2>1 DEF Admitted, Exited
  <2>4. OutputState'
    <3>1. (Output(request))' = Wanted(request)
      BY <1>3, <1>4, <1>6, <2>1 DEF Output, Wanted, WantedRecord
    <3>2. file = request.old /\ ~written
      BY <1>2, <1>3 DEF IInv, OutputState
    <3> QED
      BY <1>3, <1>6, <2>1, <3>1, <3>2 DEF OutputState
  <2>5. SumsState'
    BY <1>4, <2>1 DEF SumsState
  <2>6. SamplesState'
    BY <1>4, <2>1 DEF SamplesState
  <2>7. ReportState'
    BY <1>2, <2>1 DEF IInv, ReportState, Exited
  <2>8. FileState' /\ Failure' /\ DecodedState'
    BY <1>2, <2>1 DEF IInv, FileState, Failure, DecodedState
  <2> QED
    BY <2>2, <2>3, <2>4, <2>5, <2>6, <2>7, <2>8 DEF IInv
<1> QED
  BY <1>5, <1>6 DEF CudaBench

\* Before the seeds: the scale.
LEMMA ExpectScaleStep == ASSUME IInv, ExpectScale PROVE IInv'
<1>1. Working /\ Stages(request)[at] = "scale"
  BY AtStage DEF ExpectScale
<1>2. /\ IsRequest(request) /\ ValidateStatus(request) = "OK" /\ at \in 1..LastAt(request)
  BY <1>1, WhileWorking DEF Working
<1>3. request.command = "expect" /\ at = 2 /\ WriteAt(request) = 4 /\ LastAt(request) = 5
  BY <1>1, <1>2, StageTable
<1>4. ~CudaBenches(request) /\ ~Timed(request)
  BY <1>3 DEF CudaBenches, Timed
<1>5. ASSUME NEW e, Leave(e), e \in {"MEMORY"} \cup EncodeErrors PROVE IInv'
  BY <1>1, <1>3, <1>5, LeaveKeeps DEF EncodeErrors
<1>6. CASE /\ Advance
           /\ UNCHANGED <<request, status, buffer, written, run, samples, sums, file, report,
                          kept, decoded>>
           /\ EncodeStatus(request) = "OK"
  BY <1>1, <1>3, <1>4, <1>6, MoveOn
<1> QED
  BY <1>5, <1>6, EncodeRange DEF ExpectScale

\* A sequence that grows by the next value of a function.
LEMMA AppendNext ==
  ASSUME NEW g, NEW n \in Nat, NEW s, s = [t \in 1..n |-> g[t]]
  PROVE  Append(s, g[n + 1]) = [t \in 1..(n + 1) |-> g[t]]
OBVIOUS

\* The seeds that expect adds up do not wrap around.
LEMMA SeedsInOrder ==
  ASSUME NEW r, IsRequest(r), Required(r), r.command = "expect", NEW t \in Nat, t < r.seeds
  PROVE  SeedOf(r, t) = r.seedStart + (t + 1) - 1
<1>1. r.seedStart \in Nat /\ r.seeds \in Nat /\ W64 \in Nat \ {0} /\ UINT64_MAX = W64 - 1
  BY WordWidths DEF IsRequest, Uint64, UINT64_MAX
<1>2. ~(r.seedStart > UINT64_MAX - (r.seeds - 1))
  BY DEF Required, SeedRangeWraps
<1>3. r.seedStart + t \in Nat /\ r.seedStart + t < W64
  BY <1>1, <1>2
<1>4. (r.seedStart + t) % W64 = r.seedStart + t
  BY <1>1, <1>3, NoWrap
<1> QED
  BY <1>1, <1>4 DEF SeedOf

\* One seed of expect: its values are those of the next term of the sums.
LEMMA ExpectSeedStep == ASSUME IInv, ExpectSeed PROVE IInv'
<1> DEFINE record == Record(request, SeedOf(request, run), request.base)
<1>1. Working /\ Stages(request)[at] = "seeds" /\ run < request.seeds
  BY AtStage DEF ExpectSeed
<1>2. /\ IsRequest(request) /\ ValidateStatus(request) = "OK" /\ at \in 1..LastAt(request)
      /\ status = "OK" /\ decoded = NotRun /\ at # Exited /\ run \in Nat
  BY <1>1, WhileWorking DEF Working, IInv, TypeOK
<1>3. request.command = "expect" /\ at = 3 /\ WriteAt(request) = 4 /\ LastAt(request) = 5
  BY <1>1, <1>2, StageTable
<1>4. request.command # "bench" /\ request.seeds \in Nat /\ request.count \in Nat
  BY <1>2, <1>3, WordWidths DEF IsRequest, Uint64, UINT64_MAX
<1>5. ASSUME NEW e \in SeedErrors(request, record), Leave(e) PROVE IInv'
  <2>1. record.header.count \in Nat
    <3>1. record.header.count = Len(Codes(request, SeedOf(request, run), request.base))
      BY DEF Record, EncodeRecord
    <3>2. Codes(request, SeedOf(request, run), request.base) \in
            [1..request.count -> {Codes(request, SeedOf(request, run), request.base)[i] :
                                    i \in 1..request.count}]
      BY DEF Codes
    <3> QED
      BY <1>4, <3>1, <3>2, FunctionIsSeq
  <2> HIDE DEF record
  <2>2. e \notin {"OK", "ID_OVERFLOW"}
    BY <1>5, <2>1, DecodeStatusRange DEF SeedErrors, DecodeErrors
  <2> QED
    BY <1>1, <1>3, <1>5, <2>2, LeaveKeeps
<1>6. CASE /\ buffer' = record
           /\ sums' = Append(sums, DecodeValues(record))
           /\ run' = run + 1
           /\ UNCHANGED <<request, at, status, written, samples, file, report, kept, decoded>>
  <2>1. /\ request' = request /\ at' = at /\ status' = status /\ written' = written
        /\ samples' = samples /\ file' = file /\ report' = report /\ kept' = kept
        /\ decoded' = decoded /\ run' = run + 1
    BY <1>6
  <2>2. DecodeValues(record) = WantedSums(request)[run + 1]
    <3>1. SeedOf(request, run) = request.seedStart + (run + 1) - 1
      BY <1>1, <1>2, <1>3, SeedsInOrder, ValidateChecks
    <3>2. run + 1 \in 1..request.seeds
      BY <1>1, <1>2, <1>4
    <3> DEFINE n == run + 1
    <3>3. WantedSums(request)[n] =
            DecodeValues(Record(request, request.seedStart + n - 1, request.base))
      <4>1. n \in 1..request.seeds
        BY <3>2
      <4> HIDE DEF n
      <4> QED
        BY <4>1, Zenon DEF WantedSums
    <3> QED
      BY <3>1, <3>3
  <2> HIDE DEF record
  <2>3. SumsState'
    <3>1. sums = [t \in 1..run |-> WantedSums(request)[t]]
      BY <1>2, <1>3 DEF IInv, SumsState
    <3> DEFINE g == WantedSums(request)
    <3> HIDE DEF g
    <3>2. Append(sums, g[run + 1]) = [t \in 1..(run + 1) |-> g[t]]
      BY <1>2, <3>1, AppendNext DEF g
    <3>3. sums' = [t \in 1..(run + 1) |-> WantedSums(request)[t]]
      BY <1>6, <2>2, <3>2, Zenon DEF g
    <3>4. run + 1 <= request.seeds /\ ~(at' > 3)
      BY <1>1, <1>2, <1>3, <1>4, <2>1
    <3>5. EncodeStatus(request) = "OK"
      BY <1>2, <1>3 DEF IInv, SumsState
    <3> QED
      BY <2>1, <3>3, <3>4, <3>5, Zenon DEF SumsState
  <2>4. TypeOK'
    BY <1>2, <2>1 DEF IInv, TypeOK
  <2>5. Admitted'
    BY <1>2, <1>3, <2>1 DEF IInv, Admitted
  <2>6. OutputState'
    BY <1>3, <2>1 DEF IInv, OutputState
  <2>7. SamplesState' /\ ReportState'
    BY <1>4, <2>1 DEF SamplesState, ReportState
  <2>8. FileState' /\ Failure' /\ DecodedState'
    BY <1>2, <2>1 DEF IInv, FileState, Failure, DecodedState
  <2> QED
    BY <2>3, <2>4, <2>5, <2>6, <2>7, <2>8 DEF IInv
<1> QED
  BY <1>5, <1>6 DEF ExpectSeed

\* The end of the seeds: the sums are those asked for.
LEMMA EndSeedsStep == ASSUME IInv, EndSeeds PROVE IInv'
<1>1. Working /\ Stages(request)[at] = "seeds" /\ run = request.seeds
  BY AtStage DEF EndSeeds
<1>2. /\ IsRequest(request) /\ ValidateStatus(request) = "OK" /\ at \in 1..LastAt(request)
      /\ status = "OK"
  BY <1>1, WhileWorking DEF Working
<1>3. request.command = "expect" /\ at = 3 /\ WriteAt(request) = 4 /\ LastAt(request) = 5
  BY <1>1, <1>2, StageTable
<1>4. ~CudaBenches(request) /\ ~Timed(request)
  BY <1>3 DEF CudaBenches, Timed
<1>5. CASE Leave("MEMORY")
  BY <1>1, <1>3, <1>5, LeaveKeeps
<1>6. CASE /\ Advance
           /\ UNCHANGED <<request, status, buffer, written, run, samples, sums, file, report,
                          kept, decoded>>
  <2>1. Output(request) = Wanted(request)
    <3>1. sums = [t \in 1..request.seeds |-> WantedSums(request)[t]]
      BY <1>1, <1>2, <1>3 DEF IInv, SumsState
    <3>2. sums = WantedSums(request)
      BY <3>1, Zenon DEF WantedSums
    <3> QED
      BY <1>3, <3>2 DEF Output, Wanted
  <2>2. EncodeStatus(request) = "OK"
    BY <1>2, <1>3 DEF IInv, SumsState
  <2> QED
    BY <1>1, <1>3, <1>4, <1>6, <2>1, <2>2, MoveOn
<1> QED
  BY <1>5, <1>6 DEF EndSeeds

\* The report is made of what was measured.
LEMMA PrintJsonStep == ASSUME IInv, PrintJson PROVE IInv'
<1>1. Working /\ Stages(request)[at] = "print"
  BY AtStage DEF PrintJson
<1>2. /\ IsRequest(request) /\ ValidateStatus(request) = "OK"
      /\ status = "OK" /\ decoded = NotRun /\ at # Exited
      /\ LastAt(request) \in 3..8 /\ WriteAt(request) \in 3..5
      /\ LastAt(request) = Len(Stages(request)) /\ at \in 1..LastAt(request)
  BY <1>1, WhileWorking DEF Working
<1>3. /\ at = LastAt(request) /\ request.command # "compress"
      /\ WriteAt(request) < LastAt(request)
      /\ Timed(request) => LastAt(request) = WriteAt(request) + 3
      /\ CudaBenches(request) => LastAt(request) = 4
      /\ request.command = "expect" => LastAt(request) = 5
  BY <1>1, <1>2, StageTable
<1>4. /\ at' = Exited /\ request' = request /\ status' = status /\ buffer' = buffer
      /\ written' = written /\ run' = run /\ samples' = samples /\ sums' = sums
      /\ file' = file /\ kept' = kept /\ decoded' = decoded
  BY <1>2, <1>3 DEF PrintJson, Advance
<1>5. request.command = "bench" => samples = Ids(request)
  <2> SUFFICES ASSUME request.command = "bench" PROVE samples = Ids(request)
    OBVIOUS
  <2>1. CASE CudaBenches(request)
    BY <1>2, <1>3, <2>1 DEF IInv, SamplesState
  <2>2. CASE Timed(request)
    <3>1. at > 1 /\ at > WriteAt(request) + 2
      BY <1>2, <1>3, <2>2
    <3>2. /\ samples = [i \in 1..request.reps |-> samples[i]]
          /\ \A i \in 1..request.reps :
               i <= run - request.warmups => samples[i] = Ids(request)[i]
          /\ run = request.warmups + request.reps
      BY <1>2, <2>2, <3>1 DEF IInv, SamplesState
    <3>3. \A i \in 1..request.reps : samples[i] = Ids(request)[i]
      <4>1. request.reps \in Nat /\ request.warmups \in Nat
        BY <1>2, WordWidths DEF IsRequest, Uint64, UINT64_MAX
      <4>2. run - request.warmups = request.reps
        BY <3>2, <4>1
      <4>3. \A i \in 1..request.reps : i <= run - request.warmups
        BY <4>1, <4>2
      <4> QED
        BY <3>2, <4>3
    <3>4. Ids(request) = [i \in 1..request.reps |-> Ids(request)[i]]
      BY Zenon DEF Ids
    <3> QED
      BY <3>2, <3>3, <3>4, Zenon
  <2> QED
    BY <2>1, <2>2 DEF Timed
<1>6. TypeOK'
  BY <1>4 DEF IInv, TypeOK
<1>7. Admitted'
  BY <1>2, <1>4 DEF Admitted, Exited
<1>8. OutputState'
  <2>1. at > WriteAt(request) /\ at >= WriteAt(request)
    BY <1>2, <1>3
  <2>2. ~(at' <= WriteAt(request)) /\ at' # WriteAt(request)
    BY <1>2, <1>4 DEF Exited
  <2> QED
    BY <1>2, <1>4, <2>1, <2>2 DEF IInv, OutputState
<1>9. SumsState'
  BY <1>2, <1>3, <1>4 DEF IInv, SumsState
<1>10. SamplesState'
  <2>1. at > 1 /\ (Timed(request) => at > WriteAt(request) + 2)
    BY <1>2, <1>3
  <2> QED
    BY <1>2, <1>4, <1>5, <2>1 DEF IInv, SamplesState
<1>11. ReportState'
  <2>1. request.command = "bench" =>
          report' = [printed |-> TRUE, ids |-> PrintedIds(request), samples |-> samples]
    BY DEF PrintJson
  <2> QED
    BY <1>2, <1>4, <1>5, <2>1 DEF ReportState
<1>12. FileState' /\ Failure' /\ DecodedState'
  BY <1>2, <1>4 DEF IInv, FileState, Failure, DecodedState
<1> QED
  BY <1>6, <1>7, <1>8, <1>9, <1>10, <1>11, <1>12 DEF IInv

\* The second process reads, and changes nothing.
LEMMA DecompressStep == ASSUME IInv, Decompress PROVE IInv'
<1>1. /\ request' = request /\ at' = at /\ status' = status /\ buffer' = buffer
      /\ written' = written /\ run' = run /\ samples' = samples /\ sums' = sums
      /\ file' = file /\ report' = report /\ kept' = kept
  BY DEF Decompress
<1>2. at = Exited /\ file.kind = "record"
  BY DEF Decompress
<1>3. decoded' = (IF DecodeStatus(file.body) = "OK"
                  THEN [status |-> "OK", values |-> DecodeValues(file.body)]
                  ELSE [status |-> DecodeStatus(file.body)])
  BY DEF Decompress
<1>4. TypeOK'
  BY <1>1 DEF IInv, TypeOK
<1>5. Admitted'
  BY <1>1, <1>2 DEF IInv, Admitted
<1>6. OutputState'
  BY <1>1 DEF IInv, OutputState, Output
<1>7. SumsState' /\ SamplesState' /\ ReportState'
  BY <1>1 DEF IInv, SumsState, SamplesState, ReportState
<1>8. FileState' /\ Failure'
  BY <1>1 DEF IInv, FileState, Failure
<1>9. DecodedState'
  BY <1>1, <1>2, <1>3 DEF DecodedState
<1> QED
  BY <1>4, <1>5, <1>6, <1>7, <1>8, <1>9 DEF IInv

\* The invariant of the native program holds in every behaviour.
THEOREM Invariance == Spec => []IInv
<1>1. Init => IInv
  BY InitIInv
<1>2. IInv /\ [Next]_vars => IInv'
  <2> SUFFICES ASSUME IInv, [Next]_vars PROVE IInv'
    OBVIOUS
  <2>1. CASE UNCHANGED vars
    <3>1. /\ request' = request /\ at' = at /\ status' = status /\ buffer' = buffer
          /\ written' = written /\ run' = run /\ samples' = samples /\ sums' = sums
          /\ file' = file /\ report' = report /\ kept' = kept /\ decoded' = decoded
      BY <2>1 DEF vars
    <3>2. (TypeOK /\ Admitted)'
      BY <3>1 DEF IInv, TypeOK, Admitted
    <3>3. OutputState'
      BY <3>1 DEF IInv, OutputState, Output
    <3>4. SumsState' /\ SamplesState' /\ ReportState'
      BY <3>1 DEF IInv, SumsState, SamplesState, ReportState
    <3>5. FileState' /\ Failure' /\ DecodedState'
      BY <3>1 DEF IInv, FileState, Failure, DecodedState
    <3> QED
      BY <3>2, <3>3, <3>4, <3>5 DEF IInv
  <2>2. CASE Next
    BY <2>2, ValidateStep, LoadStep, BaseStep, WriteStep, PassStep, TimedRunStep, EndLoopStep,
       CudaBenchStep, ExpectScaleStep, ExpectSeedStep, EndSeedsStep, PrintJsonStep,
       DecompressStep DEF Next
  <2> QED
    BY <2>1, <2>2
<1> QED
  BY <1>1, <1>2, PTL DEF Spec

-----------------------------------------------------------------------------
(* What the runs check *)

\* Whatever is at the output path is no record, or one that decompress can
\* judge; and if it accepts it, it is the old file or the one asked for.
LEMMA LeftFile ==
  ASSUME IInv, file.kind = "record"
  PROVE  /\ file = RecordFile(file.body) /\ file.body \in Bodies
         /\ DecodeStatus(file.body) = "OK" =>
              file = request.old \/ IsRecordOf(request, file)
<1>1. IsRequest(request)
  BY RequestsAssumption DEF IInv, TypeOK
<1>2. CASE file = request.old
  <2>1. file # Absent
    BY DEF Absent
  <2> QED
    BY <1>1, <1>2, <2>1 DEF IsRequest
<1>3. CASE file # request.old
  <2>1. file # Absent
    BY DEF Absent
  <2>2. /\ ValidateStatus(request) = "OK" /\ EncodeStatus(request) = "OK"
        /\ file = Wanted(request) \/ file \in Torn(Wanted(request))
    BY <1>3, <2>1 DEF IInv, FileState
  <2> DEFINE w == WantedRecord(request)
  <2>3. w \in Bodies /\ DecodeStatus(w) = "OK" /\ Plain(w) = Plain(Record(request, request.seed, request.base))
    BY <1>1, <2>2, WantedIsGood
  <2>4. Wanted(request) = RecordFile(w)
    <3>1. request.command # "expect"
      <4> SUFFICES ASSUME request.command = "expect" PROVE FALSE
        OBVIOUS
      <4>1. Wanted(request).kind = "sums"
        BY DEF Wanted
      <4>2. Torn(Wanted(request)) = {[kind |-> "torn"]}
        BY <4>1 DEF Torn
      <4> QED
        BY <2>2, <4>1, <4>2
    <3> QED
      BY <3>1 DEF Wanted
  <2>5. RecordFile(w).kind = "record" /\ RecordFile(w).body = w
    BY DEF RecordFile
  <2> HIDE DEF w
  <2>6. /\ file = RecordFile(file.body) /\ file.body \in Bodies
        /\ DecodeStatus(file.body) = "OK" => file = RecordFile(w)
    BY <2>2, <2>3, <2>4, <2>5, TornRecords
  <2>7. IsRecordOf(request, RecordFile(w))
    BY <2>3, <2>5 DEF IsRecordOf
  <2> QED
    BY <2>6, <2>7
<1> QED
  BY <1>2, <1>3

\* The values that the second process returns.
LEMMA DecodedValues ==
  ASSUME IInv, decoded # NotRun
  PROVE  /\ at = Exited /\ file.kind = "record"
         /\ decoded.status = "OK" <=> DecodeStatus(file.body) = "OK"
         /\ decoded.status = "OK" => decoded.values = DecodeValues(file.body)
<1>1. /\ at = Exited /\ file.kind = "record"
      /\ decoded = (IF DecodeStatus(file.body) = "OK"
                    THEN [status |-> "OK", values |-> DecodeValues(file.body)]
                    ELSE [status |-> DecodeStatus(file.body)])
  BY DEF IInv, DecodedState
<1> QED
  BY <1>1

\* Whatever the exit code, a file that decompress accepts is the old one or
\* the record asked for, for every request, torn writes included.
THEOREM LeftRecordIsRightHolds == Spec => []LeftRecordIsRight
<1>1. IInv => LeftRecordIsRight
  BY LeftFile, DecodedValues DEF LeftRecordIsRight
<1> QED
  BY <1>1, Invariance, PTL

\* A failing process leaves no new file, save what a failed write, remove or
\* clock leaves, and an identifier overflow is always found in advance.
THEOREM FailureLeavesNoNewFileHolds == Spec => []FailureLeavesNoNewFile
<1>1. IInv => FailureLeavesNoNewFile
  <2> SUFFICES ASSUME IInv PROVE FailureLeavesNoNewFile
    OBVIOUS
  <2>1. IsRequest(request)
    BY RequestsAssumption DEF IInv, TypeOK
  <2>2. ASSUME status \notin {"OK", "IO"}, ~kept
        PROVE  \/ file \in {request.old, Absent}
               \/ Stages(request)[3] = "write" /\ status = "CLOCK" /\ IsRecordOf(request, file)
    <3> SUFFICES ASSUME file # request.old, file # Absent
                 PROVE  Stages(request)[3] = "write" /\ status = "CLOCK"
                        /\ IsRecordOf(request, file)
      OBVIOUS
    <3>1. status = "CLOCK" /\ WriteAt(request) = 3 /\ Timed(request) /\ file = Wanted(request)
      BY <2>2 DEF IInv, Failure
    <3>2. ValidateStatus(request) = "OK" /\ EncodeStatus(request) = "OK"
      BY DEF IInv, FileState
    <3>3. Stages(request)[3] = "write"
      BY <2>1, <3>1, <3>2, StageTable
    <3>4. file = RecordFile(WantedRecord(request))
      BY <3>1 DEF Wanted, Timed
    <3>5. Plain(WantedRecord(request)) = Plain(Record(request, request.seed, request.base))
      BY <2>1, <3>2, WantedIsGood
    <3>6. IsRecordOf(request, file)
      BY <3>4, <3>5 DEF IsRecordOf, RecordFile
    <3> QED
      BY <3>1, <3>3, <3>6
  <2>3. status = "ID_OVERFLOW" => ~written /\ run = 0 /\ buffer = NoRecord
    BY DEF IInv, Failure
  <2> QED
    BY <2>2, <2>3 DEF FailureLeavesNoNewFile
<1> QED
  BY <1>1, Invariance, PTL

\* bench prints exactly when it succeeds, and every sample with the identifier
\* it was measured with.
THEOREM ReportMatchesRunsHolds == Spec => []ReportMatchesRuns
<1>1. IInv => ReportMatchesRuns
  <2>1. NoReport.printed = FALSE
    BY DEF NoReport
  <2>2. ASSUME NEW r PROVE PrintedIds(r).reps = Ids(r)
    BY DEF PrintedIds, Ids
  <2> QED
    BY <2>1, <2>2 DEF IInv, ReportState, ReportMatchesRuns
<1> QED
  BY <1>1, Invariance, PTL

\* An exit code 0 leaves the record or the sums asked for, and the record
\* decodes to its codes.
THEOREM SuccessLeavesItsOutputHolds == Spec => []SuccessLeavesItsOutput
<1>1. IInv => SuccessLeavesItsOutput
  <2> SUFFICES ASSUME IInv, at = Exited, status = "OK", request.output
               PROVE  SuccessLeavesItsOutput
    BY DEF SuccessLeavesItsOutput
  <2>1. IsRequest(request) /\ ValidateStatus(request) = "OK"
    BY RequestsAssumption DEF IInv, TypeOK, Admitted, Exited
  <2>2. EncodeStatus(request) = "OK" /\ file = Wanted(request)
    <3>1. Exited > WriteAt(request) /\ Exited >= WriteAt(request)
      BY DEF WriteAt, Exited
    <3> QED
      BY <3>1 DEF IInv, OutputState
  <2>3. CASE request.command = "expect"
    <3>1. file = [kind |-> "sums", body |-> WantedSums(request)]
      BY <2>2, <2>3 DEF Wanted
    <3>2. file.kind = "sums" /\ file.body = WantedSums(request)
      BY <3>1
    <3> QED
      BY <2>3, <3>2 DEF SuccessLeavesItsOutput, WantedSums
  <2>4. CASE request.command # "expect"
    <3> DEFINE w == WantedRecord(request)
    <3>1. file.kind = "record" /\ file.body = w
      BY <2>2, <2>4 DEF Wanted, RecordFile
    <3>2. /\ DecodeStatus(w) = "OK"
          /\ Plain(w) = Plain(Record(request, request.seed, request.base))
          /\ Len(DecodeValues(w)) = request.count
          /\ \A i \in 1..request.count :
               DecodeValues(w)[i].k =
                 Codes(request, request.seed, request.base)[i] - SignedLimit(request.bits)
      BY <2>1, <2>2, WantedIsGood
    <3> HIDE DEF w
    <3>3. IsRecordOf(request, file)
      BY <3>1, <3>2 DEF IsRecordOf
    <3>4. decoded # NotRun => decoded.status = "OK" /\ decoded.values = DecodeValues(w)
      BY <3>1, <3>2, DecodedValues
    <3> QED
      BY <2>4, <3>2, <3>3, <3>4 DEF SuccessLeavesItsOutput
  <2> QED
    BY <2>3, <2>4
<1> QED
  BY <1>1, Invariance, PTL

\* decompress is strict on every file that can be at the output path.
THEOREM DecodeIsStrictHolds == Spec => []DecodeIsStrict
<1>1. IInv => DecodeIsStrict
  <2> SUFFICES ASSUME IInv, decoded # NotRun, decoded.status = "OK" PROVE DecodeIsStrict
    BY DEF DecodeIsStrict
  <2> DEFINE h == file.body.header
             limit == SignedLimit(h.bits)
             codes == [i \in 1..Len(decoded.values) |-> decoded.values[i].k + limit]
             body == file.body
  <2>1. DecodeStatus(body) = "OK" /\ decoded.values = DecodeValues(body) /\ body \in Bodies
    BY DecodedValues, LeftFile
  <2>2. /\ h.bits \in Widths /\ LegalCodes(h.bits, h.scale, CodesOf(body))
        /\ Len(CodesOf(body)) = h.count
        /\ body = EncodeRecord(h.bits, h.scale, CodesOf(body))
    BY <2>1, EncodeDecode
  <2>3. codes = CodesOf(body)
    <3> DEFINE n == h.count
               code(i) == CodeAt(h.bits, body.payload, i)
               value == IF IsZero(h.scale) THEN "zero" ELSE h.scale
    <3>1. n \in Nat /\ limit \in Nat
      BY <2>1 DEF Bodies, SignedLimit
    <3>2. CodesOf(body) = [i \in 1..n |-> code(i)]
      BY DEF CodesOf
    <3>3. \A i \in 1..n : code(i) \in Nat
      <4> DEFINE S == 0..(2 * limit)
      <4>1. CodesOf(body) \in Seq(S) /\ Len(CodesOf(body)) = n
        BY <2>2 DEF LegalCodes
      <4>2. \A i \in 1..n : CodesOf(body)[i] = code(i)
        BY <3>2, Zenon
      <4>3. S \subseteq Nat
        BY <3>1
      <4> HIDE DEF S, code, n, body
      <4>4. \A i \in 1..n : CodesOf(body)[i] \in S
        BY <4>1
      <4> QED
        BY <4>2, <4>3, <4>4
    <3>4. DecodeValues(body) = [i \in 1..n |-> [k |-> code(i) - limit, scale |-> value]]
      BY Zenon DEF DecodeValues
    <3> HIDE DEF code, value, n, limit, h, body
    <3>5. Len(DecodeValues(body)) = n
      BY <3>1, <3>4
    <3>6. \A i \in 1..n : DecodeValues(body)[i].k + limit = code(i)
      BY <3>1, <3>3, <3>4
    <3>7. codes = [i \in 1..n |-> DecodeValues(body)[i].k + limit]
      BY <2>1, <3>5, Zenon
    <3> QED
      BY <3>2, <3>6, <3>7, Zenon
  <2>4. \A i \in 1..Len(codes) :
          codes[i] \in 0..(2 * limit) /\ (IsZero(h.scale) => codes[i] = limit)
    <3> DEFINE S == 0..(2 * limit)
    <3>1. /\ CodesOf(body) \in Seq(S)
          /\ IsZero(h.scale) => \A i \in 1..Len(CodesOf(body)) : CodesOf(body)[i] = limit
      BY <2>2 DEF LegalCodes
    <3> HIDE DEF S, codes, limit, h, body
    <3>2. \A i \in 1..Len(codes) : codes[i] \in S
      BY <2>3, <3>1
    <3>3. \A i \in 1..Len(codes) : IsZero(h.scale) => codes[i] = limit
      BY <2>3, <3>1
    <3> QED
      BY <3>2, <3>3 DEF S
  <2> QED
    BY <2>2, <2>3, <2>4 DEF DecodeIsStrict
<1> QED
  BY <1>1, Invariance, PTL
=============================================================================
