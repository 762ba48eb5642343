-------------------------------- MODULE Codec --------------------------------
(***************************************************************************)
(* The packed record of codec.c.  A file is a header and payload bytes; a  *)
(* file that ends inside its header has complete = FALSE.  A scale is      *)
(* named by its kind; "zero" and "negzero" are the two float zeros.        *)
(*                                                                         *)
(* An operator defined just before another one and named after it is a     *)
(* seeded fault; PROJECT.json says which property catches it.              *)
(***************************************************************************)
EXTENDS Integers, Sequences

SignedLimit(bits) == IF bits = 4 THEN 7 ELSE 127
IsZero(scale) == scale \in {"zero", "negzero"}
PayloadSize(bits, n) == IF bits = 4 THEN (n \div 2) + (n % 2) ELSE n

Scales == {"zero", "negzero", "given", "computed", "negative", "nonfinite"}

\* What a file may hold that decompress is given, whole or torn.
Byte == 0..255
Bodies ==
  [complete : BOOLEAN,
   header : [magic : BOOLEAN, version : Nat, bits : Nat, reserved : Nat, count : Nat,
             scale : Scales],
   payload : Seq(Byte)]

\* checks is a sequence of <<condition, status>>: the first one that holds
\* decides, as in a chain of early returns.
FirstOf(checks) ==
  LET hits == {i \in DOMAIN checks : checks[i][1]}
  IN IF hits = {} THEN "OK" ELSE checks[CHOOSE i \in hits : \A j \in hits : i <= j][2]

\* What sq_header_encode refuses.
HeaderStatus(count, scale) ==
  IF scale = "nonfinite" \/ scale = "negative" \/ (count = 0 /\ ~IsZero(scale))
  THEN "SCALE" ELSE "OK"

\* The low nibble holds the element with the even index.
Pack(bits, codes) ==
  IF bits = 8 THEN codes
  ELSE [b \in 1..PayloadSize(4, Len(codes)) |->
          codes[2 * b - 1] + (IF 2 * b <= Len(codes) THEN 16 * codes[2 * b] ELSE 0)]
EncodeRecord(bits, scale, codes) ==
  [complete |-> TRUE,
   header |-> [magic |-> TRUE, version |-> 1, bits |-> bits, reserved |-> 0,
               count |-> Len(codes), scale |-> scale],
   payload |-> Pack(bits, codes)]

-----------------------------------------------------------------------------
(* sq_decode_record *)

CodeAt(bits, payload, i) ==
  IF bits = 8 THEN payload[i]
  ELSE IF i % 2 = 1 THEN payload[(i + 1) \div 2] % 16 ELSE payload[i \div 2] \div 16

\* The checks in front of the payload, in their order.
FrameStatus(file) ==
  LET h == file.header IN
  FirstOf(<< <<~file.complete, "PAYLOAD_LENGTH">>,
             <<~h.magic, "MAGIC">>,
             <<h.version # 1, "VERSION">>,
             <<h.bits \notin {4, 8}, "BIT_WIDTH">>,
             <<h.reserved # 0, "RESERVED">>,
             <<Len(file.payload) # PayloadSize(h.bits, h.count), "PAYLOAD_LENGTH">>,
             <<HeaderStatus(h.count, h.scale) # "OK", "SCALE">> >>)

PaddingOkAlways(file) == TRUE
PaddingOk(file) ==
  (file.header.bits = 4 /\ file.header.count % 2 = 1) =>
    file.payload[Len(file.payload)] \div 16 = 0

\* The first bad code decides the status.
CodesStatus(file) ==
  LET h == file.header
      limit == SignedLimit(h.bits)
      code(i) == CodeAt(h.bits, file.payload, i)
      checks(i) == FirstOf(<< <<code(i) > 2 * limit, "CODE">>,
                              <<IsZero(h.scale) /\ code(i) # limit, "ZERO_SCALE_CODE">> >>)
  IN FirstOf([i \in 1..h.count |-> <<checks(i) # "OK", checks(i)>>])

DecodeStatus(file) ==
  IF FrameStatus(file) # "OK" THEN FrameStatus(file)
  ELSE IF ~PaddingOk(file) THEN "PADDING_NIBBLE"
  ELSE CodesStatus(file)

\* The decoded value is (signed code / limit) * scale; a zero scale of either
\* sign decodes as +0.
DecodeValues(file) ==
  LET h == file.header IN
  [i \in 1..h.count |->
     [k |-> CodeAt(h.bits, file.payload, i) - SignedLimit(h.bits),
      scale |-> IF IsZero(h.scale) THEN "zero" ELSE h.scale]]
=============================================================================
