----------------------------- MODULE FawkesProofs -----------------------------
(***************************************************************************)
(* Proofs about the information byte: the arithmetic of the model is that  *)
(* of the masks, the verdict agrees with the decoders, and the encoders    *)
(* act on the byte as on three separate registers, for any strings.        *)
(***************************************************************************)
EXTENDS FawkesProto, TLAPS

(* The codes the encoders put into the byte. *)
LEMMA CodeTypes ==
  /\ \A proto : ProtoCode(proto) \in 0 .. 3
  /\ \A method : MethodCode(method) \in 0 .. 8
BY DEF ProtoCode, MethodCode

(* The three fields of a byte. *)
LEMMA FieldTypes ==
  ASSUME NEW b \in Byte
  PROVE  /\ ReqmtsBits(b) \in 0 .. 3
         /\ ProtoBits(b) \in 0 .. 3
         /\ MethodBits(b) \in 0 .. 15
BY DEF Byte, ReqmtsBits, ProtoBits, MethodBits

(* What each Put does to the fields. *)
LEMMA PutProtoFields ==
  ASSUME NEW b \in Byte, NEW x \in 0 .. 3
  PROVE  /\ PutProto(x, b) \in Byte
         /\ ReqmtsBits(PutProto(x, b)) = ReqmtsBits(b)
         /\ ProtoBits(PutProto(x, b)) = x
         /\ MethodBits(PutProto(x, b)) = MethodBits(b)
BY SMTT(30) DEF Byte, PutProto, ReqmtsBits, ProtoBits, MethodBits

LEMMA PutMethodFields ==
  ASSUME NEW b \in Byte, NEW x \in 0 .. 8
  PROVE  /\ PutMethod(x, b) \in Byte
         /\ ReqmtsBits(PutMethod(x, b)) = ReqmtsBits(b)
         /\ ProtoBits(PutMethod(x, b)) = ProtoBits(b)
         /\ MethodBits(PutMethod(x, b)) = x
BY SMTT(30) DEF Byte, PutMethod, ReqmtsBits, ProtoBits, MethodBits

LEMMA PutReqmtsFields ==
  ASSUME NEW b \in Byte, NEW x \in 0 .. 1
  PROVE  /\ PutReqmts(x, b) \in Byte
         /\ ReqmtsBits(PutReqmts(x, b)) = x
         /\ ProtoBits(PutReqmts(x, b)) = ProtoBits(b)
         /\ MethodBits(PutReqmts(x, b)) = MethodBits(b)
BY SMTT(30) DEF Byte, PutReqmts, ReqmtsBits, ProtoBits, MethodBits

-------------------------------------------------------------------------------
(* What encodeReqmts writes. *)
LEMMA VerdictField ==
  ASSUME NEW info \in Byte
  PROVE  ReqmtsBits(encodeReqmts(info)) =
           IF ProtoBits(info) # 0 /\ MethodBits(info) # 0 /\ MethodBits(info) < 9
             THEN 1 ELSE 0
BY PutReqmtsFields DEF encodeReqmts

(* The verdict agrees with the two decoders, for every byte. *)
THEOREM VerdictCorrect == VerdictMatchesDecoders
<1>. SUFFICES ASSUME NEW info \in Byte
              PROVE  decodeReqmts(encodeReqmts(info)) = 1
                       <=> decodeProto(info) # -1 /\ decodeMethod(info) # -1
  BY DEF VerdictMatchesDecoders
<1>. QED
  BY VerdictField, FieldTypes DEF decodeReqmts, decodeProto, decodeMethod

(* The encoders act on the byte as on three independent registers: each writes
   its own field and no other, for every byte and every string, known or not. *)
THEOREM EncodersKeepFields ==
  ASSUME NEW info \in Byte
  PROVE  /\ \A proto :
              /\ encodeProto(proto, info) \in Byte
              /\ Fields(encodeProto(proto, info))
                   = <<ReqmtsBits(info), ProtoCode(proto), MethodBits(info)>>
         /\ \A method :
              /\ encodeMethod(method, info) \in Byte
              /\ Fields(encodeMethod(method, info))
                   = <<ReqmtsBits(info), ProtoBits(info), MethodCode(method)>>
         /\ encodeReqmts(info) \in Byte
         /\ \E verdict \in {0, 1} :
              Fields(encodeReqmts(info)) = <<verdict, ProtoBits(info), MethodBits(info)>>
<1>1. ASSUME NEW proto
      PROVE  /\ encodeProto(proto, info) \in Byte
             /\ Fields(encodeProto(proto, info))
                  = <<ReqmtsBits(info), ProtoCode(proto), MethodBits(info)>>
  BY CodeTypes, PutProtoFields DEF encodeProto, Fields
<1>2. ASSUME NEW method
      PROVE  /\ encodeMethod(method, info) \in Byte
             /\ Fields(encodeMethod(method, info))
                  = <<ReqmtsBits(info), ProtoBits(info), MethodCode(method)>>
  BY CodeTypes, PutMethodFields DEF encodeMethod, Fields
<1>3. /\ encodeReqmts(info) \in Byte
      /\ \E verdict \in {0, 1} :
           Fields(encodeReqmts(info)) = <<verdict, ProtoBits(info), MethodBits(info)>>
  BY PutReqmtsFields DEF encodeReqmts, Fields
<1>. QED
  BY <1>1, <1>2, <1>3

(* The bits of the masks, and of a byte. *)
LEMMA MaskBits ==
  /\ \A k \in 0 .. 7 : Bit(243, k) = IF k \in {2, 3} THEN 0 ELSE 1
  /\ \A k \in 0 .. 7 : Bit(15, k) = IF k < 4 THEN 1 ELSE 0
  /\ \A k \in 0 .. 7 : Bit(252, k) = IF k < 2 THEN 0 ELSE 1
  /\ \A k \in 0 .. 7 : Bit(3, k) = IF k < 2 THEN 1 ELSE 0
BY DEF Bit

(* The bits of a byte are those of its fields: r the verdict, p the protocol and
   h the method. *)
FieldBit(h, p, r, k) == CASE k = 0 -> r % 2 [] k = 1 -> r \div 2
                          [] k = 2 -> p % 2 [] k = 3 -> p \div 2
                          [] k = 4 -> h % 2 [] k = 5 -> (h \div 2) % 2
                          [] k = 6 -> (h \div 4) % 2 [] k = 7 -> h \div 8

LEMMA BitsOfFields ==
  ASSUME NEW h \in 0 .. 15, NEW p \in 0 .. 3, NEW r \in 0 .. 3
  PROVE  \A k \in 0 .. 7 : Bit(h * 16 + p * 4 + r, k) = FieldBit(h, p, r, k)
<1>. DEFINE b == h * 16 + p * 4 + r
<1>1. (b \div 1) % 2 = r % 2 /\ (b \div 2) % 2 = r \div 2
  BY SMTT(30)
<1>2. (b \div 4) % 2 = p % 2 /\ (b \div 8) % 2 = p \div 2
  BY SMTT(30)
<1>3. (b \div 16) % 2 = h % 2 /\ (b \div 32) % 2 = (h \div 2) % 2
  BY SMTT(30)
<1>4. (b \div 64) % 2 = (h \div 4) % 2 /\ (b \div 128) % 2 = h \div 8
  BY SMTT(30)
<1>. HIDE DEF b
<1>5. ASSUME NEW k \in 0 .. 7 PROVE Bit(b, k) = FieldBit(h, p, r, k)
  BY <1>1, <1>2, <1>3, <1>4 DEF Bit, FieldBit
<1>. QED
  BY <1>5 DEF b

(* The operations of the code, mask by mask and bit by bit. *)
THEOREM ArithmeticIsMasks == SameAsMasks
<1>1. ASSUME NEW info \in Byte
      PROVE  /\ \A x \in 0 .. 3 : Masked(PutProto(x, info), info, x * 4, 243)
             /\ \A x \in 0 .. 8 : Masked(PutMethod(x, info), info, (x * 16) % 256, 15)
             /\ \A x \in 0 .. 1 : Masked(PutReqmts(x, info), info, x, 252)
             /\ Masked(ReqmtsBits(info), info, 0, 3)
             /\ Masked(ProtoBits(info), info \div 4, 0, 3)
  <2>. DEFINE h == info \div 16
              p == (info \div 4) % 4
              r == info % 4
  <2>1. h \in 0 .. 15 /\ p \in 0 .. 3 /\ r \in 0 .. 3 /\ info = h * 16 + p * 4 + r
    BY DEF Byte
  <2>2. \A k \in 0 .. 7 : Bit(info, k) = FieldBit(h, p, r, k)
    BY <2>1, BitsOfFields
  <2>3. ASSUME NEW x \in 0 .. 3 PROVE Masked(PutProto(x, info), info, x * 4, 243)
    <3>1. PutProto(x, info) = h * 16 + x * 4 + r /\ x * 4 = 0 * 16 + x * 4 + 0
      BY DEF PutProto
    <3>. HIDE DEF h, p, r
    <3>2. \A k \in 0 .. 7 : /\ Bit(PutProto(x, info), k) = FieldBit(h, x, r, k)
                            /\ Bit(x * 4, k) = FieldBit(0, x, 0, k)
      BY <2>1, <3>1, BitsOfFields
    <3>. QED
      BY <2>2, <3>2, MaskBits DEF Masked, FieldBit
  <2>4. ASSUME NEW x \in 0 .. 8 PROVE Masked(PutMethod(x, info), info, (x * 16) % 256, 15)
    <3>1. (x * 16) % 256 = x * 16 + 0 * 4 + 0 /\ x \in 0 .. 15
      OBVIOUS
    <3>2. PutMethod(x, info) = x * 16 + p * 4 + r
      BY <2>1, <3>1 DEF PutMethod, Byte
    <3>. HIDE DEF h, p, r
    <3>3. \A k \in 0 .. 7 : /\ Bit(PutMethod(x, info), k) = FieldBit(x, p, r, k)
                            /\ Bit((x * 16) % 256, k) = FieldBit(x, 0, 0, k)
      BY <2>1, <3>1, <3>2, BitsOfFields
    <3>. QED
      BY <2>2, <3>3, MaskBits DEF Masked, FieldBit
  <2>5. ASSUME NEW x \in 0 .. 1 PROVE Masked(PutReqmts(x, info), info, x, 252)
    <3>1. PutReqmts(x, info) = h * 16 + p * 4 + x /\ x = 0 * 16 + 0 * 4 + x /\ x \in 0 .. 3
      BY <2>1 DEF PutReqmts, Byte
    <3>. HIDE DEF h, p, r
    <3>2. \A k \in 0 .. 7 : /\ Bit(PutReqmts(x, info), k) = FieldBit(h, p, x, k)
                            /\ Bit(x, k) = FieldBit(0, 0, x, k)
      BY <2>1, <3>1, BitsOfFields
    <3>. QED
      BY <2>2, <3>2, MaskBits DEF Masked, FieldBit
  <2>6. \A k \in 0 .. 7 : Bit(0, k) = 0
    BY DEF Bit
  <2>7. Masked(ReqmtsBits(info), info, 0, 3)
    <3>1. ReqmtsBits(info) = 0 * 16 + 0 * 4 + r
      BY <2>1 DEF ReqmtsBits
    <3>. HIDE DEF h, p, r
    <3>2. \A k \in 0 .. 7 : Bit(ReqmtsBits(info), k) = FieldBit(0, 0, r, k)
      BY <2>1, <3>1, BitsOfFields
    <3>. QED
      BY <2>2, <2>6, <3>2, MaskBits DEF Masked, FieldBit
  <2>8. Masked(ProtoBits(info), info \div 4, 0, 3)
    <3>. DEFINE t == h \div 4
                q == h % 4
    <3>1. ProtoBits(info) = 0 * 16 + 0 * 4 + p
      BY <2>1 DEF ProtoBits
    <3>2. info \div 4 = t * 16 + q * 4 + p /\ t \in 0 .. 15 /\ q \in 0 .. 3
      BY DEF Byte
    <3>. HIDE DEF h, p, r, t, q
    <3>3. \A k \in 0 .. 7 : /\ Bit(ProtoBits(info), k) = FieldBit(0, 0, p, k)
                            /\ Bit(info \div 4, k) = FieldBit(t, q, p, k)
      BY <2>1, <3>1, <3>2, BitsOfFields
    <3>. QED
      BY <2>6, <3>3, MaskBits DEF Masked, FieldBit
  <2>. QED
    BY <2>3, <2>4, <2>5, <2>7, <2>8
<1>. QED
  BY <1>1 DEF SameAsMasks

(* The encoders compose what the masks compose, for any two strings and every
   byte. *)
THEOREM EncodersAreMasks == \A proto, method : EncodesByMasks(proto, method)
<1>. SUFFICES ASSUME NEW proto, NEW method, NEW info \in Byte
              PROVE  /\ Masked(encodeProto(proto, info), info, ProtoCode(proto) * 4, 243)
                     /\ Masked(encodeMethod(method, info), info,
                               (MethodCode(method) * 16) % 256, 15)
                     /\ LET accepted == decodeProto(info) # -1 /\ decodeMethod(info) # -1
                        IN  Masked(encodeReqmts(info), info, IF accepted THEN 1 ELSE 0, 252)
  BY DEF EncodesByMasks
<1>1. /\ Masked(encodeProto(proto, info), info, ProtoCode(proto) * 4, 243)
      /\ Masked(encodeMethod(method, info), info, (MethodCode(method) * 16) % 256, 15)
  BY CodeTypes, ArithmeticIsMasks DEF SameAsMasks, encodeProto, encodeMethod
<1>. DEFINE accepted == decodeProto(info) # -1 /\ decodeMethod(info) # -1
            verdict  == IF accepted THEN 1 ELSE 0
<1>2. accepted <=> ProtoBits(info) # 0 /\ MethodBits(info) # 0 /\ MethodBits(info) < 9
  BY FieldTypes DEF decodeProto, decodeMethod
<1>3. encodeReqmts(info) = PutReqmts(verdict, info)
  BY <1>2 DEF encodeReqmts
<1>4. \A x \in 0 .. 1 : Masked(PutReqmts(x, info), info, x, 252)
  BY ArithmeticIsMasks DEF SameAsMasks
<1>5. verdict \in 0 .. 1
  OBVIOUS
<1>. QED
  BY <1>1, <1>3, <1>4, <1>5

===============================================================================
