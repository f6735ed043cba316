------------------------------ MODULE FawkesProto ------------------------------
(***************************************************************************)
(* The information byte of server/fawkes_proto.h, in which the server      *)
(* keeps what it has learnt of a request: bits 0-1 hold the verdict of the *)
(* requirements check, bits 2-3 the protocol, bits 4-7 the method.  The    *)
(* masks and shifts of the code are written with \div and %; the byte has  *)
(* eight bits, so x << 4 is taken modulo 256.                              *)
(***************************************************************************)
EXTENDS Integers

Byte == 0 .. 255

(* The strings the encoders know, in the order of their codes from 1. *)
ProtoName  == <<"HTTP/1.0", "HTTP/1.1", "HTTP/2.0">>
MethodName == <<"GET", "HEAD", "POST", "PUT", "DELETE",
                "CONNECT", "OPTIONS", "TRACE">>

(* The code of a string, 0 when the encoder does not know it. *)
ProtoCode(proto) ==
  IF \E x \in 1 .. 3 : ProtoName[x] = proto
    THEN CHOOSE x \in 1 .. 3 : ProtoName[x] = proto ELSE 0

MethodCode(method) ==
  IF \E x \in 1 .. 8 : MethodName[x] = method
    THEN CHOOSE x \in 1 .. 8 : MethodName[x] = method ELSE 0

(* The three fields: info & 3, (info >> 2) & 3 and info >> 4. *)
ReqmtsBits(info) == info % 4
ProtoBits(info)  == (info \div 4) % 4
MethodBits(info) == info \div 16

-------------------------------------------------------------------------------
(* A mutant of PutMethod: the mask also clears the low four bits. *)
PutMethodWide(x, info) == (x * 16) % 256

(* (info & 243) | ((x << 2) & ~243) *)
PutProto(x, info) == (info \div 16) * 16 + x * 4 + (info % 4)

(* (info & 15) | ((x << 4) & ~15) *)
PutMethod(x, info) == ((x * 16) % 256) + (info % 16)

(* (info & 252) | (x & ~252) *)
PutReqmts(x, info) == (info \div 4) * 4 + x

encodeProto(proto, info) == PutProto(ProtoCode(proto), info)

encodeMethod(method, info) == PutMethod(MethodCode(method), info)

encodeReqmts(info) ==
  PutReqmts(IF ProtoBits(info) # 0 /\ MethodBits(info) # 0
               /\ MethodBits(info) < 9 THEN 1 ELSE 0, info)

decodeProto(info) == IF ProtoBits(info) = 0 THEN -1 ELSE ProtoBits(info)

decodeMethod(info) == IF MethodBits(info) \in 1 .. 8 THEN MethodBits(info) ELSE -1

decodeReqmts(info) == IF ReqmtsBits(info) = 1 THEN 1 ELSE -1

-------------------------------------------------------------------------------
(* Bit k of a byte, and what (a & m) | (b & ~m) is, bit by bit. *)
Bit(b, k) == (b \div <<1, 2, 4, 8, 16, 32, 64, 128>>[k + 1]) % 2
Masked(c, a, b, m) ==
  \A k \in 0 .. 7 : Bit(c, k) = IF Bit(m, k) = 1 THEN Bit(a, k) ELSE Bit(b, k)

(* The arithmetic of the model is that of the masks and shifts of the code, for
   every byte and every code: what the encoders write, and what & 3 reads. *)
SameAsMasks ==
  \A info \in Byte :
    /\ \A x \in 0 .. 3 : Masked(PutProto(x, info), info, x * 4, 243)
    /\ \A x \in 0 .. 8 : Masked(PutMethod(x, info), info, (x * 16) % 256, 15)
    /\ \A x \in 0 .. 1 : Masked(PutReqmts(x, info), info, x, 252)
    /\ Masked(ReqmtsBits(info), info, 0, 3)
    /\ Masked(ProtoBits(info), info \div 4, 0, 3)

(* encodeReqmts accepts exactly the bytes whose protocol and method both
   decode: the range test of the one agrees with the tables of the others,
   for all sixteen method values. *)
VerdictMatchesDecoders ==
  \A info \in Byte :
    decodeReqmts(encodeReqmts(info)) = 1
      <=> decodeProto(info) # -1 /\ decodeMethod(info) # -1

(* What the encoders make of a byte, for a protocol, a method and whatever the
   byte holds, is what the masks of the code make of it: each writes its own
   field and keeps the others, and the verdict is 1 exactly when both decoders
   accept the byte. *)
EncodesByMasks(proto, method) ==
  \A info \in Byte :
    /\ Masked(encodeProto(proto, info), info, ProtoCode(proto) * 4, 243)
    /\ Masked(encodeMethod(method, info), info, (MethodCode(method) * 16) % 256, 15)
    /\ LET accepted == decodeProto(info) # -1 /\ decodeMethod(info) # -1
       IN  Masked(encodeReqmts(info), info, IF accepted THEN 1 ELSE 0, 252)

(* The three fields of a byte. *)
Fields(info) == <<ReqmtsBits(info), ProtoBits(info), MethodBits(info)>>

===============================================================================
