------------------------- MODULE FrameCodec_proofs --------------------------
(***************************************************************************)
(* Proofs about FrameCodec for any addresses, PANs, sequence numbers,      *)
(* orders and payloads. Every parser is shown to read the value its bytes  *)
(* were packed from, or to find that bytes are missing; the parser of a    *)
(* frame is put together from these facts.                                 *)
(***************************************************************************)
EXTENDS FrameCodec, SequenceTheorems, TLAPS

Bytes == Seq(Byte)

\* The data are the packed bytes without the last k of them.
Lost(data, packed, k) ==
  /\ data \in Bytes /\ packed \in Bytes /\ k \in Nat
  /\ Len(packed) = Len(data) + k
  /\ \A i \in 1 .. Len(data) : data[i] = packed[i]

\* So of bytes that start with the ones in front.
LostOf(data, front, back, k) == Lost(data, front \o back, k)

\* A parser returned the value, and what is left of the remaining bytes when
\* the last k are missing; or it ran into the end of the data.
Reads(parsed, value, remaining, k) ==
  \/ parsed = Err("NotEnoughData") /\ k > 0
  \/ \E rest : parsed = Ok(value, rest) /\ Lost(rest, remaining, k)

LEMMA Outcomes ==
  /\ \A value, rest : /\ Ok(value, rest).ok = TRUE /\ Ok(value, rest).value = value
                      /\ Ok(value, rest).rest = rest
  /\ \A error : Err(error).ok = FALSE
  BY DEF Ok, Err

-----------------------------------------------------------------------------
(* Bytes and integers.                                                      *)
LEMMA NothingLost ==
  ASSUME NEW data, NEW packed, Lost(data, packed, 0)
  PROVE  data = packed
<1>1. data \in Bytes /\ packed \in Bytes /\ Len(data) = Len(packed)
      /\ \A i \in 1 .. Len(data) : data[i] = packed[i]
  BY LenProperties DEF Lost, Bytes
<1> QED BY <1>1, SeqEqual DEF Bytes

\* A prefix lost what comes after it.
LEMMA CutLoses ==
  ASSUME NEW packed \in Bytes, NEW n \in 0 .. Len(packed)
  PROVE  Lost(SubSeq(packed, 1, n), packed, Len(packed) - n)
<1>1. Len(packed) \in Nat
  BY LenProperties DEF Bytes
<1>2. \A i \in 1 .. n : packed[i] \in Byte
  BY <1>1, ElementOfSeq DEF Bytes
<1>3. /\ SubSeq(packed, 1, n) \in Bytes
      /\ Len(SubSeq(packed, 1, n)) = n
      /\ \A i \in 1 .. n : SubSeq(packed, 1, n)[i] = packed[i]
  BY <1>1, <1>2, SubSeqProperties DEF Bytes
<1> QED BY <1>1, <1>3 DEF Lost

\* The parser of an array of bytes.
LEMMA BytesRead ==
  ASSUME NEW front \in Bytes, NEW back \in Bytes, NEW k, NEW data, LostOf(data, front, back, k)
  PROVE  Reads(UnpackBytes(Len(front), data), front, back, k)
<1> DEFINE n == Len(front)
           m == Len(data)
           packed == front \o back
           first == SubSeq(data, 1, n)
           rest == SubSeq(data, n + 1, m)
<1>1. /\ n \in Nat /\ m \in Nat /\ Len(back) \in Nat
      /\ Len(packed) = n + Len(back)
      /\ \A i \in 1 .. n + Len(back) :
           packed[i] = IF i <= n THEN front[i] ELSE back[i - n]
  BY ConcatProperties, LenProperties DEF LostOf, Lost, Bytes
<1>2. /\ data \in Bytes /\ k \in Nat /\ n + Len(back) = m + k
      /\ \A i \in 1 .. m : data[i] = packed[i] /\ data[i] \in Byte
  BY <1>1, ElementOfSeq DEF LostOf, Lost, Bytes
<1> HIDE DEF n, m, packed
<1>3. CASE m < n
  <2>1. UnpackBytes(n, data) = Err("NotEnoughData")
    BY <1>3 DEF UnpackBytes, m
  <2>2. k > 0
    BY <1>1, <1>2, <1>3
  <2> QED BY <2>1, <2>2 DEF Reads, n
<1>4. CASE n <= m
  <2>1. UnpackBytes(n, data) = Ok(first, rest)
    BY <1>1, <1>4 DEF UnpackBytes, m
  <2>2. /\ first \in Bytes /\ Len(first) = n
        /\ \A i \in 1 .. n : first[i] = data[i]
    <3>1. \A i \in 1 .. n : data[i] \in Byte
      BY <1>1, <1>2, <1>4
    <3> QED BY <1>1, <3>1, SubSeqProperties DEF Bytes
  <2>3. \A i \in 1 .. n : first[i] = front[i]
    BY <1>1, <1>2, <1>4, <2>2
  <2>4. first = front
    BY <2>2, <2>3, SeqEqual DEF n, Bytes
  <2>5. /\ rest \in Bytes /\ Len(rest) = m - n
        /\ \A i \in 1 .. m - n : rest[i] = data[n + i]
    <3>1. \A i \in n + 1 .. m : data[i] \in Byte
      BY <1>1, <1>2
    <3>2. n + 1 \in Int /\ m \in Int
      BY <1>1
    <3>3. /\ rest \in Bytes /\ Len(rest) = IF n + 1 <= m THEN m - (n + 1) + 1 ELSE 0
          /\ \A i \in 1 .. m - (n + 1) + 1 : rest[i] = data[n + 1 + i - 1]
      BY <3>1, <3>2, SubSeqProperties DEF Bytes
    <3>4. m - (n + 1) + 1 = m - n /\ \A i \in 1 .. m - n : n + 1 + i - 1 = n + i
      BY <1>1
    <3>5. Len(rest) = m - n
      BY <1>1, <1>4, <3>3
    <3> HIDE DEF rest
    <3> QED BY <3>3, <3>4, <3>5
  <2>6. \A i \in 1 .. m - n : rest[i] = back[i]
    <3> SUFFICES ASSUME NEW i \in 1 .. m - n PROVE rest[i] = back[i]
      OBVIOUS
    <3>1. n + i \in 1 .. m /\ n + i \in 1 .. n + Len(back) /\ ~(n + i <= n) /\ n + i - n = i
      BY <1>1, <1>2
    <3> HIDE DEF rest
    <3> QED BY <1>1, <1>2, <2>5, <3>1
  <2>7. Lost(rest, back, k)
    <3> HIDE DEF rest
    <3> QED BY <1>1, <1>2, <2>5, <2>6 DEF Lost
  <2> QED BY <2>1, <2>4, <2>7 DEF Reads, n
<1> QED BY <1>1, <1>3, <1>4

\* The parsers of integers, least significant byte first.
LEMMA U8Read ==
  ASSUME NEW v \in Byte, NEW back \in Bytes, NEW k, NEW data, LostOf(data, <<v>>, back, k)
  PROVE  Reads(UnpackU8(data), v, back, k)
<1>1. <<v>> \in Bytes /\ Len(<<v>>) = 1 /\ <<v>>[1] = v
  BY DEF Bytes
<1>2. Reads(UnpackBytes(1, data), <<v>>, back, k)
  BY <1>1, BytesRead
<1>8. CASE UnpackBytes(1, data) = Err("NotEnoughData") /\ k > 0
  <2>1. UnpackU8(data) = UnpackBytes(1, data)
    BY <1>8, Outcomes DEF UnpackU8, Then
  <2> QED BY <1>8, <2>1 DEF Reads
<1>9. ASSUME NEW rest, UnpackBytes(1, data) = Ok(<<v>>, rest), Lost(rest, back, k)
      PROVE  Reads(UnpackU8(data), v, back, k)
  <2>0. UnpackBytes(1, data).ok = TRUE /\ UnpackBytes(1, data).value = <<v>> /\ UnpackBytes(1, data).rest = rest
    BY <1>9, Outcomes
  <2>1. UnpackU8(data) = Ok(<<v>>[1], rest)
    BY <2>0 DEF UnpackU8, Then
  <2>2. UnpackU8(data) = Ok(v, rest)
    BY <1>1, <2>1
  <2> QED BY <1>9, <2>2 DEF Reads
<1> QED BY <1>2, <1>8, <1>9 DEF Reads

LEMMA PackedU16 ==
  ASSUME NEW v \in U16
  PROVE  /\ PackU16(v) \in Bytes /\ Len(PackU16(v)) = 2
         /\ PackU16(v)[1] + PackU16(v)[2] * 256 = v
<1>1. Low(v) \in Byte /\ High(v) \in Byte /\ Low(v) + High(v) * 256 = v
  BY DEF Low, High, Byte, U16
<1> QED BY <1>1 DEF PackU16, Bytes

LEMMA U16Read ==
  ASSUME NEW v \in U16, NEW back \in Bytes, NEW k, NEW data,
         LostOf(data, PackU16(v), back, k)
  PROVE  Reads(UnpackU16(data), v, back, k)
<1>1. /\ PackU16(v) \in Bytes /\ Len(PackU16(v)) = 2
      /\ PackU16(v)[1] + PackU16(v)[2] * 256 = v
  BY PackedU16
<1>2. Reads(UnpackBytes(2, data), PackU16(v), back, k)
  <2> DEFINE front == PackU16(v)
  <2>1. front \in Bytes /\ Len(front) = 2 /\ LostOf(data, front, back, k)
    BY <1>1
  <2> HIDE DEF front
  <2>2. Reads(UnpackBytes(Len(front), data), front, back, k)
    BY <2>1, BytesRead
  <2>3. Reads(UnpackBytes(2, data), front, back, k)
    BY <2>1, <2>2
  <2> QED BY <2>3 DEF front
<1>8. CASE UnpackBytes(2, data) = Err("NotEnoughData") /\ k > 0
  <2>1. UnpackU16(data) = UnpackBytes(2, data)
    BY <1>8, Outcomes DEF UnpackU16, Then
  <2> QED BY <1>8, <2>1 DEF Reads
<1>9. ASSUME NEW rest, UnpackBytes(2, data) = Ok(PackU16(v), rest), Lost(rest, back, k)
      PROVE  Reads(UnpackU16(data), v, back, k)
  <2>0. UnpackBytes(2, data).ok = TRUE /\ UnpackBytes(2, data).value = PackU16(v) /\ UnpackBytes(2, data).rest = rest
    BY <1>9, Outcomes
  <2>1. UnpackU16(data) = Ok(PackU16(v)[1] + PackU16(v)[2] * 256, rest)
    BY <2>0 DEF UnpackU16, Then
  <2>2. UnpackU16(data) = Ok(v, rest)
    BY <1>1, <2>1
  <2> QED BY <1>9, <2>2 DEF Reads
<1> QED BY <1>2, <1>8, <1>9 DEF Reads

LEMMA ReversedBytes ==
  ASSUME NEW v \in Bytes, Len(v) = 8
  PROVE  /\ Reverse(v) \in Bytes /\ Len(Reverse(v)) = 8
         /\ \A i \in 1 .. 8 : Reverse(v)[i] = v[8 - i + 1]
<1>1. \A i \in 1 .. 8 : v[i] \in Byte
  BY ElementOfSeq DEF Bytes
<1>2. \A i \in 1 .. 8 : 8 - i + 1 \in 1 .. 8
  OBVIOUS
<1> QED BY <1>1, <1>2 DEF Reverse, Bytes

LEMMA U64Read ==
  ASSUME NEW v \in Bytes, Len(v) = 8, NEW back \in Bytes, NEW k, NEW data,
         LostOf(data, Reverse(v), back, k)
  PROVE  Reads(UnpackU64(data), v, back, k)
<1>1. /\ Reverse(v) \in Bytes /\ Len(Reverse(v)) = 8
      /\ \A i \in 1 .. 8 : Reverse(v)[i] = v[8 - i + 1]
  BY ReversedBytes
<1>2. Reverse(Reverse(v)) = v
  <2>1. /\ Reverse(Reverse(v)) \in Bytes /\ Len(Reverse(Reverse(v))) = 8
        /\ \A i \in 1 .. 8 : Reverse(Reverse(v))[i] = Reverse(v)[8 - i + 1]
    BY <1>1, ReversedBytes
  <2>2. \A i \in 1 .. 8 : 8 - i + 1 \in 1 .. 8 /\ 8 - (8 - i + 1) + 1 = i
    OBVIOUS
  <2>3. \A i \in 1 .. 8 : Reverse(Reverse(v))[i] = v[i]
    BY <1>1, <2>1, <2>2
  <2> QED BY <2>1, <2>3, SeqEqual DEF Bytes
<1>3. Reads(UnpackBytes(8, data), Reverse(v), back, k)
  BY <1>1, BytesRead
<1>8. CASE UnpackBytes(8, data) = Err("NotEnoughData") /\ k > 0
  <2>1. UnpackU64(data) = UnpackBytes(8, data)
    BY <1>8, Outcomes DEF UnpackU64, Then
  <2> QED BY <1>8, <2>1 DEF Reads
<1>9. ASSUME NEW rest, UnpackBytes(8, data) = Ok(Reverse(v), rest), Lost(rest, back, k)
      PROVE  Reads(UnpackU64(data), v, back, k)
  <2>0. UnpackBytes(8, data).ok = TRUE /\ UnpackBytes(8, data).value = Reverse(v) /\ UnpackBytes(8, data).rest = rest
    BY <1>9, Outcomes
  <2>1. UnpackU64(data) = Ok(Reverse(Reverse(v)), rest)
    BY <2>0 DEF UnpackU64, Then
  <2>2. UnpackU64(data) = Ok(v, rest)
    BY <1>1, <1>2, <2>1
  <2> QED BY <1>9, <2>2 DEF Reads
<1> QED BY <1>3, <1>8, <1>9 DEF Reads

-----------------------------------------------------------------------------
(* Addresses.                                                               *)
LEMMA Constants ==
  /\ Pans \subseteq U16 /\ Shorts \subseteq U16
  /\ \A e \in Extendeds : e \in Bytes /\ Len(e) = 8
  /\ Payloads \subseteq Bytes
  BY FrameCodecAssumption DEF Bytes

LEMMA Regroup ==
  ASSUME NEW a \in Bytes, NEW b \in Bytes, NEW c \in Bytes
  PROVE  b \o c \in Bytes /\ (a \o b) \o c = a \o (b \o c)
  BY ConcatProperties, ConcatAssociative DEF Bytes

LEMMA AddressKinds ==
  ASSUME NEW a \in Addresses
  PROVE  \/ /\ a.mode = 2 /\ a.value \in U16 /\ PackAddress(a) = PackU16(a.value)
            /\ a = [mode |-> 2, value |-> a.value]
         \/ /\ a.mode = 3 /\ a.value \in Bytes /\ Len(a.value) = 8
            /\ PackAddress(a) = Reverse(a.value)
            /\ a = [mode |-> 3, value |-> a.value]
<1>1. CASE a \in [mode : {2}, value : Shorts]
  BY <1>1, Constants DEF PackAddress
<1>2. CASE a \in [mode : {3}, value : Extendeds]
  BY <1>2, Constants DEF PackAddress
<1> QED BY <1>1, <1>2 DEF Addresses

LEMMA PackedAddress ==
  ASSUME NEW a \in Addresses
  PROVE  PackAddress(a) \in Bytes
<1>1. CASE a.value \in U16 /\ PackAddress(a) = PackU16(a.value)
  BY <1>1, PackedU16
<1>2. CASE a.value \in Bytes /\ Len(a.value) = 8 /\ PackAddress(a) = Reverse(a.value)
  BY <1>2, ReversedBytes
<1> QED BY <1>1, <1>2, AddressKinds

\* An address, whose form the frame control says.
LEMMA AddressDataRead ==
  ASSUME NEW a \in Addresses, NEW back \in Bytes, NEW k, NEW data,
         LostOf(data, PackAddress(a), back, k)
  PROVE  Reads(UnpackAddressData(a.mode, data), a, back, k)
<1> DEFINE p == IF a.mode = 2 THEN UnpackU16(data) ELSE UnpackU64(data)
<1>1. Reads(p, a.value, back, k) /\ a.mode \in {2, 3} /\ a = [mode |-> a.mode, value |-> a.value]
  <2>1. CASE /\ a.mode = 2 /\ a.value \in U16 /\ PackAddress(a) = PackU16(a.value)
             /\ a = [mode |-> 2, value |-> a.value]
    BY <2>1, U16Read
  <2>2. CASE /\ a.mode = 3 /\ a.value \in Bytes /\ Len(a.value) = 8
             /\ PackAddress(a) = Reverse(a.value)
             /\ a = [mode |-> 3, value |-> a.value]
    <3>1. Reads(UnpackU64(data), a.value, back, k)
      BY <2>2, U64Read
    <3> QED BY <2>2, <3>1
  <2> QED BY <2>1, <2>2, AddressKinds
<1>2. UnpackAddressData(a.mode, data)
        = IF p.ok THEN Ok([mode |-> a.mode, value |-> p.value], p.rest) ELSE p
  <2>1. UnpackTagged(a.mode, {2, 3}, data) = Ok(a.mode, data)
    BY <1>1 DEF UnpackTagged
  <2>2. /\ UnpackTagged(a.mode, {2, 3}, data).ok
        /\ UnpackTagged(a.mode, {2, 3}, data).value = a.mode
        /\ UnpackTagged(a.mode, {2, 3}, data).rest = data
    BY <2>1, Outcomes
  <2> QED BY <2>2 DEF UnpackAddressData, Then
<1> HIDE DEF p
<1>3. CASE p = Err("NotEnoughData") /\ k > 0
  BY <1>2, <1>3, Outcomes DEF Reads
<1>4. ASSUME NEW rest, p = Ok(a.value, rest), Lost(rest, back, k)
      PROVE  Reads(UnpackAddressData(a.mode, data), a, back, k)
  <2>1. p.ok = TRUE /\ p.value = a.value /\ p.rest = rest
    BY <1>4, Outcomes
  <2>2. UnpackAddressData(a.mode, data) = Ok(a, rest)
    BY <1>1, <1>2, <2>1
  <2> QED BY <1>4, <2>2 DEF Reads
<1> QED BY <1>1, <1>3, <1>4 DEF Reads

LEMMA OptionParts ==
  /\ PackOption({}) = <<>> /\ ModeOf({}) = 0 /\ PanOf({}) = {}
  /\ \A bytes : PackOption({bytes}) = bytes
  /\ \A a : ModeOf({a}) = a.address.mode /\ PanOf({a}) = {a.pan_id}
<1>1. \A x : {x} # {} /\ (CHOOSE y \in {x} : TRUE) = x
  OBVIOUS
<1>2. \A bytes : PackOption({bytes}) = bytes
  BY <1>1 DEF PackOption
<1>3. \A a : ModeOf({a}) = a.address.mode
  BY <1>1 DEF ModeOf
<1>4. \A a : PanOf({a}) = {a.pan_id}
  BY DEF PanOf
<1> QED BY <1>2, <1>3, <1>4 DEF PackOption, ModeOf, PanOf

\* The address that follows when the PAN is known
LEMMA AfterPan ==
  ASSUME NEW a \in FullAddresses, NEW previous, NEW back \in Bytes, NEW k, NEW data, NEW first,
         LET p == IF previous # {} THEN Ok(CHOOSE pan \in previous : TRUE, data)
                  ELSE UnpackU16(data)
         IN  p = Ok(a.pan_id, first),
         LostOf(first, PackAddress(a.address), back, k)
  PROVE  Reads(UnpackAddress(a.address.mode, previous, data), {a}, back, k)
<1> DEFINE p == IF previous # {} THEN Ok(CHOOSE pan \in previous : TRUE, data)
                ELSE UnpackU16(data)
           q == UnpackAddressData(a.address.mode, first)
           r == UnpackAddress(a.address.mode, previous, data)
<1>1. /\ a.address \in Addresses /\ a = [pan_id |-> a.pan_id, address |-> a.address]
  BY DEF FullAddresses
<1>2. a.address.mode # 0
  BY <1>1, AddressKinds
<1>3. p.ok = TRUE /\ p.value = a.pan_id /\ p.rest = first
  BY Outcomes
<1>4. Reads(q, a.address, back, k)
  BY <1>1, AddressDataRead
<1>5. r = IF q.ok THEN Ok({[pan_id |-> a.pan_id, address |-> q.value]}, q.rest) ELSE q
  BY <1>2, <1>3 DEF UnpackAddress, Then
<1> HIDE DEF p, q, r
<1>6. CASE q = Err("NotEnoughData") /\ k > 0
  <2>1. r = q
    BY <1>5, <1>6, Outcomes
  <2> QED BY <1>6, <2>1 DEF Reads, r
<1>7. ASSUME NEW rest, q = Ok(a.address, rest), Lost(rest, back, k)
      PROVE  Reads(r, {a}, back, k)
  <2>1. q.ok = TRUE /\ q.value = a.address /\ q.rest = rest
    BY <1>7, Outcomes
  <2>2. r = Ok({a}, rest)
    BY <1>1, <1>5, <2>1
  <2> QED BY <1>7, <2>2 DEF Reads
<1> QED BY <1>4, <1>6, <1>7 DEF Reads, r

LEMMA NoAddressRead ==
  ASSUME NEW previous, NEW back \in Bytes, NEW k, NEW data, Lost(data, back, k)
  PROVE  Reads(UnpackAddress(0, previous, data), {}, back, k)
  BY DEF Reads, UnpackAddress

LEMMA CompressedRead ==
  ASSUME NEW a \in FullAddresses, NEW back \in Bytes, NEW k, NEW data,
         LostOf(data, PackAddress(a.address), back, k)
  PROVE  Reads(UnpackAddress(a.address.mode, {a.pan_id}, data), {a}, back, k)
<1>1. {a.pan_id} # {} /\ (CHOOSE pan \in {a.pan_id} : TRUE) = a.pan_id
  OBVIOUS
<1>2. (IF {a.pan_id} # {} THEN Ok(CHOOSE pan \in {a.pan_id} : TRUE, data)
       ELSE UnpackU16(data)) = Ok(a.pan_id, data)
  BY <1>1
<1> QED BY <1>2, AfterPan

LEMMA FullRead ==
  ASSUME NEW a \in FullAddresses, NEW back \in Bytes, NEW k, NEW data,
         LostOf(data, PackFullAddress(a), back, k)
  PROVE  Reads(UnpackAddress(a.address.mode, {}, data), {a}, back, k)
<1> DEFINE later == PackAddress(a.address) \o back
           p == UnpackU16(data)
           r == UnpackAddress(a.address.mode, {}, data)
<1>1. a.pan_id \in U16 /\ a.address \in Addresses
  BY Constants DEF FullAddresses
<1>2. PackU16(a.pan_id) \in Bytes /\ PackAddress(a.address) \in Bytes
  BY <1>1, PackedU16, PackedAddress
<1>3. later \in Bytes /\ PackFullAddress(a) \o back = PackU16(a.pan_id) \o later
  BY <1>2, Regroup DEF PackFullAddress
<1>4. LostOf(data, PackU16(a.pan_id), later, k)
  BY <1>3 DEF LostOf
<1>5. Reads(p, a.pan_id, later, k)
  BY <1>1, <1>3, <1>4, U16Read
<1>6. (IF {} # {} THEN Ok(CHOOSE pan \in {} : TRUE, data) ELSE UnpackU16(data)) = p
  OBVIOUS
<1>7. CASE p = Err("NotEnoughData") /\ k > 0
  <2>1. a.address.mode # 0
    BY <1>1, AddressKinds
  <2>2. p.ok = FALSE
    BY <1>7, Outcomes
  <2>3. r = p
    BY <1>6, <2>1, <2>2 DEF UnpackAddress, Then
  <2> QED BY <1>7, <2>3 DEF Reads
<1>8. ASSUME NEW first, p = Ok(a.pan_id, first), Lost(first, later, k)
      PROVE  Reads(r, {a}, back, k)
  <2>1. LostOf(first, PackAddress(a.address), back, k)
    BY <1>8 DEF LostOf
  <2> QED BY <1>6, <1>8, <2>1, AfterPan
<1> QED BY <1>5, <1>7, <1>8 DEF Reads

\* Whether an address is there, and with its PAN, or not, it is read as written.
PackedOption(option, compression) ==
  PackOption({IF compression THEN PackAddress(a.address) ELSE PackFullAddress(a) : a \in option})
KnownPan(option, compression) == IF compression THEN PanOf(option) ELSE {}

LEMMA PackedOptionBytes ==
  ASSUME NEW option \in Options(FullAddresses), NEW compression \in BOOLEAN
  PROVE  PackedOption(option, compression) \in Bytes
<1>1. CASE option = {}
  <2>1. PackedOption(option, compression) = PackOption({})
    BY <1>1 DEF PackedOption
  <2> QED BY <2>1, OptionParts, EmptySeq DEF Bytes
<1>2. ASSUME NEW a \in FullAddresses, option = {a}
      PROVE  PackedOption(option, compression) \in Bytes
  <2>1. PackedOption(option, compression)
          = IF compression THEN PackAddress(a.address) ELSE PackFullAddress(a)
    BY <1>2, OptionParts DEF PackedOption
  <2>2. a.pan_id \in U16 /\ a.address \in Addresses
    BY Constants DEF FullAddresses
  <2>3. PackU16(a.pan_id) \in Bytes /\ PackAddress(a.address) \in Bytes
    BY <2>2, PackedU16, PackedAddress
  <2>4. PackFullAddress(a) \in Bytes
    BY <2>3, Regroup DEF PackFullAddress
  <2> QED BY <2>1, <2>3, <2>4
<1> QED BY <1>1, <1>2 DEF Options

\* The address in either form, with the PAN of the destination if it is compressed.
LEMMA AddressRead ==
  ASSUME NEW option \in Options(FullAddresses), NEW compression \in BOOLEAN,
         NEW back \in Bytes, NEW k, NEW data,
         LostOf(data, PackedOption(option, compression), back, k)
  PROVE  Reads(UnpackAddress(ModeOf(option), KnownPan(option, compression), data),
               option, back, k)
<1>1. CASE option = {}
  <2>1. PackedOption(option, compression) = PackOption({})
    BY <1>1 DEF PackedOption
  <2>2. PackedOption(option, compression) = <<>> /\ ModeOf(option) = 0
    BY <1>1, <2>1, OptionParts
  <2>3. <<>> \o back = back
    BY ConcatEmptySeq DEF Bytes
  <2>4. Lost(data, back, k)
    BY <2>2, <2>3 DEF LostOf
  <2> QED BY <1>1, <2>2, <2>4, NoAddressRead
<1>2. ASSUME NEW a \in FullAddresses, option = {a}, compression
      PROVE  Reads(UnpackAddress(ModeOf(option), KnownPan(option, compression), data),
                   option, back, k)
  <2>1. PackedOption(option, compression) = PackAddress(a.address)
    BY <1>2, OptionParts DEF PackedOption
  <2>2. ModeOf(option) = a.address.mode /\ KnownPan(option, compression) = {a.pan_id}
    BY <1>2, OptionParts DEF KnownPan
  <2> QED BY <1>2, <2>1, <2>2, CompressedRead
<1>3. ASSUME NEW a \in FullAddresses, option = {a}, ~compression
      PROVE  Reads(UnpackAddress(ModeOf(option), KnownPan(option, compression), data),
                   option, back, k)
  <2>1. PackedOption(option, compression) = PackFullAddress(a)
    BY <1>3, OptionParts DEF PackedOption
  <2>2. ModeOf(option) = a.address.mode /\ KnownPan(option, compression) = {}
    BY <1>3, OptionParts DEF KnownPan
  <2> QED BY <1>3, <2>1, <2>2, FullRead
<1> QED BY <1>1, <1>2, <1>3 DEF Options

-----------------------------------------------------------------------------
(* Bit fields: no field of them runs over into its neighbour.               *)
Bits1 == 0 .. 1
Bits2 == 0 .. 3
Bits3 == 0 .. 7
Bits4 == 0 .. 15

\* A flag is one bit.
LEMMA BitValue ==
  ASSUME NEW b \in BOOLEAN
  PROVE  Bit(b) \in Bits1 /\ (Bit(b) # 0) = b
<1>0. Bit(b) \in Bits1
  BY DEF Bit, Bits1
<1>1. CASE b
  <2>1. Bit(b) = 1 /\ b = TRUE
    BY <1>1 DEF Bit
  <2>2. (Bit(b) # 0) = TRUE
    BY <2>1
  <2> QED BY <1>0, <2>1, <2>2, Zenon
<1>2. CASE ~b
  <2>1. Bit(b) = 0 /\ b = FALSE
    BY <1>2 DEF Bit
  <2>2. (Bit(b) # 0) = FALSE
    BY <2>1
  <2> QED BY <1>0, <2>1, <2>2, Zenon
<1> QED BY <1>1, <1>2

LEMMA SixteenBits ==
  ASSUME NEW v \in Int, 0 <= v, v <= 2^16 - 1
  PROVE  v \in U16
  BY DEF U16

ControlSum(tag, b4, b5, b6, b7, b8, f10, b12, f14) ==
  tag + b4 * 16 + b5 * 32 + b6 * 64 + b7 * 128 + b8 * 256 + f10 * 1024 + b12 * 4096
    + f14 * 16384
SuperframeSum(f0, f4, f8, b12, b14, b15) ==
  f0 + f4 * 16 + f8 * 256 + b12 * 4096 + b14 * 16384 + b15 * 32768
CapabilitySum(b1, b2, b3, b4, b6, b7) ==
  b1 * 2 + b2 * 4 + b3 * 8 + b4 * 16 + b6 * 64 + b7 * 128

StatusSum(error, b7) == error + b7 * 128

ControlFields(v, tag, b4, b5, b6, b8, f10, f14) ==
  /\ v \in U16
  /\ Field(v, 2, 0) = tag /\ Field(v, 3, 3) = 0 /\ Field(v, 4, 4) = b4
  /\ Field(v, 5, 5) = b5 /\ Field(v, 6, 6) = b6 /\ Field(v, 8, 8) = b8
  /\ Field(v, 9, 9) = 0 /\ Field(v, 11, 10) = f10 /\ Field(v, 15, 14) = f14

\* The fields of the frame control, which is a sum of shifted fields.
LEMMA ControlBits ==
  ASSUME NEW tag \in Bits3, NEW b4 \in Bits1, NEW b5 \in Bits1, NEW b6 \in Bits1,
         NEW b7 \in Bits1, NEW b8 \in Bits1, NEW f10 \in Bits2, NEW b12 \in Bits1,
         NEW f14 \in Bits2
  PROVE  ControlFields(ControlSum(tag, b4, b5, b6, b7, b8, f10, b12, f14),
                       tag, b4, b5, b6, b8, f10, f14)
<1> DEFINE v == ControlSum(tag, b4, b5, b6, b7, b8, f10, b12, f14)
<1> USE DEF ControlSum, Bits1, Bits2, Bits3
<1>1. v \in U16
  <2>1. v \in Int /\ 0 <= v /\ v <= 2^16 - 1
    OBVIOUS
  <2> QED BY <2>1, SixteenBits
<1>2. Field(v, 2, 0) = tag
  BY DEF Field
<1>3. Field(v, 3, 3) = 0
  BY DEF Field
<1>4. Field(v, 4, 4) = b4
  BY DEF Field
<1>5. Field(v, 5, 5) = b5
  BY DEF Field
<1>6. Field(v, 6, 6) = b6
  BY DEF Field
<1>7. Field(v, 8, 8) = b8
  BY DEF Field
<1>8. Field(v, 9, 9) = 0
  BY DEF Field
<1>9. Field(v, 11, 10) = f10
  BY DEF Field
<1>10. Field(v, 15, 14) = f14
  BY DEF Field
<1> HIDE DEF ControlSum, v
<1> QED BY <1>1, <1>2, <1>3, <1>4, <1>5, <1>6, <1>7, <1>8, <1>9, <1>10 DEF ControlFields, v

LEMMA SuperframeBits ==
  ASSUME NEW f0 \in Bits4, NEW f4 \in Bits4, NEW f8 \in Bits4, NEW b12 \in Bits1,
         NEW b14 \in Bits1, NEW b15 \in Bits1, NEW v,
         v = SuperframeSum(f0, f4, f8, b12, b14, b15)
  PROVE  /\ v \in U16
         /\ Field(v, 3, 0) = f0 /\ Field(v, 7, 4) = f4 /\ Field(v, 11, 8) = f8
         /\ Field(v, 12, 12) = b12 /\ Field(v, 14, 14) = b14 /\ Field(v, 15, 15) = b15
<1> USE DEF SuperframeSum, Bits1, Bits4
<1>1. v \in U16
  <2>1. v \in Int /\ 0 <= v /\ v <= 2^16 - 1
    OBVIOUS
  <2> QED BY <2>1, SixteenBits
<1>2. Field(v, 3, 0) = f0
  BY DEF Field
<1>3. Field(v, 7, 4) = f4
  BY DEF Field
<1>4. Field(v, 11, 8) = f8
  BY DEF Field
<1>5. Field(v, 12, 12) = b12
  BY DEF Field
<1>6. Field(v, 14, 14) = b14
  BY DEF Field
<1>7. Field(v, 15, 15) = b15
  BY DEF Field
<1> QED BY <1>1, <1>2, <1>3, <1>4, <1>5, <1>6, <1>7

LEMMA CapabilityBits ==
  ASSUME NEW b1 \in Bits1, NEW b2 \in Bits1, NEW b3 \in Bits1, NEW b4 \in Bits1,
         NEW b6 \in Bits1, NEW b7 \in Bits1, NEW v,
         v = CapabilitySum(b1, b2, b3, b4, b6, b7)
  PROVE  /\ v \in Byte
         /\ Field(v, 1, 1) = b1 /\ Field(v, 2, 2) = b2 /\ Field(v, 3, 3) = b3
         /\ Field(v, 4, 4) = b4 /\ Field(v, 6, 6) = b6 /\ Field(v, 7, 7) = b7
<1> USE DEF CapabilitySum, Bits1
<1>1. v \in Byte
  BY DEF Byte
<1>2. Field(v, 1, 1) = b1
  BY DEF Field
<1>3. Field(v, 2, 2) = b2
  BY DEF Field
<1>4. Field(v, 3, 3) = b3
  BY DEF Field
<1>5. Field(v, 4, 4) = b4
  BY DEF Field
<1>6. Field(v, 6, 6) = b6
  BY DEF Field
<1>7. Field(v, 7, 7) = b7
  BY DEF Field
<1> QED BY <1>1, <1>2, <1>3, <1>4, <1>5, <1>6, <1>7

LEMMA StatusBits ==
  ASSUME NEW error \in Bits2, NEW b7 \in Bits1, NEW v,
         v = StatusSum(error, b7)
  PROVE  v \in Byte /\ ErrorOf(v) = error /\ Field(v, 7, 7) = b7
<1> USE DEF StatusSum, Bits1, Bits2
<1>1. v \in Byte
  BY DEF Byte
<1>2. ErrorOf(v) = error
  BY DEF ErrorOf
<1>3. Field(v, 7, 7) = b7
  BY DEF Field
<1> QED BY <1>1, <1>2, <1>3

-----------------------------------------------------------------------------
(* The sequence number.                                                     *)
PackedNumber(number) == PackOption({<<n>> : n \in number})
UnpackedNumber(none, data) ==
  IF none THEN Ok({}, data) ELSE Then(UnpackU8(data), LAMBDA n, rest : Ok({n}, rest))

LEMMA PackedNumberBytes ==
  ASSUME NEW number \in SequenceNumbers
  PROVE  PackedNumber(number) \in Bytes
<1>1. CASE number = {}
  <2>1. PackedNumber(number) = PackOption({})
    BY <1>1 DEF PackedNumber
  <2> QED BY <2>1, OptionParts, EmptySeq DEF Bytes
<1>2. ASSUME NEW n \in Byte, number = {n}
      PROVE  PackedNumber(number) \in Bytes
  <2>1. PackedNumber(number) = <<n>>
    BY <1>2, OptionParts DEF PackedNumber
  <2> QED BY <2>1 DEF Bytes
<1> QED BY <1>1, <1>2, FrameCodecAssumption

LEMMA NumberRead ==
  ASSUME NEW number \in SequenceNumbers, NEW back \in Bytes, NEW k, NEW data,
         LostOf(data, PackedNumber(number), back, k)
  PROVE  Reads(UnpackedNumber(number = {}, data), number, back, k)
<1>1. CASE number = {}
  <2>1. PackedNumber(number) = PackOption({})
    BY <1>1 DEF PackedNumber
  <2>2. PackedNumber(number) = <<>> /\ <<>> \o back = back
    BY <2>1, OptionParts, ConcatEmptySeq DEF Bytes
  <2>3. Lost(data, back, k)
    BY <2>2 DEF LostOf
  <2>4. UnpackedNumber(number = {}, data) = Ok(number, data)
    BY <1>1 DEF UnpackedNumber
  <2> QED BY <2>3, <2>4 DEF Reads
<1>2. ASSUME NEW n \in Byte, number = {n}
      PROVE  Reads(UnpackedNumber(number = {}, data), number, back, k)
  <2> DEFINE p == UnpackU8(data)
             r == UnpackedNumber(number = {}, data)
  <2>1. PackedNumber(number) = <<n>>
    BY <1>2, OptionParts DEF PackedNumber
  <2>2. Reads(p, n, back, k)
    BY <2>1, U8Read
  <2>3. number # {}
    BY <1>2
  <2>4. r = IF p.ok THEN Ok({p.value}, p.rest) ELSE p
    BY <2>3 DEF UnpackedNumber, Then
  <2> HIDE DEF p, r
  <2>5. CASE p = Err("NotEnoughData") /\ k > 0
    <3>1. r = p
      BY <2>4, <2>5, Outcomes
    <3> QED BY <2>5, <3>1 DEF Reads, r
  <2>6. ASSUME NEW rest, p = Ok(n, rest), Lost(rest, back, k)
        PROVE  Reads(r, number, back, k)
    <3>1. p.ok = TRUE /\ p.value = n /\ p.rest = rest
      BY <2>6, Outcomes
    <3>2. r = Ok(number, rest)
      BY <1>2, <2>4, <3>1
    <3> QED BY <2>6, <3>2 DEF Reads
  <2> QED BY <2>2, <2>5, <2>6 DEF Reads, r
<1> QED BY <1>1, <1>2, FrameCodecAssumption

-----------------------------------------------------------------------------
(* What frames contain.                                                     *)

\* A parser returned the type with what is left of its payload when the last k
\* bytes are missing, or ran into the end of the data.
TypeReads(parsed, t, k) ==
  \/ parsed = Err("NotEnoughData") /\ k > 0
  \/ \E payload : /\ parsed = Ok(WithPayload(t, payload), <<>>)
                  /\ Lost(payload, PayloadOf(t), k)

LEMMA NoBytes ==
  /\ <<>> \in Bytes
  /\ \A bytes \in Bytes : bytes \o <<>> = bytes
  /\ \A rest, k : Lost(rest, <<>>, k) => rest = <<>> /\ k = 0
  /\ Lost(<<>>, <<>>, 0)
<1>1. <<>> \in Bytes /\ \A bytes \in Bytes : bytes \o <<>> = bytes
  BY EmptySeq, ConcatEmptySeq DEF Bytes
<1>2. ASSUME NEW rest, NEW k, Lost(rest, <<>>, k) PROVE rest = <<>> /\ k = 0
  <2>1. rest \in Bytes /\ k \in Nat /\ 0 = Len(rest) + k /\ Len(rest) \in Nat
    BY <1>2, EmptySeq, LenProperties DEF Lost, Bytes
  <2>2. k = 0 /\ Len(rest) = 0
    BY <2>1
  <2> QED BY <2>1, <2>2, EmptySeq DEF Bytes
<1>3. Lost(<<>>, <<>>, 0)
  BY <1>1 DEF Lost
<1> QED BY <1>1, <1>2, <1>3

LEMMA PayloadTypeRead ==
  ASSUME NEW t \in [tag : PayloadTags, content : Payloads], NEW k, NEW data,
         Lost(data, t.content, k)
  PROVE  TypeReads(UnpackFrameType(t.tag, data), t, k)
<1>1. t.tag \in 0 .. 7 /\ t.tag # 0 /\ t.tag # 3 /\ t.tag \in PayloadTags
      /\ t = [tag |-> t.tag, content |-> t.content]
  BY DEF PayloadTags
<1>2. PayloadOf(t) = t.content
  BY <1>1 DEF PayloadOf
<1>3. WithPayload(t, data) = [tag |-> t.tag, content |-> data]
  BY <1>1 DEF WithPayload
<1>4. UnpackTagged(t.tag, 0 .. 7, data) = Ok(t.tag, data)
  BY <1>1 DEF UnpackTagged
<1>5. UnpackFrameType(t.tag, data) = Ok([tag |-> t.tag, content |-> data], <<>>)
  <2> DEFINE p == UnpackTagged(t.tag, 0 .. 7, data)
  <2>1. p.ok = TRUE /\ p.value = t.tag /\ p.rest = data
    BY <1>4, Outcomes
  <2> HIDE DEF p
  <2> QED BY <1>1, <2>1 DEF UnpackFrameType, Then, p
<1> QED BY <1>2, <1>3, <1>5 DEF TypeReads

\* The orders and the slot of a beacon that may be packed have four bits.
OrdersFit(b) == b.beacon_order <= 15 /\ b.superframe_order <= 15 /\ b.final_cap_slot <= 15

LEMMA BeaconValues ==
  ASSUME NEW t \in [tag : {0}, content : Beacons], OrdersFit(t.content)
  PROVE  LET b  == t.content
             ss == SuperframeSpecification(b)
         IN  /\ t.tag = 0 /\ t = [tag |-> 0, content |-> b] /\ b.payload \in Bytes
             /\ b = [beacon_order |-> b.beacon_order, superframe_order |-> b.superframe_order,
                     final_cap_slot |-> b.final_cap_slot,
                     battery_life_extension |-> b.battery_life_extension,
                     pan_coordinator |-> b.pan_coordinator,
                     association_permit |-> b.association_permit, payload |-> b.payload]
             /\ ss \in U16 /\ Field(ss, 3, 0) = b.beacon_order
             /\ Field(ss, 7, 4) = b.superframe_order /\ Field(ss, 11, 8) = b.final_cap_slot
             /\ IsSet(ss, 12) = b.battery_life_extension /\ IsSet(ss, 14) = b.pan_coordinator
             /\ IsSet(ss, 15) = b.association_permit
<1> DEFINE b == t.content
           ss == SuperframeSpecification(b)
<1>1. /\ t.tag = 0 /\ t = [tag |-> 0, content |-> b] /\ b \in Beacons
      /\ b.payload \in Bytes /\ b.superframe_order \in Nat
      /\ b.beacon_order \in Nat /\ b.final_cap_slot \in Nat
      /\ b.battery_life_extension \in BOOLEAN /\ b.pan_coordinator \in BOOLEAN
      /\ b.association_permit \in BOOLEAN
      /\ b = [beacon_order |-> b.beacon_order, superframe_order |-> b.superframe_order,
              final_cap_slot |-> b.final_cap_slot,
              battery_life_extension |-> b.battery_life_extension,
              pan_coordinator |-> b.pan_coordinator,
              association_permit |-> b.association_permit, payload |-> b.payload]
  BY Constants, FrameCodecAssumption DEF Beacons
<1>2. /\ ss \in U16 /\ Field(ss, 3, 0) = b.beacon_order
      /\ Field(ss, 7, 4) = b.superframe_order /\ Field(ss, 11, 8) = b.final_cap_slot
      /\ IsSet(ss, 12) = b.battery_life_extension /\ IsSet(ss, 14) = b.pan_coordinator
      /\ IsSet(ss, 15) = b.association_permit
  <2> DEFINE b12 == Bit(b.battery_life_extension)
             b14 == Bit(b.pan_coordinator)
             b15 == Bit(b.association_permit)
  <2>1. /\ b12 \in Bits1 /\ (b12 # 0) = b.battery_life_extension
        /\ b14 \in Bits1 /\ (b14 # 0) = b.pan_coordinator
        /\ b15 \in Bits1 /\ (b15 # 0) = b.association_permit
    BY <1>1, BitValue
  <2>2. b.beacon_order \in Bits4 /\ b.superframe_order \in Bits4 /\ b.final_cap_slot \in Bits4
    BY <1>1 DEF Bits4, OrdersFit
  <2>3. b12 \in Bits1 /\ b14 \in Bits1 /\ b15 \in Bits1
    BY <2>1
  <2>4. ss = SuperframeSum(b.beacon_order, b.superframe_order, b.final_cap_slot, b12, b14, b15)
    BY DEF SuperframeSpecification, SuperframeSum
  <2> HIDE DEF b, ss, b12, b14, b15
  <2>5. /\ ss \in U16
        /\ Field(ss, 3, 0) = b.beacon_order /\ Field(ss, 7, 4) = b.superframe_order
        /\ Field(ss, 11, 8) = b.final_cap_slot
        /\ Field(ss, 12, 12) = b12 /\ Field(ss, 14, 14) = b14 /\ Field(ss, 15, 15) = b15
    BY <2>2, <2>3, <2>4, SuperframeBits
  <2> QED BY <2>1, <2>5, Zenon DEF IsSet
<1> HIDE DEF ss
<1> QED BY <1>1, <1>2 DEF ss

\* The parser of a beacon.
LEMMA BeaconRead ==
  ASSUME NEW t \in [tag : {0}, content : Beacons], OrdersFit(t.content),
         NEW k, NEW data, Lost(data, PackContent(t), k)
  PROVE  TypeReads(UnpackFrameType(t.tag, data), t, k)
<1> DEFINE b == t.content
           ss == SuperframeSpecification(b)
           later == <<0, 0>> \o b.payload
           p == UnpackU16(data)
           u == UnpackBeacon(data)
           r == UnpackFrameType(t.tag, data)
           Read(payload) ==
             [beacon_order |-> Field(ss, 3, 0), superframe_order |-> Field(ss, 7, 4),
              final_cap_slot |-> Field(ss, 11, 8),
              battery_life_extension |-> IsSet(ss, 12), pan_coordinator |-> IsSet(ss, 14),
              association_permit |-> IsSet(ss, 15), payload |-> payload]
<1>1. /\ t.tag = 0 /\ t = [tag |-> 0, content |-> b] /\ b.payload \in Bytes
      /\ b = [beacon_order |-> b.beacon_order, superframe_order |-> b.superframe_order,
              final_cap_slot |-> b.final_cap_slot,
              battery_life_extension |-> b.battery_life_extension,
              pan_coordinator |-> b.pan_coordinator,
              association_permit |-> b.association_permit, payload |-> b.payload]
  BY BeaconValues
<1>0. t.tag = 0 /\ t.tag \notin PayloadTags /\ t.tag # 3
  BY <1>1 DEF PayloadTags
<1>2. /\ ss \in U16 /\ Field(ss, 3, 0) = b.beacon_order
      /\ Field(ss, 7, 4) = b.superframe_order /\ Field(ss, 11, 8) = b.final_cap_slot
      /\ IsSet(ss, 12) = b.battery_life_extension /\ IsSet(ss, 14) = b.pan_coordinator
      /\ IsSet(ss, 15) = b.association_permit
  BY BeaconValues
<1>3. \A payload : Ok([tag |-> 0, content |-> Read(payload)], <<>>) = Ok(WithPayload(t, payload), <<>>)
  <2> SUFFICES ASSUME NEW payload
               PROVE  [tag |-> 0, content |-> Read(payload)] = WithPayload(t, payload)
    BY Zenon
  <2>1. Read(payload) = [b EXCEPT !.payload = payload]
    BY <1>1, <1>2
  <2>2. WithPayload(t, payload) = [tag |-> 0, content |-> [b EXCEPT !.payload = payload]]
    <3> HIDE DEF b
    <3>1. [t EXCEPT !.content.payload = payload]
            = [tag |-> 0, content |-> [t.content EXCEPT !.payload = payload]]
      BY <1>1
    <3> QED BY <1>0, <3>1 DEF WithPayload, b
  <2> QED BY <2>1, <2>2
<1>4. PayloadOf(t) = b.payload
  BY <1>0 DEF PayloadOf
<1>5. /\ <<0, 0>> \in Bytes /\ Len(<<0, 0>>) = 2 /\ PackU16(ss) \in Bytes /\ later \in Bytes
      /\ PackContent(t) = PackU16(ss) \o later
  <2>1. <<0, 0>> \in Bytes /\ Len(<<0, 0>>) = 2
    BY DEF Bytes, Byte
  <2>2. PackU16(ss) \in Bytes
    BY <1>2, PackedU16
  <2>3. PackContent(t) = (PackU16(ss) \o <<0, 0>>) \o b.payload
    BY <1>0 DEF PackContent
  <2> HIDE DEF b, ss
  <2> QED BY <1>1, <2>1, <2>2, <2>3, Regroup
<1>6. LostOf(data, PackU16(ss), later, k)
  BY <1>5 DEF LostOf
<1>7. r = IF u.ok THEN Ok([tag |-> 0, content |-> u.value], u.rest) ELSE u
  <2> DEFINE q == UnpackTagged(t.tag, 0 .. 7, data)
  <2>1. q = Ok(0, data)
    BY <1>1 DEF UnpackTagged
  <2>2. q.ok = TRUE /\ q.value = 0 /\ q.rest = data
    BY <2>1, Outcomes
  <2> HIDE DEF q, u
  <2> QED BY <2>2 DEF UnpackFrameType, Then, q, u
<1> HIDE DEF b, ss, later, p, u, r
<1>8. Reads(p, ss, later, k)
  BY <1>2, <1>5, <1>6, U16Read DEF p
<1>9. CASE p = Err("NotEnoughData") /\ k > 0
  <2>1. p.ok = FALSE
    BY <1>9, Outcomes
  <2>2. u = p
    BY <2>1 DEF u, UnpackBeacon, Then, p
  <2>3. r = Err("NotEnoughData")
    BY <1>7, <1>9, <2>1, <2>2
  <2> QED BY <1>9, <2>3 DEF TypeReads, r
<1>10. ASSUME NEW r1, p = Ok(ss, r1), Lost(r1, later, k)
       PROVE  TypeReads(r, t, k)
  <2> DEFINE q == UnpackBytes(2, r1)
  <2>1. p.ok = TRUE /\ p.value = ss /\ p.rest = r1
    BY <1>10, Outcomes
  <2>2. LostOf(r1, <<0, 0>>, b.payload, k)
    BY <1>10 DEF LostOf, later
  <2>3. Reads(UnpackBytes(Len(<<0, 0>>), r1), <<0, 0>>, b.payload, k)
    BY <1>1, <1>5, <2>2, BytesRead
  <2>4. Reads(q, <<0, 0>>, b.payload, k)
    BY <1>5, <2>3
  <2>5. u = IF q.ok THEN (IF q.value # <<0, 0>> THEN Err("Unimplemented")
                          ELSE Ok(Read(q.rest), <<>>)) ELSE q
    BY <2>1 DEF u, UnpackBeacon, Then, p
  <2> HIDE DEF q, Read
  <2>6. CASE q = Err("NotEnoughData") /\ k > 0
    <3>1. q.ok = FALSE
      BY <2>6, Outcomes
    <3>2. r = Err("NotEnoughData")
      BY <1>7, <2>5, <2>6, <3>1
    <3> QED BY <2>6, <3>2 DEF TypeReads
  <2>7. ASSUME NEW payload, q = Ok(<<0, 0>>, payload), Lost(payload, b.payload, k)
        PROVE  TypeReads(r, t, k)
    <3>1. q.ok = TRUE /\ q.value = <<0, 0>> /\ q.rest = payload
      BY <2>7, Outcomes
    <3>2. u = Ok(Read(payload), <<>>)
      BY <2>5, <3>1
    <3>3. u.ok = TRUE /\ u.value = Read(payload) /\ u.rest = <<>>
      BY <3>2, Outcomes
    <3>4. r = Ok([tag |-> 0, content |-> Read(payload)], <<>>)
      BY <1>7, <3>3
    <3> QED BY <1>3, <1>4, <2>7, <3>4 DEF TypeReads
  <2> QED BY <2>4, <2>6, <2>7 DEF Reads
<1> QED BY <1>8, <1>9, <1>10 DEF Reads, r

-----------------------------------------------------------------------------
(* Commands.                                                                *)
LEMMA CapabilityParts ==
  ASSUME NEW c \in Capabilities
  PROVE  /\ c.device_type \in Bits1 /\ c.power_source \in Bits1
         /\ c.receiver_on_when_idle \in BOOLEAN /\ c.fast_association \in BOOLEAN
         /\ c.security_capable \in BOOLEAN /\ c.allocate_address \in BOOLEAN
         /\ c = [device_type |-> c.device_type, power_source |-> c.power_source,
                 receiver_on_when_idle |-> c.receiver_on_when_idle,
                 fast_association |-> c.fast_association,
                 security_capable |-> c.security_capable,
                 allocate_address |-> c.allocate_address]
  BY DEF Capabilities, Bits1

LEMMA CapabilityByteRead ==
  ASSUME NEW c \in Capabilities
  PROVE  /\ CapabilityByte(c) \in Byte
         /\ [device_type |-> Field(CapabilityByte(c), 1, 1),
             power_source |-> Field(CapabilityByte(c), 2, 2),
             receiver_on_when_idle |-> IsSet(CapabilityByte(c), 3),
             fast_association |-> IsSet(CapabilityByte(c), 4),
             security_capable |-> IsSet(CapabilityByte(c), 6),
             allocate_address |-> IsSet(CapabilityByte(c), 7)] = c
<1> DEFINE v == CapabilityByte(c)
           b1 == c.device_type
           b2 == c.power_source
           b3 == Bit(c.receiver_on_when_idle)
           b4 == Bit(c.fast_association)
           b6 == Bit(c.security_capable)
           b7 == Bit(c.allocate_address)
<1>1. /\ (b3 # 0) = c.receiver_on_when_idle /\ (b4 # 0) = c.fast_association
      /\ (b6 # 0) = c.security_capable /\ (b7 # 0) = c.allocate_address
  BY CapabilityParts, BitValue
<1>2. b3 \in Bits1 /\ b4 \in Bits1 /\ b6 \in Bits1 /\ b7 \in Bits1
  BY CapabilityParts, BitValue
<1>3. b1 \in Bits1 /\ b2 \in Bits1
  BY CapabilityParts
<1>4. v = CapabilitySum(b1, b2, b3, b4, b6, b7)
  BY DEF CapabilityByte, CapabilitySum
<1> HIDE DEF v, b1, b2, b3, b4, b6, b7
<1>5. /\ v \in Byte
      /\ Field(v, 1, 1) = b1 /\ Field(v, 2, 2) = b2 /\ Field(v, 3, 3) = b3
      /\ Field(v, 4, 4) = b4 /\ Field(v, 6, 6) = b6 /\ Field(v, 7, 7) = b7
  BY <1>2, <1>3, <1>4, CapabilityBits
<1>6. /\ IsSet(v, 3) = c.receiver_on_when_idle /\ IsSet(v, 4) = c.fast_association
      /\ IsSet(v, 6) = c.security_capable /\ IsSet(v, 7) = c.allocate_address
  BY <1>1, <1>5, Zenon DEF IsSet
<1>7. [device_type |-> Field(v, 1, 1), power_source |-> Field(v, 2, 2),
       receiver_on_when_idle |-> IsSet(v, 3), fast_association |-> IsSet(v, 4),
       security_capable |-> IsSet(v, 6), allocate_address |-> IsSet(v, 7)] = c
  BY <1>5, <1>6, CapabilityParts DEF b1, b2
<1> QED BY <1>5, <1>7 DEF v

\* The parser of an association request.
LEMMA CapabilitiesRead ==
  ASSUME NEW c \in Capabilities, NEW k, NEW data, Lost(data, <<CapabilityByte(c)>>, k)
  PROVE  Reads(UnpackCapabilities(data), c, <<>>, k)
<1> DEFINE v == CapabilityByte(c)
           p == UnpackU8(data)
           r == UnpackCapabilities(data)
<1>1. v \in Byte
  BY CapabilityByteRead
<1>2. <<v>> \in Bytes
  BY <1>1 DEF Bytes
<1>3. LostOf(data, <<v>>, <<>>, k)
  BY <1>2, NoBytes DEF LostOf
<1>4. Reads(p, v, <<>>, k)
  BY <1>1, <1>3, NoBytes, U8Read
<1> HIDE DEF v, p, r
<1>5. CASE p = Err("NotEnoughData") /\ k > 0
  <2>1. p.ok = FALSE
    BY <1>5, Outcomes
  <2>2. r = p
    BY <2>1 DEF r, p, UnpackCapabilities, Then
  <2> QED BY <1>5, <2>2 DEF Reads, r
<1>6. ASSUME NEW rest, p = Ok(v, rest), Lost(rest, <<>>, k)
      PROVE  Reads(r, c, <<>>, k)
  <2>1. p.ok = TRUE /\ p.value = v /\ p.rest = rest
    BY <1>6, Outcomes
  <2>2. r = Ok([device_type |-> Field(v, 1, 1), power_source |-> Field(v, 2, 2),
                receiver_on_when_idle |-> IsSet(v, 3), fast_association |-> IsSet(v, 4),
                security_capable |-> IsSet(v, 6), allocate_address |-> IsSet(v, 7)], rest)
    BY <2>1 DEF r, p, UnpackCapabilities, Then
  <2>3. r = Ok(c, rest)
    BY <2>2, CapabilityByteRead DEF v
  <2> QED BY <1>6, <2>3 DEF Reads
<1> QED BY <1>4, <1>5, <1>6 DEF Reads, r

ResponseStatus(r) ==
  StatusSum(IF r.status.ok THEN 0 ELSE r.status.value, Bit(r.fast_association))
ResponseAddress(r) == IF r.status.ok THEN r.status.value ELSE InvalidAddress

LEMMA ResponseParts ==
  ASSUME NEW r \in Responses
  PROVE  /\ r.fast_association \in BOOLEAN
         /\ r = [fast_association |-> r.fast_association, status |-> r.status]
         /\ \/ /\ r.status.ok /\ r.status.value \in U16
               /\ r.status = [ok |-> TRUE, value |-> r.status.value]
            \/ /\ ~r.status.ok /\ r.status.value \in AssociationErrors
               /\ r.status = [ok |-> FALSE, value |-> r.status.value]
<1>1. /\ r.fast_association \in BOOLEAN
      /\ r = [fast_association |-> r.fast_association, status |-> r.status]
      /\ \/ r.status \in [ok : {TRUE}, value : Shorts]
         \/ r.status \in [ok : {FALSE}, value : AssociationErrors]
  BY DEF Responses
<1>2. CASE r.status \in [ok : {TRUE}, value : Shorts]
  <2>1. /\ r.status.ok /\ r.status.value \in U16
        /\ r.status = [ok |-> TRUE, value |-> r.status.value]
    BY <1>2, Constants
  <2> QED BY <1>1, <2>1
<1>3. CASE r.status \in [ok : {FALSE}, value : AssociationErrors]
  <2>1. /\ ~r.status.ok /\ r.status.value \in AssociationErrors
        /\ r.status = [ok |-> FALSE, value |-> r.status.value]
    BY <1>3
  <2> QED BY <1>1, <2>1
<1> QED BY <1>1, <1>2, <1>3

LEMMA ResponseBytes ==
  ASSUME NEW r \in Responses
  PROVE  /\ ResponseAddress(r) \in U16 /\ ResponseStatus(r) \in Byte
         /\ PackU16(ResponseAddress(r)) \in Bytes /\ <<ResponseStatus(r)>> \in Bytes
         /\ PackResponse(r) = PackU16(ResponseAddress(r)) \o <<ResponseStatus(r)>>
         /\ PackResponse(r) \in Bytes
         /\ IsSet(ResponseStatus(r), 7) = r.fast_association
         /\ ErrorOf(ResponseStatus(r)) = IF r.status.ok THEN 0 ELSE r.status.value
<1> DEFINE e == IF r.status.ok THEN 0 ELSE r.status.value
           b7 == Bit(r.fast_association)
           v == ResponseStatus(r)
<1>1. b7 \in Bits1 /\ (b7 # 0) = r.fast_association
  BY ResponseParts, BitValue
<1>2. e \in Bits2
  <2>1. CASE r.status.ok
    BY <2>1 DEF Bits2
  <2>2. CASE ~r.status.ok /\ r.status.value \in AssociationErrors
    BY <2>2 DEF Bits2, AssociationErrors
  <2> QED BY <2>1, <2>2, ResponseParts
<1>3. v = StatusSum(e, b7)
  BY DEF ResponseStatus
<1> HIDE DEF e, b7, v
<1>4. b7 \in Bits1
  BY <1>1
<1>5. v \in Byte /\ ErrorOf(v) = e /\ Field(v, 7, 7) = b7
  BY <1>2, <1>3, <1>4, StatusBits
<1>6. IsSet(v, 7) = r.fast_association
  BY <1>1, <1>5, Zenon DEF IsSet
<1>7. ResponseAddress(r) \in U16
  <2>1. InvalidAddress \in U16
    <3>1. InvalidAddress \in Int /\ 0 <= InvalidAddress /\ InvalidAddress <= 2^16 - 1
      BY DEF InvalidAddress
    <3> QED BY <3>1, SixteenBits
  <2> QED BY <2>1, ResponseParts DEF ResponseAddress
<1>8. PackU16(ResponseAddress(r)) \in Bytes
  BY <1>7, PackedU16
<1>9. <<v>> \in Bytes
  BY <1>5 DEF Bytes
<1>10. PackResponse(r) = PackU16(ResponseAddress(r)) \o <<v>>
  BY DEF PackResponse, ResponseAddress, ResponseStatus, StatusSum, v
<1>11. PackResponse(r) \in Bytes
  BY <1>8, <1>9, <1>10, Regroup
<1> QED BY <1>5, <1>6, <1>7, <1>8, <1>9, <1>10, <1>11 DEF v, e

ReadOutcome(status, address, rest) ==
  LET e == UnpackTagged(ErrorOf(status), AssociationErrors, rest)
  IN  IF ErrorOf(status) = 0 THEN Ok([ok |-> TRUE, value |-> address], rest)
      ELSE IF e.ok THEN Ok([ok |-> FALSE, value |-> e.value], e.rest) ELSE e

LEMMA OutcomeRead ==
  ASSUME NEW r \in Responses, NEW rest
  PROVE  ReadOutcome(ResponseStatus(r), ResponseAddress(r), rest) = Ok(r.status, rest)
<1>1. ErrorOf(ResponseStatus(r)) = IF r.status.ok THEN 0 ELSE r.status.value
  BY ResponseBytes
<1>2. CASE /\ r.status.ok /\ r.status.value \in U16
           /\ r.status = [ok |-> TRUE, value |-> r.status.value]
  <2>1. ErrorOf(ResponseStatus(r)) = 0 /\ ResponseAddress(r) = r.status.value
    BY <1>1, <1>2 DEF ResponseAddress
  <2> QED BY <1>2, <2>1 DEF ReadOutcome
<1>3. CASE /\ ~r.status.ok /\ r.status.value \in AssociationErrors
           /\ r.status = [ok |-> FALSE, value |-> r.status.value]
  <2> DEFINE e == ErrorOf(ResponseStatus(r))
             q == UnpackTagged(e, AssociationErrors, rest)
  <2>1. e = r.status.value /\ e \in AssociationErrors /\ e # 0
    BY <1>1, <1>3 DEF AssociationErrors
  <2>2. q = Ok(e, rest)
    BY <2>1 DEF UnpackTagged
  <2>3. q.ok = TRUE /\ q.value = e /\ q.rest = rest
    BY <2>2, Outcomes
  <2> HIDE DEF q
  <2>4. ReadOutcome(ResponseStatus(r), ResponseAddress(r), rest)
          = Ok([ok |-> FALSE, value |-> e], rest)
    BY <2>1, <2>3 DEF ReadOutcome, q
  <2>5. Ok([ok |-> FALSE, value |-> e], rest) = Ok(r.status, rest)
    BY <1>3, <2>1
  <2> QED BY <2>4, <2>5
<1> QED BY <1>2, <1>3, ResponseParts

\* The parser of an association response.
LEMMA ResponseRead ==
  ASSUME NEW r \in Responses, NEW k, NEW data, Lost(data, PackResponse(r), k)
  PROVE  Reads(UnpackResponse(data), r, <<>>, k)
<1> DEFINE a == ResponseAddress(r)
           v == ResponseStatus(r)
           p == UnpackU16(data)
           u == UnpackResponse(data)
<1>1. /\ a \in U16 /\ v \in Byte /\ <<v>> \in Bytes /\ PackResponse(r) = PackU16(a) \o <<v>>
      /\ IsSet(v, 7) = r.fast_association
  BY ResponseBytes
<1>2. LostOf(data, PackU16(a), <<v>>, k)
  BY <1>1 DEF LostOf
<1> HIDE DEF a, v, p, u
<1>3. Reads(p, a, <<v>>, k)
  BY <1>1, <1>2, U16Read DEF p
<1>4. CASE p = Err("NotEnoughData") /\ k > 0
  <2>1. p.ok = FALSE
    BY <1>4, Outcomes
  <2>2. u = p
    BY <2>1 DEF u, p, UnpackResponse, Then
  <2> QED BY <1>4, <2>2 DEF Reads, u
<1>5. ASSUME NEW r1, p = Ok(a, r1), Lost(r1, <<v>>, k)
      PROVE  Reads(u, r, <<>>, k)
  <2> DEFINE q == UnpackU8(r1)
             o == ReadOutcome(q.value, a, q.rest)
  <2>1. p.ok = TRUE /\ p.value = a /\ p.rest = r1
    BY <1>5, Outcomes
  <2>2. LostOf(r1, <<v>>, <<>>, k)
    BY <1>1, <1>5, NoBytes DEF LostOf
  <2>3. Reads(q, v, <<>>, k)
    BY <1>1, <2>2, NoBytes, U8Read
  <2>4. u = IF q.ok THEN IF o.ok
                         THEN Ok([fast_association |-> IsSet(q.value, 7), status |-> o.value], o.rest)
                         ELSE o
            ELSE q
    BY <2>1 DEF u, p, UnpackResponse, Then, ReadOutcome
  <2> HIDE DEF q
  <2>5. CASE q = Err("NotEnoughData") /\ k > 0
    <3>1. q.ok = FALSE
      BY <2>5, Outcomes
    <3>2. u = q
      BY <2>4, <3>1
    <3> QED BY <2>5, <3>2 DEF Reads
  <2>6. ASSUME NEW rest, q = Ok(v, rest), Lost(rest, <<>>, k)
        PROVE  Reads(u, r, <<>>, k)
    <3>1. q.ok = TRUE /\ q.value = v /\ q.rest = rest
      BY <2>6, Outcomes
    <3>2. o = Ok(r.status, rest)
      BY <3>1, OutcomeRead DEF a, v
    <3>3. o.ok = TRUE /\ o.value = r.status /\ o.rest = rest
      BY <3>2, Outcomes
    <3> HIDE DEF o
    <3>4. u = Ok([fast_association |-> IsSet(v, 7), status |-> r.status], rest)
      BY <2>4, <3>1, <3>3
    <3>5. u = Ok(r, rest)
      BY <1>1, <3>4, ResponseParts
    <3> QED BY <2>6, <3>5 DEF Reads
  <2> QED BY <2>3, <2>5, <2>6 DEF Reads
<1> QED BY <1>3, <1>4, <1>5 DEF Reads, u

CommandContent(command, bytes) ==
  CASE command = 1 -> UnpackCapabilities(bytes)
    [] command = 2 -> UnpackResponse(bytes)
    [] OTHER -> Ok(<<>>, bytes)

LEMMA CommandSteps ==
  ASSUME NEW data
  PROVE  LET p == UnpackU8(data)
             q == CommandContent(p.value, p.rest)
         IN  /\ p.ok = FALSE => UnpackFrameType(3, data) = p
             /\ p.ok = TRUE /\ p.value \in {1, 2, 4, 7} =>
                  UnpackFrameType(3, data)
                    = IF q.ok THEN Ok([tag |-> 3, command |-> p.value, content |-> q.value], q.rest)
                      ELSE q
<1> DEFINE p == UnpackU8(data)
           q == CommandContent(p.value, p.rest)
           g == UnpackTagged(3, 0 .. 7, data)
           e == UnpackEnum({1, 2, 4, 7}, data)
<1>1. g.ok = TRUE /\ g.value = 3 /\ g.rest = data
  <2>1. g = Ok(3, data)
    BY DEF UnpackTagged
  <2> QED BY <2>1, Outcomes
<1> HIDE DEF g
<1>2. UnpackFrameType(3, data) = UnpackCommand(data)
  BY <1>1 DEF UnpackFrameType, Then, g
<1>3. ASSUME p.ok = FALSE PROVE UnpackCommand(data) = p
  <2>1. e = p
    BY <1>3 DEF UnpackEnum, Then
  <2> HIDE DEF e, p
  <2> QED BY <1>3, <2>1 DEF UnpackCommand, Then, e
<1>4. ASSUME p.ok = TRUE, p.value \in {1, 2, 4, 7}
      PROVE  UnpackCommand(data)
               = IF q.ok THEN Ok([tag |-> 3, command |-> p.value, content |-> q.value], q.rest)
                 ELSE q
  <2>1. e = Ok(p.value, p.rest)
    BY <1>4 DEF UnpackEnum, UnpackTagged, Then
  <2>2. e.ok = TRUE /\ e.value = p.value /\ e.rest = p.rest
    BY <2>1, Outcomes
  <2> HIDE DEF e, p
  <2> QED BY <2>2 DEF UnpackCommand, CommandContent, Then, e
<1> QED BY <1>2, <1>3, <1>4

\* The parser of a command.
LEMMA CommandRead ==
  ASSUME NEW command \in {1, 2, 4, 7}, NEW content, NEW body \in Bytes, NEW k, NEW data,
         LostOf(data, <<command>>, body, k),
         \A bytes : Lost(bytes, body, k) => Reads(CommandContent(command, bytes), content, <<>>, k)
  PROVE  Reads(UnpackFrameType(3, data),
               [tag |-> 3, command |-> command, content |-> content], <<>>, k)
<1> DEFINE p == UnpackU8(data)
           q == CommandContent(p.value, p.rest)
           r == UnpackFrameType(3, data)
           t == [tag |-> 3, command |-> command, content |-> content]
<1>1. /\ p.ok = FALSE => r = p
      /\ p.ok = TRUE /\ p.value \in {1, 2, 4, 7} =>
           r = IF q.ok THEN Ok([tag |-> 3, command |-> p.value, content |-> q.value], q.rest)
               ELSE q
  BY CommandSteps
<1>2. Reads(p, command, body, k)
  <2>1. command \in Byte
    BY DEF Byte
  <2> QED BY <2>1, U8Read
<1> HIDE DEF p, r
<1>3. CASE p = Err("NotEnoughData") /\ k > 0
  <2>1. r = p
    BY <1>1, <1>3, Outcomes
  <2> QED BY <1>3, <2>1 DEF Reads, r
<1>4. ASSUME NEW bytes, p = Ok(command, bytes), Lost(bytes, body, k)
      PROVE  Reads(r, t, <<>>, k)
  <2>1. p.ok = TRUE /\ p.value = command /\ p.rest = bytes
    BY <1>4, Outcomes
  <2>2. Reads(q, content, <<>>, k)
    BY <1>4, <2>1
  <2>3. r = IF q.ok THEN Ok([tag |-> 3, command |-> command, content |-> q.value], q.rest)
            ELSE q
    BY <1>1, <2>1
  <2> HIDE DEF q
  <2>4. CASE q = Err("NotEnoughData") /\ k > 0
    <3>1. r = q
      BY <2>3, <2>4, Outcomes
    <3> QED BY <2>4, <3>1 DEF Reads
  <2>5. ASSUME NEW rest, q = Ok(content, rest), Lost(rest, <<>>, k)
        PROVE  Reads(r, t, <<>>, k)
    <3>1. q.ok = TRUE /\ q.value = content /\ q.rest = rest
      BY <2>5, Outcomes
    <3>2. r = Ok(t, rest)
      BY <2>3, <3>1
    <3> QED BY <2>5, <3>2 DEF Reads
  <2> QED BY <2>2, <2>4, <2>5 DEF Reads
<1> QED BY <1>2, <1>3, <1>4 DEF Reads, r

\* What the program writes of an association request ends before its content.
LEMMA RequestRefused ==
  ASSUME NEW k, NEW data, Lost(data, << 1 >>, k)
  PROVE  UnpackFrameType(3, data) = Err("NotEnoughData")
<1> DEFINE p == UnpackU8(data)
           q == CommandContent(p.value, p.rest)
           r == UnpackFrameType(3, data)
<1>1. /\ p.ok = FALSE => r = p
      /\ p.ok = TRUE /\ p.value \in {1, 2, 4, 7} =>
           r = IF q.ok THEN Ok([tag |-> 3, command |-> p.value, content |-> q.value], q.rest)
               ELSE q
  BY CommandSteps
<1>2. Reads(p, 1, <<>>, k)
  <2>1. 1 \in Byte
    BY DEF Byte
  <2>2. << 1 >> \in Bytes
    BY <2>1 DEF Bytes
  <2>3. LostOf(data, << 1 >>, <<>>, k)
    BY <2>2, NoBytes DEF LostOf
  <2> QED BY <2>1, <2>3, NoBytes, U8Read
<1> HIDE DEF p, r
<1>3. CASE p = Err("NotEnoughData") /\ k > 0
  BY <1>1, <1>3, Outcomes DEF r
<1>4. ASSUME NEW bytes, p = Ok(1, bytes), Lost(bytes, <<>>, k)
      PROVE  r = Err("NotEnoughData")
  <2>1. p.ok = TRUE /\ p.value = 1 /\ p.rest = <<>>
    BY <1>4, Outcomes, NoBytes
  <2>2. q = UnpackCapabilities(<<>>)
    BY <2>1 DEF CommandContent
  <2>3. UnpackBytes(1, <<>>) = Err("NotEnoughData")
    BY DEF UnpackBytes
  <2>4. UnpackU8(<<>>) = Err("NotEnoughData")
    BY <2>3, Outcomes DEF UnpackU8, Then
  <2>5. UnpackCapabilities(<<>>) = Err("NotEnoughData")
    <3>1. UnpackU8(<<>>).ok = FALSE
      BY <2>4, Outcomes
    <3> QED BY <2>4, <3>1 DEF UnpackCapabilities, Then
  <2>6. r = q
    BY <1>1, <2>1, <2>2, <2>5, Outcomes
  <2> QED BY <2>2, <2>5, <2>6
<1> QED BY <1>2, <1>3, <1>4 DEF Reads, r

\* A frame type without a payload has lost nothing when it was read.
LEMMA WholeTypeRead ==
  ASSUME NEW t, t.tag = 3, NEW k, NEW parsed, Reads(parsed, t, <<>>, k)
  PROVE  TypeReads(parsed, t, k)
<1>1. t.tag # 0 /\ t.tag \notin PayloadTags
  BY DEF PayloadTags
<1>2. PayloadOf(t) = <<>> /\ \A payload : WithPayload(t, payload) = t
  BY <1>1 DEF PayloadOf, WithPayload
<1>3. CASE parsed = Err("NotEnoughData") /\ k > 0
  BY <1>3 DEF TypeReads
<1>4. ASSUME NEW rest, parsed = Ok(t, rest), Lost(rest, <<>>, k)
      PROVE  TypeReads(parsed, t, k)
  <2>1. rest = <<>>
    BY <1>4, NoBytes
  <2> QED BY <1>2, <1>4, <2>1 DEF TypeReads
<1> QED BY <1>3, <1>4 DEF Reads

-----------------------------------------------------------------------------
(* Every frame type, as the program or another stack writes it.             *)
IsRequest(t) == t.tag = 3 /\ t.command = 1
TypeAllowed(t) == t.tag = 0 => OrdersFit(t.content)

LEMMA TypeKinds ==
  ASSUME NEW t \in FrameTypes
  PROVE  \/ t \in [tag : {0}, content : Beacons]
         \/ t \in [tag : PayloadTags, content : Payloads]
         \/ t \in [tag : {3}, command : {1}, content : Capabilities]
         \/ t \in [tag : {3}, command : {2}, content : Responses]
         \/ t \in [tag : {3}, command : {4, 7}, content : {<<>>}]
  BY DEF FrameTypes

LEMMA CommandByte ==
  ASSUME NEW command \in {1, 2, 4, 7}
  PROVE  <<command>> \in Bytes
<1>1. command \in Byte
  BY DEF Byte
<1> QED BY <1>1 DEF Bytes

LEMMA CommandPacked ==
  ASSUME NEW t, t.tag = 3
  PROVE  /\ t.command = 1 => PackContent(t) = << 1 >> \o <<>>
         /\ t.command = 2 => PackContent(t) = << 2 >> \o PackResponse(t.content)
         /\ t.command \in {4, 7} => PackContent(t) = <<t.command>> \o <<>>
         /\ t.command # 1 => OtherContent(t) = PackContent(t)
         /\ t.command = 1 => OtherContent(t) = <<1, CapabilityByte(t.content)>>
<1>1. t.tag # 0 /\ t.tag \notin PayloadTags
  BY DEF PayloadTags
<1>2. PackContent(t) = <<t.command>> \o
        (CASE t.command = 1 -> PackCapabilities(t.content)
           [] t.command = 2 -> PackResponse(t.content)
           [] OTHER -> <<>>)
  BY <1>1 DEF PackContent
<1>3. t.command = 1 => PackContent(t) = << 1 >> \o <<>>
  BY <1>2 DEF PackCapabilities
<1>4. t.command = 2 => PackContent(t) = << 2 >> \o PackResponse(t.content)
  BY <1>2
<1>5. ASSUME t.command \in {4, 7} PROVE PackContent(t) = <<t.command>> \o <<>>
  <2>1. t.command # 1 /\ t.command # 2
    BY <1>5
  <2> QED BY <1>2, <2>1
<1>6. /\ t.command # 1 => OtherContent(t) = PackContent(t)
      /\ t.command = 1 => OtherContent(t) = <<1, CapabilityByte(t.content)>>
  BY DEF OtherContent
<1> QED BY <1>3, <1>4, <1>5, <1>6

LEMMA RequestPacked ==
  ASSUME NEW t \in [tag : {3}, command : {1}, content : Capabilities]
  PROVE  /\ IsRequest(t) /\ t.tag = 3
         /\ PackContent(t) = << 1 >> /\ << 1 >> \in Bytes
         /\ <<CapabilityByte(t.content)>> \in Bytes /\ OtherContent(t) \in Bytes
         /\ OtherContent(t) = << 1 >> \o <<CapabilityByte(t.content)>>
<1>1. t.tag = 3 /\ t.command = 1 /\ t.content \in Capabilities
  OBVIOUS
<1>2. << 1 >> \in Bytes
  BY CommandByte
<1>3. CapabilityByte(t.content) \in Byte
  BY <1>1, CapabilityByteRead
<1>4. <<CapabilityByte(t.content)>> \in Bytes
  BY <1>3 DEF Bytes
<1>5. OtherContent(t) = <<1, CapabilityByte(t.content)>>
  BY <1>1, CommandPacked
<1>6. <<1, CapabilityByte(t.content)>> = << 1 >> \o <<CapabilityByte(t.content)>>
  OBVIOUS
<1>7. PackContent(t) = << 1 >>
  BY <1>1, <1>2, CommandPacked, NoBytes
<1>8. << 1 >> \o <<CapabilityByte(t.content)>> \in Bytes
  BY <1>2, <1>4, Regroup
<1>9. IsRequest(t)
  BY <1>1 DEF IsRequest
<1> QED BY <1>1, <1>2, <1>4, <1>5, <1>6, <1>7, <1>8, <1>9

LEMMA ContentBytes ==
  ASSUME NEW t \in FrameTypes, TypeAllowed(t)
  PROVE  PackContent(t) \in Bytes /\ OtherContent(t) \in Bytes
<1>1. CASE t \in [tag : {0}, content : Beacons]
  <2> DEFINE b == t.content
             ss == SuperframeSpecification(b)
  <2>1. t.tag = 0 /\ t.tag \notin PayloadTags /\ t.tag # 3
    BY <1>1 DEF PayloadTags
  <2>2. PackContent(t) = (PackU16(ss) \o <<0, 0>>) \o b.payload /\ OtherContent(t) = PackContent(t)
    BY <2>1 DEF PackContent, OtherContent
  <2>3. ss \in U16 /\ b.payload \in Bytes
    BY <1>1, <2>1, BeaconValues DEF TypeAllowed
  <2>4. <<0, 0>> \in Bytes
    BY DEF Bytes, Byte
  <2>5. PackU16(ss) \in Bytes
    BY <2>3, PackedU16
  <2> HIDE DEF b, ss
  <2>6. PackU16(ss) \o <<0, 0>> \in Bytes
    BY <2>4, <2>5, Regroup
  <2> QED BY <2>2, <2>3, <2>6, Regroup
<1>2. CASE t \in [tag : PayloadTags, content : Payloads]
  <2>1. t.tag \in PayloadTags /\ t.tag # 0 /\ t.tag # 3 /\ t.content \in Bytes
    BY <1>2, Constants DEF PayloadTags
  <2> QED BY <2>1 DEF PackContent, OtherContent
<1>3. CASE t \in [tag : {3}, command : {1}, content : Capabilities]
  BY <1>3, RequestPacked
<1>4. CASE t \in [tag : {3}, command : {2}, content : Responses]
  <2>1. t.tag = 3 /\ t.command = 2 /\ t.content \in Responses
    BY <1>4
  <2>2. << 2 >> \in Bytes /\ PackResponse(t.content) \in Bytes
    BY <2>1, CommandByte, ResponseBytes
  <2>3. PackContent(t) = << 2 >> \o PackResponse(t.content) /\ OtherContent(t) = PackContent(t)
    BY <2>1, CommandPacked
  <2> QED BY <2>2, <2>3, Regroup
<1>5. CASE t \in [tag : {3}, command : {4, 7}, content : {<<>>}]
  <2>1. t.tag = 3 /\ t.command \in {4, 7} /\ t.command # 1
    BY <1>5
  <2>2. PackContent(t) = <<t.command>> \o <<>> /\ OtherContent(t) = PackContent(t)
    BY <2>1, CommandPacked
  <2>3. <<t.command>> \in Bytes
    BY <2>1, CommandByte
  <2> QED BY <2>2, <2>3, NoBytes
<1> QED BY <1>1, <1>2, <1>3, <1>4, <1>5, TypeKinds

\* The parser of what follows the addresses, for each type of frame.
LEMMA ContentRead ==
  ASSUME NEW t \in FrameTypes, TypeAllowed(t), NEW content, NEW k, NEW data,
         \/ content = OtherContent(t)
         \/ content = PackContent(t) /\ ~IsRequest(t),
         Lost(data, content, k)
  PROVE  TypeReads(UnpackFrameType(t.tag, data), t, k)
<1>1. CASE t \in [tag : {0}, content : Beacons]
  <2>1. t.tag = 0 /\ t.tag # 3
    BY <1>1
  <2>2. content = PackContent(t)
    BY <2>1 DEF OtherContent
  <2>3. OrdersFit(t.content)
    BY <2>1 DEF TypeAllowed
  <2> QED BY <1>1, <2>2, <2>3, BeaconRead
<1>2. CASE t \in [tag : PayloadTags, content : Payloads]
  <2>1. t.tag \in PayloadTags /\ t.tag # 0 /\ t.tag # 3
    BY <1>2 DEF PayloadTags
  <2>2. content = t.content
    BY <2>1 DEF PackContent, OtherContent
  <2> QED BY <1>2, <2>2, PayloadTypeRead
<1>3. CASE t \in [tag : {3}, command : {1}, content : Capabilities]
  <2> DEFINE body == <<CapabilityByte(t.content)>>
  <2>1. t.tag = 3 /\ t.content \in Capabilities
        /\ t = [tag |-> 3, command |-> 1, content |-> t.content]
    BY <1>3
  <2>2. content = << 1 >> \o body /\ body \in Bytes
    BY <1>3, RequestPacked
  <2>3. LostOf(data, << 1 >>, body, k)
    BY <2>2 DEF LostOf
  <2>4. \A bytes : Lost(bytes, body, k) => Reads(CommandContent(1, bytes), t.content, <<>>, k)
    BY <2>1, CapabilitiesRead DEF CommandContent
  <2> HIDE DEF body
  <2>5. Reads(UnpackFrameType(3, data), [tag |-> 3, command |-> 1, content |-> t.content], <<>>, k)
    BY <2>2, <2>3, <2>4, CommandRead
  <2> QED BY <2>1, <2>5, WholeTypeRead
<1>4. CASE t \in [tag : {3}, command : {2}, content : Responses]
  <2> DEFINE body == PackResponse(t.content)
  <2>1. t.tag = 3 /\ t.command = 2 /\ t.content \in Responses
        /\ t = [tag |-> 3, command |-> 2, content |-> t.content]
    BY <1>4
  <2>2. body \in Bytes
    BY <2>1, ResponseBytes
  <2>3. content = << 2 >> \o body
    BY <2>1, CommandPacked
  <2>4. LostOf(data, << 2 >>, body, k)
    BY <2>3 DEF LostOf
  <2>5. \A bytes : Lost(bytes, body, k) => Reads(CommandContent(2, bytes), t.content, <<>>, k)
    BY <2>1, ResponseRead DEF CommandContent
  <2> HIDE DEF body
  <2>6. Reads(UnpackFrameType(3, data), [tag |-> 3, command |-> 2, content |-> t.content], <<>>, k)
    BY <2>2, <2>4, <2>5, CommandRead
  <2> QED BY <2>1, <2>6, WholeTypeRead
<1>5. CASE t \in [tag : {3}, command : {4, 7}, content : {<<>>}]
  <2>1. t.tag = 3 /\ t.command \in {4, 7} /\ t.content = <<>>
        /\ t = [tag |-> 3, command |-> t.command, content |-> t.content]
    BY <1>5
  <2>2. t.command # 1 /\ t.command # 2 /\ t.command \in {1, 2, 4, 7}
    BY <2>1
  <2>3. content = <<t.command>> \o <<>>
    BY <2>1, <2>2, CommandPacked
  <2>4. LostOf(data, <<t.command>>, <<>>, k)
    BY <2>3 DEF LostOf
  <2>5. \A bytes : CommandContent(t.command, bytes) = Ok(<<>>, bytes)
    BY <2>2 DEF CommandContent
  <2>6. \A bytes : Lost(bytes, <<>>, k) => Reads(CommandContent(t.command, bytes), t.content, <<>>, k)
    BY <2>1, <2>5 DEF Reads
  <2>7. Reads(UnpackFrameType(3, data), [tag |-> 3, command |-> t.command, content |-> t.content],
              <<>>, k)
    BY <2>2, <2>4, <2>6, NoBytes, CommandRead
  <2> QED BY <2>1, <2>7, WholeTypeRead
<1> QED BY <1>1, <1>2, <1>3, <1>4, <1>5, TypeKinds

-----------------------------------------------------------------------------
(* Whole frames.                                                            *)
LEMMA FrameParts ==
  ASSUME NEW f \in Frames
  PROVE  /\ f.frame_pending \in BOOLEAN /\ f.acknowledge_request \in BOOLEAN
         /\ f.sequence_number \in SequenceNumbers
         /\ f.destination \in Options(FullAddresses) /\ f.source \in Options(FullAddresses)
         /\ f.frame_type \in FrameTypes
         /\ f = [frame_pending |-> f.frame_pending,
                 acknowledge_request |-> f.acknowledge_request,
                 sequence_number |-> f.sequence_number, destination |-> f.destination,
                 source |-> f.source, frame_type |-> f.frame_type]
  BY DEF Frames

LEMMA ModeValue ==
  ASSUME NEW option \in Options(FullAddresses)
  PROVE  ModeOf(option) \in Bits2
<1>1. CASE option = {}
  BY <1>1, OptionParts DEF Bits2
<1>2. ASSUME NEW a \in FullAddresses, option = {a} PROVE ModeOf(option) \in Bits2
  <2>1. a.address \in Addresses
    BY DEF FullAddresses
  <2>2. ModeOf(option) = a.address.mode
    BY <1>2, OptionParts
  <2>3. a.address.mode = 2 \/ a.address.mode = 3
    BY <2>1, AddressKinds
  <2> QED BY <2>2, <2>3 DEF Bits2
<1> QED BY <1>1, <1>2 DEF Options

Control(f, compression, extra) == FrameControl(f, compression) + extra
ControlGood(v, f, compression) ==
  /\ v \in U16 /\ Field(v, 2, 0) = f.frame_type.tag
  /\ IsSet(v, 3) = FALSE /\ IsSet(v, 9) = FALSE
  /\ IsSet(v, 4) = f.frame_pending /\ IsSet(v, 5) = f.acknowledge_request
  /\ IsSet(v, 6) = compression /\ IsSet(v, 8) = (f.sequence_number = {})
  /\ Field(v, 11, 10) = ModeOf(f.destination) /\ Field(v, 15, 14) = ModeOf(f.source)

LEMMA ControlRead ==
  ASSUME NEW f \in Frames, NEW compression \in BOOLEAN, NEW extra \in {0, ReservedAndVersion}
  PROVE  ControlGood(Control(f, compression, extra), f, compression)
<1> DEFINE tag == f.frame_type.tag
           b4 == Bit(f.frame_pending)
           b5 == Bit(f.acknowledge_request)
           b6 == Bit(compression)
           b7 == Bit(extra # 0)
           b8 == Bit(f.sequence_number = {})
           f10 == ModeOf(f.destination)
           f14 == ModeOf(f.source)
           v == Control(f, compression, extra)
<1>1. tag \in Bits3
  BY FrameParts, TypeKinds DEF Bits3, PayloadTags
<1>2. f10 \in Bits2 /\ f14 \in Bits2
  BY FrameParts, ModeValue
<1>3. /\ b4 \in Bits1 /\ b5 \in Bits1 /\ b6 \in Bits1 /\ b7 \in Bits1 /\ b8 \in Bits1
  <2>1. (extra # 0) \in BOOLEAN /\ (f.sequence_number = {}) \in BOOLEAN
    OBVIOUS
  <2> QED BY <2>1, FrameParts, BitValue
<1>4. /\ (b4 # 0) = f.frame_pending /\ (b5 # 0) = f.acknowledge_request
      /\ (b6 # 0) = compression /\ (b8 # 0) = (f.sequence_number = {})
  <2>1. (f.sequence_number = {}) \in BOOLEAN
    OBVIOUS
  <2> QED BY <2>1, FrameParts, BitValue
<1>5. v = ControlSum(tag, b4, b5, b6, b7, b8, f10, b7, f14)
  <2>1. FrameControl(f, compression)
          = tag + b4 * 16 + b5 * 32 + b6 * 64 + b8 * 256 + f10 * 1024 + f14 * 16384
    BY DEF FrameControl
  <2>2. extra = b7 * 128 + b7 * 4096
    <3>1. CASE extra = 0
      BY <3>1 DEF Bit
    <3>2. CASE extra = ReservedAndVersion
      BY <3>2 DEF Bit, ReservedAndVersion
    <3> QED BY <3>1, <3>2
  <2>3. v = FrameControl(f, compression) + extra
    BY DEF Control
  <2> HIDE DEF tag, b4, b5, b6, b7, b8, f10, f14, v
  <2> QED BY <1>1, <1>2, <1>3, <2>1, <2>2, <2>3 DEF ControlSum, Bits1, Bits2, Bits3
<1> HIDE DEF tag, b4, b5, b6, b7, b8, f10, f14, v
<1>6. /\ v \in U16
      /\ Field(v, 2, 0) = tag /\ Field(v, 3, 3) = 0 /\ Field(v, 4, 4) = b4
      /\ Field(v, 5, 5) = b5 /\ Field(v, 6, 6) = b6 /\ Field(v, 8, 8) = b8
      /\ Field(v, 9, 9) = 0 /\ Field(v, 11, 10) = f10 /\ Field(v, 15, 14) = f14
  <2>1. ControlFields(ControlSum(tag, b4, b5, b6, b7, b8, f10, b7, f14),
                      tag, b4, b5, b6, b8, f10, f14)
    BY <1>1, <1>2, <1>3, ControlBits
  <2>2. ControlFields(v, tag, b4, b5, b6, b8, f10, f14)
    BY <1>5, <2>1
  <2> QED BY <2>2 DEF ControlFields
<1>7. /\ IsSet(v, 4) = f.frame_pending /\ IsSet(v, 5) = f.acknowledge_request
      /\ IsSet(v, 6) = compression /\ IsSet(v, 8) = (f.sequence_number = {})
  BY <1>4, <1>6, Zenon DEF IsSet
<1>8. IsSet(v, 3) = FALSE /\ IsSet(v, 9) = FALSE
  BY <1>6, Zenon DEF IsSet
<1> QED BY <1>6, <1>7, <1>8, Zenon DEF ControlGood, tag, f10, f14, v

LEMMA FrameSteps ==
  ASSUME NEW data
  PROVE  LET p1 == UnpackU16(data)
             fc == p1.value
             p2 == UnpackedNumber(IsSet(fc, 8), p1.rest)
             p3 == UnpackAddress(Field(fc, 11, 10), {}, p2.rest)
             p4 == UnpackAddress(Field(fc, 15, 14), PreviousPan(fc, p3.value), p3.rest)
             u  == UnpackFrameType(Field(fc, 2, 0), p4.rest)
         IN  UnpackFrame(data)
               = IF ~p1.ok THEN p1 ELSE IF ~p2.ok THEN p2 ELSE IF ~p3.ok THEN p3
                 ELSE IF ~p4.ok THEN p4
                 ELSE IF IsSet(fc, 9) \/ IsSet(fc, 3) THEN Err("Unimplemented")
                 ELSE IF ~u.ok THEN u
                 ELSE Ok([frame_pending |-> IsSet(fc, 4), acknowledge_request |-> IsSet(fc, 5),
                          sequence_number |-> p2.value, destination |-> p3.value,
                          source |-> p4.value, frame_type |-> u.value], u.rest)
  BY DEF UnpackFrame, Then, UnpackedNumber

\* The frame with another type; an error in the type is one of the frame.
WithType(f, u) == IF u.ok THEN Ok([f EXCEPT !.frame_type = u.value], u.rest) ELSE u

\* The bytes that follow the destination, the sequence number and the control field
SourceOnwards(f, compression, content) == PackedOption(f.source, compression) \o content
DestinationOnwards(f, compression, content) ==
  PackedOption(f.destination, FALSE) \o SourceOnwards(f, compression, content)
NumberOnwards(f, compression, content) ==
  PackedNumber(f.sequence_number) \o DestinationOnwards(f, compression, content)

Joined(a, b) == a \o b

LEMMA JoinedBytes ==
  \A a, b, c \in Bytes :
    Joined(b, c) \in Bytes /\ Joined(Joined(a, b), c) = Joined(a, Joined(b, c))
  BY Regroup DEF Joined

LEMMA RegroupAll ==
  ASSUME NEW a \in Bytes, NEW b \in Bytes, NEW c \in Bytes, NEW d \in Bytes, NEW e \in Bytes
  PROVE  /\ Joined(d, e) \in Bytes /\ Joined(c, Joined(d, e)) \in Bytes
         /\ Joined(b, Joined(c, Joined(d, e))) \in Bytes
         /\ Joined(a, Joined(b, Joined(c, Joined(d, e)))) \in Bytes
         /\ Joined(Joined(Joined(Joined(a, b), c), d), e)
              = Joined(a, Joined(b, Joined(c, Joined(d, e))))
  BY JoinedBytes

LEMMA AssembledBytes ==
  ASSUME NEW f \in Frames, NEW control \in U16, NEW compression \in BOOLEAN,
         NEW content \in Bytes
  PROVE  /\ SourceOnwards(f, compression, content) \in Bytes
         /\ DestinationOnwards(f, compression, content) \in Bytes
         /\ NumberOnwards(f, compression, content) \in Bytes
         /\ Assemble(f, control, compression, content) \in Bytes
         /\ Assemble(f, control, compression, content)
              = PackU16(control) \o NumberOnwards(f, compression, content)
<1> DEFINE a == PackU16(control)
           b == PackedNumber(f.sequence_number)
           c == PackedOption(f.destination, FALSE)
           d == PackedOption(f.source, compression)
<1>1. a \in Bytes /\ b \in Bytes /\ c \in Bytes /\ d \in Bytes
  BY FrameParts, PackedU16, PackedNumberBytes, PackedOptionBytes
<1>2. Assemble(f, control, compression, content)
        = Joined(Joined(Joined(Joined(a, b), c), d), content)
  BY DEF Assemble, PackedNumber, PackedOption, Joined
<1>3. /\ SourceOnwards(f, compression, content) = Joined(d, content)
      /\ DestinationOnwards(f, compression, content) = Joined(c, Joined(d, content))
      /\ NumberOnwards(f, compression, content) = Joined(b, Joined(c, Joined(d, content)))
  BY DEF SourceOnwards, DestinationOnwards, NumberOnwards, Joined
<1> HIDE DEF a, b, c, d
<1>4. /\ Joined(d, content) \in Bytes /\ Joined(c, Joined(d, content)) \in Bytes
      /\ Joined(b, Joined(c, Joined(d, content))) \in Bytes
      /\ Joined(a, Joined(b, Joined(c, Joined(d, content)))) \in Bytes
      /\ Joined(Joined(Joined(Joined(a, b), c), d), content)
           = Joined(a, Joined(b, Joined(c, Joined(d, content))))
  BY <1>1, RegroupAll
<1>5. Joined(a, NumberOnwards(f, compression, content))
        = PackU16(control) \o NumberOnwards(f, compression, content)
  BY DEF Joined, a
<1> QED BY <1>2, <1>3, <1>4, <1>5

\* However far the data reach, the frame's header is read as it was written, and
\* what is left of its content then decides.
LEMMA FrameRead ==
  ASSUME NEW f \in Frames, NEW compression \in BOOLEAN, compression => PanIdCompression(f),
         NEW extra \in {0, ReservedAndVersion}, NEW content \in Bytes, NEW k, NEW data,
         Lost(data, Assemble(f, Control(f, compression, extra), compression, content), k)
  PROVE  \/ UnpackFrame(data) = Err("NotEnoughData") /\ k > 0
         \/ \E rest : /\ Lost(rest, content, k)
                      /\ UnpackFrame(data)
                           = WithType(f, UnpackFrameType(f.frame_type.tag, rest))
<1> DEFINE fc == Control(f, compression, extra)
           number == f.sequence_number
           c3 == SourceOnwards(f, compression, content)
           c2 == DestinationOnwards(f, compression, content)
           c1 == NumberOnwards(f, compression, content)
           p1 == UnpackU16(data)
           P2(r1) == UnpackedNumber(number = {}, r1)
           P3(r2) == UnpackAddress(ModeOf(f.destination), {}, r2)
           P4(r3) == UnpackAddress(ModeOf(f.source), KnownPan(f.source, compression), r3)
           U(r4) == UnpackFrameType(f.frame_type.tag, r4)
           result1 == UnpackFrame(data)
           Good == \E rest : Lost(rest, content, k) /\ result1 = WithType(f, U(rest))
<1>1. /\ fc \in U16 /\ Field(fc, 2, 0) = f.frame_type.tag
      /\ IsSet(fc, 3) = FALSE /\ IsSet(fc, 9) = FALSE
      /\ IsSet(fc, 4) = f.frame_pending /\ IsSet(fc, 5) = f.acknowledge_request
      /\ IsSet(fc, 6) = compression /\ IsSet(fc, 8) = (number = {})
      /\ Field(fc, 11, 10) = ModeOf(f.destination) /\ Field(fc, 15, 14) = ModeOf(f.source)
  BY ControlRead, Zenon DEF ControlGood
<1>2. PreviousPan(fc, f.destination) = KnownPan(f.source, compression)
  BY <1>1 DEF PreviousPan, KnownPan, PanIdCompression
<1>3. /\ c3 \in Bytes /\ c2 \in Bytes /\ c1 \in Bytes
      /\ LostOf(data, PackU16(fc), c1, k)
  <2> HIDE DEF fc
  <2>1. c3 \in Bytes /\ c2 \in Bytes /\ c1 \in Bytes
        /\ Assemble(f, fc, compression, content) = PackU16(fc) \o c1
    <3>1. fc \in U16
      BY <1>1
    <3> QED BY <3>1, AssembledBytes
  <2>2. Lost(data, Assemble(f, fc, compression, content), k)
    BY DEF fc
  <2> HIDE DEF c1, c2, c3
  <2>3. Lost(data, PackU16(fc) \o c1, k)
    BY <2>1, <2>2
  <2> QED BY <2>1, <2>3, Zenon DEF LostOf
<1> HIDE DEF fc, c1
<1>4. Reads(p1, fc, c1, k)
  BY <1>1, <1>3, U16Read
<1>5. ASSUME NEW r1, p1 = Ok(fc, r1)
      PROVE  LET p2 == P2(r1)
                 p3 == P3(p2.rest)
                 p4 == UnpackAddress(ModeOf(f.source), PreviousPan(fc, p3.value), p3.rest)
                 u  == U(p4.rest)
             IN  result1
                   = IF ~p2.ok THEN p2 ELSE IF ~p3.ok THEN p3 ELSE IF ~p4.ok THEN p4
                     ELSE IF ~u.ok THEN u
                     ELSE Ok([frame_pending |-> f.frame_pending,
                              acknowledge_request |-> f.acknowledge_request,
                              sequence_number |-> p2.value, destination |-> p3.value,
                              source |-> p4.value, frame_type |-> u.value], u.rest)
  <2>1. p1.ok = TRUE /\ p1.value = fc /\ p1.rest = r1
    BY <1>5, Outcomes
  <2> HIDE DEF p1
  <2> QED BY <1>1, <2>1, FrameSteps DEF p1
<1>6. ASSUME NEW r1, p1 = Ok(fc, r1), NEW r2, P2(r1) = Ok(number, r2),
             NEW r3, P3(r2) = Ok(f.destination, r3)
      PROVE  LET p4 == P4(r3)
                 u  == U(p4.rest)
             IN  result1
                   = IF ~p4.ok THEN p4 ELSE IF ~u.ok THEN u
                     ELSE Ok([frame_pending |-> f.frame_pending,
                              acknowledge_request |-> f.acknowledge_request,
                              sequence_number |-> number, destination |-> f.destination,
                              source |-> p4.value, frame_type |-> u.value], u.rest)
  <2>1. P2(r1).ok = TRUE /\ P2(r1).value = number /\ P2(r1).rest = r2
    BY <1>6, Outcomes
  <2>2. P3(r2).ok = TRUE /\ P3(r2).value = f.destination /\ P3(r2).rest = r3
    BY <1>6, Outcomes
  <2> HIDE DEF P2, P3, U, result1
  <2> QED BY <1>2, <1>5, <1>6, <2>1, <2>2
<1>7. ASSUME NEW r1, p1 = Ok(fc, r1), NEW r2, P2(r1) = Ok(number, r2),
             NEW r3, P3(r2) = Ok(f.destination, r3), NEW r4, P4(r3) = Ok(f.source, r4),
             Lost(r4, content, k)
      PROVE  Good
  <2> DEFINE u == U(r4)
  <2>1. P4(r3).ok = TRUE /\ P4(r3).value = f.source /\ P4(r3).rest = r4
    BY <1>7, Outcomes
  <2>2. result1 = IF ~u.ok THEN u
                  ELSE Ok([frame_pending |-> f.frame_pending,
                           acknowledge_request |-> f.acknowledge_request,
                           sequence_number |-> number, destination |-> f.destination,
                           source |-> f.source, frame_type |-> u.value], u.rest)
    <3> HIDE DEF P2, P3, P4, U, result1
    <3> QED BY <1>6, <1>7, <2>1
  <2>3. [f EXCEPT !.frame_type = u.value]
          = [frame_pending |-> f.frame_pending,
             acknowledge_request |-> f.acknowledge_request,
             sequence_number |-> number, destination |-> f.destination,
             source |-> f.source, frame_type |-> u.value]
    <3> HIDE DEF u
    <3> QED BY FrameParts
  <2>4. result1 = WithType(f, u)
    <3> HIDE DEF u, result1
    <3> QED BY <2>2, <2>3 DEF WithType
  <2> HIDE DEF U, result1
  <2> QED BY <1>7, <2>4
<1>8. ASSUME NEW r1, p1 = Ok(fc, r1), NEW r2, P2(r1) = Ok(number, r2),
             NEW r3, P3(r2) = Ok(f.destination, r3), Lost(r3, c3, k)
      PROVE  (result1 = Err("NotEnoughData") /\ k > 0) \/ Good
  <2>1. LostOf(r3, PackedOption(f.source, compression), content, k)
    BY <1>8 DEF LostOf, SourceOnwards
  <2>2. Reads(P4(r3), f.source, content, k)
    BY <2>1, FrameParts, AddressRead
  <2>3. CASE P4(r3) = Err("NotEnoughData") /\ k > 0
    <3>1. P4(r3).ok = FALSE
      BY <2>3, Outcomes
    <3> HIDE DEF P2, P3, P4, U, result1, Good
    <3> QED BY <1>6, <1>8, <2>3, <3>1
  <2> HIDE DEF P2, P3, P4, U, result1, Good
  <2> QED BY <1>7, <1>8, <2>2, <2>3 DEF Reads
<1>9. ASSUME NEW r1, p1 = Ok(fc, r1), NEW r2, P2(r1) = Ok(number, r2), Lost(r2, c2, k)
      PROVE  (result1 = Err("NotEnoughData") /\ k > 0) \/ Good
  <2>1. LostOf(r2, PackedOption(f.destination, FALSE), c3, k)
    BY <1>9 DEF LostOf, DestinationOnwards
  <2>2. KnownPan(f.destination, FALSE) = {}
    BY DEF KnownPan
  <2>3. Reads(P3(r2), f.destination, c3, k)
    BY <1>3, <2>1, <2>2, FrameParts, AddressRead
  <2>4. CASE P3(r2) = Err("NotEnoughData") /\ k > 0
    <3>1. P2(r1).ok = TRUE /\ P2(r1).rest = r2
      BY <1>9, Outcomes
    <3>2. P3(r2).ok = FALSE
      BY <2>4, Outcomes
    <3> HIDE DEF P2, P3, P4, U, result1, Good
    <3> QED BY <1>5, <1>9, <2>4, <3>1, <3>2
  <2> HIDE DEF P2, P3, P4, U, result1, Good, c3
  <2> QED BY <1>8, <1>9, <2>3, <2>4 DEF Reads
<1>10. ASSUME NEW r1, p1 = Ok(fc, r1), Lost(r1, c1, k)
       PROVE  (result1 = Err("NotEnoughData") /\ k > 0) \/ Good
  <2>1. LostOf(r1, PackedNumber(number), c2, k)
    BY <1>10 DEF LostOf, c1, NumberOnwards
  <2>2. Reads(P2(r1), number, c2, k)
    BY <1>3, <2>1, FrameParts, NumberRead
  <2>3. CASE P2(r1) = Err("NotEnoughData") /\ k > 0
    <3>1. P2(r1).ok = FALSE
      BY <2>3, Outcomes
    <3> HIDE DEF P2, P3, P4, U, result1, Good
    <3> QED BY <1>5, <1>10, <2>3, <3>1
  <2> HIDE DEF P2, P3, P4, U, result1, Good, c2
  <2> QED BY <1>9, <1>10, <2>2, <2>3 DEF Reads
<1>11. ASSUME p1 = Err("NotEnoughData"), k > 0
       PROVE  (result1 = Err("NotEnoughData") /\ k > 0) \/ Good
  <2>1. p1.ok = FALSE
    BY <1>11, Outcomes
  <2>2. result1 = p1
    BY <2>1, FrameSteps
  <2> QED BY <1>11, <2>2
<1>12. (result1 = Err("NotEnoughData") /\ k > 0) \/ Good
  <2> HIDE DEF p1, result1, Good
  <2> QED BY <1>4, <1>10, <1>11 DEF Reads
<1> QED BY <1>12

\* The payload of a frame, and the frame with another payload.
LEMMA PayloadFacts ==
  ASSUME NEW t \in FrameTypes
  PROVE  /\ WithPayload(t, PayloadOf(t)) = t
         /\ t.tag = 3 => PayloadOf(t) = <<>>
         /\ t.tag # 3 => \A payload : PayloadOf(WithPayload(t, payload)) = payload
<1>1. CASE t \in [tag : {0}, content : Beacons]
  <2>1. t.tag = 0 /\ t.tag \notin PayloadTags /\ t.tag # 3
        /\ t = [tag |-> 0, content |-> t.content]
    BY <1>1 DEF PayloadTags
  <2>2. t.content = [beacon_order |-> t.content.beacon_order,
                     superframe_order |-> t.content.superframe_order,
                     final_cap_slot |-> t.content.final_cap_slot,
                     battery_life_extension |-> t.content.battery_life_extension,
                     pan_coordinator |-> t.content.pan_coordinator,
                     association_permit |-> t.content.association_permit,
                     payload |-> t.content.payload]
    BY <1>1 DEF Beacons
  <2>3. \A payload : WithPayload(t, payload)
          = [tag |-> 0, content |-> [t.content EXCEPT !.payload = payload]]
    <3> SUFFICES ASSUME NEW payload
                 PROVE  WithPayload(t, payload)
                          = [tag |-> 0, content |-> [t.content EXCEPT !.payload = payload]]
      OBVIOUS
    <3>1. [t EXCEPT !.content.payload = payload]
            = [tag |-> 0, content |-> [t.content EXCEPT !.payload = payload]]
      BY <2>1
    <3> QED BY <2>1, <3>1 DEF WithPayload
  <2>4. PayloadOf(t) = t.content.payload
    BY <2>1 DEF PayloadOf
  <2>5. [t.content EXCEPT !.payload = t.content.payload] = t.content
    BY <2>2
  <2>6. WithPayload(t, PayloadOf(t)) = t
    BY <2>1, <2>3, <2>4, <2>5
  <2>7. ASSUME NEW payload PROVE PayloadOf(WithPayload(t, payload)) = payload
    <3> DEFINE new == WithPayload(t, payload)
    <3>1. new.tag = 0 /\ new.content = [t.content EXCEPT !.payload = payload]
      BY <2>3
    <3>2. new.tag \notin PayloadTags
      BY <3>1 DEF PayloadTags
    <3>3. new.content.payload = payload
      BY <2>2, <3>1
    <3> HIDE DEF new
    <3>4. PayloadOf(new) = payload
      BY <3>1, <3>2, <3>3 DEF PayloadOf
    <3> QED BY <3>4 DEF new
  <2> QED BY <2>1, <2>6, <2>7
<1>2. CASE t \in [tag : PayloadTags, content : Payloads]
  <2>1. t.tag \in PayloadTags /\ t.tag # 0 /\ t.tag # 3
        /\ t = [tag |-> t.tag, content |-> t.content]
    BY <1>2 DEF PayloadTags
  <2>2. \A payload : WithPayload(t, payload) = [tag |-> t.tag, content |-> payload]
    BY <2>1 DEF WithPayload
  <2>3. PayloadOf(t) = t.content
    BY <2>1 DEF PayloadOf
  <2>4. WithPayload(t, PayloadOf(t)) = t
    BY <2>1, <2>2, <2>3
  <2>5. ASSUME NEW payload PROVE PayloadOf(WithPayload(t, payload)) = payload
    <3> DEFINE new == WithPayload(t, payload)
    <3>1. new.tag = t.tag /\ new.content = payload
      BY <2>2
    <3> HIDE DEF new
    <3>2. PayloadOf(new) = payload
      BY <2>1, <3>1 DEF PayloadOf
    <3> QED BY <3>2 DEF new
  <2> QED BY <2>1, <2>4, <2>5
<1>3. CASE t.tag = 3
  <2>1. t.tag # 0 /\ t.tag \notin PayloadTags
    BY <1>3 DEF PayloadTags
  <2> QED BY <1>3, <2>1 DEF WithPayload, PayloadOf
<1> QED BY <1>1, <1>2, <1>3, TypeKinds

\* The bytes of a frame, by the program or by another stack, which may leave the
\* PANs uncompressed and set the bits that unpack ignores.
IsPacked(w, f, e) ==
  \E compression \in BOOLEAN, extra \in {0, ReservedAndVersion} :
    /\ compression => PanIdCompression(f)
    /\ w = Assemble(f, Control(f, compression, extra), compression,
                    IF e = "own" THEN PackContent(f.frame_type) ELSE OtherContent(f.frame_type))

LEMMA AllowedType ==
  ASSUME NEW f \in Frames, Allowed(f)
  PROVE  TypeAllowed(f.frame_type)
  BY DEF Allowed, TypeAllowed, OrdersFit

LEMMA PackedBytes ==
  ASSUME NEW f \in Frames, Allowed(f), NEW w, NEW e, IsPacked(w, f, e)
  PROVE  w \in Bytes
<1> DEFINE content == IF e = "own" THEN PackContent(f.frame_type) ELSE OtherContent(f.frame_type)
<1>1. content \in Bytes
  BY AllowedType, FrameParts, ContentBytes
<1>2. PICK compression \in BOOLEAN, extra \in {0, ReservedAndVersion} :
        w = Assemble(f, Control(f, compression, extra), compression, content)
  BY DEF IsPacked
<1> HIDE DEF content
<1>3. Control(f, compression, extra) \in U16
  BY ControlRead DEF ControlGood
<1> QED BY <1>1, <1>2, <1>3, AssembledBytes

LEMMA Received ==
  ASSUME NEW f \in Frames, Allowed(f), NEW e, NEW w, IsPacked(w, f, e),
         NEW k, NEW data, Lost(data, w, k)
  PROVE  \/ /\ UnpackFrame(data) = Err("NotEnoughData")
            /\ k > 0 \/ (e = "own" /\ IsAssociationRequest(f))
         \/ \E payload :
              /\ UnpackFrame(data)
                   = Ok([f EXCEPT !.frame_type = WithPayload(f.frame_type, payload)], <<>>)
              /\ Lost(payload, PayloadOf(f.frame_type), k)
<1> DEFINE t == f.frame_type
           content == IF e = "own" THEN PackContent(t) ELSE OtherContent(t)
           U(rest) == UnpackFrameType(t.tag, rest)
           r == UnpackFrame(data)
<1>1. t \in FrameTypes /\ TypeAllowed(t)
  BY AllowedType, FrameParts
<1>2. content \in Bytes
  BY <1>1, ContentBytes
<1>3. PICK compression \in BOOLEAN, extra \in {0, ReservedAndVersion} :
        /\ compression => PanIdCompression(f)
        /\ w = Assemble(f, Control(f, compression, extra), compression, content)
  BY DEF IsPacked
<1>4. \/ r = Err("NotEnoughData") /\ k > 0
      \/ \E rest : Lost(rest, content, k) /\ r = WithType(f, U(rest))
  <2> HIDE DEF content
  <2> QED BY <1>2, <1>3, FrameRead
<1>5. CASE r = Err("NotEnoughData") /\ k > 0
  BY <1>5
<1>6. ASSUME NEW rest, Lost(rest, content, k), r = WithType(f, U(rest)), e = "own", IsRequest(t)
      PROVE  r = Err("NotEnoughData") /\ IsAssociationRequest(f)
  <2>1. t.tag = 3 /\ t.command = 1
    BY <1>6 DEF IsRequest
  <2>2. << 1 >> \in Bytes
    BY CommandByte
  <2>3. content = << 1 >>
    BY <1>6, <2>1, <2>2, CommandPacked, NoBytes
  <2>4. U(rest) = Err("NotEnoughData")
    BY <1>6, <2>1, <2>3, RequestRefused
  <2>5. r = Err("NotEnoughData")
    BY <1>6, <2>4, Outcomes DEF WithType
  <2> QED BY <2>1, <2>5 DEF IsAssociationRequest
<1>7. ASSUME NEW rest, Lost(rest, content, k), r = WithType(f, U(rest)),
             ~(e = "own" /\ IsRequest(t))
      PROVE  \/ r = Err("NotEnoughData") /\ k > 0
             \/ \E payload :
                  /\ r = Ok([f EXCEPT !.frame_type = WithPayload(t, payload)], <<>>)
                  /\ Lost(payload, PayloadOf(t), k)
  <2>1. TypeReads(U(rest), t, k)
    BY <1>1, <1>7, ContentRead
  <2> HIDE DEF U, content, r
  <2>2. CASE U(rest) = Err("NotEnoughData") /\ k > 0
    <3>1. r = U(rest)
      BY <1>7, <2>2, Outcomes DEF WithType
    <3> QED BY <2>2, <3>1
  <2>3. ASSUME NEW payload, U(rest) = Ok(WithPayload(t, payload), <<>>),
               Lost(payload, PayloadOf(t), k)
        PROVE  r = Ok([f EXCEPT !.frame_type = WithPayload(t, payload)], <<>>)
    <3>1. U(rest).ok = TRUE /\ U(rest).value = WithPayload(t, payload) /\ U(rest).rest = <<>>
      BY <2>3, Outcomes
    <3> QED BY <1>7, <3>1 DEF WithType
  <2> QED BY <2>1, <2>2, <2>3 DEF TypeReads
<1> HIDE DEF U, content, r, t
<1>8. \/ r = Err("NotEnoughData") /\ (k > 0 \/ (e = "own" /\ IsAssociationRequest(f)))
      \/ \E payload : /\ r = Ok([f EXCEPT !.frame_type = WithPayload(t, payload)], <<>>)
                      /\ Lost(payload, PayloadOf(t), k)
  BY <1>4, <1>6, <1>7
<1> QED BY <1>8 DEF r, t

LEMMA WholeReceived ==
  ASSUME NEW f \in Frames, Allowed(f), NEW e, NEW w, IsPacked(w, f, e), NEW data,
         Lost(data, w, 0), ~(e = "own" /\ IsAssociationRequest(f))
  PROVE  UnpackFrame(data) = Ok(f, <<>>)
<1>1. ~(0 > 0)
  OBVIOUS
<1>2. PICK payload :
        /\ UnpackFrame(data)
             = Ok([f EXCEPT !.frame_type = WithPayload(f.frame_type, payload)], <<>>)
        /\ Lost(payload, PayloadOf(f.frame_type), 0)
  BY <1>1, Received, Zenon
<1>3. payload = PayloadOf(f.frame_type)
  BY <1>2, NothingLost
<1>4. WithPayload(f.frame_type, payload) = f.frame_type
  BY <1>3, FrameParts, PayloadFacts
<1>5. [f EXCEPT !.frame_type = f.frame_type] = f
  BY FrameParts
<1> QED BY <1>2, <1>4, <1>5

LEMMA CutReceived ==
  ASSUME NEW f \in Frames, Allowed(f), NEW e, NEW w, IsPacked(w, f, e),
         NEW k, k > 0, NEW data, Lost(data, w, k)
  PROVE  \/ UnpackFrame(data) = Err("NotEnoughData")
         \/ \E payload :
              /\ UnpackFrame(data)
                   = Ok([f EXCEPT !.frame_type = WithPayload(f.frame_type, payload)], <<>>)
              /\ PayloadOf(WithPayload(f.frame_type, payload)) = payload
              /\ IsStrictPrefix(payload, PayloadOf(f.frame_type))
<1> DEFINE t == f.frame_type
<1>1. ASSUME NEW payload, Lost(payload, PayloadOf(t), k)
      PROVE  /\ PayloadOf(WithPayload(t, payload)) = payload
             /\ IsStrictPrefix(payload, PayloadOf(t))
  <2> DEFINE p == PayloadOf(t)
             n == Len(payload)
  <2>1. /\ payload \in Bytes /\ p \in Bytes /\ k \in Nat /\ n \in Nat
        /\ Len(p) = n + k /\ \A i \in 1 .. n : payload[i] = p[i]
    BY <1>1, LenProperties DEF Lost, Bytes
  <2>2. t.tag # 3
    <3>1. p # <<>>
      <4>1. k # 0
        BY <2>1
      <4> QED BY <1>1, <4>1, NoBytes
    <3> QED BY <3>1, FrameParts, PayloadFacts
  <2>3. PayloadOf(WithPayload(t, payload)) = payload
    BY <2>2, FrameParts, PayloadFacts
  <2> HIDE DEF p, n
  <2>4. n \in 0 .. Len(p) /\ n # Len(p)
    BY <2>1
  <2>5. Lost(SubSeq(p, 1, n), p, Len(p) - n)
    BY <2>1, <2>4, CutLoses
  <2>6. SubSeq(p, 1, n) \in Bytes /\ Len(SubSeq(p, 1, n)) = n
        /\ \A i \in 1 .. n : SubSeq(p, 1, n)[i] = payload[i]
    <3> DEFINE q == SubSeq(p, 1, n)
    <3>1. q \in Bytes /\ Len(p) = Len(q) + (Len(p) - n) /\ \A i \in 1 .. Len(q) : q[i] = p[i]
      BY <2>5 DEF Lost
    <3>2. Len(q) \in Nat
      BY <3>1, LenProperties DEF Bytes
    <3> HIDE DEF q
    <3>3. Len(q) = n
      BY <2>1, <3>1, <3>2
    <3>4. \A i \in 1 .. n : q[i] = payload[i]
      BY <2>1, <3>1, <3>3
    <3> QED BY <3>1, <3>3, <3>4 DEF q
  <2>7. SubSeq(p, 1, n) = payload
    <3> DEFINE q == SubSeq(p, 1, n)
    <3>1. q \in Bytes /\ Len(q) = Len(payload) /\ \A i \in 1 .. Len(q) : q[i] = payload[i]
      BY <2>6 DEF n
    <3> HIDE DEF q
    <3>2. q = payload
      BY <2>1, <3>1, SeqEqual DEF Bytes
    <3> QED BY <3>2 DEF q
  <2>8. SubSeq(payload, 1, n) = payload
    BY <2>1, SubSeqFull DEF n, Bytes
  <2>9. n <= Len(p) /\ payload # p
    BY <2>4 DEF n
  <2>10. IsStrictPrefix(payload, p)
    BY <2>7, <2>8, <2>9 DEF IsStrictPrefix, IsPrefix, n
  <2> QED BY <2>3, <2>10 DEF p
<1>2. CASE UnpackFrame(data) = Err("NotEnoughData")
  BY <1>2
<1>3. ASSUME NEW payload, Lost(payload, PayloadOf(t), k),
             UnpackFrame(data) = Ok([f EXCEPT !.frame_type = WithPayload(t, payload)], <<>>)
      PROVE  \E p : /\ UnpackFrame(data) = Ok([f EXCEPT !.frame_type = WithPayload(t, p)], <<>>)
                    /\ PayloadOf(WithPayload(t, p)) = p
                    /\ IsStrictPrefix(p, PayloadOf(t))
  BY <1>1, <1>3
<1> QED BY <1>2, <1>3, Received, Zenon

-----------------------------------------------------------------------------
(* The specification.                                                       *)

\* The wire holds the frame's bytes, all of them unless it was cut, and a result
\* is what unpack makes of the wire.
CodecInv ==
  /\ frame \in Frames
  /\ encoding \in {"none", "refused", "own", "other"}
  /\ encoding \in {"none", "refused"} => result = {} /\ cut = FALSE
  /\ encoding \in {"own", "other"} =>
       /\ Allowed(frame)
       /\ \E w : /\ IsPacked(w, frame, encoding)
                 /\ \/ cut = FALSE /\ Lost(wire, w, 0)
                    \/ cut = TRUE /\ \E k : k > 0 /\ Lost(wire, w, k)
  /\ \A r \in result : r = UnpackFrame(wire)

LEMMA JustPacked ==
  ASSUME NEW f \in Frames, Allowed(f), NEW e \in {"own", "other"}, NEW w, IsPacked(w, f, e)
  PROVE  Lost(w, w, 0)
<1>1. w \in Bytes
  BY PackedBytes
<1>2. Len(w) \in Nat
  BY <1>1, LenProperties DEF Bytes
<1> QED BY <1>1, <1>2 DEF Lost

LEMMA OwnIsPacked ==
  ASSUME NEW f \in Frames
  PROVE  IsPacked(PackFrame(f), f, "own")
<1> DEFINE compression == PanIdCompression(f)
<1>1. compression \in BOOLEAN
  BY DEF PanIdCompression
<1>2. Control(f, compression, 0) = FrameControl(f, compression)
  <2>1. FrameControl(f, compression) \in Int
    <3> DEFINE tag == f.frame_type.tag
               b4 == Bit(f.frame_pending)
               b5 == Bit(f.acknowledge_request)
               b6 == Bit(compression)
               b8 == Bit(f.sequence_number = {})
               f10 == ModeOf(f.destination)
               f14 == ModeOf(f.source)
    <3>1. tag \in Int
      BY FrameParts, TypeKinds DEF PayloadTags
    <3>2. b4 \in Int /\ b5 \in Int /\ b6 \in Int /\ b8 \in Int
      BY DEF Bit
    <3>3. f10 \in Int /\ f14 \in Int
      BY FrameParts, ModeValue DEF Bits2
    <3>4. FrameControl(f, compression)
            = tag + b4 * 16 + b5 * 32 + b6 * 64 + b8 * 256 + f10 * 1024 + f14 * 16384
      BY DEF FrameControl
    <3> HIDE DEF tag, b4, b5, b6, b8, f10, f14, compression
    <3> QED BY <3>1, <3>2, <3>3, <3>4
  <2> HIDE DEF compression
  <2> QED BY <2>1 DEF Control
<1>3. PackFrame(f) = Assemble(f, Control(f, compression, 0), compression, PackContent(f.frame_type))
  BY <1>2 DEF PackFrame
<1> HIDE DEF compression
<1>4. compression => PanIdCompression(f)
  BY DEF compression
<1> QED BY <1>1, <1>3, <1>4 DEF IsPacked

LEMMA CodecInit == Init => CodecInv
  BY DEF Init, CodecInv

\* Each action keeps the invariant.
LEMMA CodecStep ==
  ASSUME CodecInv, [Next]_vars
  PROVE  CodecInv'
<1>1. CASE Pack
  <2>1. /\ frame' = frame /\ encoding' = "own" /\ cut' = cut /\ result' = result
        /\ wire' = PackFrame(frame) /\ Allowed(frame) /\ encoding = "none"
    BY <1>1 DEF Pack
  <2>2. frame \in Frames /\ result = {} /\ cut = FALSE
    BY <2>1 DEF CodecInv
  <2>3. IsPacked(wire', frame, "own")
    BY <2>1, <2>2, OwnIsPacked
  <2>4. Lost(wire', wire', 0)
    BY <2>1, <2>2, <2>3, JustPacked
  <2> QED BY <2>1, <2>2, <2>3, <2>4 DEF CodecInv
<1>2. CASE PackNotAllowed
  BY <1>2 DEF PackNotAllowed, CodecInv
<1>3. ASSUME NEW compression \in BOOLEAN, NEW extra \in {0, ReservedAndVersion},
             PackElsewhere(compression, extra)
      PROVE  CodecInv'
  <2>1. /\ frame' = frame /\ encoding' = "other" /\ cut' = cut /\ result' = result
        /\ wire' = Assemble(frame, Control(frame, compression, extra), compression,
                            OtherContent(frame.frame_type))
        /\ Allowed(frame) /\ encoding = "none"
        /\ compression => PanIdCompression(frame)
    BY <1>3 DEF PackElsewhere, Control
  <2>2. frame \in Frames /\ result = {} /\ cut = FALSE
    BY <2>1 DEF CodecInv
  <2>3. IsPacked(wire', frame, "other")
    BY <2>1 DEF IsPacked
  <2>4. Lost(wire', wire', 0)
    BY <2>1, <2>2, <2>3, JustPacked
  <2> QED BY <2>1, <2>2, <2>3, <2>4 DEF CodecInv
<1>4. ASSUME NEW n \in 0 .. Len(wire) - 1, Cut(n) PROVE CodecInv'
  <2>1. /\ frame' = frame /\ encoding' = encoding /\ cut' = TRUE /\ result' = result
        /\ wire' = SubSeq(wire, 1, n) /\ encoding \in {"own", "other"} /\ ~cut /\ result = {}
    BY <1>4 DEF Cut
  <2>2. /\ frame \in Frames /\ Allowed(frame)
        /\ \E w : IsPacked(w, frame, encoding) /\ Lost(wire, w, 0)
    BY <2>1 DEF CodecInv
  <2>3. PICK w : IsPacked(w, frame, encoding) /\ Lost(wire, w, 0)
    BY <2>2
  <2>4. wire = w /\ wire \in Bytes
    BY <2>3, NothingLost DEF Lost
  <2>5. n \in 0 .. Len(wire) /\ Len(wire) - n > 0
    BY <2>4, LenProperties DEF Bytes
  <2>6. Lost(wire', wire, Len(wire) - n)
    BY <2>1, <2>4, <2>5, CutLoses
  <2>7. \E k : k > 0 /\ Lost(wire', w, k)
    BY <2>4, <2>5, <2>6
  <2> QED BY <2>1, <2>2, <2>3, <2>7 DEF CodecInv
<1>5. CASE Unpack
  BY <1>5 DEF Unpack, CodecInv
<1>6. CASE UNCHANGED vars
  BY <1>6 DEF vars, CodecInv
<1> QED BY <1>1, <1>2, <1>3, <1>4, <1>5, <1>6 DEF Next

LEMMA CodecAlways == Spec => []CodecInv
<1>1. Init => CodecInv
  BY CodecInit
<1>2. CodecInv /\ [Next]_vars => CodecInv'
  BY CodecStep
<1> QED BY <1>1, <1>2, PTL DEF Spec

\* Frame::unpack returns every frame that Frame::pack or another stack wrote,
\* with each field as it was, whatever its addresses, orders and payload.
THEOREM FramesAreReceived == Spec => []ReceivedAsSent
<1>1. CodecInv => ReceivedAsSent
  <2> SUFFICES ASSUME CodecInv, NEW r \in result, ~cut,
                      ~(encoding = "own" /\ IsAssociationRequest(frame))
               PROVE  r.ok /\ r.value = frame /\ r.rest = <<>>
    BY DEF ReceivedAsSent
  <2>1. encoding \in {"own", "other"} /\ r = UnpackFrame(wire) /\ frame \in Frames
    BY DEF CodecInv
  <2>2. Allowed(frame) /\ \E w : IsPacked(w, frame, encoding) /\ Lost(wire, w, 0)
    BY <2>1 DEF CodecInv
  <2>3. r = Ok(frame, <<>>)
    BY <2>1, <2>2, WholeReceived
  <2> QED BY <2>3, Outcomes
<1> QED BY <1>1, CodecAlways, PTL

\* A frame that lost any number of its last bytes is refused for want of data, or
\* is the frame with a shorter payload: unpack never takes one field's bytes for
\* another's.
THEOREM CutsAreNoticed == Spec => []CutIsNoticed
<1>1. CodecInv => CutIsNoticed
  <2> SUFFICES ASSUME CodecInv, NEW r \in result, cut
               PROVE  IF r.ok
                      THEN /\ r.value = [frame EXCEPT !.frame_type =
                                           WithPayload(@, PayloadOf(r.value.frame_type))]
                           /\ IsStrictPrefix(PayloadOf(r.value.frame_type),
                                             PayloadOf(frame.frame_type))
                      ELSE r.error = "NotEnoughData"
    BY DEF CutIsNoticed
  <2>1. encoding \in {"own", "other"} /\ r = UnpackFrame(wire) /\ frame \in Frames
    BY DEF CodecInv
  <2>2. Allowed(frame) /\ \E w : IsPacked(w, frame, encoding) /\ \E k : k > 0 /\ Lost(wire, w, k)
    BY <2>1 DEF CodecInv
  <2>3. CASE r = Err("NotEnoughData")
    BY <2>3 DEF Err
  <2>4. ASSUME NEW payload,
               r = Ok([frame EXCEPT !.frame_type = WithPayload(frame.frame_type, payload)], <<>>),
               PayloadOf(WithPayload(frame.frame_type, payload)) = payload,
               IsStrictPrefix(payload, PayloadOf(frame.frame_type))
        PROVE  /\ r.ok
               /\ r.value = [frame EXCEPT !.frame_type =
                               WithPayload(@, PayloadOf(r.value.frame_type))]
               /\ IsStrictPrefix(PayloadOf(r.value.frame_type), PayloadOf(frame.frame_type))
    <3> DEFINE new == WithPayload(frame.frame_type, payload)
    <3>1. r.ok /\ r.value = [frame EXCEPT !.frame_type = new]
      BY <2>4, Outcomes
    <3>2. r.value.frame_type = new
      <4> HIDE DEF new
      <4> QED BY <2>1, <3>1, FrameParts
    <3>3. PayloadOf(r.value.frame_type) = payload
      BY <2>4, <3>2
    <3> QED BY <2>4, <3>1, <3>3
  <2> QED BY <2>1, <2>2, <2>3, <2>4, CutReceived
<1> QED BY <1>1, CodecAlways, PTL
=============================================================================
