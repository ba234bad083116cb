--------------------------- MODULE RxStreamProofs ---------------------------
(***************************************************************************)
(* A theorem about the receive path, for every value of the constants:     *)
(* whatever bytes a server sends and however TCP cuts them.                *)
(***************************************************************************)
EXTENDS RxStream, SequenceTheorems, TLAPS

LEMMA BytesType == ASSUME NEW f \in Frames PROVE Bytes(f) \in Seq(Byte)
<1> DEFINE high(n) == n \div 256
           low(n) == n % 256
<1>1. f.tid \in Word /\ f.len \in Word /\ f.pdu \in Seq(Byte)
  BY StreamAssumption
<1>2. \A n \in Word : high(n) \in Byte /\ low(n) \in Byte
  <2> SUFFICES ASSUME NEW n \in Word PROVE high(n) \in Byte /\ low(n) \in Byte
    OBVIOUS
  <2>1. n \in Nat /\ n < 256 * 256
    BY DEF Word
  <2>2. n \div 256 \in 0 .. 255 /\ n % 256 \in 0 .. 255
    BY <2>1
  <2> QED
    BY <2>2 DEF Byte
<1>3. 0 \in Byte /\ 1 \in Byte
  BY DEF Byte
<1> HIDE DEF high, low
<1>4. <<high(f.tid), low(f.tid), 0, 0, high(f.len), low(f.len), 1>> \in Seq(Byte)
  <2>1. high(f.tid) \in Byte /\ low(f.tid) \in Byte /\ high(f.len) \in Byte /\ low(f.len) \in Byte
    BY <1>1, <1>2
  <2> QED
    BY <1>3, <2>1
<1>5. <<high(f.tid), low(f.tid), 0, 0, high(f.len), low(f.len), 1>> \o f.pdu \in Seq(Byte)
  BY <1>1, <1>4, ConcatProperties
<1> QED
  BY <1>5 DEF Bytes, high, low

\* A piece of a sequence of bytes, with the length that it should have.
LEMMA PieceType ==
    ASSUME NEW seq \in Seq(Byte), NEW m \in 1 .. Len(seq) + 1, NEW n \in 0 .. Len(seq),
           m <= n + 1
    PROVE  /\ SubSeq(seq, m, n) \in Seq(Byte)
           /\ Len(SubSeq(seq, m, n)) = n - m + 1
           /\ \A i \in 1 .. n - m + 1 : SubSeq(seq, m, n)[i] = seq[m + i - 1]
<1>1. Len(seq) \in Nat /\ \A i \in 1 .. Len(seq) : seq[i] \in Byte
  BY ElementOfSeq
<1> QED
  BY <1>1, SubSeqProperties

LEMMA InitType == Init => TypeOK
<1>1. <<>> \in Seq(Byte) /\ <<>> \in Seq(Frames) /\ <<>> \in Seq(ADU) /\ <<>> \in Seq(Seq(Byte))
  BY EmptySeq
<1>2. 0 \in Word
  BY DEF Word
<1> QED
  BY <1>1, <1>2 DEF Init, TypeOK

\* What handle_frame_() is called with, and what it hands on (91-118, 170).
LEMMA DispatchType == ASSUME TypeOK, Dispatch PROVE TypeOK'
<1> DEFINE frame == SubSeq(rx, 1, FrameLen)
           rest == SubSeq(rx, FrameLen + 1, Len(rx))
<1>1. rx \in Seq(Byte) /\ Len(rx) \in Nat /\ Len(rx) >= 7 /\ Len(rx) >= FrameLen
  <2>1. rx \in Seq(Byte)
    BY Zenon DEF TypeOK
  <2>2. Len(rx) >= 7 /\ Len(rx) >= FrameLen
    BY DEF Dispatch, HasHeader, MBAPHeaderLen
  <2> QED
    BY <2>1, <2>2
<1>2. rx[5] \in Byte /\ rx[6] \in Byte
  BY <1>1, ElementOfSeq
<1>3. FrameLen \in 7 .. MaxFrameLen
  <2>1. rx[5] \in Nat /\ rx[6] \in Nat
    BY <1>2 DEF Byte
  <2>2. LengthField \in Nat
    BY <2>1 DEF LengthField
  <2>3. LengthField # 0 /\ ~(FrameLen > MaxFrameLen)
    BY DEF Dispatch, Implausible
  <2>4. MaxFrameLen \in Nat
    BY DEF MaxFrameLen
  <2> QED
    BY <2>2, <2>3, <2>4 DEF FrameLen
<1>4. /\ frame \in Seq(Byte) /\ Len(frame) = FrameLen
      /\ \A i \in 1 .. FrameLen : frame[i] = rx[i]
  <2>1. 1 \in 1 .. Len(rx) + 1 /\ FrameLen \in 0 .. Len(rx) /\ 1 <= FrameLen + 1
    BY <1>1, <1>3
  <2> QED
    BY <1>1, <1>3, <2>1, PieceType
<1>5. rest \in Seq(Byte)
  <2>1. FrameLen + 1 \in 1 .. Len(rx) + 1 /\ Len(rx) \in 0 .. Len(rx)
    BY <1>1, <1>3
  <2> QED
    BY <1>1, <1>3, <2>1, PieceType
<1>6. rx' = rest /\ HandleFrame(frame)
  BY DEF Dispatch
<1> HIDE DEF frame, rest
<1>7. frame \in ADU
  <2>1. frame[5] = rx[5] /\ frame[6] = rx[6]
    BY <1>3, <1>4
  <2>2. rx[5] \in Nat /\ rx[6] \in Nat
    BY <1>2 DEF Byte
  <2>3. Len(frame) = 6 + frame[5] * 256 + frame[6]
    BY <1>4, <2>1, <2>2 DEF FrameLen, LengthField
  <2>4. Len(frame) \in MBAPHeaderLen .. MaxFrameLen
    BY <1>3, <1>4 DEF MBAPHeaderLen
  <2> QED
    BY <1>4, <2>3, <2>4 DEF ADU
<1>8. handled' \in Seq(ADU)
  BY <1>6, <1>7, AppendProperties DEF HandleFrame, TypeOK
<1>9. delivered' \in Seq(Seq(Byte))
  <2>1. ASSUME Accepts(frame) PROVE Data(frame) \in Seq(Byte)
    <3>1. Len(frame) \in Nat /\ Len(frame) >= 9 /\ 9 + frame[9] <= Len(frame)
      BY <1>3, <1>4, <2>1 DEF Accepts
    <3>2. frame[9] \in Nat
      <4>1. frame[9] \in Byte
        BY <1>4, <3>1, ElementOfSeq
      <4> QED
        BY <4>1 DEF Byte
    <3>3. 10 \in 1 .. Len(frame) + 1 /\ 9 + frame[9] \in 0 .. Len(frame)
          /\ 10 <= 9 + frame[9] + 1
      BY <3>1, <3>2
    <3> QED
      BY <1>4, <3>3, PieceType DEF Data
  <2>2. delivered \in Seq(Seq(Byte))
    BY DEF TypeOK
  <2> QED
    BY <1>6, <2>1, <2>2, AppendProperties DEF HandleFrame
<1> QED
  BY <1>5, <1>6, <1>8, <1>9 DEF Dispatch, TypeOK

LEMMA HandleMessageType == ASSUME TypeOK, HandleMessage PROVE TypeOK'
<1>1. PICK n \in 1 .. Len(stream) :
        /\ rx' = rx \o SubSeq(stream, 1, n)
        /\ stream' = SubSeq(stream, n + 1, Len(stream))
  BY DEF HandleMessage
<1>2. stream \in Seq(Byte) /\ rx \in Seq(Byte) /\ Len(stream) \in Nat
  BY DEF TypeOK
<1>3. 1 \in 1 .. Len(stream) + 1 /\ n \in 0 .. Len(stream) /\ 1 <= n + 1
  BY <1>2
<1>4. n + 1 \in 1 .. Len(stream) + 1 /\ Len(stream) \in 0 .. Len(stream) /\ n + 1 <= Len(stream) + 1
  BY <1>2
<1>5. SubSeq(stream, 1, n) \in Seq(Byte)
  BY <1>2, <1>3, PieceType
<1>6. stream' \in Seq(Byte)
  BY <1>1, <1>2, <1>4, PieceType
<1>7. rx' \in Seq(Byte)
  BY <1>1, <1>2, <1>5, ConcatProperties
<1> QED
  BY <1>6, <1>7 DEF HandleMessage, TypeOK

LEMMA NextType == TypeOK /\ [Next]_vars => TypeOK'
<1> SUFFICES ASSUME TypeOK, [Next]_vars PROVE TypeOK'
  OBVIOUS
<1>1. <<>> \in Seq(Byte) /\ <<>> \in Seq(Frames) /\ <<>> \in Seq(ADU) /\ <<>> \in Seq(Seq(Byte))
  BY EmptySeq
<1>2. CASE Discard
  BY <1>1, <1>2 DEF Discard, TypeOK
<1>3. CASE Reconnect
  BY <1>1, <1>3 DEF Reconnect, TypeOK
<1>4. CASE SendRequest
  BY <1>4, StreamAssumption DEF SendRequest, TypeOK
<1>5. ASSUME NEW f \in Frames, ServerSends(f) PROVE TypeOK'
  <2>1. stream' \in Seq(Byte)
    BY <1>5, BytesType, ConcatProperties DEF ServerSends, TypeOK
  <2>2. sent' \in Seq(Frames)
    BY <1>5, AppendProperties DEF ServerSends, TypeOK
  <2> QED
    BY <1>5, <2>1, <2>2 DEF ServerSends, TypeOK
<1>6. CASE UNCHANGED vars
  BY <1>6 DEF vars, TypeOK
<1> QED
  BY <1>2, <1>3, <1>4, <1>5, <1>6, DispatchType, HandleMessageType DEF Next

\* Whatever bytes come in, in whatever pieces, and on however many connections:
\* process_buffer_() calls handle_frame_() with one whole frame of 7 to 260 bytes,
\* and what handle_frame_() hands on lies inside that frame.
THEOREM FramesAreWhole == Spec => []TypeOK
  BY InitType, NextType, PTL DEF Spec

-----------------------------------------------------------------------------
(* Frames on a good connection.                                            *)

LEMMA WordIsNat == ASSUME NEW n \in Word PROVE n \in Nat
  BY DEF Word

High(n) == n \div 256
Low(n) == n % 256

LEMMA HighLow ==
    ASSUME NEW n \in Nat, NEW high, high = n \div 256, NEW low, low = n % 256
    PROVE  high \in Int /\ low \in Int /\ high * 256 + low = n
  OBVIOUS

LEMMA TwoBytes ==
    ASSUME NEW n \in Word
    PROVE  High(n) \in Int /\ Low(n) \in Int /\ High(n) * 256 + Low(n) = n
<1>1. n \in Nat /\ High(n) = n \div 256 /\ Low(n) = n % 256
  BY WordIsNat DEF High, Low
<1> QED
  BY <1>1, HighLow

LEMMA BytesFacts ==
    ASSUME NEW f \in Frames
    PROVE  /\ f.tid \in Word /\ f.len \in Word /\ f.pdu \in Seq(Byte) /\ Len(f.pdu) \in Nat
           /\ Bytes(f) \in Seq(Byte) /\ Len(Bytes(f)) = 7 + Len(f.pdu)
           /\ Bytes(f)[1] * 256 + Bytes(f)[2] = f.tid
           /\ Bytes(f)[5] * 256 + Bytes(f)[6] = f.len
           /\ \A k \in 1 .. Len(f.pdu) : Bytes(f)[7 + k] = f.pdu[k]
<1>1. f.tid \in Word /\ f.len \in Word /\ f.pdu \in Seq(Byte) /\ Len(f.pdu) \in Nat
  BY StreamAssumption, LenProperties
<1> DEFINE t1 == High(f.tid)
           t2 == Low(f.tid)
           l1 == High(f.len)
           l2 == Low(f.len)
           header == <<t1, t2, 0, 0, l1, l2, 1>>
<1>2. t1 * 256 + t2 = f.tid /\ l1 * 256 + l2 = f.len /\ t1 \in Int /\ t2 \in Int /\ l1 \in Int /\ l2 \in Int
  BY <1>1, TwoBytes
<1> HIDE DEF t1, t2, l1, l2
<1>3. /\ header \in Seq(Int) /\ Len(header) = 7
      /\ header[1] = t1 /\ header[2] = t2 /\ header[5] = l1 /\ header[6] = l2
  BY <1>2
<1>4. f.pdu \in Seq(Int)
  <2>1. f.pdu \in [1 .. Len(f.pdu) -> Byte]
    BY <1>1, LenProperties
  <2>2. Byte \subseteq Int
    BY DEF Byte
  <2>3. f.pdu \in [1 .. Len(f.pdu) -> Int]
    BY <2>1, <2>2
  <2> QED
    BY <1>1, <2>3, SeqDef
<1>5. Bytes(f) = header \o f.pdu
  BY DEF Bytes, High, Low, t1, t2, l1, l2
<1> HIDE DEF header
<1>6. /\ Len(Bytes(f)) = 7 + Len(f.pdu)
      /\ \A i \in 1 .. 7 + Len(f.pdu) :
           Bytes(f)[i] = IF i <= 7 THEN header[i] ELSE f.pdu[i - 7]
  <2> DEFINE all == header \o f.pdu
  <2>1. /\ Len(all) = Len(header) + Len(f.pdu)
        /\ \A i \in 1 .. Len(header) + Len(f.pdu) :
             all[i] = IF i <= Len(header) THEN header[i] ELSE f.pdu[i - Len(header)]
    BY <1>3, <1>4, ConcatProperties
  <2>2. Bytes(f) = all
    BY <1>5
  <2> HIDE DEF all
  <2> QED
    BY <1>3, <2>1, <2>2
<1>7. Bytes(f)[1] = t1 /\ Bytes(f)[2] = t2 /\ Bytes(f)[5] = l1 /\ Bytes(f)[6] = l2
  BY <1>1, <1>3, <1>6
<1>8. ASSUME NEW k \in 1 .. Len(f.pdu) PROVE Bytes(f)[7 + k] = f.pdu[k]
  <2>1. 7 + k \in 1 .. 7 + Len(f.pdu) /\ ~(7 + k <= 7) /\ 7 + k - 7 = k
    BY <1>1
  <2> QED
    BY <1>6, <2>1
<1> QED
  BY <1>1, <1>2, <1>6, <1>7, <1>8, BytesType

\* The bytes that are still to be handled, those in rx_buffer_ first.
Total == Len(rx) + Len(stream)
At(k) == IF k <= Len(rx) THEN rx[k] ELSE stream[k - Len(rx)]

\* They are the frames that have been sent and not handled, cut at these places.
Cuts(cut) ==
    /\ cut[Len(handled)] = 0 /\ cut[Len(sent)] = Total
    /\ \A i, j \in Len(handled) .. Len(sent) : i <= j => cut[i] <= cut[j]
    /\ \A i \in Len(handled) + 1 .. Len(sent) :
         /\ cut[i] = cut[i - 1] + Len(Bytes(sent[i]))
         /\ \A j \in 1 .. Len(Bytes(sent[i])) : At(cut[i - 1] + j) = Bytes(sent[i])[j]

WireInv ==
    Good => /\ Len(handled) <= Len(sent)
            /\ \A i \in 1 .. Len(handled) : handled[i] = Bytes(sent[i])
            /\ \E cut \in [Len(handled) .. Len(sent) -> Nat] : Cuts(cut)

LEMMA WireTypes ==
    ASSUME TypeOK
    PROVE  /\ Len(rx) \in Nat /\ Len(stream) \in Nat /\ Len(sent) \in Nat /\ Len(handled) \in Nat
           /\ \A i \in 1 .. Len(sent) : sent[i] \in Frames
           /\ rx \in Seq(Byte) /\ stream \in Seq(Byte)
  BY LenProperties, ElementOfSeq DEF TypeOK

\* When the bytes of the next frame have come, the loop takes them for one.
LEMMA NextFrame ==
    ASSUME TypeOK, WireInv, Good, HasHeader
    PROVE  LET f == sent[Len(handled) + 1]
           IN  /\ Len(handled) + 1 \in 1 .. Len(sent) /\ f \in Frames
               /\ ~Implausible /\ FrameLen = Len(Bytes(f)) /\ FrameLen \in Nat
               /\ Len(rx) >= FrameLen => SubSeq(rx, 1, FrameLen) = Bytes(f)
<1> DEFINE n == Len(handled)
           f == sent[n + 1]
<1>1. PICK cut \in [n .. Len(sent) -> Nat] : Cuts(cut)
  BY DEF WireInv
<1>2. /\ Len(rx) \in Nat /\ Len(stream) \in Nat /\ Len(sent) \in Nat /\ n \in Nat
      /\ n <= Len(sent) /\ Len(rx) >= 7
  BY WireTypes DEF WireInv, HasHeader, MBAPHeaderLen
<1>3. n + 1 \in 1 .. Len(sent)
  <2>1. cut[n] = 0 /\ cut[Len(sent)] = Len(rx) + Len(stream)
    BY <1>1 DEF Cuts, Total
  <2> QED
    BY <1>2, <2>1
<1>4. f \in Frames /\ WellFormed(f)
  BY <1>3, WireTypes DEF Good
<1> HIDE DEF f
<1>5. \A j \in 1 .. Len(Bytes(f)) : j <= Len(rx) => rx[j] = Bytes(f)[j]
  <2>1. n + 1 \in n + 1 .. Len(sent) /\ n + 1 - 1 = n
    BY <1>2, <1>3
  <2>2. \A j \in 1 .. Len(Bytes(f)) : At(cut[n] + j) = Bytes(f)[j]
    BY <1>1, <2>1 DEF Cuts, f
  <2>3. cut[n] = 0
    BY <1>1 DEF Cuts
  <2>4. Len(Bytes(f)) \in Nat
    BY <1>4, BytesFacts
  <2> SUFFICES ASSUME NEW j \in 1 .. Len(Bytes(f)), j <= Len(rx) PROVE rx[j] = Bytes(f)[j]
    OBVIOUS
  <2>5. cut[n] + j = j
    BY <2>3, <2>4
  <2> QED
    BY <2>2, <2>5 DEF At
<1>6. /\ f.len \in Nat /\ f.len = 1 + Len(f.pdu) /\ Len(f.pdu) \in Nat
      /\ Len(Bytes(f)) = 7 + Len(f.pdu) /\ Len(Bytes(f)) <= MaxFrameLen
      /\ Bytes(f)[5] * 256 + Bytes(f)[6] = f.len
  <2>1. f.len \in Nat
    BY <1>4, BytesFacts, WordIsNat
  <2> QED
    BY <1>4, <2>1, BytesFacts DEF WellFormed
<1>7. rx[5] = Bytes(f)[5] /\ rx[6] = Bytes(f)[6]
  <2>1. 5 \in 1 .. Len(Bytes(f)) /\ 6 \in 1 .. Len(Bytes(f)) /\ 5 <= Len(rx) /\ 6 <= Len(rx)
    BY <1>2, <1>6
  <2> QED
    BY <1>5, <2>1
<1>8. LengthField = f.len
  BY <1>6, <1>7 DEF LengthField
<1>9. FrameLen = Len(Bytes(f)) /\ FrameLen \in Nat /\ ~Implausible
  <2>1. FrameLen = Len(Bytes(f)) /\ FrameLen \in Nat /\ LengthField # 0
    BY <1>6, <1>8 DEF FrameLen
  <2>2. ~(FrameLen > MaxFrameLen)
    BY <1>6, <2>1 DEF MaxFrameLen
  <2> QED
    BY <2>1, <2>2 DEF Implausible
<1>10. ASSUME Len(rx) >= FrameLen PROVE SubSeq(rx, 1, FrameLen) = Bytes(f)
  <2> DEFINE frame == SubSeq(rx, 1, FrameLen)
  <2>1. 1 \in 1 .. Len(rx) + 1 /\ FrameLen \in 0 .. Len(rx) /\ 1 <= FrameLen + 1
    BY <1>2, <1>9, <1>10
  <2>2. /\ frame \in Seq(Byte) /\ Len(frame) = FrameLen
        /\ \A i \in 1 .. FrameLen : frame[i] = rx[i]
    BY <1>9, <2>1, WireTypes, PieceType
  <2>3. Bytes(f) \in Seq(Byte)
    BY <1>4, BytesFacts
  <2> HIDE DEF frame
  <2>4. \A i \in 1 .. Len(frame) : frame[i] = Bytes(f)[i]
    BY <1>2, <1>5, <1>9, <1>10, <2>2
  <2> QED
    BY <1>9, <2>2, <2>3, <2>4, SeqEqual DEF frame
<1> QED
  BY <1>3, <1>4, <1>9, <1>10 DEF f

\* The frame that is taken out is the next one, and what stays behind it are the
\* others.
LEMMA DispatchWire == ASSUME TypeOK, WireInv, Good, Dispatch PROVE WireInv'
<1>a. PICK n, m, f, l : n = Len(handled) /\ m = Len(sent) /\ f = sent[n + 1] /\ l = FrameLen
  OBVIOUS
<1>1. /\ n + 1 \in 1 .. m /\ f \in Frames /\ l = Len(Bytes(f)) /\ l \in Nat
      /\ Len(rx) >= l => SubSeq(rx, 1, l) = Bytes(f)
  BY <1>a, NextFrame DEF Dispatch
<1>2. Len(rx) \in Nat /\ Len(stream) \in Nat /\ m \in Nat /\ n \in Nat /\ n < m /\ rx \in Seq(Byte)
  BY <1>a, <1>1, WireTypes
<1>3. /\ Len(rx) >= l /\ SubSeq(rx, 1, l) = Bytes(f) /\ stream' = stream /\ sent' = sent
      /\ handled' = Append(handled, Bytes(f)) /\ rx' = SubSeq(rx, l + 1, Len(rx))
      /\ clean' = clean
  BY <1>a, <1>1 DEF Dispatch, HandleFrame
<1>4. /\ Len(handled') = n + 1 /\ handled'[n + 1] = Bytes(f)
      /\ \A i \in 1 .. n : handled'[i] = handled[i]
  BY <1>a, <1>3, AppendProperties DEF TypeOK
<1>5. Len(rx') = Len(rx) - l /\ \A k \in 1 .. Len(rx) - l : rx'[k] = rx[l + k]
  <2>1. l + 1 \in 1 .. Len(rx) + 1 /\ Len(rx) \in 0 .. Len(rx) /\ l + 1 <= Len(rx) + 1
    BY <1>1, <1>2, <1>3
  <2>2. Len(rx) - (l + 1) + 1 = Len(rx) - l /\ \A k \in 1 .. Len(rx) - l : l + 1 + k - 1 = l + k
    BY <1>1, <1>2
  <2>3. /\ Len(rx') = Len(rx) - (l + 1) + 1
        /\ \A k \in 1 .. Len(rx) - (l + 1) + 1 : rx'[k] = rx[l + 1 + k - 1]
    BY <1>2, <1>3, <2>1, PieceType
  <2> QED
    BY <2>2, <2>3
<1>6. Total' = Total - l /\ \A k \in 1 .. Total - l : At(k)' = At(k + l)
  <2>1. Total' = Total - l
    <3>1. stream' = stream /\ Len(rx') = Len(rx) - l
      BY <1>3, <1>5
    <3>2. Len(stream') = Len(stream)
      BY <3>1
    <3> QED
      BY <1>1, <1>2, <3>1, <3>2 DEF Total
  <2> SUFFICES ASSUME NEW k \in 1 .. Total - l PROVE At(k)' = At(k + l)
    BY <2>1
  <2>2. k \in Nat /\ k >= 1
    BY <1>1, <1>2 DEF Total
  <2>3. CASE k <= Len(rx')
    <3>1. k \in 1 .. Len(rx) - l /\ k + l <= Len(rx) /\ l + k = k + l
      BY <1>1, <1>2, <1>5, <2>2, <2>3
    <3> QED
      BY <1>5, <2>3, <3>1 DEF At
  <2>4. CASE ~(k <= Len(rx'))
    <3>1. ~(k + l <= Len(rx)) /\ k - Len(rx') = k + l - Len(rx)
      BY <1>1, <1>2, <1>5, <2>2, <2>4
    <3>2. stream'[k - Len(rx')] = stream[k + l - Len(rx)]
      BY <1>3, <3>1
    <3>3. At(k)' = stream'[k - Len(rx')]
      BY <2>4 DEF At
    <3>4. At(k + l) = stream[k + l - Len(rx)]
      BY <1>1, <1>2, <2>2, <3>1 DEF At
    <3> QED
      BY <3>2, <3>3, <3>4
  <2> QED
    BY <2>3, <2>4
<1>7. PICK cut \in [n .. m -> Nat] : Cuts(cut)
  BY <1>a DEF WireInv
<1>8. cut[n] = 0 /\ cut[m] = Total /\ cut[n + 1] = l
      /\ \A i, j \in n .. m : i <= j => cut[i] <= cut[j]
  <2>1. n + 1 \in n + 1 .. m /\ n + 1 - 1 = n
    BY <1>1, <1>2
  <2>2. cut[n] = 0 /\ cut[m] = Total /\ cut[n + 1] = cut[n] + Len(Bytes(f))
        /\ \A i, j \in n .. m : i <= j => cut[i] <= cut[j]
    BY <1>a, <1>7, <2>1 DEF Cuts
  <2> QED
    BY <1>1, <2>2
<1>b. PICK next : next = [i \in n + 1 .. m |-> cut[i] - l]
  OBVIOUS
<1>9. \A i \in n + 1 .. m : /\ i \in n .. m /\ cut[i] \in Nat /\ l <= cut[i] /\ cut[i] <= Total
                            /\ next[i] = cut[i] - l
  <2> SUFFICES ASSUME NEW i \in n + 1 .. m
               PROVE  /\ i \in n .. m /\ cut[i] \in Nat /\ l <= cut[i] /\ cut[i] <= Total
    BY <1>b
  <2>1. i \in n .. m /\ n + 1 \in n .. m /\ m \in n .. m /\ n + 1 <= i /\ i <= m
    BY <1>2
  <2> QED
    BY <1>8, <2>1
<1>10. next \in [n + 1 .. m -> Nat]
  BY <1>1, <1>9, <1>b
<1>11. ASSUME NEW i \in n + 1 + 1 .. m
       PROVE  /\ next[i] = next[i - 1] + Len(Bytes(sent[i]))
              /\ \A j \in 1 .. Len(Bytes(sent[i])) : At(next[i - 1] + j)' = Bytes(sent[i])[j]
  <2>1. i \in n + 1 .. m /\ i - 1 \in n + 1 .. m /\ i \in 1 .. m
    BY <1>2
  <2>2. /\ cut[i] = cut[i - 1] + Len(Bytes(sent[i]))
        /\ \A j \in 1 .. Len(Bytes(sent[i])) : At(cut[i - 1] + j) = Bytes(sent[i])[j]
    BY <1>a, <1>7, <2>1 DEF Cuts
  <2>3. sent[i] \in Frames /\ Len(Bytes(sent[i])) \in Nat
    <3>1. sent[i] \in Frames
      BY <1>a, <2>1, WireTypes
    <3> QED
      BY <3>1, BytesFacts
  <2>4. /\ cut[i] \in Nat /\ cut[i - 1] \in Nat /\ l <= cut[i - 1] /\ cut[i] <= Total
        /\ next[i] = cut[i] - l /\ next[i - 1] = cut[i - 1] - l
    BY <1>9, <2>1
  <2>5. ASSUME NEW j \in 1 .. Len(Bytes(sent[i]))
        PROVE  At(next[i - 1] + j)' = Bytes(sent[i])[j]
    <3>1. next[i - 1] + j \in 1 .. Total - l /\ next[i - 1] + j + l = cut[i - 1] + j
      <4>1. Total \in Nat
        BY <1>2 DEF Total
      <4>2. cut[i - 1] + j <= Total /\ j \in Nat /\ j >= 1
        BY <2>2, <2>3, <2>4, <4>1
      <4>3. next[i - 1] \in Nat /\ next[i - 1] + l = cut[i - 1]
        BY <1>1, <2>4
      <4>4. next[i - 1] + j + l = cut[i - 1] + j
        BY <1>1, <4>2, <4>3
      <4>5. next[i - 1] + j \in Nat /\ next[i - 1] + j >= 1 /\ next[i - 1] + j + l <= Total
        BY <4>2, <4>3, <4>4
      <4> QED
        BY <1>1, <4>1, <4>4, <4>5
    <3>2. At(next[i - 1] + j)' = At(next[i - 1] + j + l)
      BY <1>6, <3>1
    <3> QED
      BY <2>2, <3>1, <3>2
  <2> QED
    BY <1>1, <2>2, <2>3, <2>4, <2>5
<1>12. Cuts(next)'
  <2>1. next[n + 1] = 0 /\ next[m] = Total'
    <3>1. n + 1 \in n + 1 .. m /\ m \in n + 1 .. m
      BY <1>2
    <3> QED
      BY <1>1, <1>6, <1>8, <1>9, <3>1
  <2>2. \A i, j \in n + 1 .. m : i <= j => next[i] <= next[j]
    BY <1>1, <1>8, <1>9
  <2>3. Len(handled') = n + 1 /\ Len(sent') = m /\ sent' = sent
    BY <1>a, <1>3, <1>4
  <2> QED
    BY <1>11, <2>1, <2>2, <2>3 DEF Cuts
<1>13. \A i \in 1 .. Len(handled') : handled'[i] = Bytes(sent'[i])
  <2>1. \A i \in 1 .. n : handled[i] = Bytes(sent[i])
    BY <1>a DEF WireInv
  <2>2. \A i \in 1 .. n + 1 : i \in 1 .. n \/ i = n + 1
    BY <1>2
  <2> QED
    BY <1>a, <1>3, <1>4, <2>1, <2>2
<1>14. next \in [Len(handled') .. Len(sent') -> Nat] /\ Len(handled') <= Len(sent')
  BY <1>a, <1>2, <1>3, <1>4, <1>10
<1> QED
  BY <1>12, <1>13, <1>14 DEF WireInv

\* Bytes that go from the stream to the buffer stay in their places.
LEMMA HandleMessageWire == ASSUME TypeOK, WireInv, Good, HandleMessage PROVE WireInv'
<1>1. PICK n \in 1 .. Len(stream) :
        /\ rx' = rx \o SubSeq(stream, 1, n)
        /\ stream' = SubSeq(stream, n + 1, Len(stream))
  BY DEF HandleMessage
<1>2. UNCHANGED <<sent, handled, clean>>
  BY DEF HandleMessage
<1>3. /\ Len(rx) \in Nat /\ Len(stream) \in Nat /\ rx \in Seq(Byte) /\ stream \in Seq(Byte)
      /\ n \in Nat /\ n >= 1 /\ n <= Len(stream)
  BY WireTypes
<1>4. PICK piece : piece = SubSeq(stream, 1, n)
  OBVIOUS
<1>5. /\ piece \in Seq(Byte) /\ Len(piece) = n
      /\ \A k \in 1 .. n : piece[k] = stream[k]
  <2>1. 1 \in 1 .. Len(stream) + 1 /\ n \in 0 .. Len(stream) /\ 1 <= n + 1
    BY <1>3
  <2> QED
    BY <1>3, <1>4, <2>1, PieceType
<1>6. /\ Len(rx') = Len(rx) + n
      /\ \A k \in 1 .. Len(rx) + n :
           rx'[k] = IF k <= Len(rx) THEN rx[k] ELSE piece[k - Len(rx)]
  <2>1. rx' = rx \o piece
    BY <1>1, <1>4
  <2> QED
    BY <1>3, <1>5, <2>1, ConcatProperties
<1>7. /\ Len(stream') = Len(stream) - n
      /\ \A k \in 1 .. Len(stream) - n : stream'[k] = stream[n + k]
  <2>1. n + 1 \in 1 .. Len(stream) + 1 /\ Len(stream) \in 0 .. Len(stream)
        /\ n + 1 <= Len(stream) + 1
    BY <1>3
  <2>2. Len(stream) - (n + 1) + 1 = Len(stream) - n
        /\ \A k \in 1 .. Len(stream) - n : n + 1 + k - 1 = n + k
    BY <1>3
  <2>3. /\ Len(stream') = Len(stream) - (n + 1) + 1
        /\ \A k \in 1 .. Len(stream) - (n + 1) + 1 : stream'[k] = stream[n + 1 + k - 1]
    BY <1>1, <1>3, <2>1, PieceType
  <2> QED
    BY <2>2, <2>3
<1>8. Total' = Total /\ Total \in Nat
  BY <1>3, <1>6, <1>7 DEF Total
<1>9. ASSUME NEW k \in 1 .. Total PROVE At(k)' = At(k)
  <2>1. k \in Nat /\ k >= 1 /\ k <= Len(rx) + Len(stream)
    BY <1>8 DEF Total
  <2>2. CASE k <= Len(rx)
    BY <1>3, <1>6, <2>1, <2>2 DEF At
  <2>3. CASE ~(k <= Len(rx)) /\ k <= Len(rx')
    <3>1. k \in 1 .. Len(rx) + n /\ k - Len(rx) \in 1 .. n
      BY <1>3, <1>6, <2>1, <2>3
    <3> QED
      BY <1>5, <1>6, <2>3, <3>1 DEF At
  <2>4. CASE ~(k <= Len(rx'))
    <3>1. k - Len(rx') \in 1 .. Len(stream) - n /\ n + (k - Len(rx')) = k - Len(rx)
          /\ ~(k <= Len(rx))
      BY <1>3, <1>6, <2>1, <2>4
    <3>2. stream'[k - Len(rx')] = stream[k - Len(rx)]
      BY <1>7, <3>1
    <3> QED
      BY <2>4, <3>1, <3>2 DEF At
  <2> QED
    BY <2>2, <2>3, <2>4
<1>10. PICK cut \in [Len(handled) .. Len(sent) -> Nat] : Cuts(cut)
  BY DEF WireInv
<1>11. Cuts(cut)'
  <2>1. ASSUME NEW i \in Len(handled) + 1 .. Len(sent), NEW j \in 1 .. Len(Bytes(sent[i]))
        PROVE  At(cut[i - 1] + j)' = At(cut[i - 1] + j)
    <3>1. /\ i \in Len(handled) .. Len(sent) /\ i - 1 \in Len(handled) .. Len(sent)
          /\ Len(sent) \in Len(handled) .. Len(sent) /\ i <= Len(sent) /\ i \in 1 .. Len(sent)
      BY WireTypes
    <3>2. /\ cut[i] = cut[i - 1] + Len(Bytes(sent[i])) /\ cut[i] <= Total
          /\ cut[i - 1] \in Nat
      BY <1>10, <3>1 DEF Cuts
    <3>3. Len(Bytes(sent[i])) \in Nat
      <4>1. sent[i] \in Frames
        BY <3>1, WireTypes
      <4> QED
        BY <4>1, BytesFacts
    <3>4. cut[i - 1] + j \in 1 .. Total
      BY <1>8, <3>2, <3>3
    <3> QED
      BY <1>9, <3>4
  <2> QED
    BY <1>2, <1>8, <1>10, <2>1 DEF Cuts
<1> QED
  BY <1>2, <1>10, <1>11 DEF WireInv

\* A frame that is sent comes behind all others.
LEMMA SendWire ==
    ASSUME TypeOK, WireInv, Good, NEW f \in Frames, ServerSends(f)
    PROVE  WireInv'
<1>a. PICK n, m : n = Len(handled) /\ m = Len(sent)
  OBVIOUS
<1>1. /\ stream' = stream \o Bytes(f) /\ sent' = Append(sent, f)
      /\ rx' = rx /\ handled' = handled
  BY DEF ServerSends
<1>2. /\ Len(rx) \in Nat /\ Len(stream) \in Nat /\ stream \in Seq(Byte) /\ n \in Nat /\ m \in Nat
      /\ n <= m
  BY <1>a, WireTypes DEF WireInv
<1>3. Bytes(f) \in Seq(Byte) /\ Len(Bytes(f)) \in Nat
  BY BytesFacts
<1>4. /\ Len(stream') = Len(stream) + Len(Bytes(f))
      /\ \A k \in 1 .. Len(stream) + Len(Bytes(f)) :
           stream'[k] = IF k <= Len(stream) THEN stream[k] ELSE Bytes(f)[k - Len(stream)]
  BY <1>1, <1>2, <1>3, ConcatProperties
<1>5. /\ Len(sent') = m + 1 /\ sent'[m + 1] = f
      /\ \A i \in 1 .. m : sent'[i] = sent[i]
  BY <1>a, <1>1, AppendProperties DEF TypeOK
<1>6. PICK total \in Nat : total = Total
  BY <1>2 DEF Total
<1>7. Total' = total + Len(Bytes(f))
  BY <1>1, <1>2, <1>3, <1>4, <1>6 DEF Total
<1>8. ASSUME NEW k \in 1 .. total PROVE At(k)' = At(k)
  <2>1. k \in Nat /\ k >= 1 /\ k <= Len(rx) + Len(stream)
    BY <1>6 DEF Total
  <2>2. CASE k <= Len(rx)
    BY <1>1, <2>2 DEF At
  <2>3. CASE ~(k <= Len(rx))
    <3>1. k - Len(rx) \in 1 .. Len(stream) + Len(Bytes(f)) /\ k - Len(rx) <= Len(stream)
      BY <1>2, <1>3, <2>1, <2>3
    <3>2. stream'[k - Len(rx)] = stream[k - Len(rx)]
      BY <1>4, <3>1
    <3> QED
      BY <1>1, <2>3, <3>2 DEF At
  <2> QED
    BY <2>2, <2>3
<1>9. ASSUME NEW j \in 1 .. Len(Bytes(f)) PROVE At(total + j)' = Bytes(f)[j]
  <2>1. PICK k : k = total + j
    OBVIOUS
  <2>2. /\ k \in Nat /\ ~(k <= Len(rx)) /\ k - Len(rx) \in 1 .. Len(stream) + Len(Bytes(f))
        /\ ~(k - Len(rx) <= Len(stream)) /\ k - Len(rx) - Len(stream) = j
    BY <1>2, <1>3, <1>6, <2>1 DEF Total
  <2>3. stream'[k - Len(rx)] = Bytes(f)[j]
    BY <1>4, <2>2
  <2>4. At(k)' = Bytes(f)[j]
    BY <1>1, <2>2, <2>3 DEF At
  <2> QED
    BY <2>1, <2>4
<1>10. PICK cut \in [n .. m -> Nat] : Cuts(cut)
  BY <1>a DEF WireInv
<1>11. cut[n] = 0 /\ cut[m] = total /\ \A i, j \in n .. m : i <= j => cut[i] <= cut[j]
  BY <1>a, <1>6, <1>10 DEF Cuts
<1>12. PICK next : next = [i \in n .. m + 1 |-> IF i <= m THEN cut[i] ELSE total + Len(Bytes(f))]
  OBVIOUS
<1>13. /\ next \in [n .. m + 1 -> Nat]
       /\ \A i \in n .. m : next[i] = cut[i] /\ cut[i] \in Nat /\ cut[i] <= total
       /\ next[m + 1] = total + Len(Bytes(f))
  <2>1. \A i \in n .. m : i \in n .. m + 1 /\ i <= m /\ cut[i] \in Nat /\ cut[i] <= total
    BY <1>2, <1>11
  <2>2. m + 1 \in n .. m + 1 /\ ~(m + 1 <= m) /\ total + Len(Bytes(f)) \in Nat
    BY <1>2, <1>3
  <2>3. \A i \in n .. m + 1 : i <= m => i \in n .. m
    BY <1>2
  <2> QED
    BY <1>12, <2>1, <2>2, <2>3
<1>14. \A i, j \in n .. m + 1 : i <= j => next[i] <= next[j]
  <2> SUFFICES ASSUME NEW i \in n .. m + 1, NEW j \in n .. m + 1, i <= j
               PROVE  next[i] <= next[j]
    OBVIOUS
  <2>1. (i \in n .. m \/ i = m + 1) /\ (j \in n .. m \/ j = m + 1)
        /\ (j \in n .. m => i \in n .. m)
    BY <1>2
  <2>2. CASE j \in n .. m
    BY <1>11, <1>13, <2>1, <2>2
  <2>3. CASE j = m + 1
    BY <1>3, <1>13, <2>1, <2>3
  <2> QED
    BY <2>1, <2>2, <2>3
<1>15. ASSUME NEW i \in n + 1 .. m + 1
       PROVE  /\ next[i] = next[i - 1] + Len(Bytes(sent'[i]))
              /\ \A j \in 1 .. Len(Bytes(sent'[i])) : At(next[i - 1] + j)' = Bytes(sent'[i])[j]
  <2>1. CASE i \in n + 1 .. m
    <3>1. i \in n .. m /\ i - 1 \in n .. m /\ i \in 1 .. m
      BY <1>2, <2>1
    <3>2. /\ sent'[i] = sent[i] /\ next[i] = cut[i] /\ next[i - 1] = cut[i - 1]
          /\ cut[i] <= total /\ cut[i] \in Nat /\ cut[i - 1] \in Nat
      BY <1>5, <1>13, <3>1
    <3>3. /\ cut[i] = cut[i - 1] + Len(Bytes(sent[i]))
          /\ \A j \in 1 .. Len(Bytes(sent[i])) : At(cut[i - 1] + j) = Bytes(sent[i])[j]
      BY <1>a, <1>10, <2>1 DEF Cuts
    <3>4. Len(Bytes(sent[i])) \in Nat
      <4>1. sent[i] \in Frames
        BY <1>a, <3>1, WireTypes
      <4> QED
        BY <4>1, BytesFacts
    <3>5. ASSUME NEW j \in 1 .. Len(Bytes(sent[i]))
          PROVE  At(cut[i - 1] + j)' = Bytes(sent[i])[j]
      <4>1. cut[i - 1] + j \in 1 .. total
        BY <3>2, <3>3, <3>4
      <4> QED
        BY <1>8, <3>3, <4>1
    <3> QED
      BY <3>2, <3>3, <3>5
  <2>2. CASE i = m + 1
    <3>1. sent'[i] = f /\ i - 1 = m /\ m \in n .. m
      BY <1>2, <1>5, <2>2
    <3>2. next[i - 1] = total /\ next[i] = total + Len(Bytes(f))
      BY <1>11, <1>13, <2>2, <3>1
    <3> QED
      BY <1>9, <3>1, <3>2
  <2> QED
    BY <1>2, <2>1, <2>2
<1>16. Cuts(next)'
  <2>1. Len(handled') = n /\ Len(sent') = m + 1
    BY <1>a, <1>1, <1>5
  <2>2. next[n] = 0 /\ next[m + 1] = Total'
    BY <1>2, <1>7, <1>11, <1>13
  <2> QED
    BY <1>14, <1>15, <2>1, <2>2 DEF Cuts
<1>17. /\ next \in [Len(handled') .. Len(sent') -> Nat] /\ Len(handled') <= Len(sent')
       /\ \A i \in 1 .. Len(handled') : handled'[i] = Bytes(sent'[i])
  <2>1. Len(handled') = n /\ Len(sent') = m + 1 /\ handled' = handled
    BY <1>a, <1>1, <1>5
  <2>2. \A i \in 1 .. n : i \in 1 .. m /\ handled[i] = Bytes(sent[i])
    BY <1>a, <1>2 DEF WireInv
  <2> QED
    BY <1>2, <1>5, <1>13, <2>1, <2>2
<1> QED
  BY <1>16, <1>17 DEF WireInv

LEMMA InitWire == Init => WireInv
<1> SUFFICES ASSUME Init PROVE WireInv
  OBVIOUS
<1>1. Len(rx) = 0 /\ Len(stream) = 0 /\ Len(sent) = 0 /\ Len(handled) = 0
  BY DEF Init
<1>2. PICK cut : cut = [i \in 0 .. 0 |-> 0]
  OBVIOUS
<1>3. cut \in [0 .. 0 -> Nat] /\ cut[0] = 0
  BY <1>2
<1>4. Cuts(cut)
  BY <1>1, <1>3 DEF Cuts, Total
<1> QED
  BY <1>1, <1>3, <1>4 DEF WireInv

\* A new connection is good only if nothing is left of the last one.
LEMMA ReconnectWire == ASSUME TypeOK, Reconnect PROVE WireInv'
<1> SUFFICES ASSUME Good' PROVE WireInv'
  BY DEF WireInv
<1>1. rx' = <<>> /\ stream' = <<>> /\ sent' = <<>> /\ handled' = <<>>
  BY DEF Reconnect, Good
<1>2. Len(rx') = 0 /\ Len(stream') = 0 /\ Len(sent') = 0 /\ Len(handled') = 0
  BY <1>1
<1>3. PICK cut : cut = [i \in 0 .. 0 |-> 0]
  OBVIOUS
<1>4. cut \in [0 .. 0 -> Nat] /\ cut[0] = 0
  BY <1>3
<1>5. Cuts(cut)'
  BY <1>2, <1>4 DEF Cuts, Total
<1> QED
  BY <1>2, <1>4, <1>5 DEF WireInv

\* Which connections stay good.
LEMMA GoodSteps ==
    ASSUME TypeOK, [Next]_vars, ~Reconnect
    PROVE  /\ Good' => Good
           /\ sent' = sent => (Good' <=> Good)
<1>1. clean' = clean
  BY DEF Next, vars, Discard, Dispatch, HandleMessage, SendRequest, ServerSends
<1>2. sent' = sent \/ \E f \in Frames : sent' = Append(sent, f)
  BY DEF Next, vars, Discard, Dispatch, HandleMessage, SendRequest, ServerSends
<1>3. ASSUME NEW f \in Frames, sent' = Append(sent, f), NEW i \in 1 .. Len(sent)
      PROVE  i \in 1 .. Len(sent') /\ sent'[i] = sent[i]
  BY <1>3, AppendProperties, WireTypes DEF TypeOK
<1> QED
  BY <1>1, <1>2, <1>3 DEF Good

LEMMA NextWire == TypeOK /\ WireInv /\ [Next]_vars => WireInv'
<1> SUFFICES ASSUME TypeOK, WireInv, [Next]_vars, Good' PROVE WireInv'
  BY DEF WireInv
<1>1. CASE Reconnect
  BY <1>1, ReconnectWire
<1>2. CASE ~Reconnect
  <2>1. Good
    BY <1>2, GoodSteps
  <2>2. CASE Discard
    BY <2>1, <2>2, NextFrame DEF Discard
  <2>3. CASE Dispatch
    BY <2>1, <2>3, DispatchWire
  <2>4. CASE HandleMessage
    BY <2>1, <2>4, HandleMessageWire
  <2>5. CASE SendRequest \/ UNCHANGED vars
    <3>1. UNCHANGED <<rx, stream, sent, handled>>
      BY <2>5 DEF SendRequest, vars
    <3>2. PICK cut \in [Len(handled) .. Len(sent) -> Nat] : Cuts(cut)
      BY <2>1 DEF WireInv
    <3>3. Cuts(cut)'
      <4>1. Total' = Total /\ \A k : At(k)' = At(k)
        BY <3>1 DEF Total, At
      <4> QED
        BY <3>1, <3>2, <4>1 DEF Cuts
    <3> QED
      BY <2>1, <3>1, <3>2, <3>3 DEF WireInv
  <2>6. ASSUME NEW f \in Frames, ServerSends(f) PROVE WireInv'
    BY <2>1, <2>6, SendWire
  <2> QED
    BY <1>2, <2>2, <2>3, <2>4, <2>5, <2>6 DEF Next
<1> QED
  BY <1>1, <1>2

LEMMA InvWire == Spec => [](TypeOK /\ WireInv)
  BY InitType, NextType, InitWire, NextWire, PTL DEF Spec

-----------------------------------------------------------------------------
(* The receive path implements the channel.                                *)

SentOf == IF Good THEN [i \in 1 .. Len(sent) |-> Bytes(sent[i])] ELSE <<>>
GotOf == IF Good THEN handled ELSE <<>>

LEMMA InitChannel == Init => Channel!Init
<1> SUFFICES ASSUME Init PROVE Channel!Init
  OBVIOUS
<1>1. sent = <<>> /\ handled = <<>> /\ Len(sent) = 0
  BY DEF Init
<1>2. [i \in 1 .. Len(sent) |-> Bytes(sent[i])] = <<>>
  BY <1>1
<1> QED
  BY <1>1, <1>2 DEF Channel!Init

LEMMA NextChannel == TypeOK /\ WireInv /\ [Next]_vars => [Channel!Next]_(<<SentOf, GotOf>>)
<1> SUFFICES ASSUME TypeOK, WireInv, [Next]_vars PROVE [Channel!Next]_(<<SentOf, GotOf>>)
  OBVIOUS
<1>1. ASSUME SentOf' = <<>>, GotOf' = <<>> PROVE Channel!Break
  BY <1>1 DEF Channel!Break, SentOf, GotOf
<1>2. CASE Reconnect
  <2>1. sent' = <<>> /\ handled' = <<>> /\ Len(sent') = 0
    BY <1>2 DEF Reconnect
  <2>2. SentOf' = <<>> /\ GotOf' = <<>>
    BY <2>1 DEF SentOf, GotOf
  <2> QED
    BY <1>1, <2>2 DEF Channel!Next
<1>3. CASE ~Good'
  BY <1>1, <1>3 DEF Channel!Next, SentOf, GotOf
<1>4. CASE ~Reconnect /\ Good'
  <2>1. Good
    BY <1>4, GoodSteps
  <2>2. /\ SentOf = [i \in 1 .. Len(sent) |-> Bytes(sent[i])] /\ GotOf = handled
        /\ SentOf' = [i \in 1 .. Len(sent') |-> Bytes(sent'[i])] /\ GotOf' = handled'
    BY <1>4, <2>1 DEF SentOf, GotOf
  <2>3. CASE Discard
    BY <2>1, <2>3, NextFrame DEF Discard
  <2>4. CASE HandleMessage \/ SendRequest \/ UNCHANGED vars
    BY <2>2, <2>4 DEF HandleMessage, SendRequest, vars
  <2>5. CASE Dispatch
    <3>1. PICK n \in Nat, f \in Frames :
            /\ n = Len(handled) /\ n + 1 \in 1 .. Len(sent) /\ f = sent[n + 1]
            /\ handled' = Append(handled, Bytes(f)) /\ sent' = sent
      BY <2>1, <2>5, NextFrame, WireTypes DEF Dispatch, HandleFrame
    <3>2. SentOf' = SentOf /\ GotOf' = Append(GotOf, Bytes(f))
      BY <2>2, <3>1
    <3>3. /\ Len(GotOf) = n /\ SentOf[n + 1] = Bytes(f)
          /\ Len(SentOf) = Len(sent) /\ n < Len(sent)
      <4>1. Len(sent) \in Nat
        BY WireTypes
      <4>2. Len([i \in 1 .. Len(sent) |-> Bytes(sent[i])]) = Len(sent)
        BY <4>1
      <4> QED
        BY <2>2, <3>1, <4>1, <4>2
    <3>4. Channel!Get
      <4>1. /\ Len(GotOf) < Len(SentOf) /\ GotOf' = Append(GotOf, SentOf[Len(GotOf) + 1])
            /\ SentOf' = SentOf
        BY <3>2, <3>3
      <4> QED
        BY <4>1 DEF Channel!Get, SentOf, GotOf
    <3> QED
      BY <3>4 DEF Channel!Next
  <2>6. ASSUME NEW f \in Frames, ServerSends(f) PROVE Channel!Next
    <3>1. /\ Len(sent) \in Nat /\ Len(sent') = Len(sent) + 1 /\ sent'[Len(sent) + 1] = f
          /\ \A i \in 1 .. Len(sent) : sent'[i] = sent[i]
          /\ handled' = handled
      BY <2>6, WireTypes, AppendProperties DEF ServerSends, TypeOK
    <3>2. SentOf' = Append(SentOf, Bytes(f))
      <4>1. PICK m \in Nat : m = Len(sent)
        BY <3>1
      <4>2. PICK before : before = [i \in 1 .. m |-> Bytes(sent[i])]
        OBVIOUS
      <4>3. before \in Seq({Bytes(g) : g \in Frames}) /\ Len(before) = m
        <5>1. \A i \in 1 .. m : Bytes(sent[i]) \in {Bytes(g) : g \in Frames}
          BY <4>1, WireTypes
        <5> QED
          BY <4>2, <5>1
      <4>4. /\ Len(Append(before, Bytes(f))) = m + 1
            /\ Append(before, Bytes(f))[m + 1] = Bytes(f)
            /\ \A i \in 1 .. m : Append(before, Bytes(f))[i] = before[i]
            /\ Append(before, Bytes(f)) \in Seq({Bytes(g) : g \in Frames})
        BY <4>3, AppendProperties
      <4>5. PICK after : after = Append(before, Bytes(f))
        OBVIOUS
      <4>6. after = [i \in 1 .. m + 1 |-> after[i]]
        BY <4>4, <4>5, LenProperties
      <4>7. \A i \in 1 .. m + 1 : after[i] = Bytes(sent'[i])
        <5>1. \A i \in 1 .. m + 1 : i \in 1 .. m \/ i = m + 1
          OBVIOUS
        <5>2. after[m + 1] = Bytes(sent'[m + 1])
          BY <3>1, <4>1, <4>4, <4>5
        <5>3. \A i \in 1 .. m : after[i] = Bytes(sent'[i])
          BY <3>1, <4>1, <4>2, <4>4, <4>5
        <5> QED
          BY <5>1, <5>2, <5>3
      <4>8. after = [i \in 1 .. m + 1 |-> Bytes(sent'[i])]
        BY <4>6, <4>7
      <4>9. before = SentOf /\ SentOf' = [i \in 1 .. m + 1 |-> Bytes(sent'[i])]
        BY <2>2, <3>1, <4>1, <4>2
      <4> QED
        BY <4>5, <4>8, <4>9
    <3>3. Bytes(f) \in {Bytes(g) : g \in Frames} /\ GotOf' = GotOf
      BY <2>2, <3>1
    <3>4. Channel!Send
      BY <3>2, <3>3 DEF Channel!Send, SentOf, GotOf
    <3> QED
      BY <3>4 DEF Channel!Next
  <2> QED
    BY <1>4, <2>3, <2>4, <2>5, <2>6 DEF Next
<1> QED
  BY <1>2, <1>3, <1>4

\* However TCP cuts the stream and whatever the server mixes into it, the frames of a
\* good connection are handled whole, once and in order: the receive path implements
\* FrameChannel, which the model of the transport takes for granted.
THEOREM FramesInOrder == Spec => FramesArriveInOrder
<1>1. [Channel!Next]_(<<SentOf, GotOf>>) <=>
        [Channel!Next]_(<<IF Good THEN [i \in 1 .. Len(sent) |-> Bytes(sent[i])] ELSE <<>>,
                          IF Good THEN handled ELSE <<>> >>)
  BY DEF SentOf, GotOf
<1> QED
  BY <1>1, InvWire, InitChannel, NextChannel, PTL DEF Spec, FramesArriveInOrder, Channel!Safety

-----------------------------------------------------------------------------
(* What the devices are given.                                             *)

LEMMA AnswerHandedOn ==
    ASSUME TypeOK, WireInv, Good, Dispatch, Len(delivered') > Len(delivered),
           NEW f, f = sent[Len(handled')]
    PROVE  /\ f.tid = expected
           /\ IsAnswer(f)
           /\ delivered' = Append(delivered, AnswerData(f))
<1>1. PICK frame : frame = SubSeq(rx, 1, FrameLen)
  OBVIOUS
<1>2. Len(rx) >= FrameLen /\ HasHeader /\ HandleFrame(frame)
  BY <1>1 DEF Dispatch
<1>3. /\ sent[Len(handled) + 1] \in Frames /\ frame = Bytes(sent[Len(handled) + 1])
  BY <1>1, <1>2, NextFrame
<1>4. Len(handled') = Len(handled) + 1
  BY <1>2, AppendProperties DEF HandleFrame, TypeOK
<1>5. f \in Frames /\ frame = Bytes(f)
  BY <1>3, <1>4
<1>6. Accepts(frame) /\ delivered' = Append(delivered, Data(frame))
  <2>1. delivered' # delivered
    <3>1. Len(delivered) \in Nat
      BY LenProperties DEF TypeOK
    <3> QED
      BY <3>1
  <2> QED
    BY <1>2, <2>1 DEF HandleFrame
<1>7. /\ f.pdu \in Seq(Byte) /\ Len(f.pdu) \in Nat
      /\ frame \in Seq(Byte) /\ Len(frame) = 7 + Len(f.pdu)
      /\ frame[1] * 256 + frame[2] = f.tid
      /\ \A k \in 1 .. Len(f.pdu) : frame[7 + k] = f.pdu[k]
  BY <1>5, BytesFacts
<1>8. /\ frame[1] * 256 + frame[2] = expected /\ Len(frame) >= 9
      /\ frame[8] < 128 /\ 9 + frame[9] <= Len(frame)
  BY <1>6 DEF Accepts
<1>9. /\ 1 \in 1 .. Len(f.pdu) /\ 2 \in 1 .. Len(f.pdu)
      /\ frame[8] = f.pdu[1] /\ frame[9] = f.pdu[2]
  <2>1. 1 \in 1 .. Len(f.pdu) /\ 2 \in 1 .. Len(f.pdu)
    BY <1>7, <1>8
  <2>2. frame[7 + 1] = f.pdu[1] /\ frame[7 + 2] = f.pdu[2]
    BY <1>7, <2>1
  <2> QED
    BY <2>1, <2>2
<1>10. PICK n \in Nat : n = f.pdu[2]
  <2>1. f.pdu[2] \in Byte
    BY <1>7, <1>9, ElementOfSeq
  <2>2. \A b \in Byte : b \in Nat
    BY DEF Byte
  <2> QED
    BY <2>1, <2>2
<1>11. 2 + n <= Len(f.pdu) /\ IsAnswer(f)
  BY <1>7, <1>8, <1>9, <1>10 DEF IsAnswer
<1>12. Data(frame) = AnswerData(f)
  <2>1. PICK data : data = SubSeq(frame, 10, 9 + n)
    OBVIOUS
  <2>2. PICK answer : answer = SubSeq(f.pdu, 3, 2 + n)
    OBVIOUS
  <2>a. /\ Len(f.pdu) \in Nat /\ Len(frame) = 7 + Len(f.pdu) /\ 9 + n <= Len(frame)
        /\ 2 + n <= Len(f.pdu) /\ f.pdu \in Seq(Byte) /\ frame \in Seq(Byte)
    BY <1>7, <1>8, <1>9, <1>10, <1>11
  <2>3. data \in Seq(Byte) /\ Len(data) = n /\ \A i \in 1 .. n : data[i] = frame[9 + i]
    <3>1. PICK last \in Nat : last = 9 + n
      OBVIOUS
    <3>2. 10 \in 1 .. Len(frame) + 1 /\ last \in 0 .. Len(frame) /\ 10 <= last + 1
      BY <2>a, <3>1
    <3>3. last - 10 + 1 = n /\ \A i \in 1 .. n : 10 + i - 1 = 9 + i
      BY <3>1
    <3>4. /\ data \in Seq(Byte) /\ Len(data) = last - 10 + 1
          /\ \A i \in 1 .. last - 10 + 1 : data[i] = frame[10 + i - 1]
      BY <2>a, <2>1, <3>1, <3>2, PieceType
    <3> QED
      BY <3>3, <3>4
  <2>4. answer \in Seq(Byte) /\ Len(answer) = n /\ \A i \in 1 .. n : answer[i] = f.pdu[2 + i]
    <3>1. PICK last \in Nat : last = 2 + n
      OBVIOUS
    <3>2. 3 \in 1 .. Len(f.pdu) + 1 /\ last \in 0 .. Len(f.pdu) /\ 3 <= last + 1
      BY <2>a, <3>1
    <3>3. last - 3 + 1 = n /\ \A i \in 1 .. n : 3 + i - 1 = 2 + i
      BY <3>1
    <3>4. /\ answer \in Seq(Byte) /\ Len(answer) = last - 3 + 1
          /\ \A i \in 1 .. last - 3 + 1 : answer[i] = f.pdu[3 + i - 1]
      BY <2>a, <2>2, <3>1, <3>2, PieceType
    <3> QED
      BY <3>3, <3>4
  <2>5. ASSUME NEW i \in 1 .. n PROVE frame[9 + i] = f.pdu[2 + i]
    <3>1. 2 + i \in 1 .. Len(f.pdu) /\ 7 + (2 + i) = 9 + i
      BY <2>a
    <3> QED
      BY <1>7, <3>1
  <2>6. data = answer
    BY <2>3, <2>4, <2>5, SeqEqual
  <2> QED
    BY <1>9, <1>10, <2>1, <2>2, <2>6 DEF Data, AnswerData
<1> QED
  BY <1>6, <1>7, <1>8, <1>11, <1>12

\* On a good connection nothing reaches a device but the data of the answer to the last
\* request: not an exception, not a late answer to an earlier request, and never part of
\* a frame that promises more bytes than it holds.
THEOREM AnswersAreWhole == Spec => OnlyAnswersAreDelivered
<1>1. TypeOK /\ WireInv /\ [Next]_vars =>
        [Good /\ Len(delivered') > Len(delivered) =>
           LET f == sent[Len(handled')]
           IN  /\ f.tid = expected
               /\ IsAnswer(f)
               /\ delivered' = Append(delivered, AnswerData(f))]_vars
  <2> SUFFICES ASSUME TypeOK, WireInv, [Next]_vars, Good, Len(delivered') > Len(delivered),
                      NEW f, f = sent[Len(handled')]
               PROVE  /\ f.tid = expected
                      /\ IsAnswer(f)
                      /\ delivered' = Append(delivered, AnswerData(f))
    OBVIOUS
  <2>1. Len(delivered) \in Nat
    BY LenProperties DEF TypeOK
  <2>2. delivered' # delivered /\ delivered' # <<>>
    BY <2>1
  <2>3. Dispatch
    BY <2>2 DEF Next, vars, Discard, HandleMessage, Reconnect, SendRequest, ServerSends
  <2> QED
    BY <2>3, AnswerHandedOn
<1> QED
  BY <1>1, InvWire, PTL DEF Spec, OnlyAnswersAreDelivered
=============================================================================
