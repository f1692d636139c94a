------------------------- MODULE IconEncoding_proofs -------------------------
(* Theorems about IconEncoding, for images of any bytes and length.         *)
EXTENDS IconEncoding, TLAPS

-----------------------------------------------------------------------------
(* The arithmetic of one group. *)

\* The four letters the loop makes of three bytes are the four digits of the
\* number the bytes are (distributed_bms.cpp:637-648).
LEMMA GroupDigits ==
    ASSUME NEW b \in Byte, NEW c \in Byte, NEW d \in Byte
    PROVE  LET n == b * 65536 + c * 256 + d IN
           /\ Digit(n, 0) = b \div 4
           /\ Digit(n, 1) = Low(b, c)
           /\ Digit(n, 2) = Mid(c, d)
           /\ Digit(n, 3) = d % 64
<1> DEFINE n == b * 65536 + c * 256 + d
<1>1. n \div 262144 = b \div 4
  BY SMTT(60) DEF Byte
<1>2. (b \div 4) % 64 = b \div 4
  BY SMTT(60) DEF Byte
<1>3. n \div 4096 = b * 16 + c \div 16
  BY SMTT(60) DEF Byte
<1>4. (b * 16 + c \div 16) % 64 = (b % 4) * 16 + c \div 16
  BY SMTT(60) DEF Byte
<1>5. n \div 64 = b * 1024 + c * 4 + d \div 64
  BY SMTT(60) DEF Byte
<1>6. (b * 1024 + c * 4 + d \div 64) % 64 = (c % 16) * 4 + d \div 64
  BY SMTT(60) DEF Byte
<1>7. n % 64 = d % 64
  BY SMTT(60) DEF Byte
<1> QED
  BY <1>1, <1>2, <1>3, <1>4, <1>5, <1>6, <1>7 DEF Digit, Low, Mid

\* What the code computes of bytes is the index of a letter.
LEMMA LettersOfBytes ==
    ASSUME NEW b \in Byte, NEW c \in Byte, NEW d \in Byte
    PROVE  /\ b \div 4 \in 0..63
           /\ Low(b, c) \in 0..63
           /\ Mid(c, d) \in 0..63
           /\ d % 64 \in 0..63
<1>1. b \div 4 \in 0..63 /\ d % 64 \in 0..63
  BY DEF Byte
<1>2. b % 4 \in 0..3 /\ c \div 16 \in 0..15
  BY DEF Byte
<1>3. c % 16 \in 0..15 /\ d \div 64 \in 0..3
  BY DEF Byte
<1> QED
  BY <1>1, <1>2, <1>3 DEF Low, Mid

-----------------------------------------------------------------------------
(* Letters of a whole text. *)

\* The letter at each place of the base64 of s, by its group and its place in
\* the group (the index j of EncodeBase64, distributed_bms.cpp:635).
LEMMA LetterAt ==
    ASSUME NEW s \in Seq(Byte), NEW q \in Nat, NEW p \in 0..3, 4 * q + p < OutLen(Len(s))
    PROVE  Base64(s)[4 * q + p + 1] =
             IF p > 1 /\ 3 * q + p > Len(s) THEN Pad ELSE Digit(Number(s, q), p)
<1> DEFINE k == 4 * q + p + 1
<1>1. k \in 1..OutLen(Len(s))
  BY DEF OutLen
<1>2. (k - 1) \div 4 = q /\ (k - 1) % 4 = p
  OBVIOUS
<1> HIDE DEF k
<1>3. Base64(s)[k] = IF p > 1 /\ 3 * q + p > Len(s) THEN Pad ELSE Digit(Number(s, q), p)
  BY <1>1, <1>2 DEF Base64
<1> QED
  BY <1>3 DEF k

\* Every place of the first q groups is a place p in a group g.
LEMMA PlaceOf ==
    ASSUME NEW q \in Nat, NEW k \in 1..4 * q
    PROVE  \E g \in 0..q - 1, p \in 0..3 : k = 4 * g + p + 1
<1>1. (k - 1) \div 4 \in 0..q - 1 /\ (k - 1) % 4 \in 0..3
  OBVIOUS
<1>2. k = 4 * ((k - 1) \div 4) + ((k - 1) % 4) + 1
  OBVIOUS
<1> QED
  BY <1>1, <1>2

\* Whole groups are encoded alike, whatever follows them.
LEMMA PrefixAlike ==
    ASSUME NEW s \in Seq(Byte), NEW t \in Seq(Byte), NEW q \in Nat,
           3 * q <= Len(s), 3 * q <= Len(t), \A m \in 1..3 * q : s[m] = t[m]
    PROVE  \A k \in 1..4 * q : Base64(s)[k] = Base64(t)[k]
<1> SUFFICES ASSUME NEW k \in 1..4 * q
             PROVE  Base64(s)[k] = Base64(t)[k]
  OBVIOUS
<1>1. PICK g \in 0..q - 1, p \in 0..3 : k = 4 * g + p + 1
  BY PlaceOf
<1>2. /\ 4 * g + p < 4 * q
      /\ OutLen(Len(s)) \in Nat /\ 4 * q <= OutLen(Len(s))
      /\ OutLen(Len(t)) \in Nat /\ 4 * q <= OutLen(Len(t))
  BY DEF OutLen
<1>3. Number(s, g) = Number(t, g)
  <2>1. 3 * g + 3 <= 3 * q
    OBVIOUS
  <2>2. /\ ByteOf(s, 3 * g) = ByteOf(t, 3 * g)
        /\ ByteOf(s, 3 * g + 1) = ByteOf(t, 3 * g + 1)
        /\ ByteOf(s, 3 * g + 2) = ByteOf(t, 3 * g + 2)
    BY <2>1 DEF ByteOf
  <2> QED
    BY <2>2 DEF Number
<1>4. 3 * g + p <= Len(s) /\ 3 * g + p <= Len(t)
  OBVIOUS
<1>5. Base64(s)[k] = Digit(Number(s, g), p)
  <2>1. g \in Nat /\ 4 * g + p < OutLen(Len(s)) /\ ~(3 * g + p > Len(s))
    BY <1>2, <1>4
  <2> QED
    BY <1>1, <2>1, LetterAt
<1>6. Base64(t)[k] = Digit(Number(t, g), p)
  <2>1. g \in Nat /\ 4 * g + p < OutLen(Len(t)) /\ ~(3 * g + p > Len(t))
    BY <1>2, <1>4
  <2> QED
    BY <1>1, <2>1, LetterAt
<1> QED
  BY <1>3, <1>5, <1>6

-----------------------------------------------------------------------------
(* The inductive invariant. *)

\* After q groups: the text so far is that of the first three times q bytes.
Encoded(q) ==
    /\ i = 3 * q /\ i < srcLen
    /\ Len(dst) = 4 * q
    /\ \A k \in 1..4 * q : dst[k] = Base64(data.bytes)[k]

CallOK ==
    /\ pc # "idle" => image \in Image /\ icon = NoIcon
    /\ pc \in {"media", "encode"} => data \in Image /\ type = data.format
    /\ pc = "media" => data.bytes # <<>>
    /\ pc = "encode" => \E q \in Nat : Encoded(q)
    /\ pc # "encode" => i = 0 /\ dst = <<>>

IconOK == Ok => /\ icon.type = icon.of.format
                /\ Len(icon.text) = OutLen(Len(icon.of.bytes))
                /\ LET s == icon.of.bytes IN
                   icon.text = Base64(IF Len(s) % 3 = 0 THEN SubSeq(s, 1, Len(s) - 1) ELSE s)

IInv == IconTypeOK /\ CallOK /\ IconOK

LEMMA InitIInv == Init => IInv
<1> USE DEF Init, IInv
<1>1. Init => IconTypeOK
  BY DEF IconTypeOK, Letter, Pad, Icon, Format
<1>2. Init => CallOK
  BY DEF CallOK
<1>3. Init => IconOK
  BY DEF IconOK, Ok, NoIcon
<1> QED
  BY <1>1, <1>2, <1>3

\* A turn of the loop adds one group.
LEMMA GroupEncodes ==
    ASSUME IInv, Group
    PROVE  dst' \in Seq(Letter) /\ i' \in Nat /\ \E q \in Nat : Encoded(q)'
<1> DEFINE s == data.bytes
<1>1. data \in Image /\ s \in Seq(Byte) /\ srcLen = Len(s) /\ dst \in Seq(Letter)
  BY ImageAssumption DEF IInv, IconTypeOK, CallOK, Group, Image, srcLen
<1>2. PICK q \in Nat : Encoded(q)
  BY DEF IInv, CallOK, Group
<1>3. i = 3 * q /\ 3 * q + 3 < Len(s)
  BY <1>1, <1>2 DEF Encoded, Group, MoreGroups
<1> DEFINE b == s[3 * q + 1]
           c == s[3 * q + 2]
           d == s[3 * q + 3]
<1>4. b \in Byte /\ c \in Byte /\ d \in Byte
  BY <1>1, <1>3
<1>5. At(i) = {b} /\ At(i + 1) = {c} /\ At(i + 2) = {d}
  BY <1>1, <1>3 DEF At
<1> DEFINE four == <<b \div 4, Low(b, c), Mid(c, d), d % 64>>
<1>6. dst' = dst \o four /\ i' = 3 * (q + 1) /\ UNCHANGED data
  <2> HIDE DEF b, c, d
  <2>1. \E x \in {b}, y \in {c}, z \in {d} :
          dst' = dst \o <<x \div 4, Low(x, y), Mid(y, z), z % 64>>
    BY <1>5 DEF Group
  <2>2. dst' = dst \o four
    BY <2>1
  <2>3. i' = i + 3 /\ UNCHANGED data
    BY DEF Group
  <2> HIDE DEF four
  <2> QED
    BY <1>3, <2>2, <2>3
<1>7. four \in Seq(Letter)
  BY <1>4, LettersOfBytes DEF Letter, Pad
<1>8. Len(dst) = 4 * q /\ \A k \in 1..4 * q : dst[k] = Base64(s)[k]
  BY <1>2 DEF Encoded
<1>9. \A p \in 0..3 : four[p + 1] = Base64(s)[4 * q + p + 1]
  <2>1. Number(s, q) = b * 65536 + c * 256 + d
    BY <1>3 DEF Number, ByteOf
  <2>2. \A p \in 0..3 : Base64(s)[4 * q + p + 1] = Digit(Number(s, q), p)
    <3> SUFFICES ASSUME NEW p \in 0..3
                 PROVE  Base64(s)[4 * q + p + 1] = Digit(Number(s, q), p)
      OBVIOUS
    <3>1. Len(s) \in Nat /\ 3 * q + 3 < Len(s)
      BY <1>1, <1>3
    <3> HIDE DEF s
    <3>2. Len(s) \div 3 >= q + 1 /\ OutLen(Len(s)) >= (Len(s) \div 3) * 4 /\ OutLen(Len(s)) \in Nat
      BY <3>1 DEF OutLen
    <3>3. 4 * q + p < OutLen(Len(s)) /\ ~(3 * q + p > Len(s))
      BY <3>1, <3>2
    <3> QED
      BY <1>1, <3>3, LetterAt
  <2> HIDE DEF b, c, d
  <2>3. /\ four[1] = Digit(Number(s, q), 0) /\ four[2] = Digit(Number(s, q), 1)
        /\ four[3] = Digit(Number(s, q), 2) /\ four[4] = Digit(Number(s, q), 3)
    BY <1>4, <2>1, GroupDigits
  <2>4. \A p \in 0..3 : four[p + 1] = Digit(Number(s, q), p)
    <3> HIDE DEF four
    <3> QED
      BY <2>3
  <2> QED
    BY <2>2, <2>4
<1> HIDE DEF four
<1>10. Len(four) = 4
  BY DEF four
<1>11. Len(dst') = 4 * (q + 1) /\ dst' \in Seq(Letter)
  <2>1. dst \o four \in Seq(Letter) /\ Len(dst \o four) = Len(dst) + Len(four)
    BY <1>1, <1>7
  <2> QED
    BY <1>6, <1>8, <1>10, <2>1
<1>12. \A k \in 1..4 * (q + 1) : dst'[k] = Base64(s)[k]
  <2> SUFFICES ASSUME NEW k \in 1..4 * (q + 1)
               PROVE  dst'[k] = Base64(s)[k]
    OBVIOUS
  <2> HIDE DEF s
  <2>0. \A m \in 1..Len(dst) + Len(four) :
          (dst \o four)[m] = IF m <= Len(dst) THEN dst[m] ELSE four[m - Len(dst)]
    BY <1>1, <1>7
  <2>1. CASE k <= 4 * q
    BY <1>6, <1>8, <1>10, <2>0, <2>1
  <2>2. CASE k > 4 * q
    <3>1. dst'[k] = four[k - 4 * q]
      <4>1. k \in 1..Len(dst) + Len(four) /\ ~(k <= Len(dst))
        BY <1>8, <1>10, <2>2
      <4>2. dst'[k] = four[k - Len(dst)]
        BY <1>6, <2>0, <4>1
      <4> QED
        BY <1>8, <4>2
    <3>2. PICK p \in 0..3 : k = 4 * q + p + 1
      <4>1. k - 4 * q - 1 \in 0..3
        BY <2>2
      <4> QED
        BY <4>1
    <3> QED
      BY <1>9, <3>1, <3>2
  <2> QED
    BY <2>1, <2>2
<1>13. Encoded(q + 1)'
  <2>1. srcLen' = Len(s) /\ data'.bytes = s
    BY <1>6 DEF srcLen
  <2> QED
    BY <1>3, <1>6, <1>11, <1>12, <2>1 DEF Encoded
<1> QED
  BY <1>6, <1>11, <1>13

\* What the code takes of the last one to three bytes completes the text.
LEMMA TailEncodes ==
    ASSUME IInv, EncodeTail
    PROVE  \E text \in Seq(Letter) :
             LET t == IF srcLen % 3 = 0 THEN SubSeq(data.bytes, 1, srcLen - 1) ELSE data.bytes IN
             /\ Finish([status |-> "ok", type |-> type, of |-> data, text |-> text])
             /\ Len(text) = OutLen(srcLen)
             /\ text = Base64(t)
<1> DEFINE s == data.bytes
           t == IF srcLen % 3 = 0 THEN SubSeq(s, 1, srcLen - 1) ELSE s
<1>1. data \in Image /\ s \in Seq(Byte) /\ srcLen = Len(s) /\ dst \in Seq(Letter)
  BY ImageAssumption DEF IInv, IconTypeOK, CallOK, EncodeTail, Image, srcLen
<1>2. PICK q \in Nat : Encoded(q)
  BY DEF IInv, CallOK, EncodeTail
<1>3. i = 3 * q /\ srcLen \in 3 * q + 1..3 * q + 3
  BY <1>1, <1>2 DEF Encoded, EncodeTail, MoreGroups
<1>4. /\ t \in Seq(Byte)
      /\ Len(t) = IF srcLen = 3 * q + 1 THEN 3 * q + 1 ELSE 3 * q + 2
      /\ \A m \in 1..Len(t) : t[m] = s[m]
  <2>1. srcLen % 3 = 0 <=> srcLen = 3 * q + 3
    BY <1>3
  <2> HIDE DEF s
  <2>2. CASE srcLen = 3 * q + 3
    <3>1. t = SubSeq(s, 1, 3 * q + 2)
      BY <2>1, <2>2
    <3>2. 3 * q + 2 \in 1..Len(s)
      BY <1>1, <2>2
    <3>3. /\ SubSeq(s, 1, 3 * q + 2) \in Seq(Byte) /\ Len(SubSeq(s, 1, 3 * q + 2)) = 3 * q + 2
          /\ \A m \in 1..3 * q + 2 : SubSeq(s, 1, 3 * q + 2)[m] = s[m]
      BY <1>1, <3>2
    <3> HIDE DEF t
    <3> QED
      BY <2>2, <3>1, <3>3
  <2>3. CASE srcLen # 3 * q + 3
    BY <1>1, <1>3, <2>1, <2>3
  <2> QED
    BY <2>2, <2>3
<1> HIDE DEF t
<1>5. OutLen(srcLen) = 4 * q + 4 /\ OutLen(Len(t)) = 4 * q + 4
  <2>1. CASE srcLen = 3 * q + 1
    BY <1>4, <2>1 DEF OutLen
  <2>2. CASE srcLen = 3 * q + 2
    BY <1>4, <2>2 DEF OutLen
  <2>3. CASE srcLen = 3 * q + 3
    BY <1>4, <2>3 DEF OutLen
  <2> QED
    BY <1>3, <2>1, <2>2, <2>3
<1> DEFINE b == s[3 * q + 1]
           c == ByteOf(t, 3 * q + 1)
<1>6. b \in Byte /\ c \in Byte /\ At(i) = {b}
  <2>1. i \in 0..srcLen - 1 /\ 3 * q + 1 \in 1..Len(s)
    BY <1>1, <1>3
  <2>2. b \in Byte /\ At(i) = {b}
    BY <1>1, <1>3, <2>1 DEF At
  <2>3. c \in Byte
    <3>1. CASE 3 * q + 1 < Len(t)
      BY <1>4, <3>1 DEF ByteOf
    <3>2. CASE ~(3 * q + 1 < Len(t))
      BY <3>2 DEF ByteOf, Byte
    <3> QED
      BY <3>1, <3>2
  <2> QED
    BY <2>2, <2>3
<1>7. srcLen # 3 * q + 1 => At(i + 1) = {c}
  <2> SUFFICES ASSUME srcLen # 3 * q + 1 PROVE At(i + 1) = {c}
    OBVIOUS
  <2>1. i + 1 = 3 * q + 1 /\ i + 1 \in 0..srcLen - 1 /\ 3 * q + 1 < Len(t)
    BY <1>3, <1>4
  <2>2. At(i + 1) = {s[3 * q + 2]}
    BY <2>1 DEF At
  <2>3. c = t[3 * q + 2] /\ t[3 * q + 2] = s[3 * q + 2]
    BY <1>4, <2>1 DEF ByteOf
  <2> QED
    BY <2>2, <2>3
<1> DEFINE last == <<b \div 4, Low(b, c), IF srcLen = 3 * q + 1 THEN Pad ELSE Mid(c, 0), Pad>>
<1>8. Finish([status |-> "ok", type |-> type, of |-> data, text |-> dst \o last])
  <2> HIDE DEF b, c
  <2>1. PICK x \in At(i), y \in At(i + 1) :
          Finish([status |-> "ok", type |-> type, of |-> data, text |-> dst \o TailOf(x, y)])
    BY DEF EncodeTail
  <2>2. x = b
    BY <1>6, <2>1
  <2>3. CASE srcLen = 3 * q + 1
    <3>1. c = 0
      BY <1>4, <2>3 DEF c, ByteOf
    <3>2. srcLen % 3 = 1
      BY <2>3
    <3>3. TailOf(x, y) = last
      BY <2>2, <2>3, <3>1, <3>2 DEF TailOf
    <3> QED
      BY <2>1, <3>3
  <2>4. CASE srcLen # 3 * q + 1
    <3>1. y = c
      BY <1>7, <2>1, <2>4
    <3>2. srcLen % 3 # 1
      BY <1>3, <2>4
    <3>3. TailOf(x, y) = last
      BY <2>2, <2>4, <3>1, <3>2 DEF TailOf
    <3> QED
      BY <2>1, <3>3
  <2> QED
    BY <2>3, <2>4
<1>9. \A p \in 0..3 : last[p + 1] = Base64(t)[4 * q + p + 1]
  <2>1. Number(t, q) = b * 65536 + c * 256 + 0
    <3>1. ByteOf(t, 3 * q) = b /\ ByteOf(t, 3 * q + 2) = 0
      <4>1. Len(t) \in {3 * q + 1, 3 * q + 2} /\ t[3 * q + 1] = b
        BY <1>4
      <4> HIDE DEF b
      <4> QED
        BY <4>1 DEF ByteOf
    <3> QED
      BY <3>1 DEF Number
  <2> HIDE DEF b, c
  <2>2. 0 \in Byte
    BY DEF Byte
  <2>3. /\ Digit(Number(t, q), 0) = b \div 4 /\ Digit(Number(t, q), 1) = Low(b, c)
        /\ Digit(Number(t, q), 2) = Mid(c, 0)
    BY <1>6, <2>1, <2>2, GroupDigits
  <2>4. \A p \in 0..3 : Base64(t)[4 * q + p + 1] =
                           IF p > 1 /\ 3 * q + p > Len(t) THEN Pad ELSE Digit(Number(t, q), p)
    <3> SUFFICES ASSUME NEW p \in 0..3
                 PROVE  Base64(t)[4 * q + p + 1] =
                           IF p > 1 /\ 3 * q + p > Len(t) THEN Pad ELSE Digit(Number(t, q), p)
      OBVIOUS
    <3>1. 4 * q + p < OutLen(Len(t))
      BY <1>5
    <3> QED
      BY <1>4, <3>1, LetterAt
  <2>5. /\ last[1] = b \div 4 /\ last[2] = Low(b, c) /\ last[4] = Pad
        /\ last[3] = IF srcLen = 3 * q + 1 THEN Pad ELSE Mid(c, 0)
    OBVIOUS
  <2> HIDE DEF last
  <2>6. /\ Base64(t)[4 * q + 1] = last[1] /\ Base64(t)[4 * q + 2] = last[2]
        /\ Base64(t)[4 * q + 3] = last[3] /\ Base64(t)[4 * q + 4] = last[4]
    BY <1>3, <1>4, <2>3, <2>4, <2>5
  <2> QED
    BY <2>6
<1>10. last \in Seq(Letter) /\ Len(last) = 4
  <2>1. 0 \in Byte
    BY DEF Byte
  <2> HIDE DEF b, c
  <2> QED
    BY <1>6, <2>1, LettersOfBytes DEF Letter, Pad
<1> HIDE DEF last
<1>11. Len(dst) = 4 * q /\ \A k \in 1..4 * q : dst[k] = Base64(t)[k]
  <2>1. Len(dst) = 4 * q /\ \A k \in 1..4 * q : dst[k] = Base64(s)[k]
    BY <1>2 DEF Encoded
  <2>2. 3 * q <= Len(s) /\ 3 * q <= Len(t) /\ \A m \in 1..3 * q : s[m] = t[m]
    BY <1>1, <1>3, <1>4
  <2>3. \A k \in 1..4 * q : Base64(s)[k] = Base64(t)[k]
    BY <1>1, <1>4, <2>2, PrefixAlike
  <2> QED
    BY <2>1, <2>3
<1> DEFINE text == dst \o last
<1>12. /\ text \in Seq(Letter) /\ Len(text) = 4 * q + 4
       /\ \A m \in 1..4 * q + 4 : text[m] = IF m <= 4 * q THEN dst[m] ELSE last[m - 4 * q]
  <2>1. /\ text \in Seq(Letter) /\ Len(text) = Len(dst) + Len(last)
        /\ \A m \in 1..Len(dst) + Len(last) :
             text[m] = IF m <= Len(dst) THEN dst[m] ELSE last[m - Len(dst)]
    <3>1. /\ dst \o last \in Seq(Letter) /\ Len(dst \o last) = Len(dst) + Len(last)
          /\ \A m \in 1..Len(dst) + Len(last) :
               (dst \o last)[m] = IF m <= Len(dst) THEN dst[m] ELSE last[m - Len(dst)]
      <4>1. dst \in Seq(Letter) /\ last \in Seq(Letter)
        BY <1>1, <1>10
      <4>2. dst \o last \in Seq(Letter) /\ Len(dst \o last) = Len(dst) + Len(last)
        BY <4>1
      <4>3. \A m \in 1..Len(dst) + Len(last) :
               (dst \o last)[m] = IF m <= Len(dst) THEN dst[m] ELSE last[m - Len(dst)]
        BY <4>1
      <4> QED
        BY <4>2, <4>3
    <3> QED
      BY <3>1
  <2> HIDE DEF text
  <2> QED
    BY <1>10, <1>11, <2>1
<1> HIDE DEF text
<1>13. \A m \in 1..4 * q + 4 : text[m] = Base64(t)[m]
  <2> SUFFICES ASSUME NEW m \in 1..4 * q + 4
               PROVE  text[m] = Base64(t)[m]
    OBVIOUS
  <2>1. CASE m <= 4 * q
    BY <1>11, <1>12, <2>1
  <2>2. CASE m > 4 * q
    <3>1. text[m] = last[m - 4 * q]
      BY <1>12, <2>2
    <3>2. PICK p \in 0..3 : m = 4 * q + p + 1
      <4>1. m - 4 * q - 1 \in 0..3
        BY <2>2
      <4> QED
        BY <4>1
    <3> QED
      BY <1>9, <3>1, <3>2
  <2> QED
    BY <2>1, <2>2
<1>14. text = Base64(t)
  <2>1. text = [m \in 1..4 * q + 4 |-> text[m]]
    BY <1>12
  <2>2. Base64(t) = [m \in 1..4 * q + 4 |-> Base64(t)[m]]
    BY <1>5 DEF Base64
  <2> QED
    BY <1>13, <2>1, <2>2
<1> QED
  BY <1>5, <1>8, <1>12, <1>14 DEF t, text

-----------------------------------------------------------------------------
(* Every step keeps the invariant. *)

LEMMA FinishOK ==
    ASSUME NEW outcome \in Icon, Finish(outcome),
           outcome.status = "ok" =>
             LET s == outcome.of.bytes IN
             /\ outcome.type = outcome.of.format
             /\ Len(outcome.text) = OutLen(Len(s))
             /\ outcome.text = Base64(IF Len(s) % 3 = 0 THEN SubSeq(s, 1, Len(s) - 1) ELSE s)
    PROVE  IInv'
<1>1. IconTypeOK'
  BY DEF Finish, IconTypeOK, Format, Letter, Pad
<1>2. CallOK'
  BY DEF Finish, CallOK
<1>3. IconOK'
  BY DEF Finish, IconOK, Ok
<1> QED
  BY <1>1, <1>2, <1>3 DEF IInv

LEMMA FailedOK == Failed \in Icon /\ Failed.status # "ok"
BY DEF Failed, Icon

LEMMA StepIInv == IInv /\ [Next]_vars => IInv'
<1> SUFFICES ASSUME IInv, [Next]_vars
             PROVE  IInv'
  OBVIOUS
<1> USE DEF IInv
<1>1. CASE GetMediaData
  <2>1. CASE Finish(Failed)
    BY <2>1, FailedOK, FinishOK
  <2>2. CASE ~Finish(Failed)
    <3>1. /\ image' \in Image /\ pc' = "size" /\ icon' = NoIcon
          /\ UNCHANGED <<data, type, i, dst>> /\ pc = "idle"
      BY <1>1, <2>2 DEF GetMediaData, Image, Format
    <3>2. IconTypeOK'
      BY <3>1 DEF IconTypeOK, Icon
    <3>3. CallOK'
      BY <3>1 DEF CallOK
    <3>4. IconOK'
      BY <3>1 DEF IconOK, Ok, NoIcon
    <3> QED
      BY <3>2, <3>3, <3>4
  <2> QED
    BY <2>1, <2>2
<1>2. CASE IsImageNeedCompressBySize
  <2>1. IconTypeOK'
    BY <1>2 DEF IsImageNeedCompressBySize, IconTypeOK
  <2>2. CallOK'
    BY <1>2 DEF IsImageNeedCompressBySize, CallOK
  <2>3. IconOK'
    BY <1>2 DEF IsImageNeedCompressBySize, IconOK, Ok
  <2> QED
    BY <2>1, <2>2, <2>3
<1>3. CASE CompressImageByContent
  <2>1. /\ type' \in Format /\ pc' \in {"media", "raw"}
        /\ UNCHANGED <<image, i, dst, icon>> /\ pc = "compress"
    BY <1>3 DEF CompressImageByContent, IconTypeOK, Target, Format, Known
  <2>2. data' \in Image \cup {NoImage} /\ (pc' = "media" => /\ data' \in Image
                                                                    /\ type' = data'.format
                                                                    /\ data'.bytes # <<>>)
    <3>1. CASE UNCHANGED data /\ pc' = "raw"
      BY <3>1 DEF IconTypeOK
    <3>2. CASE ~(UNCHANGED data /\ pc' = "raw")
      <4>1. PICK b \in Packed : data' = [format |-> Target, bytes |-> b] /\ type' = Target
        BY <1>3, <3>2 DEF CompressImageByContent
      <4>2. Target \in Format /\ b \in Bytes /\ b # <<>>
        BY <4>1 DEF Target, Format, Known, Packed
      <4> QED
        BY <4>1, <4>2 DEF Image
    <3> QED
      BY <3>1, <3>2
  <2>3. IconTypeOK'
    BY <2>1, <2>2 DEF IconTypeOK
  <2>4. CallOK'
    BY <2>1, <2>2 DEF CallOK
  <2>5. IconOK'
    BY <2>1 DEF IconOK, Ok
  <2> QED
    BY <2>3, <2>4, <2>5
<1>4. CASE Base64WithoutCompress
  <2>1. CASE GetImageType = "other"
    BY <1>4, <2>1, FailedOK, FinishOK DEF Base64WithoutCompress
  <2>2. CASE GetImageType # "other"
    <3>1. /\ type' = image.format /\ data' = image /\ pc' = "media"
          /\ UNCHANGED <<image, i, dst, icon>> /\ pc = "raw"
      BY <1>4, <2>2 DEF Base64WithoutCompress, RawType, GetImageType
    <3>2. image \in Image /\ image.format \in Format /\ image.bytes # <<>>
      <4>1. image \in Image /\ image.format \in Format
        BY <3>1 DEF CallOK, Image
      <4>2. ~(Len(image.bytes) < FORMAT_LENGTH)
        BY <2>2 DEF GetImageType
      <4>3. Len(<<>>) = 0
        OBVIOUS
      <4> QED
        BY <4>1, <4>2, <4>3, ImageAssumption
    <3>3. IconTypeOK'
      BY <3>1, <3>2 DEF IconTypeOK
    <3>4. CallOK'
      BY <3>1, <3>2 DEF CallOK
    <3>5. IconOK'
      BY <3>1 DEF IconOK, Ok
    <3> QED
      BY <3>3, <3>4, <3>5
  <2> QED
    BY <2>1, <2>2
<1>5. CASE GetMediaBase64
  <2>1. CASE Len(data.bytes) = 0
    BY <1>5, <2>1, FailedOK, FinishOK DEF GetMediaBase64
  <2>2. CASE Len(data.bytes) # 0
    <3>1. pc' = "encode" /\ UNCHANGED <<image, data, type, i, dst, icon>> /\ pc = "media"
      BY <1>5, <2>2 DEF GetMediaBase64
    <3>2. IconTypeOK'
      BY <3>1 DEF IconTypeOK
    <3>3. Encoded(0)'
      <4>1. data \in Image /\ data.bytes \in Seq(Byte) /\ i = 0 /\ dst = <<>>
        BY <3>1, ImageAssumption DEF CallOK, Image
      <4>2. srcLen' = Len(data.bytes) /\ Len(data.bytes) \in Nat
        BY <3>1, <4>1 DEF srcLen
      <4> QED
        BY <2>2, <3>1, <4>1, <4>2 DEF Encoded
    <3>4. CallOK'
      <4>1. \E q \in Nat : Encoded(q)'
        BY <3>3
      <4> QED
        BY <3>1, <4>1 DEF CallOK
    <3>5. IconOK'
      BY <3>1 DEF IconOK, Ok
    <3> QED
      BY <3>2, <3>4, <3>5
  <2> QED
    BY <2>1, <2>2
<1>6. CASE Group
  <2>1. dst' \in Seq(Letter) /\ i' \in Nat /\ \E q \in Nat : Encoded(q)'
    BY <1>6, GroupEncodes
  <2>2. UNCHANGED <<pc, image, data, type, icon>> /\ pc = "encode"
    BY <1>6 DEF Group
  <2>3. IconTypeOK'
    BY <2>1, <2>2 DEF IconTypeOK
  <2>4. CallOK'
    BY <2>1, <2>2 DEF CallOK
  <2>5. IconOK'
    BY <2>2 DEF IconOK, Ok
  <2> QED
    BY <2>3, <2>4, <2>5
<1>7. CASE EncodeTail
  <2> DEFINE t == IF srcLen % 3 = 0 THEN SubSeq(data.bytes, 1, srcLen - 1) ELSE data.bytes
             ok(text) == [status |-> "ok", type |-> type, of |-> data, text |-> text]
  <2>1. PICK text \in Seq(Letter) : Finish(ok(text)) /\ Len(text) = OutLen(srcLen) /\ text = Base64(t)
    BY <1>7, TailEncodes
  <2>2. data \in Image /\ type = data.format /\ type \in Format
    BY <1>7 DEF EncodeTail, CallOK, IconTypeOK
  <2>3. ok(text) \in Icon
    BY <2>2 DEF Icon
  <2> QED
    BY <2>1, <2>2, <2>3, FinishOK DEF srcLen
<1>8. CASE UNCHANGED vars
  <2>1. IconTypeOK'
    BY <1>8 DEF vars, IconTypeOK
  <2>2. CallOK'
    BY <1>8 DEF vars, CallOK, Encoded, srcLen
  <2>3. IconOK'
    BY <1>8 DEF vars, IconOK, Ok
  <2> QED
    BY <2>1, <2>2, <2>3
<1> QED
  BY <1>1, <1>2, <1>3, <1>4, <1>5, <1>6, <1>7, <1>8 DEF Next

LEMMA Invariant == Spec => []IInv
<1> QED
  BY InitIInv, StepIInv, PTL DEF Spec

-----------------------------------------------------------------------------
(* The theorems. *)

\* Every letter computed is one of DECODE_TABLE.
THEOREM IconTypeCorrect == Spec => []IconTypeOK
<1>1. IInv => IconTypeOK
  BY DEF IInv
<1> QED
  BY <1>1, Invariant, PTL

\* The text fills its buffer and never overruns it.
THEOREM FillsBuffer == Spec => []NoOverrun
<1>1. IInv => NoOverrun
  <2> SUFFICES ASSUME IInv PROVE NoOverrun
    OBVIOUS
  <2>1. Ok => Len(icon.text) = OutLen(Len(icon.of.bytes))
    BY DEF IInv, IconOK
  <2>2. srcLen \in Nat
    <3>1. data.bytes \in Seq(Byte)
      <4>1. <<>> \in Seq(Byte)
        OBVIOUS
      <4>2. CASE data \in Image
        BY <4>2, ImageAssumption DEF Image
      <4>3. CASE data = NoImage
        BY <4>1, <4>3 DEF NoImage
      <4> QED
        BY <4>2, <4>3 DEF IInv, IconTypeOK
    <3> QED
      BY <3>1 DEF srcLen
  <2>3. CASE pc = "encode"
    <3>1. PICK q \in Nat : Encoded(q)
      BY <2>3 DEF IInv, CallOK
    <3>2. 3 * q < srcLen /\ Len(dst) = 4 * q
      BY <3>1 DEF Encoded
    <3>3. \A n \in Nat : 3 * q < n => 4 * q <= OutLen(n)
      BY DEF OutLen
    <3> QED
      BY <2>1, <2>2, <3>2, <3>3 DEF NoOverrun
  <2>4. CASE pc # "encode"
    <3>1. Len(dst) = 0
      BY <2>4 DEF IInv, CallOK
    <3>2. \A n \in Nat : 0 <= OutLen(n)
      BY DEF OutLen
    <3> QED
      BY <2>1, <2>2, <3>1, <3>2 DEF NoOverrun
  <2> QED
    BY <2>3, <2>4
<1> QED
  BY <1>1, Invariant, PTL

\* The text is the base64 of the data, or of all but its last byte if the
\* length is a multiple of three.
THEOREM TextCorrect == Spec => []TextOfData
<1>1. IInv => TextOfData
  BY DEF IInv, IconOK, TextOfData
<1> QED
  BY <1>1, Invariant, PTL

\* The text says the format of its data.
THEOREM TypeIsFormat == Spec => []TypeOfData
<1>1. IInv => TypeOfData
  BY DEF IInv, IconOK, TypeOfData
<1> QED
  BY <1>1, Invariant, PTL

\* Only a failing bundle manager and an image that is not recognised leave an
\* ability without a text: data is never empty, so GetMediaBase64 gives one.
THEOREM RecognisedEncoded == Spec => RecognisedGetsText
<1>1. IInv /\ [Next]_vars => [icon' = Failed /\ pc # "idle" => GetImageType = "other"]_vars
  <2> SUFFICES ASSUME IInv, [Next]_vars, icon' = Failed, pc # "idle"
               PROVE  GetImageType = "other"
    BY DEF vars
  <2>1. icon # Failed /\ icon' # icon
    BY DEF IInv, CallOK, NoIcon, Failed
  <2>2. CASE Base64WithoutCompress
    BY <2>1, <2>2 DEF Base64WithoutCompress
  <2>3. ~GetMediaBase64
    <3> SUFFICES ASSUME GetMediaBase64 PROVE FALSE
      OBVIOUS
    <3>1. data.bytes \in Seq(Byte) /\ data.bytes # <<>>
      BY ImageAssumption DEF GetMediaBase64, IInv, CallOK, Image
    <3>2. Len(data.bytes) # 0
      BY <3>1
    <3> QED
      BY <2>1, <3>2 DEF GetMediaBase64
  <2>4. ~EncodeTail
    BY DEF EncodeTail, Finish, Failed
  <2> QED
    BY <2>1, <2>2, <2>3, <2>4
       DEF Next, GetMediaData, IsImageNeedCompressBySize, CompressImageByContent, Group, vars
<1> QED
  BY <1>1, Invariant, PTL DEF Spec, RecognisedGetsText
=============================================================================
