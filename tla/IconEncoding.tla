----------------------------- MODULE IconEncoding -----------------------------
(***************************************************************************)
(* How d-bms turns the icon of an ability into text: the image the bundle  *)
(* manager has is compressed if it is large, or taken as it is if it is    *)
(* not or cannot be, and encoded as base64 under the name of its format:   *)
(*                                                                         *)
(*   idle -> size -> compress -> media -> encode -> idle                   *)
(*             `-------`-> raw ---'                                        *)
(*                                                                         *)
(* A letter of the text is its index in DECODE_TABLE, which has no letter  *)
(* twice.  An image is its format and its bytes; that a header tells the   *)
(* format, once the image is long enough to have one, is all that is said  *)
(* of it.  A definition named D_X is a wrong variant of D that no          *)
(* specification uses: it serves to see the properties fail.               *)
(***************************************************************************)
EXTENDS Integers, Sequences

CONSTANTS Bytes,         \* what an image may consist of
          FILE_MAX_SIZE, \* images larger than this are compressed
          FORMAT_LENGTH  \* images shorter than this are not recognised

Known == {"jpeg", "png"}
Format == Known \cup {"webp", "other"}
Byte == 0..255
Pad == 64
Letter == 0..Pad

ASSUME ImageAssumption ==
    /\ Bytes \subseteq Seq(Byte)
    /\ FILE_MAX_SIZE \in Nat /\ FORMAT_LENGTH \in Nat \ {0}

\* EncodeBase64 takes the length, an int64_t, as an int, and computes the size of
\* the text in int: nothing is said of images of 1.6 GB or more, for which it does
\* not fit.
ASSUME LengthAssumption == \A b \in Bytes : (Len(b) \div 3) * 4 + 4 < 2147483647

VARIABLES pc,
          image,   \* imageContent
          data,    \* what GetMediaBase64 is given; its format is that of its bytes
          type,    \* imageType
          i, dst,  \* of EncodeBase64: how many bytes it has encoded, and to what
          icon     \* the outcome: the text, under the type and of the data it has
vars == <<pc, image, data, type, i, dst, icon>>

Image == [format : Format, bytes : Bytes]
NoImage == [format |-> "other", bytes |-> <<>>]
NoIcon == [status |-> "none"]
Failed == [status |-> "failed"]
Icon == {NoIcon, Failed}
          \cup [status : {"ok"}, type : Format, of : Image, text : Seq(Letter)]

\* Letters stay letters: no computed index lies outside of DECODE_TABLE.
IconTypeOK ==
    /\ pc \in {"idle", "size", "compress", "raw", "media", "encode"}
    /\ image \in Image \cup {NoImage} /\ data \in Image \cup {NoImage}
    /\ type \in Format
    /\ i \in Nat
    /\ dst \in Seq(Letter)
    /\ icon \in Icon

Init ==
    /\ pc = "idle"
    /\ image = NoImage /\ data = NoImage /\ type = "other"
    /\ i = 0 /\ dst = <<>>
    /\ icon = NoIcon

Finish(outcome) ==
    /\ pc' = "idle"
    /\ image' = NoImage /\ data' = NoImage /\ type' = "other"
    /\ i' = 0 /\ dst' = <<>>
    /\ icon' = outcome

-----------------------------------------------------------------------------

\* GetAbilityIconByContent begins: the bundle manager gives an image, or fails.
GetMediaData ==
    /\ pc = "idle"
    /\ \/ /\ \E img \in [format : Known \cup {"other"}, bytes : Bytes] : image' = img
          /\ pc' = "size"
          /\ icon' = NoIcon
          /\ UNCHANGED <<data, type, i, dst>>
       \/ Finish(Failed)

IsImageNeedCompressBySize ==
    /\ pc = "size"
    /\ pc' = IF Len(image.bytes) > FILE_MAX_SIZE THEN "compress" ELSE "raw"
    /\ UNCHANGED <<image, data, type, i, dst, icon>>

\* What the header says; a format d-bms does not look for is "other".
GetImageType ==
    IF Len(image.bytes) < FORMAT_LENGTH \/ image.format \notin Known THEN "other" ELSE image.format

\* What the packer is asked for.
Target == IF GetImageType = "jpeg" THEN "jpeg" ELSE "webp"

Packed_Any == Bytes

\* What can come out of the packer and be copied.
Packed == Bytes \ {<<>>}

\* Any of the image library's calls may fail: then the image is taken as it is.
CompressImageByContent ==
    /\ pc = "compress"
    /\ \/ /\ GetImageType # "other"
          /\ type' = Target
          /\ \/ /\ \E b \in Packed : data' = [format |-> Target, bytes |-> b]
                /\ pc' = "media"
             \/ pc' = "raw" /\ UNCHANGED data
       \/ /\ GetImageType = "other"
          /\ pc' = "raw"
          /\ UNCHANGED <<data, type>>
    /\ UNCHANGED <<image, i, dst, icon>>

RawType_Kept == IF type = "other" THEN GetImageType ELSE type

\* The type is determined anew, whatever the compression left.
RawType == GetImageType

Base64WithoutCompress ==
    /\ pc = "raw"
    /\ IF GetImageType = "other"
       THEN Finish(Failed)
       ELSE /\ type' = RawType
            /\ data' = image
            /\ pc' = "media"
            /\ UNCHANGED <<image, i, dst, icon>>

GetMediaBase64 ==
    /\ pc = "media"
    /\ IF Len(data.bytes) = 0
       THEN Finish(Failed)
       ELSE pc' = "encode" /\ UNCHANGED <<image, data, type, i, dst, icon>>

-----------------------------------------------------------------------------
(* EncodeBase64. *)

srcLen == Len(data.bytes)

\* The size of the text a source of n bytes is given room for (LengthAssumption:
\* an int holds it).
OutLen(n) == IF n % 3 # 0 THEN (n \div 3) * 4 + 4 ELSE (n \div 3) * 4

\* What srcData[k] may be: outside of the source, anything.
At(k) == IF k \in 0..srcLen - 1 THEN {data.bytes[k + 1]} ELSE Byte

Low_NoMask(b, c) == b * 16 + c \div 16

\* The letter that has the low two bits of b and the high four of c.
Low(b, c) == (b % 4) * 16 + c \div 16

\* The letter that has the low four bits of c and the high two of d.
Mid(c, d) == (c % 16) * 4 + d \div 64

MoreGroups_Equal == i <= srcLen - 3

MoreGroups == i < srcLen - 3

\* One turn of the loop.
Group ==
    /\ pc = "encode" /\ MoreGroups
    /\ \E b \in At(i), c \in At(i + 1), d \in At(i + 2) :
         dst' = dst \o <<b \div 4, Low(b, c), Mid(c, d), d % 64>>
    /\ i' = i + 3
    /\ UNCHANGED <<pc, image, data, type, icon>>

TailOf_Swapped(b, c) ==
    IF srcLen % 3 # 1 THEN <<b \div 4, Low(b, 0), Pad, Pad>>
    ELSE <<b \div 4, Low(b, c), Mid(c, 0), Pad>>

\* The letters of the tail.
TailOf(b, c) ==
    IF srcLen % 3 = 1 THEN <<b \div 4, Low(b, 0), Pad, Pad>>
    ELSE <<b \div 4, Low(b, c), Mid(c, 0), Pad>>

\* What is left after the loop, of which the code takes one byte or two.
EncodeTail ==
    /\ pc = "encode" /\ ~MoreGroups
    /\ \E b \in At(i), c \in At(i + 1) :
         Finish([status |-> "ok", type |-> type, of |-> data, text |-> dst \o TailOf(b, c)])

Next == \/ GetMediaData \/ IsImageNeedCompressBySize \/ CompressImageByContent
        \/ Base64WithoutCompress \/ GetMediaBase64 \/ Group \/ EncodeTail

Spec == Init /\ [][Next]_vars

-----------------------------------------------------------------------------
(* What base64 is: three bytes are a number of 24 bits, four letters are   *)
(* its digits to the base of 64; missing bytes are zero and letters that   *)
(* have no bit of a byte are padding.                                      *)

ByteOf(s, k) == IF k < Len(s) THEN s[k + 1] ELSE 0
Number(s, g) == ByteOf(s, 3 * g) * 65536 + ByteOf(s, 3 * g + 1) * 256 + ByteOf(s, 3 * g + 2)
Digit(n, p) == CASE p = 0 -> (n \div 262144) % 64
                 [] p = 1 -> (n \div 4096) % 64
                 [] p = 2 -> (n \div 64) % 64
                 [] p = 3 -> n % 64
Base64(s) ==
    [k \in 1..OutLen(Len(s)) |->
       LET g == (k - 1) \div 4
           p == (k - 1) % 4
       IN  IF p > 1 /\ 3 * g + p > Len(s) THEN Pad ELSE Digit(Number(s, g), p)]

Ok == icon.status = "ok"

\* The text fills the room for it and no more, at no time (the buffer is of
\* outLen + 1 characters, distributed_bms.cpp:631-633, and a gap would end it).
NoOverrun ==
    /\ Len(dst) <= OutLen(srcLen)
    /\ Ok => Len(icon.text) = OutLen(Len(icon.of.bytes))

\* The text is the base64 of the data, without its last byte if the length is
\* a multiple of three (the loop of distributed_bms.cpp:637 stops one group
\* early and the branch of :656 takes two bytes of it).
TextOfData ==
    Ok => LET s == icon.of.bytes IN
          icon.text = Base64(IF Len(s) % 3 = 0 THEN SubSeq(s, 1, Len(s) - 1) ELSE s)

\* The text says what format its data is of, also when a compression was tried
\* and given up (Base64WithoutCompress has an imageType of its own,
\* distributed_bms.cpp:451).
TypeOfData == Ok => icon.type = icon.of.format

\* An image that is recognised gets a text, however its compression ends: only
\* the bundle manager's failure or an unknown format fail the query
\* (distributed_bms.cpp:434-437).
RecognisedGetsText ==
    [][icon' = Failed /\ pc # "idle" => GetImageType = "other"]_vars

\* "Split 3 bytes to 4 parts, each containing 6 bits." (distributed_bms.cpp:630):
\* three bytes become four letters, wherever in the source they are.
ThreeBytesFourLetters ==
    Ok => icon.text = Base64(icon.of.bytes)
=============================================================================
