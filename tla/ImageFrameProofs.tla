-------------------------- MODULE ImageFrameProofs --------------------------
(***************************************************************************)
(* Proofs about ImageFrame for every size of picture and every value of    *)
(* the limits.  FrameInv says, for each step, which picture gets there and *)
(* what the buffers and rectangles are by then as functions of the         *)
(* picture; the properties are arithmetic about these functions.           *)
(***************************************************************************)
EXTENDS ImageFrame, TLAPS

---------------------------------------------------------------------------
(* Arithmetic *)

LEMMA DivMod ==
    ASSUME NEW n \in Nat \ {0}, NEW r \in Nat, NEW c \in 0..(n - 1)
    PROVE  (r * n + c) \div n = r /\ (r * n + c) % n = c
BY SMT

LEMMA QuotientRest ==
    ASSUME NEW n \in Nat \ {0}, NEW x \in Nat
    PROVE  /\ x % n \in 0..(n - 1)
           /\ x \div n \in Nat
           /\ x = n * (x \div n) + (x % n)
BY SMT

LEMMA ProductMonotone ==
    ASSUME NEW a \in Nat, NEW b \in Nat, NEW c \in Nat, NEW d \in Nat,
           a <= c, b <= d
    PROVE  a * b <= c * d /\ a * b \in Nat /\ c * d \in Nat
<1>1. a * b <= c * b
  BY SMT
<1>2. c * b <= c * d
  BY SMT
<1>3. a * b \in Nat /\ c * b \in Nat /\ c * d \in Nat
  BY SMT
<1>4. QED
  BY <1>1, <1>2, <1>3, SMT

(* Even(x) and PlaneWidth(x) are the even numbers around x. *)
LEMMA EvenFacts ==
    ASSUME NEW x \in Nat
    PROVE  /\ Even(x) \in Nat /\ PlaneWidth(x) \in Nat
           /\ Even(x) <= x /\ x <= PlaneWidth(x) /\ x <= Even(x) + 1
           /\ Even(x) = 2 * (Even(x) \div 2)
           /\ PlaneWidth(x) = 2 * (PlaneWidth(x) \div 2)
           /\ Even(x) \div 2 \in Nat /\ PlaneWidth(x) \div 2 \in Nat
           /\ Even(x) \div 2 <= PlaneWidth(x) \div 2
           /\ x % 2 = 0 => Even(x) = x /\ PlaneWidth(x) = x
BY SMT DEF Even, PlaneWidth

LEMMA HalfOfEven ==
    ASSUME NEW x \in Nat, x = 2 * (x \div 2)
    PROVE  Half(x) = x \div 2
BY SMT DEF Half

(* AlignDown(x) is the last multiple of Align up to x. *)
LEMMA AlignFacts ==
    ASSUME NEW x \in Nat
    PROVE  /\ AlignDown(x) \in Nat
           /\ AlignDown(x) <= x /\ x < AlignDown(x) + Align
           /\ AlignDown(x) % Align = 0
           /\ AlignDown(x) % 2 = 0
           /\ \A m \in Nat : m % Align = 0 /\ m <= x => m <= AlignDown(x)
<1> DEFINE q == x \div Align
           a == Align \div 2
<1>1. Align \in Nat \ {0} /\ Align = 2 * a /\ a \in Nat
  BY FrameAssumption, SMT
<1>2. q \in Nat /\ x = Align * q + (x % Align) /\ x % Align \in 0..(Align - 1)
  BY <1>1, QuotientRest
<1>3. AlignDown(x) = q * Align + 0
  BY <1>1, <1>2, SMT DEF AlignDown
<1>4. AlignDown(x) \in Nat /\ AlignDown(x) <= x /\ x < AlignDown(x) + Align
  BY <1>1, <1>2, <1>3, SMT
<1>5. AlignDown(x) % Align = 0
  <2>1. 0 \in 0..(Align - 1)
    BY <1>1, SMT
  <2>2. (q * Align + 0) % Align = 0
    BY <1>1, <1>2, <2>1, DivMod, Zenon
  <2>3. QED
    BY <1>3, <2>2, Zenon
<1>6. AlignDown(x) % 2 = 0
  <2>1. q * a \in Nat /\ AlignDown(x) = (q * a) * 2 + 0
    BY <1>1, <1>2, <1>3, SMT
  <2>2. QED
    BY <2>1, DivMod, SMT
<1>7. ASSUME NEW m \in Nat, m % Align = 0, m <= x
      PROVE  m <= AlignDown(x)
  <2> DEFINE k == m \div Align
  <2>1. k \in Nat /\ m = Align * k
    BY <1>1, <1>7, QuotientRest, SMT
  <2>2. CASE k <= q
    <3>1. k * Align <= q * Align
      BY <1>1, <1>2, <2>1, <2>2, ProductMonotone
    <3>2. QED
      BY <1>1, <1>2, <1>3, <2>1, <3>1, SMT
  <2>3. CASE k > q
    <3>1. (q + 1) * Align <= k * Align
      BY <1>1, <1>2, <2>1, <2>3, ProductMonotone
    <3>2. (q + 1) * Align = q * Align + Align
      BY <1>1, <1>2, SMT
    <3>3. q * Align + Align <= x
      BY <1>1, <1>2, <1>7, <2>1, <3>1, <3>2, SMT
    <3>4. QED
      BY <1>1, <1>2, <1>3, <1>4, <3>3, SMT
  <2>4. QED
    BY <1>1, <1>2, <2>1, <2>2, <2>3, SMT
<1>8. QED
  BY <1>4, <1>5, <1>6, <1>7

(* RoundDiv(a, b) is a / b, at most one half more or less. *)
LEMMA RoundFacts ==
    ASSUME NEW a \in Nat, NEW b \in Nat \ {0}
    PROVE  /\ RoundDiv(a, b) \in Nat
           /\ 2 * (RoundDiv(a, b) * b) <= 2 * a + b
           /\ 2 * a < 2 * (RoundDiv(a, b) * b) + b
<1> DEFINE n == 2 * b
           x == 2 * a + b
           q == x \div n
<1>1. n \in Nat \ {0} /\ x \in Nat
  BY SMT
<1>2. q \in Nat /\ x = n * q + (x % n) /\ x % n \in 0..(n - 1)
  BY <1>1, QuotientRest
<1>3. n * q = 2 * (q * b)
  BY <1>2, SMT
<1>4. q * b \in Nat
  BY <1>2, SMT
<1>5. q = RoundDiv(a, b)
  BY DEF RoundDiv
<1> HIDE DEF q
<1>6. QED
  BY <1>2, <1>3, <1>4, <1>5, SMT

(* A resize to less than the width makes the height no larger. *)
LEMMA ResizeShrinks ==
    ASSUME NEW a \in Nat \ {0}, NEW m \in Nat, NEW b \in Nat \ {0}, m < b
    PROVE  /\ RoundDiv(a * m, b) \in Nat
           /\ RoundDiv(a * m, b) <= a
<1> DEFINE q == RoundDiv(a * m, b)
<1>1. a * m \in Nat
  BY SMT
<1>2. q \in Nat /\ 2 * (q * b) <= 2 * (a * m) + b
  BY <1>1, RoundFacts
<1>3. ASSUME q >= a + 1 PROVE FALSE
  <2>1. (a + 1) * b <= q * b
    BY <1>2, <1>3, ProductMonotone, SMT
  <2>2. (a + 1) * b = a * b + b /\ a * b \in Nat /\ q * b \in Nat
    BY <1>2, SMT
  <2>3. a * m <= a * b
    BY ProductMonotone, SMT
  <2> HIDE DEF q
  <2>4. QED
    BY <1>1, <1>2, <2>1, <2>2, <2>3, SMT
<1>4. QED
  BY <1>2, <1>3, SMT

---------------------------------------------------------------------------
(* The invariant *)

(* The pictures of the YUV route, and what it makes of them. *)
Fast == kind = "jpeg420" /\ w <= Threshold
Written ==
    planes = [y |-> PlaneWidth(w), c |-> PlaneWidth(w) \div 2,
              yLen |-> PlaneWidth(w) * PlaneWidth(h),
              cLen |-> (PlaneWidth(w) \div 2) * (PlaneWidth(h) \div 2)]
Sliced == cut = [w |-> Even(w), h |-> Even(h)]
Aligned == size = [w |-> AlignDown(cut.w), h |-> AlignDown(cut.h)]
Packed ==
    /\ Fast /\ Written /\ Sliced /\ Aligned
    /\ via = "svt"
    /\ rows.y = cut.w /\ rows.c = cut.w \div 2

(* The RGB route. *)
Decoded ==
    /\ kind # "ffmpeg"
    /\ \/ cut = [w |-> w, h |-> h]
       \/ cut = [w |-> Half(w), h |-> Half(h)] /\ w > 2 * MaxWidth
Framed ==
    /\ Decoded
    /\ \/ /\ via = "crop" /\ Aligned
          /\ cut.w <= MaxWidth \/ 100 * cut.w <= SkipPercent * MaxWidth
       \/ /\ via = "resize" /\ cut.w > MaxWidth
          /\ size = [w |-> AlignDown(MaxWidth),
                     h |-> AlignDown(AtLeastOne(RoundDiv(cut.h * MaxWidth, cut.w)))]

(* The ffmpeg route: the picture was measured, or it was not. *)
Probed == kind = "ffmpeg" /\ (cut = [w |-> w, h |-> h] \/ cut = NoSize)
Foretold ==
    /\ Probed
    /\ via = IF cut.w = 0 \/ cut.w > MaxWidth THEN "scale" ELSE "crop"
    /\ size = ScaledDims(cut.w, cut.h)

Encodable == size.w >= MinSide /\ size.h >= MinSide
NonEmpty  == size.w > 0 /\ size.h > 0

(* For every step, the picture that gets there and what it has become. *)
FrameInv ==
    /\ TypeOK
    /\ pc \in {"new", "yuv", "planes", "sliced", "rgb", "decoded", "probe", "filter"}
          => via = "none"
    /\ pc = "yuv" => Fast
    /\ pc = "planes" => Fast /\ Written
    /\ pc = "sliced" => Fast /\ Written /\ Sliced
    /\ pc = "encode_yuv" => Packed
    /\ pc = "rgb" => kind # "ffmpeg"
    /\ pc = "decoded" => Decoded
    /\ pc = "framed" => Framed
    /\ pc = "converted" => Framed /\ Encodable
    /\ pc = "probe" => kind = "ffmpeg"
    /\ pc = "filter" => Probed
    /\ pc = "done" => \/ Packed /\ SvtEncodes
                      \/ Framed /\ NonEmpty
                      \/ Foretold
    /\ pc = "failed" => (Packed /\ ~ SvtEncodes) \/ (Framed /\ ~ NonEmpty)
    /\ ColoursSound

(* White stays white, grey is without colour, and every sample is a byte. *)
LEMMA ColourFacts ==
    ASSUME NEW r \in 0..255, NEW g \in 0..255, NEW b \in 0..255
    PROVE  /\ Luma(r, g, b) \in 0..255
           /\ ChromaB(r, g, b) \in 0..255
           /\ ChromaR(r, g, b) \in 0..255
           /\ r = g /\ g = b =>
                 Luma(r, g, b) = r /\ ChromaB(r, g, b) = 128 /\ ChromaR(r, g, b) = 128
           /\ r >= g /\ r >= b => ChromaR(r, g, b) >= 128
           /\ b >= r /\ b >= g => ChromaB(r, g, b) >= 128
<1>1. Luma(r, g, b) \in 0..255 /\ (r = g /\ g = b => Luma(r, g, b) = r)
  BY SMT DEF Luma, Clamp
<1>2. /\ ChromaB(r, g, b) \in 0..255
      /\ r = g /\ g = b => ChromaB(r, g, b) = 128
      /\ b >= r /\ b >= g => ChromaB(r, g, b) >= 128
  BY SMT DEF ChromaB, Clamp
<1>3. /\ ChromaR(r, g, b) \in 0..255
      /\ r = g /\ g = b => ChromaR(r, g, b) = 128
      /\ r >= g /\ r >= b => ChromaR(r, g, b) >= 128
  BY SMT DEF ChromaR, Clamp
<1>4. QED
  BY <1>1, <1>2, <1>3

(* The height a resize asks for is a height. *)
LEMMA ResizeType ==
    ASSUME NEW a \in Nat, NEW b \in Nat, b > MaxWidth
    PROVE  AlignDown(AtLeastOne(RoundDiv(a * MaxWidth, b))) \in Nat
<1>1. MaxWidth \in Nat /\ a * MaxWidth \in Nat /\ b \in Nat \ {0}
  BY FrameAssumption, SMT
<1>2. RoundDiv(a * MaxWidth, b) \in Nat
  BY <1>1, RoundFacts
<1>3. AtLeastOne(RoundDiv(a * MaxWidth, b)) \in Nat
  BY <1>2, SMT DEF AtLeastOne
<1>4. QED
  BY <1>3, AlignFacts

LEMMA FrameInvInit == Init => FrameInv
<1>1. Init => ColoursSound
  BY SMT DEF Init, ColoursSound
<1>2. Init => TypeOK
  BY SMT DEF Init, TypeOK, Sizes, NoSize
<1>3. QED
  BY <1>1, <1>2 DEF Init, FrameInv, Fast, Written

LEMMA FrameInvNext == FrameInv /\ [Next]_vars => FrameInv'
<1> SUFFICES ASSUME FrameInv, [Next]_vars
             PROVE  FrameInv'
  OBVIOUS
<1> USE DEF vars, picture
<1>t. /\ TypeOK /\ ColoursSound /\ w \in Nat \ {0} /\ h \in Nat \ {0}
      /\ MaxWidth \in Nat \ {0} /\ cut.w \in Nat /\ cut.h \in Nat
      /\ size.w \in Nat /\ size.h \in Nat
  BY FrameAssumption, Zenon DEF FrameInv, TypeOK, Sizes
<1>s. ASSUME UNCHANGED <<picture, yuv>>
      PROVE  ColoursSound'
  BY <1>s, <1>t DEF ColoursSound
<1>1. CASE Route
  BY <1>1, <1>t, <1>s DEF Route, FrameInv, TypeOK, Fast
<1>2. CASE DecodePlanes
  <2>1. TypeOK'
    <3>1. PlaneWidth(w) \in Nat /\ PlaneWidth(h) \in Nat
          /\ PlaneWidth(w) \div 2 \in Nat /\ PlaneWidth(h) \div 2 \in Nat
      BY <1>t, EvenFacts
    <3>2. /\ PlaneWidth(w) * PlaneWidth(h) \in Nat
          /\ (PlaneWidth(w) \div 2) * (PlaneWidth(h) \div 2) \in Nat
      BY <3>1, SMT
    <3>3. QED
      BY <1>2, <1>t, <3>1, <3>2 DEF DecodePlanes, TypeOK
  <2>2. QED
    BY <1>2, <1>s, <2>1 DEF DecodePlanes, FrameInv, Fast, Written
<1>3. CASE SlicePlanes
  <2>1. Even(w) \in Nat /\ Even(h) \in Nat
    BY <1>t, EvenFacts
  <2>2. TypeOK'
    BY <1>3, <1>t, <2>1 DEF SlicePlanes, TypeOK, Sizes
  <2>3. QED
    BY <1>3, <1>s, <2>2 DEF SlicePlanes, FrameInv, Fast, Written, Sliced
<1>4. CASE Repack
  <2>1. Fast /\ Written /\ Sliced
    BY <1>4 DEF Repack, FrameInv
  <2>2. /\ cut.w = 2 * (cut.w \div 2) /\ cut.w \div 2 \in Nat
    BY <1>t, <2>1, EvenFacts DEF Sliced
  <2>3. Half(cut.w) = cut.w \div 2
    BY <1>t, <2>2, HalfOfEven
  <2>4. AlignDown(cut.w) \in Nat /\ AlignDown(cut.h) \in Nat
    BY <1>t, AlignFacts
  <2>5. /\ size' = [w |-> AlignDown(cut.w), h |-> AlignDown(cut.h)]
        /\ rows' = [y |-> cut.w, c |-> cut.w \div 2]
    BY <1>4, <2>3 DEF Repack
  <2>6. TypeOK'
    BY <1>4, <1>t, <2>2, <2>4, <2>5 DEF Repack, TypeOK, Sizes
  <2>7. Packed'
    BY <1>4, <2>1, <2>5 DEF Repack, Packed, Fast, Written, Sliced, Aligned
  <2>8. QED
    BY <1>4, <1>s, <2>6, <2>7 DEF Repack, FrameInv
<1>5. CASE EncodeYuv
  <2>1. Packed /\ Packed'
    BY <1>5 DEF EncodeYuv, FrameInv, Packed, Fast, Written, Sliced, Aligned
  <2>2. TypeOK'
    BY <1>5, <1>t DEF EncodeYuv, TypeOK
  <2>3. QED
    BY <1>5, <1>s, <2>1, <2>2 DEF EncodeYuv, FrameInv, SvtEncodes
<1>6. CASE DecodeRgb
  <2>1. Half(w) \in Nat /\ Half(h) \in Nat
    BY <1>t, SMT DEF Half
  <2>2. TypeOK'
    BY <1>6, <1>t, <2>1 DEF DecodeRgb, TypeOK, Sizes
  <2>3. Decoded'
    BY <1>6, <1>t, SMT DEF DecodeRgb, FrameInv, Decoded
  <2>4. QED
    BY <1>6, <1>s, <2>2, <2>3 DEF DecodeRgb, FrameInv
<1>7. CASE Crop
  <2>1. AlignDown(cut.w) \in Nat /\ AlignDown(cut.h) \in Nat
    BY <1>t, AlignFacts
  <2>2. TypeOK'
    BY <1>7, <1>t, <2>1 DEF Crop, TypeOK, Sizes
  <2>3. Framed'
    BY <1>7, Zenon DEF Crop, FrameInv, Framed, Decoded, Aligned
  <2>4. QED
    BY <1>7, <1>s, <2>2, <2>3 DEF Crop, FrameInv
<1>8. CASE Resize
  <2>1. AlignDown(MaxWidth) \in Nat
        /\ AlignDown(AtLeastOne(RoundDiv(cut.h * MaxWidth, cut.w))) \in Nat
    BY <1>8, <1>t, AlignFacts, ResizeType DEF Resize
  <2>2. TypeOK'
    BY <1>8, <1>t, <2>1 DEF Resize, TypeOK, Sizes
  <2>3. Framed'
    BY <1>8, Zenon DEF Resize, FrameInv, Framed, Decoded
  <2>4. QED
    BY <1>8, <1>s, <2>2, <2>3 DEF Resize, FrameInv
<1>9. CASE EncodeSmall
  <2>1. Framed /\ Framed'
    BY <1>9, Zenon DEF EncodeSmall, FrameInv, Framed, Decoded, Aligned
  <2>2. TypeOK'
    BY <1>9, <1>t DEF EncodeSmall, TypeOK
  <2>3. QED
    BY <1>9, <1>s, <2>1, <2>2 DEF EncodeSmall, FrameInv, NonEmpty
<1>10. CASE Convert
  <2>1. PICK r, g, b \in Samples :
          yuv' = [rgb |-> <<r, g, b>>, y |-> Luma(r, g, b),
                  u |-> ChromaB(r, g, b), v |-> ChromaR(r, g, b)]
    BY <1>10 DEF Convert
  <2>2. r \in 0..255 /\ g \in 0..255 /\ b \in 0..255
    BY FrameAssumption
  <2>3. /\ Luma(r, g, b) \in 0..255
        /\ ChromaB(r, g, b) \in 0..255
        /\ ChromaR(r, g, b) \in 0..255
        /\ r = g /\ g = b =>
              Luma(r, g, b) = r /\ ChromaB(r, g, b) = 128 /\ ChromaR(r, g, b) = 128
        /\ r >= g /\ r >= b => ChromaR(r, g, b) >= 128
        /\ b >= r /\ b >= g => ChromaB(r, g, b) >= 128
    BY <2>2, ColourFacts
  <2>4. /\ yuv'.rgb = <<r, g, b>> /\ yuv'.y = Luma(r, g, b)
        /\ yuv'.u = ChromaB(r, g, b) /\ yuv'.v = ChromaR(r, g, b)
    BY <2>1
  <2>5. ColoursSound'
    BY <2>3, <2>4 DEF ColoursSound
  <2>6. TypeOK'
    BY <1>10, <1>t, <2>1, <2>2, <2>3 DEF Convert, TypeOK
  <2>7. Framed' /\ Encodable'
    BY <1>10, Zenon DEF Convert, FrameInv, Framed, Decoded, Aligned, Encodable
  <2>8. QED
    BY <1>10, <2>5, <2>6, <2>7 DEF Convert, FrameInv
<1>11. CASE EncodeRgb
  <2>1. Framed' /\ Encodable
    BY <1>11, Zenon DEF EncodeRgb, FrameInv, Framed, Decoded, Aligned
  <2>2. TypeOK'
    BY <1>11, <1>t DEF EncodeRgb, TypeOK
  <2>3. NonEmpty'
    BY <1>11, <1>t, <2>1, FrameAssumption DEF EncodeRgb, Encodable, NonEmpty
  <2>4. QED
    BY <1>11, <1>s, <2>1, <2>2, <2>3 DEF EncodeRgb, FrameInv
<1>12. CASE Probe
  <2>1. TypeOK'
    BY <1>12, <1>t DEF Probe, TypeOK, Sizes, NoSize
  <2>2. QED
    BY <1>12, <1>s, <2>1 DEF Probe, FrameInv, Probed
<1>13. CASE Filter
  <2>1. ScaledDims(cut.w, cut.h) \in Sizes
    <3>1. CASE cut.w = 0 \/ cut.h = 0
      BY <3>1 DEF ScaledDims, NoSize, Sizes
    <3>2. CASE cut.w # 0 /\ cut.h # 0
      <4>1. cut.h * MaxWidth \in Nat /\ cut.w \in Nat \ {0}
        BY <1>t, <3>2, SMT
      <4>2. RoundDiv(cut.h * MaxWidth, cut.w) \in Nat
        BY <4>1, RoundFacts
      <4>3. /\ Even(cut.w) \in Nat /\ Even(cut.h) \in Nat /\ Even(MaxWidth) \in Nat
            /\ Even(RoundDiv(cut.h * MaxWidth, cut.w)) \in Nat
        BY <1>t, <4>2, EvenFacts
      <4>4. QED
        BY <3>2, <4>3 DEF ScaledDims, Sizes
    <3>3. QED
      BY <3>1, <3>2
  <2>2. TypeOK'
    BY <1>13, <1>t, <2>1 DEF Filter, TypeOK
  <2>3. Foretold'
    BY <1>13 DEF Filter, FrameInv, Probed, Foretold
  <2>4. QED
    BY <1>13, <1>s, <2>2, <2>3 DEF Filter, FrameInv
<1>14. CASE UNCHANGED vars
  BY <1>14, <1>s, <1>t DEF FrameInv, TypeOK, Fast, Written, Sliced, Packed, Aligned,
     Decoded, Framed, Encodable, SvtEncodes, NonEmpty, Probed, Foretold
<1>15. QED
  BY <1>1, <1>2, <1>3, <1>4, <1>5, <1>6, <1>7, <1>8, <1>9, <1>10, <1>11, <1>12,
     <1>13, <1>14, Zenon DEF Next

LEMMA FrameInvAlways == Spec => []FrameInv
BY FrameInvInit, FrameInvNext, PTL DEF Spec

---------------------------------------------------------------------------
(* The properties, for every size of picture and every value of the limits *)

(* The variables stay in their types. *)
THEOREM FrameTypeCorrect == Spec => []TypeOK
<1>1. FrameInv => TypeOK
  BY DEF FrameInv
<1>2. QED
  BY <1>1, FrameInvAlways, PTL

(* Grey stays grey and no sample leaves its byte. *)
THEOREM ColoursAlwaysSound == Spec => []ColoursSound
<1>1. FrameInv => ColoursSound
  BY DEF FrameInv
<1>2. QED
  BY <1>1, FrameInvAlways, PTL

LEMMA ReadIsPacked == FrameInv /\ YuvRead => Packed /\ TypeOK
BY Zenon DEF FrameInv, YuvRead, Framed, Foretold, Probed, TypeOK

(* No slice and no copied row of process_image is out of range. *)
THEOREM PlanesAlwaysInBuffer == Spec => []PlanesInBuffer
<1>1. FrameInv => PlanesInBuffer
  <2> SUFFICES ASSUME FrameInv, YuvRead
               PROVE  /\ SliceY <= planes.yLen /\ SliceC <= planes.cLen
                      /\ \A r \in 0..(size.h - 1) : r * rows.y + size.w <= SliceY
                      /\ \A r \in 0..(size.h \div 2 - 1) :
                            r * rows.c + size.w \div 2 <= SliceC
    BY DEF PlanesInBuffer
  <2> DEFINE a == Even(w) \div 2
             b == Even(h) \div 2
             pa == PlaneWidth(w) \div 2
             pb == PlaneWidth(h) \div 2
  <2>1. Packed /\ TypeOK /\ w \in Nat /\ h \in Nat
    BY ReadIsPacked, FrameAssumption DEF TypeOK
  <2>2. /\ a \in Nat /\ b \in Nat /\ pa \in Nat /\ pb \in Nat
        /\ a <= pa /\ b <= pb
        /\ Even(w) = 2 * a /\ Even(h) = 2 * b
        /\ PlaneWidth(w) = 2 * pa /\ PlaneWidth(h) = 2 * pb
    BY <2>1, EvenFacts
  <2>3. /\ cut.w = 2 * a /\ cut.h = 2 * b
        /\ rows.y = 2 * a /\ rows.c = a
        /\ planes.yLen = (2 * pa) * (2 * pb) /\ planes.cLen = pa * pb
        /\ size.w = AlignDown(2 * a) /\ size.h = AlignDown(2 * b)
    BY <2>1, <2>2 DEF Packed, Written, Sliced, Aligned
  <2> HIDE DEF a, b, pa, pb
  <2>4. 2 * a \in Nat /\ 2 * b \in Nat /\ 2 * pa \in Nat /\ 2 * pb \in Nat
        /\ 2 * a <= 2 * pa /\ 2 * b <= 2 * pb
    BY <2>2
  <2>5. /\ size.w \in Nat /\ size.w <= 2 * a
        /\ size.h \in Nat /\ size.h <= 2 * b
    BY <2>3, <2>4, AlignFacts
  <2>6. /\ (2 * a) * (2 * b) \in Nat /\ a * b \in Nat
        /\ (a * (2 * b)) \div 2 = a * b
    <3>1. a * b \in Nat /\ (2 * a) * (2 * b) \in Nat
      BY <2>2, SMT
    <3>2. a * (2 * b) = (a * b) * 2 + 0
      BY <2>2, SMT
    <3>3. ((a * b) * 2 + 0) \div 2 = a * b
      BY <3>1, DivMod, SMT
    <3>4. QED
      BY <3>1, <3>2, <3>3
  <2>7. SliceY = (2 * a) * (2 * b) /\ SliceC = a * b
    <3>1. (2 * a) \div 2 = a
      BY <2>2, SMT
    <3>2. QED
      BY <2>3, <2>6, <3>1 DEF SliceY, SliceC
  <2>8. SliceY <= planes.yLen /\ SliceC <= planes.cLen
    BY <2>2, <2>3, <2>4, <2>7, ProductMonotone
  <2>9. ASSUME NEW r \in 0..(size.h - 1)
        PROVE  r * rows.y + size.w <= SliceY
    <3>1. r \in Nat /\ r + 1 <= 2 * b /\ r + 1 \in Nat
      BY <2>2, <2>5, SMT
    <3>2. (r + 1) * (2 * a) <= (2 * b) * (2 * a)
      BY <2>4, <3>1, ProductMonotone
    <3>3. (r + 1) * (2 * a) = r * (2 * a) + 2 * a /\ (2 * b) * (2 * a) = (2 * a) * (2 * b)
      BY <2>2, <3>1, SMT
    <3>4. r * (2 * a) \in Nat
      BY <2>4, <3>1, SMT
    <3>5. r * (2 * a) + size.w <= (2 * a) * (2 * b)
      BY <2>4, <2>5, <2>6, <3>2, <3>3, <3>4, SMT
    <3>6. QED
      BY <2>3, <2>7, <3>5
  <2>10. ASSUME NEW r \in 0..(size.h \div 2 - 1)
         PROVE  r * rows.c + size.w \div 2 <= SliceC
    <3>1. r \in Nat /\ r + 1 <= b /\ r + 1 \in Nat /\ size.w \div 2 \in Nat
          /\ size.w \div 2 <= a
      BY <2>2, <2>5, SMT
    <3>2. (r + 1) * a <= b * a
      BY <2>2, <3>1, ProductMonotone
    <3>3. (r + 1) * a = r * a + a /\ b * a = a * b /\ r * a \in Nat
      BY <2>2, <3>1, SMT
    <3>4. r * a + size.w \div 2 <= a * b
      BY <2>2, <2>6, <3>1, <3>2, <3>3, SMT
    <3>5. QED
      BY <2>3, <2>7, <3>4
  <2>11. QED
    BY <2>8, <2>9, <2>10
<1>2. QED
  BY <1>1, FrameInvAlways, PTL

(* A plane that is read with the stride it was written with is in place. *)
LEMMA SameStride ==
    ASSUME NEW n \in Nat, NEW width \in Nat, NEW height \in Nat, width <= n
    PROVE  InPlace(n, n, width, height)
<1> SUFFICES ASSUME NEW r \in 0..(height - 1), NEW c \in 0..(width - 1)
             PROVE  (r * n + c) \div n = r /\ (r * n + c) % n = c
  BY DEF InPlace
<1>1. n \in Nat \ {0} /\ r \in Nat /\ c \in 0..(n - 1)
  BY SMT
<1>2. QED
  BY <1>1, DivMod

(* Every pixel of a YUV encode of even width is where it was. *)
THEOREM EvenWidthsAlwaysInPlace == Spec => []EvenWidthsInPlace
<1>1. FrameInv => EvenWidthsInPlace
  <2> SUFFICES ASSUME FrameInv, YuvRead, w % 2 = 0
               PROVE  /\ InPlace(planes.y, rows.y, size.w, size.h)
                      /\ InPlace(planes.c, rows.c, size.w \div 2, size.h \div 2)
    BY DEF EvenWidthsInPlace, PixelsInPlace
  <2>1. Packed /\ TypeOK /\ w \in Nat
    BY ReadIsPacked, FrameAssumption DEF TypeOK
  <2>2. Even(w) = w /\ PlaneWidth(w) = w
    BY <2>1, EvenFacts
  <2>3. /\ planes.y = w /\ rows.y = w
        /\ planes.c = w \div 2 /\ rows.c = w \div 2
        /\ size.w = AlignDown(w)
    BY <2>1, <2>2 DEF Packed, Written, Sliced, Aligned
  <2>4. size.w \in Nat /\ size.h \in Nat /\ size.w <= w
    BY <2>1, <2>3, AlignFacts DEF TypeOK, Sizes
  <2>5. /\ w \div 2 \in Nat /\ size.w \div 2 \in Nat /\ size.h \div 2 \in Nat
        /\ size.w \div 2 <= w \div 2
    BY <2>1, <2>4, SMT
  <2>6. InPlace(w, w, size.w, size.h)
    BY <2>1, <2>4, SameStride
  <2>7. InPlace(w \div 2, w \div 2, size.w \div 2, size.h \div 2)
    BY <2>5, SameStride
  <2>8. QED
    BY <2>3, <2>6, <2>7
<1>2. QED
  BY <1>1, FrameInvAlways, PTL

(* The threshold lies between the target width and twice that width. *)
LEMMA ThresholdFacts ==
    /\ Threshold \in Nat /\ MaxWidth <= Threshold
    /\ \A x \in Nat : 100 * x <= SkipPercent * MaxWidth => x <= Threshold
<1> DEFINE p == MaxWidth * SkipPercent
<1>1. MaxWidth \in Nat /\ SkipPercent \in Nat /\ SkipPercent >= 100
  BY FrameAssumption
<1>2. 100 * MaxWidth <= p /\ p \in Nat /\ SkipPercent * MaxWidth = p
  <2>1. MaxWidth * 100 <= MaxWidth * SkipPercent
    BY <1>1, ProductMonotone
  <2>2. QED
    BY <1>1, <2>1, SMT
<1>3. Threshold = p \div 100
  BY DEF Threshold
<1> HIDE DEF p
<1>4. QED
  BY <1>1, <1>2, <1>3, SMT

(* A decoded picture is no larger than the picture, and decoding at half    *)
(* size leaves it wider than the target.                                    *)
LEMMA DecodedFacts ==
    ASSUME TypeOK, Decoded
    PROVE  /\ cut.w \in Nat \ {0} /\ cut.h \in Nat \ {0}
           /\ cut.w <= w /\ cut.h <= h
           /\ w > MaxWidth => cut.w > MaxWidth
           /\ \/ cut.w = w /\ cut.h = h
              \/ w > 2 * MaxWidth /\ 2 * cut.w <= w + 1 /\ 2 * cut.h >= h
BY FrameAssumption, SMT DEF TypeOK, Sizes, Decoded, Half

(* A resized picture has the target width, and is no higher than before. *)
LEMMA ResizedFacts ==
    ASSUME TypeOK, Framed, via = "resize"
    PROVE  /\ size.w = MaxWidth
           /\ size.h \in Nat /\ size.h <= cut.h /\ size.h % Align = 0
           /\ 2 * (size.h * cut.w) <= 2 * (cut.h * MaxWidth) + cut.w
           /\ 2 * (cut.h * MaxWidth) < 2 * (size.h * cut.w) + (2 * Align - 1) * cut.w
           /\ \E q \in Nat : size.h = AlignDown(q) /\ q # 0
<1> DEFINE q == RoundDiv(cut.h * MaxWidth, cut.w)
           n == AtLeastOne(q)
<1>1. /\ cut.w \in Nat \ {0} /\ cut.h \in Nat \ {0} /\ cut.w > MaxWidth
      /\ size.w = AlignDown(MaxWidth) /\ size.h = AlignDown(n)
  BY DecodedFacts DEF Framed
<1>2. MaxWidth \in Nat \ {0} /\ MaxWidth % Align = 0 /\ Align \in Nat /\ Align >= 2
      /\ cut.h * MaxWidth \in Nat
  BY <1>1, FrameAssumption, SMT
<1>3. size.w = MaxWidth
  BY <1>1, <1>2, AlignFacts
<1>4. /\ q \in Nat /\ q <= cut.h
      /\ 2 * (q * cut.w) <= 2 * (cut.h * MaxWidth) + cut.w
      /\ 2 * (cut.h * MaxWidth) < 2 * (q * cut.w) + cut.w
  BY <1>1, <1>2, ResizeShrinks, RoundFacts
<1> HIDE DEF q
<1>5. n \in Nat /\ n # 0 /\ n <= cut.h /\ q <= n /\ (n = q \/ n = 1)
  BY <1>1, <1>4, SMT DEF AtLeastOne
<1> HIDE DEF n
<1>6. /\ size.h \in Nat /\ size.h <= n /\ n < size.h + Align
      /\ size.h % Align = 0
  BY <1>1, <1>5, AlignFacts
<1>7. n = 1 => size.h = 0
  <2>1. SUFFICES ASSUME n = 1, size.h = 1 PROVE FALSE
    BY <1>5, <1>6, SMT
  <2>2. 1 % Align = 0
    BY <1>6, <2>1
  <2>3. /\ 1 \div Align \in Nat
        /\ 1 = Align * (1 \div Align) + (1 % Align)
    <3>1. Align \in Nat \ {0} /\ 1 \in Nat
      BY <1>2, SMT
    <3>2. QED
      BY <3>1, QuotientRest, Zenon
  <2> DEFINE k == 1 \div Align
  <2>4. k \in Nat /\ 1 = Align * k
    <3>1. k \in Nat /\ 1 = Align * k + 0
      BY <2>2, <2>3, Zenon
    <3> HIDE DEF k
    <3>2. QED
      BY <1>2, <3>1, SMT
  <2> HIDE DEF k
  <2>5. k = 0 \/ k >= 1
    BY <2>4, SMT
  <2>6. CASE k = 0
    BY <1>2, <2>4, <2>6, SMT
  <2>7. CASE k >= 1
    <3>1. Align * 1 <= Align * k
      BY <1>2, <2>4, <2>7, ProductMonotone
    <3>2. QED
      BY <1>2, <2>4, <3>1, SMT
  <2>8. QED
    BY <2>5, <2>6, <2>7
<1>8. size.h <= q
  BY <1>4, <1>5, <1>6, <1>7, SMT
<1>9. 2 * (size.h * cut.w) <= 2 * (cut.h * MaxWidth) + cut.w
  <2>1. size.h * cut.w <= q * cut.w /\ size.h * cut.w \in Nat /\ q * cut.w \in Nat
    BY <1>1, <1>4, <1>6, <1>8, ProductMonotone
  <2>2. QED
    BY <1>1, <1>2, <1>4, <2>1, SMT
<1>10. 2 * (cut.h * MaxWidth) < 2 * (size.h * cut.w) + (2 * Align - 1) * cut.w
  <2>1. q <= size.h + Align - 1 /\ size.h + Align - 1 \in Nat
    BY <1>2, <1>4, <1>5, <1>6, SMT
  <2>2. q * cut.w <= (size.h + Align - 1) * cut.w /\ q * cut.w \in Nat
    BY <1>1, <1>4, <2>1, ProductMonotone
  <2>3. (size.h + Align - 1) * cut.w = size.h * cut.w + Align * cut.w - cut.w
    BY <1>1, <1>2, <1>6, SMT
  <2>4. (2 * Align - 1) * cut.w = 2 * (Align * cut.w) - cut.w
    BY <1>1, <1>2, SMT
  <2>5. size.h * cut.w \in Nat /\ Align * cut.w \in Nat
    BY <1>1, <1>2, <1>6, SMT
  <2>6. QED
    BY <1>1, <1>2, <1>4, <2>2, <2>3, <2>4, <2>5, SMT
<1>11. QED
  BY <1>1, <1>3, <1>5, <1>6, <1>7, <1>8, <1>9, <1>10, <1>4

(* The limits are multiples of Align, and Align is even. *)
LEMMA LimitFacts ==
    /\ Align \in Nat /\ Align >= 2 /\ Align % 2 = 0
    /\ MaxWidth \in Nat /\ Align <= MaxWidth /\ MaxWidth % 2 = 0
    /\ MinSide \in Nat /\ Align <= MinSide /\ MinSide % 2 = 0
<1>1. Align \in Nat \ {0} /\ MaxWidth \in Nat \ {0} /\ MinSide \in Nat \ {0}
      /\ Align % 2 = 0 /\ MaxWidth % Align = 0 /\ MinSide % Align = 0
  BY FrameAssumption
<1>2. MaxWidth <= AlignDown(MaxWidth) /\ MinSide <= AlignDown(MinSide)
  BY <1>1, AlignFacts
<1>3. /\ AlignDown(MaxWidth) <= MaxWidth /\ AlignDown(MaxWidth) % 2 = 0
      /\ AlignDown(MaxWidth) \in Nat
      /\ AlignDown(MinSide) <= MinSide /\ AlignDown(MinSide) % 2 = 0
      /\ AlignDown(MinSide) \in Nat
  BY <1>1, AlignFacts
<1>4. AlignDown(MaxWidth) = MaxWidth /\ AlignDown(MinSide) = MinSide
  BY <1>1, <1>2, <1>3, SMT
<1>5. ASSUME NEW x \in Nat \ {0}, x % Align = 0
      PROVE  Align <= x
  <2>1. x \div Align \in Nat /\ x = Align * (x \div Align)
    BY <1>1, <1>5, QuotientRest, SMT
  <2>2. x \div Align # 0
    BY <1>1, <2>1, SMT
  <2>3. 1 * Align <= (x \div Align) * Align
    BY <1>1, <2>1, <2>2, ProductMonotone, SMT
  <2>4. QED
    BY <1>1, <2>1, <2>3, SMT
<1>6. QED
  BY <1>1, <1>3, <1>4, <1>5, SMT

(* An even number that is at least a limit is still so when it is aligned,  *)
(* and cropping a picture to an aligned even size costs less than Align.    *)
LEMMA PackedFacts ==
    ASSUME NEW x \in Nat \ {0}
    PROVE  /\ AlignDown(Even(x)) \in Nat /\ AlignDown(Even(x)) <= x
           /\ x < AlignDown(Even(x)) + Align
           /\ x > MaxWidth => AlignDown(Even(x)) >= MaxWidth
           /\ x >= MinSide => AlignDown(Even(x)) >= MinSide
<1> DEFINE e == Even(x)
           a == AlignDown(e)
<1>1. e \in Nat /\ e <= x /\ x <= e + 1 /\ e = 2 * (e \div 2)
  BY EvenFacts
<1>2. /\ a \in Nat /\ a <= e /\ e < a + Align /\ a % 2 = 0
      /\ \A m \in Nat : m % Align = 0 /\ m <= e => m <= a
  BY <1>1, AlignFacts
<1> HIDE DEF a, e
<1>3. e <= a + Align - 2
  BY <1>1, <1>2, LimitFacts, SMT
<1>4. x > MaxWidth => MaxWidth <= e
  BY <1>1, LimitFacts, SMT
<1>5. x >= MinSide => MinSide <= e
  BY <1>1, LimitFacts, SMT
<1>6. x < a + Align /\ a <= x
  BY <1>1, <1>2, <1>3, LimitFacts, SMT
<1>7. x > MaxWidth => a >= MaxWidth
  BY <1>2, <1>4, LimitFacts, FrameAssumption
<1>8. x >= MinSide => a >= MinSide
  BY <1>2, <1>5, LimitFacts, FrameAssumption
<1>9. QED
  BY <1>2, <1>6, <1>7, <1>8 DEF a, e

(* Every file has aligned sides, no more than the picture's and the         *)
(* threshold's, and loses nothing but what the alignment takes.             *)
THEOREM FilesAlwaysFit == Spec => []FileFits
<1>1. FrameInv => FileFits
  <2> SUFFICES ASSUME FrameInv, pc = "done", kind # "ffmpeg"
               PROVE  /\ size.w % Align = 0 /\ size.h % Align = 0
                      /\ size.w > 0 /\ size.h > 0
                      /\ size.w <= w /\ size.h <= h /\ size.w <= Threshold
                      /\ w > MaxWidth => size.w >= MaxWidth
                      /\ via \in {"svt", "crop"} /\ w <= 2 * MaxWidth =>
                            w - size.w < Align /\ h - size.h < Align
    BY Zenon DEF FileFits
  <2>1. TypeOK /\ ((Packed /\ SvtEncodes) \/ (Framed /\ NonEmpty))
    BY DEF FrameInv, Foretold, Probed
  <2>2. w \in Nat \ {0} /\ h \in Nat \ {0} /\ cut.w \in Nat /\ cut.h \in Nat
        /\ size.w \in Nat /\ size.h \in Nat /\ Threshold \in Nat
    BY <2>1, FrameAssumption, ThresholdFacts DEF TypeOK, Sizes
  <2>3. CASE Packed /\ SvtEncodes
    <3>1. size.w = AlignDown(Even(w)) /\ size.h = AlignDown(Even(h)) /\ w <= Threshold
      BY <2>3 DEF Packed, Fast, Sliced, Aligned
    <3>2. size.w % Align = 0 /\ size.h % Align = 0
      BY <2>2, <3>1, EvenFacts, AlignFacts
    <3>3. /\ size.w <= w /\ w < size.w + Align
          /\ size.h <= h /\ h < size.h + Align
          /\ w > MaxWidth => size.w >= MaxWidth
      BY <2>2, <3>1, PackedFacts
    <3>4. size.w > 0 /\ size.h > 0
      BY <2>2, <2>3, LimitFacts, SMT DEF SvtEncodes
    <3>5. QED
      BY <2>2, <3>1, <3>2, <3>3, <3>4, LimitFacts, SMT
  <2>4. CASE Framed /\ NonEmpty /\ via = "crop"
    <3>1. size.w = AlignDown(cut.w) /\ size.h = AlignDown(cut.h)
          /\ (cut.w <= MaxWidth \/ 100 * cut.w <= SkipPercent * MaxWidth)
      BY <2>4 DEF Framed, Aligned
    <3>2. /\ size.w % Align = 0 /\ size.w <= cut.w /\ cut.w < size.w + Align
          /\ size.h % Align = 0 /\ size.h <= cut.h /\ cut.h < size.h + Align
          /\ MaxWidth <= cut.w => MaxWidth <= size.w
      <4>1. /\ AlignDown(cut.w) % Align = 0 /\ AlignDown(cut.w) <= cut.w
            /\ cut.w < AlignDown(cut.w) + Align
            /\ \A m \in Nat : m % Align = 0 /\ m <= cut.w => m <= AlignDown(cut.w)
        BY <2>2, AlignFacts
      <4>2. /\ AlignDown(cut.h) % Align = 0 /\ AlignDown(cut.h) <= cut.h
            /\ cut.h < AlignDown(cut.h) + Align
        BY <2>2, AlignFacts
      <4>3. MaxWidth <= cut.w => MaxWidth <= AlignDown(cut.w)
        BY <4>1, FrameAssumption
      <4>4. QED
        BY <3>1, <4>1, <4>2, <4>3, Zenon
    <3>3. cut.w <= Threshold
      BY <2>2, <3>1, ThresholdFacts, LimitFacts, SMT
    <3>4. /\ cut.w <= w /\ cut.h <= h
          /\ w > MaxWidth => cut.w > MaxWidth
          /\ w <= 2 * MaxWidth => cut.w = w /\ cut.h = h
      BY <2>1, <2>2, <2>4, DecodedFacts, LimitFacts, SMT DEF Framed
    <3>5. size.w > 0 /\ size.h > 0
      BY <2>4 DEF NonEmpty
    <3>6. size.w <= w /\ size.h <= h /\ size.w <= Threshold
      BY <2>2, <3>2, <3>3, <3>4, SMT
    <3>7. w > MaxWidth => size.w >= MaxWidth
      <4>1. MaxWidth <= cut.w => MaxWidth <= size.w
        BY <3>2, Zenon
      <4>2. w > MaxWidth => cut.w > MaxWidth
        BY <3>4
      <4>3. MaxWidth \in Nat /\ w \in Nat /\ cut.w \in Nat /\ size.w \in Nat
        BY <2>2, LimitFacts
      <4>4. QED
        BY <4>1, <4>2, <4>3, SMT
    <3>8. w <= 2 * MaxWidth => w - size.w < Align /\ h - size.h < Align
      BY <2>2, <3>2, <3>4, LimitFacts, SMT
    <3>9. QED
      BY <3>2, <3>5, <3>6, <3>7, <3>8, Zenon
  <2>5. CASE Framed /\ NonEmpty /\ via = "resize"
    <3>1. /\ size.w = MaxWidth /\ size.h <= cut.h /\ size.h % Align = 0
      BY <2>1, <2>5, ResizedFacts
    <3>2. cut.w <= w /\ cut.h <= h /\ cut.w > MaxWidth
      BY <2>1, <2>5, DecodedFacts DEF Framed
    <3>3. size.w > 0 /\ size.h > 0
      BY <2>5 DEF NonEmpty
    <3>4. size.w <= w /\ size.h <= h
      BY <2>2, <3>1, <3>2, LimitFacts, SMT
    <3>5. QED
      BY <2>2, <2>5, <3>1, <3>3, <3>4, ThresholdFacts, FrameAssumption
  <2>6. QED
    BY <2>1, <2>3, <2>4, <2>5 DEF Framed
<1>2. QED
  BY <1>1, FrameInvAlways, PTL

(* A resize keeps the shape but for the rounding and the alignment.         *)
THEOREM ShapesAlwaysKept == Spec => []ShapeKept
<1>1. FrameInv => ShapeKept
  <2> SUFFICES ASSUME FrameInv, pc = "done", via = "resize"
               PROVE  /\ 2 * size.h * cut.w <= 2 * cut.h * size.w + cut.w
                      /\ cut.h * size.w < (size.h + Align) * cut.w
    BY DEF ShapeKept
  <2>1. CASE kind = "ffmpeg"
    BY <2>1 DEF FrameInv, Packed, Fast, Framed, Decoded, Foretold
  <2>2. CASE kind # "ffmpeg"
    <3>1. TypeOK /\ Framed
      BY <2>2 DEF FrameInv, Packed, Foretold, Probed
    <3>2. /\ size.w = MaxWidth /\ size.h \in Nat
          /\ 2 * (size.h * cut.w) <= 2 * (cut.h * MaxWidth) + cut.w
          /\ 2 * (cut.h * MaxWidth) < 2 * (size.h * cut.w) + (2 * Align - 1) * cut.w
          /\ cut.w \in Nat \ {0} /\ cut.h \in Nat \ {0}
      BY <3>1, ResizedFacts, DecodedFacts DEF Framed
    <3>3. /\ 2 * size.h * cut.w = 2 * (size.h * cut.w)
          /\ 2 * cut.h * size.w = 2 * (cut.h * MaxWidth)
          /\ cut.h * size.w = cut.h * MaxWidth
          /\ (size.h + Align) * cut.w = size.h * cut.w + Align * cut.w
          /\ (2 * Align - 1) * cut.w = 2 * (Align * cut.w) - cut.w
          /\ size.h * cut.w \in Nat /\ cut.h * MaxWidth \in Nat /\ Align * cut.w \in Nat
      BY <3>2, LimitFacts, SMT
    <3>4. QED
      BY <3>2, <3>3, SMT
  <2>3. QED
    BY <2>1, <2>2
<1>2. QED
  BY <1>1, FrameInvAlways, PTL

(* A picture is refused only if a side of it is tiny, if it is a sliver or  *)
(* if it is a JPEG of the YUV route that is higher than SVT-AV1 encodes.    *)
THEOREM OnlySliversAreRefused == Spec => []OnlySliversRefused
<1>1. FrameInv => OnlySliversRefused
  <2> SUFFICES ASSUME FrameInv, pc = "failed", w >= MinSide, h >= MinSide,
                      ~ (kind = "jpeg420" /\ w <= Threshold /\ h > MaxHeight)
               PROVE  h * MaxWidth < Align * w
    <3>1. FrameInv => w \in Nat /\ h \in Nat /\ MinSide \in Nat
      BY FrameAssumption DEF FrameInv, TypeOK
    <3>2. QED
      BY <3>1, SMT DEF OnlySliversRefused
  <2>1. TypeOK /\ ((Packed /\ ~ SvtEncodes) \/ (Framed /\ ~ NonEmpty))
    BY DEF FrameInv
  <2>2. w \in Nat \ {0} /\ h \in Nat \ {0} /\ cut.w \in Nat /\ cut.h \in Nat
        /\ size.w \in Nat /\ size.h \in Nat
    BY <2>1, FrameAssumption DEF TypeOK, Sizes
  <2>p. h * MaxWidth \in Nat /\ Align * w \in Nat
    BY <2>2, LimitFacts, SMT
  <2>3. CASE Packed /\ ~ SvtEncodes
    <3>1. /\ size.w = AlignDown(Even(w)) /\ size.h = AlignDown(Even(h))
          /\ kind = "jpeg420" /\ w <= Threshold
      BY <2>3 DEF Packed, Fast, Sliced, Aligned
    <3>2. size.w >= MinSide /\ size.h >= MinSide /\ size.h <= h
      BY <2>2, <3>1, PackedFacts
    <3>3. size.h > MaxHeight
      BY <2>2, <2>3, <3>2, FrameAssumption, SMT DEF SvtEncodes
    <3>4. h > MaxHeight
      BY <2>2, <3>2, <3>3, FrameAssumption, SMT
    <3>5. QED
      BY <3>1, <3>4
  <2>4. CASE Framed /\ ~ NonEmpty
    <3>1. /\ cut.w \in Nat \ {0} /\ cut.h \in Nat \ {0}
          /\ w > MaxWidth => cut.w > MaxWidth
          /\ \/ cut.w = w /\ cut.h = h
             \/ w > 2 * MaxWidth /\ 2 * cut.w <= w + 1 /\ 2 * cut.h >= h
      BY <2>1, <2>4, DecodedFacts DEF Framed
    <3>2. size.w = 0 \/ size.h = 0
      BY <2>2, <2>4, SMT DEF NonEmpty
    <3>3. CASE via = "crop"
      <4>1. /\ cut.w < size.w + Align /\ cut.h < size.h + Align
            /\ MaxWidth <= cut.w => MaxWidth <= size.w
        <5>1. size.w = AlignDown(cut.w) /\ size.h = AlignDown(cut.h)
          BY <2>4, <3>3 DEF Framed, Aligned
        <5>2. /\ cut.w < AlignDown(cut.w) + Align
              /\ \A m \in Nat : m % Align = 0 /\ m <= cut.w => m <= AlignDown(cut.w)
          BY <2>2, AlignFacts
        <5>3. cut.h < AlignDown(cut.h) + Align
          BY <2>2, AlignFacts
        <5>4. MaxWidth <= cut.w => MaxWidth <= AlignDown(cut.w)
          BY <5>2, FrameAssumption
        <5>5. QED
          BY <5>1, <5>2, <5>3, <5>4, Zenon
      <4>2. CASE cut.w = w /\ cut.h = h
        BY <2>2, <3>2, <4>1, <4>2, LimitFacts, SMT
      <4>3. CASE w > 2 * MaxWidth /\ 2 * cut.h >= h
        <5>1. cut.w > MaxWidth
          BY <2>2, <3>1, <4>3, LimitFacts, SMT
        <5>2. size.w # 0
          BY <2>2, <4>1, <5>1, LimitFacts, SMT
        <5>3. cut.h < Align
          <6>1. size.h = 0
            BY <3>2, <5>2
          <6>2. cut.h < size.h + Align
            BY <4>1, Zenon
          <6>3. QED
            BY <2>2, <6>1, <6>2, LimitFacts, SMT
        <5>4. h <= 2 * Align /\ 2 * Align \in Nat
          BY <2>2, <4>3, <5>3, LimitFacts, SMT
        <5>5. h * MaxWidth <= (2 * Align) * MaxWidth
          BY <2>2, <5>4, LimitFacts, ProductMonotone
        <5>6. Align * (2 * MaxWidth + 1) <= Align * w
          BY <2>2, <4>3, LimitFacts, ProductMonotone, SMT
        <5>7. /\ Align * (2 * MaxWidth + 1) = 2 * (Align * MaxWidth) + Align
              /\ (2 * Align) * MaxWidth = 2 * (Align * MaxWidth)
              /\ Align * MaxWidth \in Nat
          BY LimitFacts, SMT
        <5>8. QED
          BY <2>p, <5>5, <5>6, <5>7, LimitFacts, SMT
      <4>4. QED
        BY <3>1, <4>2, <4>3
    <3>4. CASE via = "resize"
      <4>1. /\ size.w = MaxWidth
            /\ 2 * (cut.h * MaxWidth) < 2 * (size.h * cut.w) + (2 * Align - 1) * cut.w
        BY <2>1, <2>4, <3>4, ResizedFacts
      <4>2. size.h = 0
        BY <3>2, <4>1, LimitFacts, SMT
      <4>3. 2 * (cut.h * MaxWidth) < (2 * Align - 1) * cut.w
        BY <3>1, <4>1, <4>2, LimitFacts, SMT
      <4>4. CASE cut.w = w /\ cut.h = h
        <5>1. (2 * Align - 1) * w = 2 * (Align * w) - w
          BY <2>2, LimitFacts, SMT
        <5>2. QED
          BY <2>2, <2>p, <4>3, <4>4, <5>1, SMT
      <4>5. CASE w > 2 * MaxWidth /\ 2 * cut.w <= w + 1 /\ 2 * cut.h >= h
        <5>1. h * MaxWidth <= (2 * cut.h) * MaxWidth
          BY <2>2, <4>5, LimitFacts, ProductMonotone, SMT
        <5>2. (2 * cut.w) * (2 * Align - 1) <= (w + 1) * (2 * Align - 1)
          BY <2>2, <4>5, LimitFacts, ProductMonotone, SMT
        <5>3. /\ (2 * cut.h) * MaxWidth = 2 * (cut.h * MaxWidth)
              /\ (2 * cut.w) * (2 * Align - 1) = 2 * ((2 * Align - 1) * cut.w)
              /\ (w + 1) * (2 * Align - 1) = 2 * (Align * w) + 2 * Align - w - 1
              /\ cut.h * MaxWidth \in Nat /\ (2 * Align - 1) * cut.w \in Nat
          BY <2>2, LimitFacts, SMT
        <5>4. QED
          BY <2>2, <2>p, <4>3, <4>5, <5>1, <5>2, <5>3, LimitFacts, SMT
      <4>6. QED
        BY <3>1, <4>4, <4>5
    <3>5. QED
      BY <2>4, <3>3, <3>4 DEF Framed
  <2>5. QED
    BY <2>1, <2>3, <2>4
<1>2. QED
  BY <1>1, FrameInvAlways, PTL
(* Rounding the scaled height down to an even number, and rounding half of  *)
(* it to the nearest whole one, differ by one pair of rows at most.         *)
LEMMA EvenHeights ==
    ASSUME NEW a \in Nat, NEW b \in Nat \ {0}
    PROVE  \/ Even(RoundDiv(a, b)) = 2 * RoundDiv(a, 2 * b)
           \/ Even(RoundDiv(a, b)) = 2 * RoundDiv(a, 2 * b) - 2
<1> DEFINE q == RoundDiv(a, b)
           k == Even(q) \div 2
           n == RoundDiv(a, 2 * b)
<1>1. /\ q \in Nat
      /\ 2 * (q * b) <= 2 * a + b
      /\ 2 * a < 2 * (q * b) + b
  BY RoundFacts
<1>2. /\ n \in Nat
      /\ 2 * (n * (2 * b)) <= 2 * a + 2 * b
      /\ 2 * a < 2 * (n * (2 * b)) + 2 * b
  <2>1. 2 * b \in Nat \ {0}
    BY SMT
  <2>2. QED
    BY <2>1, RoundFacts
<1>3. Even(q) = 2 * k /\ k \in Nat /\ 2 * k <= q /\ q <= 2 * k + 1
  BY <1>1, EvenFacts
<1> HIDE DEF q, k, n
<1>4. /\ q * b \in Nat /\ k * b \in Nat /\ n * b \in Nat
      /\ n * (2 * b) = 2 * (n * b)
      /\ (2 * k) * b = 2 * (k * b)
      /\ (2 * k + 1) * b = 2 * (k * b) + b
  BY <1>1, <1>2, <1>3, SMT
<1>5. 2 * (k * b) <= q * b /\ q * b <= 2 * (k * b) + b
  <2>1. (2 * k) * b <= q * b
    BY <1>1, <1>3, ProductMonotone
  <2>2. q * b <= (2 * k + 1) * b
    BY <1>1, <1>3, ProductMonotone
  <2>3. QED
    BY <1>4, <2>1, <2>2
<1>6. 4 * (k * b) < 4 * (n * b) + 4 * b
  BY <1>1, <1>2, <1>4, <1>5, SMT
<1>7. 4 * (n * b) < 4 * (k * b) + 8 * b
  BY <1>1, <1>2, <1>4, <1>5, SMT
<1>8. k <= n
  <2>1. SUFFICES ASSUME n + 1 <= k PROVE FALSE
    BY <1>2, <1>3
  <2>2. (n + 1) * b <= k * b
    BY <1>2, <1>3, <2>1, ProductMonotone
  <2>3. (n + 1) * b = n * b + b
    BY <1>2, SMT
  <2>4. QED
    BY <1>4, <1>6, <2>2, <2>3, SMT
<1>9. n <= k + 1
  <2>1. SUFFICES ASSUME k + 2 <= n PROVE FALSE
    BY <1>2, <1>3
  <2>2. (k + 2) * b <= n * b
    BY <1>2, <1>3, <2>1, ProductMonotone
  <2>3. (k + 2) * b = k * b + 2 * b
    BY <1>3, SMT
  <2>4. QED
    BY <1>4, <1>7, <2>2, <2>3, SMT
<1>10. k = n \/ k = n - 1
  BY <1>2, <1>3, <1>8, <1>9
<1>11. Even(q) = 2 * n \/ Even(q) = 2 * n - 2
  BY <1>2, <1>3, <1>10
<1>12. QED
  BY <1>11 DEF q, n

(* The size convert_to_avif returns is that of the file, or one pair of     *)
(* rows less, for every picture and every target width.                     *)
THEOREM ForetoldSizesHold == Spec => []ForetoldSize
<1>1. FrameInv => ForetoldSize
  <2> SUFFICES ASSUME FrameInv, pc = "done", kind = "ffmpeg", size # NoSize
               PROVE  size.w = FileDims.w /\ size.h \in {FileDims.h, FileDims.h - 2}
    BY DEF ForetoldSize
  <2>1. TypeOK /\ Foretold
    BY DEF FrameInv, Packed, Fast, Framed, Decoded
  <2>2. w \in Nat \ {0} /\ h \in Nat \ {0} /\ MaxWidth \in Nat \ {0}
    BY <2>1, FrameAssumption DEF TypeOK
  <2>3. cut = [w |-> w, h |-> h]
    BY <2>1, <2>2 DEF Foretold, Probed, ScaledDims, NoSize
  <2>4. /\ cut.w = w /\ cut.h = h
        /\ via = IF w > MaxWidth THEN "scale" ELSE "crop"
        /\ size = ScaledDims(w, h)
    BY <2>1, <2>2, <2>3 DEF Foretold
  <2>5. CASE w <= MaxWidth
    <3>1. via = "crop" /\ size = [w |-> Even(w), h |-> Even(h)]
      BY <2>2, <2>4, <2>5 DEF ScaledDims
    <3>2. QED
      BY <3>1 DEF FileDims
  <2>6. CASE w > MaxWidth
    <3>1. /\ via = "scale" /\ ~(w < MaxWidth)
          /\ size = [w |-> Even(MaxWidth), h |-> Even(RoundDiv(h * MaxWidth, w))]
      BY <2>2, <2>4, <2>6 DEF ScaledDims
    <3>2. FileDims = [w |-> Even(MaxWidth), h |-> 2 * RoundDiv(MaxWidth * h, 2 * w)]
      BY <3>1 DEF FileDims
    <3>3. MaxWidth * h = h * MaxWidth /\ h * MaxWidth \in Nat
      BY <2>2, SMT
    <3>4. QED
      BY <2>2, <3>1, <3>2, <3>3, EvenHeights
  <2>7. QED
    BY <2>2, <2>5, <2>6
<1>2. QED
  BY <1>1, FrameInvAlways, PTL
=============================================================================
