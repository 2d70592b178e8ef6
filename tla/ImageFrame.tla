----------------------------- MODULE ImageFrame -----------------------------
(***************************************************************************)
(* The geometry of the full-size encode of one picture: which decoder is   *)
(* used, how large the decoded picture is, which rectangle of which buffer *)
(* the encoder reads, and which size is reported for the file              *)
(* (src/worker/src/processing.rs, avif.rs, ffmpeg.rs).                     *)
(*                                                                         *)
(* The picture is chosen in Init; the steps are those of the code.  The    *)
(* YUV route slices the planes libjpeg-turbo wrote and hands them to       *)
(* SVT-AV1 without a conversion; the RGB route decodes, resizes or crops,  *)
(* and converts; the ffmpeg route (convert_to_avif) lets a filter resize.  *)
(* A pixel is its row and column: what the model follows is from which     *)
(* byte each pixel is read.                                                *)
(***************************************************************************)
EXTENDS Integers

CONSTANTS Widths, Heights,  \* sizes a picture may have
          Samples,          \* colour values a sample may have
          MaxWidth,         \* MAX_ENCODE_WIDTH (920)
          SkipPercent,      \* RESIZE_SKIP_RATIO in percent (115)
          Align,            \* SVT_ALIGN (8)
          MinSide,          \* smallest side SVT-AV1 encodes (64)
          MaxHeight         \* largest height SVT-AV1 encodes (SVT_MAX_HEIGHT, 8704);
                            \* no encoder gets a width above Threshold

ASSUME FrameAssumption ==
    /\ Widths \subseteq Nat \ {0}
    /\ Heights \subseteq Nat \ {0}
    /\ Samples \subseteq 0..255
    /\ MaxWidth \in Nat \ {0}
    /\ SkipPercent \in Nat /\ SkipPercent >= 100 /\ SkipPercent <= 200
    /\ Align \in Nat \ {0} /\ Align % 2 = 0
    /\ MaxWidth % Align = 0
    /\ MinSide \in Nat \ {0} /\ MinSide % Align = 0
    /\ MaxHeight \in Nat

Kinds == { "jpeg420",  \* JPEG with 4:2:0 chroma
           "jpeg",     \* JPEG with another subsampling
           "native",   \* decoded by the image crate, whole
           "ffmpeg" }  \* given to convert_to_avif

VARIABLES
    w, h, kind,  \* the picture
    pc,          \* where the encode of it is
    planes,      \* YUV: width of a row of luma and of chroma, as decoded
    cut,         \* the rectangle the next step works on
    rows,        \* YUV: width of a row of luma and of chroma, as read
    via,         \* what made the rectangle and encodes it
    yuv,         \* RGB: colour of a block and what became of it
    size         \* the width and height returned to the caller

picture == <<w, h, kind>>
vars == <<w, h, kind, pc, planes, cut, rows, via, yuv, size>>

NoSize == [w |-> 0, h |-> 0]

---------------------------------------------------------------------------
(* Arithmetic *)

Half(x) == (x + 1) \div 2
Even(x) == x - (x % 2)                    \* x & !1
AlignDown(x) == x - (x % Align)           \* n & !(SVT_ALIGN - 1)
RoundDiv(a, b) == (2 * a + b) \div (2 * b)
AtLeastOne(x) == IF x = 0 THEN 1 ELSE x

(* The widest picture that is encoded without a resize. *)
Threshold == (MaxWidth * SkipPercent) \div 100

(* libjpeg-turbo pads the planes of a 4:2:0 picture to whole blocks. *)
PlaneWidth(x) == x + (x % 2)

---------------------------------------------------------------------------
(* Route: what the picture is and how wide it is decides on the decoder *)

Route ==
    /\ pc = "new"
    /\ pc' = IF kind = "ffmpeg" THEN "probe"
             ELSE IF kind = "jpeg420" /\ w <= Threshold THEN "yuv" ELSE "rgb"
    /\ UNCHANGED <<picture, planes, cut, rows, via, yuv, size>>

---------------------------------------------------------------------------
(* The YUV route *)

(* decode_jpeg_to_yuv_planes: three planes, one behind the other. *)
DecodePlanes ==
    /\ pc = "yuv"
    /\ planes' = [y |-> PlaneWidth(w), c |-> PlaneWidth(w) \div 2,
                  yLen |-> PlaneWidth(w) * PlaneWidth(h),
                  cLen |-> (PlaneWidth(w) \div 2) * (PlaneWidth(h) \div 2)]
    /\ pc' = "planes"
    /\ UNCHANGED <<picture, cut, rows, via, yuv, size>>

\* Mutant of the next: the sides are aligned here already.
SliceAligned ==
    /\ pc = "planes"
    /\ cut' = [w |-> AlignDown(w), h |-> AlignDown(h)]
    /\ pc' = "sliced"
    /\ UNCHANGED <<picture, planes, rows, via, yuv, size>>

(* process_image takes the first bytes of each plane that a picture of even *)
(* sides would have.                                                        *)
SlicePlanes ==
    /\ pc = "planes"
    /\ cut' = [w |-> Even(w), h |-> Even(h)]
    /\ pc' = "sliced"
    /\ UNCHANGED <<picture, planes, rows, via, yuv, size>>

SliceY == cut.w * cut.h
SliceC == ((cut.w \div 2) * cut.h) \div 2

\* Mutant of the next: rows are copied with the stride of the decoder.
RepackDecoded ==
    /\ pc = "sliced"
    /\ size' = [w |-> AlignDown(cut.w), h |-> AlignDown(cut.h)]
    /\ rows' = [y |-> planes.y, c |-> planes.c]
    /\ via' = "svt"
    /\ pc' = "encode_yuv"
    /\ UNCHANGED <<picture, planes, cut, yuv>>

(* encode_avif_from_yuv_planes: the slices as they are when the sides are   *)
(* aligned, else rows copied one by one by repack_plane.                    *)
Repack ==
    /\ pc = "sliced"
    /\ size' = [w |-> AlignDown(cut.w), h |-> AlignDown(cut.h)]
    /\ IF size' = cut
         THEN rows' = [y |-> size'.w, c |-> size'.w \div 2]
         ELSE rows' = [y |-> cut.w, c |-> Half(cut.w)]
    /\ via' = "svt"
    /\ pc' = "encode_yuv"
    /\ UNCHANGED <<picture, planes, cut, yuv>>

(* The sides and heights SVT-AV1 encodes. *)
SvtEncodes == size.w >= MinSide /\ size.h >= MinSide /\ size.h <= MaxHeight

(* SVT-AV1 refuses the others, and this route, which is chosen by the width *)
(* alone, has no other encoder to turn to.                                  *)
EncodeYuv ==
    /\ pc = "encode_yuv"
    /\ pc' = IF SvtEncodes THEN "done" ELSE "failed"
    /\ UNCHANGED <<picture, planes, cut, rows, via, yuv, size>>

---------------------------------------------------------------------------
(* The RGB route *)

\* Mutant of the next: half size as soon as the picture is too wide.
DecodeRgbEarly ==
    /\ pc = "rgb"
    /\ \/ cut' = [w |-> w, h |-> h]
       \/ /\ kind # "native" /\ w > MaxWidth
          /\ cut' = [w |-> Half(w), h |-> Half(h)]
    /\ pc' = "decoded"
    /\ UNCHANGED <<picture, planes, rows, via, yuv, size>>

(* load_image: a JPEG more than twice as wide as the target is decoded at   *)
(* half its size, or whole by the image crate when turbojpeg fails on it.   *)
DecodeRgb ==
    /\ pc = "rgb"
    /\ \/ cut' = [w |-> w, h |-> h]
       \/ /\ kind # "native" /\ w > 2 * MaxWidth
          /\ cut' = [w |-> Half(w), h |-> Half(h)]
    /\ pc' = "decoded"
    /\ UNCHANGED <<picture, planes, rows, via, yuv, size>>

(* encode_avif, first step: within the ratio the picture is cropped to      *)
(* aligned sides, else it is resized to the target, with aligned sides.     *)
Crop ==
    /\ pc = "decoded"
    /\ cut.w <= MaxWidth \/ 100 * cut.w <= SkipPercent * MaxWidth
    /\ size' = [w |-> AlignDown(cut.w), h |-> AlignDown(cut.h)]
    /\ via' = "crop"
    /\ pc' = "framed"
    /\ UNCHANGED <<picture, planes, cut, rows, yuv>>

\* Mutant: the scale of the picture, not of what was decoded of it.
ResizeFromSource ==
    /\ pc = "decoded"
    /\ cut.w > MaxWidth
    /\ 100 * cut.w > SkipPercent * MaxWidth
    /\ size' = [w |-> AlignDown(MaxWidth),
                h |-> AlignDown(AtLeastOne(RoundDiv(cut.h * MaxWidth, w)))]
    /\ via' = "resize"
    /\ pc' = "framed"
    /\ UNCHANGED <<picture, planes, cut, rows, yuv>>

Resize ==
    /\ pc = "decoded"
    /\ cut.w > MaxWidth
    /\ 100 * cut.w > SkipPercent * MaxWidth
    /\ size' = [w |-> AlignDown(MaxWidth),
                h |-> AlignDown(AtLeastOne(RoundDiv(cut.h * MaxWidth, cut.w)))]
    /\ via' = "resize"
    /\ pc' = "framed"
    /\ UNCHANGED <<picture, planes, cut, rows, yuv>>

\* Mutant of the next: no ravif.
EncodeSmallNot ==
    /\ pc = "framed"
    /\ size.w < MinSide \/ size.h < MinSide
    /\ pc' = "failed"
    /\ UNCHANGED <<picture, planes, cut, rows, via, yuv, size>>

(* Below the minimum ravif encodes the frame; it refuses an empty one. *)
EncodeSmall ==
    /\ pc = "framed"
    /\ size.w < MinSide \/ size.h < MinSide
    /\ pc' = IF size.w > 0 /\ size.h > 0 THEN "done" ELSE "failed"
    /\ UNCHANGED <<picture, planes, cut, rows, via, yuv, size>>

(* rgb_to_yuv420_full_range of one block whose four pixels are (r, g, b);   *)
(* the shifts to the right are floors.                                      *)
Clamp(x, lo, hi) == IF x < lo THEN lo ELSE IF x > hi THEN hi ELSE x
\* Mutant of the next: the limited range.
LumaLimited(r, g, b) == Clamp(16 + ((66 * r + 129 * g + 25 * b + 128) \div 256), 16, 235)
Luma(r, g, b)    == Clamp((77 * r + 150 * g + 29 * b + 128) \div 256, 0, 255)
ChromaB(r, g, b) ==
    Clamp(128 + ((-43 * r - 85 * g + 128 * b + 128) \div 256), 0, 255)
ChromaR(r, g, b) ==
    Clamp(128 + ((128 * r - 107 * g - 21 * b + 128) \div 256), 0, 255)

Convert ==
    /\ pc = "framed"
    /\ size.w >= MinSide /\ size.h >= MinSide
    /\ \E r, g, b \in Samples :
          yuv' = [rgb |-> <<r, g, b>>,
                  y |-> Luma(r, g, b), u |-> ChromaB(r, g, b), v |-> ChromaR(r, g, b)]
    /\ pc' = "converted"
    /\ UNCHANGED <<picture, planes, cut, rows, via, size>>

(* SVT-AV1, or ravif when it fails, as on a picture higher than MaxHeight:  *)
(* both write a file of the same size.                                      *)
EncodeRgb ==
    /\ pc = "converted"
    /\ pc' = "done"
    /\ UNCHANGED <<picture, planes, cut, rows, via, yuv, size>>

---------------------------------------------------------------------------
(* The ffmpeg route: convert_to_avif, which the tests and benchmarks of the *)
(* worker call and no pipeline does.  Whether libsvtav1 or libaom encodes   *)
(* makes no difference to the size; a failure of ffmpeg is left out, as it  *)
(* leaves no size.                                                          *)

(* get_dimensions answers (0, 0) when ffprobe fails. *)
Probe ==
    /\ pc = "probe"
    /\ \/ cut' = [w |-> w, h |-> h]
       \/ cut' = NoSize
    /\ pc' = "filter"
    /\ UNCHANGED <<picture, planes, rows, via, yuv, size>>

\* Mutant of the next: a small picture is enlarged.
ScaledDimsAlways(sw, sh) ==
    IF sw = 0 \/ sh = 0 THEN NoSize
    ELSE [w |-> Even(MaxWidth), h |-> Even(RoundDiv(sh * MaxWidth, sw))]

(* compute_scaled_dims *)
ScaledDims(sw, sh) ==
    IF sw = 0 \/ sh = 0 THEN NoSize
    ELSE IF sw <= MaxWidth THEN [w |-> Even(sw), h |-> Even(sh)]
    ELSE [w |-> Even(MaxWidth), h |-> Even(RoundDiv(sh * MaxWidth, sw))]

(* convert_to_avif: the filter chain is chosen and the size foretold. *)
Filter ==
    /\ pc = "filter"
    /\ via' = IF cut.w = 0 \/ cut.w > MaxWidth THEN "scale" ELSE "crop"
    /\ size' = ScaledDims(cut.w, cut.h)
    /\ pc' = "done"
    /\ UNCHANGED <<picture, planes, cut, rows, yuv>>

(* What the filters make of the picture: scale='min(max,iw)':-2 rounds the  *)
(* height to the nearest even number, crop=trunc(iw/2)*2 takes even sides.  *)
FileDims ==
    IF via = "scale"
      THEN LET ow == IF w < MaxWidth THEN w ELSE MaxWidth
           IN  [w |-> Even(ow), h |-> 2 * RoundDiv(ow * h, 2 * w)]
      ELSE [w |-> Even(w), h |-> Even(h)]

---------------------------------------------------------------------------
Init ==
    /\ w \in Widths
    /\ h \in Heights
    /\ kind \in Kinds
    /\ pc = "new"
    /\ planes = [y |-> 0, c |-> 0, yLen |-> 0, cLen |-> 0]
    /\ cut = NoSize
    /\ rows = [y |-> 0, c |-> 0]
    /\ via = "none"
    /\ yuv = [rgb |-> <<0, 0, 0>>, y |-> 0, u |-> 128, v |-> 128]
    /\ size = NoSize

Next ==
    \/ Route
    \/ DecodePlanes \/ SlicePlanes \/ Repack \/ EncodeYuv
    \/ DecodeRgb \/ Crop \/ Resize \/ EncodeSmall \/ Convert \/ EncodeRgb
    \/ Probe \/ Filter

Spec == Init /\ [][Next]_vars

---------------------------------------------------------------------------
(* Properties *)

Sizes == [w : Nat, h : Nat]

(* Type correctness. *)
TypeOK ==
    /\ w \in Widths /\ h \in Heights /\ kind \in Kinds
    /\ pc \in {"new", "yuv", "planes", "sliced", "encode_yuv",
               "rgb", "decoded", "framed", "converted",
               "probe", "filter", "done", "failed"}
    /\ planes \in [y : Nat, c : Nat, yLen : Nat, cLen : Nat]
    /\ cut \in Sizes
    /\ rows \in [y : Nat, c : Nat]
    /\ via \in {"none", "svt", "crop", "resize", "scale"}
    /\ yuv \in [rgb : (0..255) \X (0..255) \X (0..255),
                y : 0..255, u : 0..255, v : 0..255]
    /\ size \in Sizes

YuvRead == kind = "jpeg420" /\ via = "svt"

(* Every byte the encoder reads lies in the slice of its plane, and the     *)
(* slice in the plane: no slice expression of process_image or repack_plane *)
(* is out of range, and no plane is read as another.                        *)
PlanesInBuffer ==
    YuvRead =>
        /\ SliceY <= planes.yLen /\ SliceC <= planes.cLen
        /\ \A r \in 0..(size.h - 1) : r * rows.y + size.w <= SliceY
        /\ \A r \in 0..(size.h \div 2 - 1) :
              r * rows.c + size.w \div 2 <= SliceC

(* The pixel at row r and column c of a plane with rows of "written" bytes  *)
(* is read from where rows of "read" bytes have it.                         *)
InPlace(written, read, width, height) ==
    \A r \in 0..(height - 1), c \in 0..(width - 1) :
        /\ (r * read + c) \div written = r
        /\ (r * read + c) % written = c

(* A picture of the YUV route is only cropped: every pixel of the file is   *)
(* the pixel of the same row and column of the picture.  The documentation  *)
(* of encode_avif_from_yuv_planes says so (at most 7 pixels are cropped).   *)
PixelsInPlace ==
    pc = "done" /\ YuvRead =>
        /\ InPlace(planes.y, rows.y, size.w, size.h)
        /\ InPlace(planes.c, rows.c, size.w \div 2, size.h \div 2)

(* The same of the pictures of even width, for which the stride that        *)
(* process_image assumes is the stride that the decoder used.               *)
EvenWidthsInPlace == w % 2 = 0 => PixelsInPlace

(* The file has aligned sides and is never empty, wider than the threshold  *)
(* or larger than the picture.  What is not scaled loses less than Align    *)
(* pixels per side; what is wider than the target stays at least as wide,   *)
(* though a JPEG may be decoded at half its size first.                     *)
FileFits ==
    pc = "done" /\ kind # "ffmpeg" =>
        /\ size.w % Align = 0 /\ size.h % Align = 0
        /\ size.w > 0 /\ size.h > 0
        /\ size.w <= w /\ size.h <= h /\ size.w <= Threshold
        /\ w > MaxWidth => size.w >= MaxWidth
        /\ via \in {"svt", "crop"} /\ w <= 2 * MaxWidth =>
              w - size.w < Align /\ h - size.h < Align

(* A resize keeps the shape of the picture but for the rounding and the     *)
(* alignment of its height.                                                 *)
ShapeKept ==
    pc = "done" /\ via = "resize" =>
        /\ 2 * size.h * cut.w <= 2 * cut.h * size.w + cut.w
        /\ cut.h * size.w < (size.h + Align) * cut.w

(* A picture is refused only if one of its sides is tiny, if it is a        *)
(* sliver, so wide that its height at the target width would vanish, or if  *)
(* it is a 4:2:0 JPEG narrow enough for the YUV route and higher than       *)
(* SVT-AV1 encodes, for which there is no ravif (processing.rs:409,         *)
(* avif.rs:668).  Every other picture that is too small or too high for     *)
(* SVT-AV1 is encoded by ravif.                                             *)
OnlySliversRefused ==
    pc = "failed" => \/ w < MinSide \/ h < MinSide
                     \/ h * MaxWidth < Align * w
                     \/ kind = "jpeg420" /\ w <= Threshold /\ h > MaxHeight

(* The conversion keeps grey grey, and the extremes in a byte: white stays  *)
(* white and a saturated colour does not wrap around.                       *)
ColoursSound ==
    LET r == yuv.rgb[1]  g == yuv.rgb[2]  b == yuv.rgb[3]
    IN  /\ r = g /\ g = b => yuv.y = r /\ yuv.u = 128 /\ yuv.v = 128
        /\ r >= g /\ r >= b => yuv.v >= 128
        /\ b >= r /\ b >= g => yuv.u >= 128
        /\ yuv.y \in 0..255 /\ yuv.u \in 0..255 /\ yuv.v \in 0..255

(* The size convert_to_avif returns is that of the file, or one row pair    *)
(* less; a failed probe leaves it unknown, never wrong.                     *)
ForetoldSize ==
    pc = "done" /\ kind = "ffmpeg" =>
        \/ size = NoSize
        \/ size.w = FileDims.w /\ size.h \in {FileDims.h, FileDims.h - 2}
=============================================================================
