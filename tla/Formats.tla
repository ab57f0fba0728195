-------------------------------- MODULE Formats --------------------------------
(***************************************************************************)
(* The negotiation of pixel formats and sizes in meson-vcodec.c: ENUM_FMT, *)
(* ENUM_FRAMESIZES, TRY_FMT and S_FMT on a table of meson-platforms.c, and *)
(* the canvases meson-codecs.c lays over the planes.  The two queues are   *)
(* set in either order, each again and again; what one gets depends on the *)
(* other.  The status of the session is Session's business.                *)
(***************************************************************************)
EXTENDS Integers, Sequences

CONSTANTS Codecs,     \* platform_specs->codecs: [pix, maxW, maxH], in order
          AskedPix,   \* the formats applications ask for, beside those of the table
          AskedSizes, \* the widths and heights they ask for
          MaxCalls    \* bound: calls of S_FMT

\* meson-formats.c
Raw(planes, bppy) == [bits |-> 8, planes |-> planes, bppx |-> IF planes = 2 THEN 8 ELSE 4,
                      bppy |-> bppy, alignW |-> 32, alignH |-> 16]
Coded(bits, alignW, alignH) == [bits |-> bits, planes |-> 1, bppx |-> 0, bppy |-> 0,
                                alignW |-> alignW, alignH |-> alignH]
RawFormat == {"nv12", "nv21", "yuv420"}
Format == [nv12 |-> Raw(2, 4), nv21 |-> Raw(2, 4), yuv420 |-> Raw(3, 4),
           mpeg1 |-> Coded(16, 64, 32), mpeg2 |-> Coded(8, 64, 32), h264 |-> Coded(8, 32, 16),
           vp9 |-> Coded(4, 32, 16), hevc |-> Coded(4, 32, 16)]

Queues == {"src", "dst"}
Other(q) == IF q = "src" THEN "dst" ELSE "src"

\* a struct v4l2_format that nobody has set
NoPix == ""
NotSet == [pix |-> NoPix, w |-> 0, h |-> 0, planes |-> << >>]
Fresh == [q \in Queues |-> NotSet]

MinW == 320
MinH == 240

-----------------------------------------------------------------------------
(* Sizes.                                                                  *)

Align(x, a) == ((x + a - 1) \div a) * a
Clamp(x, lo, hi) == IF x <= lo THEN lo ELSE IF x >= hi THEN hi ELSE x

\* the width and height of plane j in bytes and lines: set_buffer_sizes and
\* meson_vcodec_config_vb2_canvas work them out alike
PlaneSize(f, w, h, j) ==
  LET yw == Align((w * f.bits) \div 8, f.alignW)
      yh == (h * f.bits) \div 8
  IN IF j = 1 THEN <<yw, yh>> ELSE <<(yw * f.bppx) \div 8, (yh * f.bppy) \div 8>>

\* set_buffer_sizes
BufferSizes(f, w, h) ==
  [j \in 1 .. f.planes |->
     LET p == PlaneSize(f, w, h, j)
     IN [stride |-> p[1], size |-> Align(p[1] * p[2], f.alignH)]]

WithSize(v, w, h) == [v EXCEPT !.w = w, !.h = h, !.planes = BufferSizes(Format[v.pix], w, h)]

Clamped(v, maxW, maxH) == WithSize(v, Clamp(v.w, MinW, maxW), Clamp(v.h, MinH, maxH))

\* the canvases of a buffer: meson_vcodec_config_vb2_canvas
Canvas(v) == [j \in 1 .. Format[v.pix].planes |-> PlaneSize(Format[v.pix], v.w, v.h, j)]

\* validate_canvas_align, whose result only makes a message
Misaligned(v, j) ==
  LET c == Canvas(v)[j]
  IN \/ c[1] % Format[v.pix].alignW # 0
     \/ (c[1] * c[2]) % Format[v.pix].alignH # 0

-----------------------------------------------------------------------------
(* Lookups in the table.                                                   *)

Least(is) == CHOOSE i \in is : \A j \in is : i <= j
Greatest(sizes) == IF sizes = {} THEN 0 ELSE CHOOSE n \in sizes : \A m \in sizes : m <= n
WidthOf(i) == Codecs[i].maxW
HeightOf(i) == Codecs[i].maxH

\* find_codec
FindCodec(src, dst) == {i \in DOMAIN Codecs : Codecs[i].pix = [src |-> src, dst |-> dst]}

\* mutant: the filter looks at the list it fills
FilterOwn(s, q) == {Codecs[i].pix[q] : i \in {i \in DOMAIN Codecs : s[q].pix \in {NoPix, Codecs[i].pix[q]}}}
\* filter_formats, meson_vcodec_enum_fmt_vid
FilterFormats(s, q) ==
  {Codecs[i].pix[q] :
     i \in {i \in DOMAIN Codecs : s[Other(q)].pix \in {NoPix, Codecs[i].pix[Other(q)]}}}

\* meson_vcodec_enum_framesizes: the largest size, <<0, 0>> for EINVAL
FrameSizes(s, pix) ==
  LET is == {i \in DOMAIN Codecs : /\ \E q \in Queues : Codecs[i].pix[q] = pix
                                   /\ \A q \in Queues : s[q].pix \in {NoPix, Codecs[i].pix[q]}}
      of == IF is # {} /\ \A q \in Queues : s[q].pix # NoPix THEN {Least(is)} ELSE is
  IN <<Greatest({WidthOf(i) : i \in of}), Greatest({HeightOf(i) : i \in of})>>

-----------------------------------------------------------------------------
(* TRY_FMT and S_FMT.                                                      *)

\* the single plane formats stand for the multiplane ones (on OUTPUT)
MultiPlane(q, pix) ==
  CASE q = "src" /\ pix = "YUV420" -> "yuv420" [] q = "src" /\ pix = "NV12" -> "nv12"
    [] OTHER -> pix

\* the largest size of some of the codecs
Within(v, is) == Clamped(v, Greatest({WidthOf(i) : i \in is}), Greatest({HeightOf(i) : i \in is}))

WithPix(s, q, pix) == [s[q] EXCEPT !.pix = pix]

\* common_try_fmt_vid guesses, as long as the two formats are no pair: s has what is
\* asked for set on q
Heuristic(s, q, is) ==
  IF is # {} THEN Within(s[q], is) ELSE Within(WithPix(s, q, Codecs[1].pix[q]), {1})

\* ... and otherwise takes the first codec for the pair, or for one of the two
Nearest(s, q) ==
  {i \in DOMAIN Codecs : \/ q = "src" /\ s["dst"].pix = Codecs[i].pix.dst
                         \/ s["src"].pix = Codecs[i].pix.src}
Candidates(s, q, exact) ==
  IF \E p \in Queues : s[p].pix = NoPix THEN {} ELSE IF exact # {} THEN exact ELSE Nearest(s, q)
Settled(s, q, is) ==
  IF is = {} THEN Heuristic(s, q, {i \in DOMAIN Codecs : Codecs[i].pix[q] = s[q].pix})
  ELSE Within(WithPix(s, q, Codecs[Least(is)].pix[q]), {Least(is)})

Tried(s, q) == Settled(s, q, Candidates(s, q, FindCodec(s["src"].pix, s["dst"].pix)))

TryFormat(session, q, asked) ==
  Tried([session EXCEPT ![q] = [asked EXCEPT !.pix = MultiPlane(q, asked.pix)]], q)

\* meson_vcodec_s_fmt_vid: the session keeps what was tried, "s", before the sizes of
\* both queues are settled with that of OUTPUT, "src"
Kept(s, q, ok) == [ok |-> ok, session |-> s, reply |-> s[q]]
BothSized(s, q, src) ==
  IF q = "src"
    THEN [ok |-> TRUE, reply |-> src,
          session |-> [s EXCEPT !["dst"] = WithSize(@, src.w, src.h)]]
    ELSE [ok |-> TRUE, reply |-> WithSize(s["dst"], src.w, src.h),
          session |-> [s EXCEPT !["src"] = src]]
Stored(s, q, found) ==
  IF \E p \in Queues : s[p].pix = NoPix \/ s[p].w = 0 \/ s[p].h = 0 THEN Kept(s, q, TRUE)
  ELSE IF found = {} THEN Kept(s, q, FALSE)
  ELSE BothSized(s, q, Within(s["src"], {Least(found)}))

Chosen(s, q) == Stored(s, q, FindCodec(s["src"].pix, s["dst"].pix))
SetFormat(session, q, asked) == Chosen([session EXCEPT ![q] = TryFormat(session, q, asked)], q)

-----------------------------------------------------------------------------
(* What the application can rely on.                                       *)

Asked == {[pix |-> p, w |-> z[1], h |-> z[2], planes |-> << >>] :
            p \in AskedPix \cup DOMAIN Format, z \in AskedSizes}

\* sessions after up to n calls of S_FMT, the refused ones included
After(ss) == {SetFormat(s, q, a).session : s \in ss, q \in Queues, a \in Asked}
Reached(n) ==
  LET reach[k \in 0 .. n] == IF k = 0 THEN {Fresh} ELSE reach[k - 1] \cup After(reach[k - 1])
  IN  reach[n]

BothSet(s) == \A q \in Queues : s[q].pix # NoPix
Sized(v, maxWH) == v.w \in MinW .. maxWH[1] /\ v.h \in MinH .. maxWH[2]

\* A call that succeeds with both formats set leaves a pair that some codec turns into
\* one another, and OUTPUT and the reply get a size this codec supports.
Supported(r) ==
  r.ok /\ BothSet(r.session) =>
    \E i \in DOMAIN Codecs :
      /\ \A p \in Queues : Codecs[i].pix[p] = r.session[p].pix
      /\ \A v \in {r.reply, r.session["src"]} : Sized(v, <<WidthOf(i), HeightOf(i)>>)

\* what ENUM_FMT offers for a queue, S_FMT takes as it is
OffersHold(s, q, a, r) == a.pix \in FilterFormats(s, q) => r.ok /\ r.reply.pix = a.pix

\* A reply asked for again is the same reply.
Stable(q, r) ==
  r.ok => /\ SetFormat(r.session, q, r.reply).reply = r.reply
          /\ BothSet(r.session) =>
               \A p \in Queues : Sized(r.reply, FrameSizes(r.session, r.session[p].pix))

\* The reply has the size of OUTPUT, and when OUTPUT was set last the session has what
\* the reply says, and that size for both queues.  Nothing is claimed of the CAPTURE
\* format the session keeps when CAPTURE was set last: the code stores it before its
\* size is settled (meson-vcodec.c:1097).
OneSize(q, r) ==
  r.ok /\ BothSet(r.session) =>
    /\ r.reply.w = r.session["src"].w /\ r.reply.h = r.session["src"].h
    /\ q = "src" => /\ r.reply = r.session["src"]
                    /\ r.session["dst"].w = r.reply.w /\ r.session["dst"].h = r.reply.h

\* The canvases of a buffer lie within its planes and hold every line of an even
\* height (an odd one loses its last line of chroma); only the chroma of yuv420
\* may be misaligned.
CanvasesFit(v) ==
  \A j \in 1 .. Format[v.pix].planes :
    LET c == Canvas(v)[j]
    IN /\ c[1] = v.planes[j].stride /\ c[1] * c[2] <= v.planes[j].size
       /\ c[2] * (IF j = 1 THEN 1 ELSE 2) = v.h - (IF j = 1 THEN 0 ELSE v.h % 2)
       /\ c[1] * (IF j > 1 /\ v.pix = "yuv420" THEN 2 ELSE 1) >= v.w
       /\ Misaligned(v, j) => v.pix = "yuv420" /\ j > 1

\* What S_FMT accepts is a pair of formats and a size some codec supports, and what
\* ENUM_FMT offers and S_FMT answers can be relied on, in whatever order and however
\* often the two queues are set.  Code: meson-vcodec.c 736-1205, meson-codecs.c 136-226.
FormatsAgree ==
  /\ \A s \in Reached(MaxCalls) : \A q \in Queues :
       s[q].pix \in RawFormat => CanvasesFit(s[q])
  /\ \A s \in Reached(MaxCalls - 1) : \A q \in Queues : \A a \in Asked :
       \A r \in {SetFormat(s, q, a)} :
         Supported(r) /\ OffersHold(s, q, a, r) /\ Stable(q, r) /\ OneSize(q, r)
=============================================================================
