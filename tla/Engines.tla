------------------------------- MODULE Engines -------------------------------
(***************************************************************************)
(* The command words that host1x-gr2d.c, host1x-gr3d.c and the blending of *)
(* surface_output.c build, and what the engines make of them.              *)
(*                                                                         *)
(* A word is an opcode that opens registers, or the value of the next open *)
(* register; writing the register the trigger names runs the operation. A  *)
(* register keeps its value from one job to the next, whoever built it.    *)
(* Registers go by name, an address is a buffer and a position in it, a    *)
(* pixel is the set of inks in it, each turned by quarters. Scaling leaves *)
(* every ink of the source area in every pixel of the destination.         *)
(***************************************************************************)
EXTENDS Integers, Sequences

CONSTANTS
  Align,     \* the sizes and positions rotate_surface_gr2d rounds to: 4
  Unpainted  \* the content of memory that nothing was drawn to

ASSUME EnginesAssumption == Align \in Nat \ {0}

Area(r) == (r.x .. r.x + r.w - 1) \X (r.y .. r.y + r.h - 1)
Rect(x, y, w, h) == [x |-> x, y |-> y, w |-> w, h |-> h]
Plain(name) == {<<name, 0>>}
Colors == {Unpainted, "white", "background"}  \* look the same from all sides
Turned(inks, quarters) ==
  {IF i[1] \in Colors THEN i ELSE <<i[1], (i[2] + quarters) % 4>> : i \in inks}
InksIn(pixels, r) == UNION {pixels[c] : c \in Area(r)}
Painted(pixels, cells, inks) ==
  [c \in DOMAIN pixels |-> IF c \in cells THEN inks ELSE pixels[c]]

\* host1x_pixelbuffer, as far as the builders read it.
Buffer(bo, w, h, yuv) == [bo |-> bo, width |-> w, height |-> h, yuv |-> yuv]
Fits(buf, r) == r.x + r.w <= buf.width /\ r.y + r.h <= buf.height
FullRect(buf) == Rect(0, 0, buf.width, buf.height)
NoBuffer == Buffer("none", 0, 0, FALSE)

\* sb_offset: two luma pixels share a chroma sample.
Offset(buf, plane, x, y) ==
  [bo |-> buf.bo, plane |-> plane,
   x |-> IF buf.yuv THEN 2 * (x \div 2) ELSE x, y |-> y]

-----------------------------------------------------------------------------
(* The engine.                                                             *)

\* HOST1X_OPCODE_MASK, INCR, NONINCR and IMM: an opcode and its words.
Burst(registers, values) ==
  <<[open |-> registers]>> \o [i \in DOMAIN values |-> [word |-> values[i]]]

Registers == {"trigger", "cmdsel", "controlsecond", "controlmain", "ropfade",
              "cliplt", "cliprb", "dstba", "dstst", "srcfgc", "tilemode",
              "dstsize", "dstps", "srcba", "srcst", "srcsize", "srcps",
              "csc", "uba", "vba", "sbformat", "controlsb", "uvstride",
              "sbsrc", "sbdst", "dda", "program", "scissor", "viewport",
              "rt", "rt_enable", "position", "colors", "texcoords", "texture",
              "draw_params", "draw"}

\* The clipping a fill leaves of its area.
Filled(r) ==
  LET area == Area(Rect(r["dstps"][1], r["dstps"][2],
                        r["dstsize"][1], r["dstsize"][2]))
      clip == (r["cliplt"][1] .. r["cliprb"][1] - 1)
                \X (r["cliplt"][2] .. r["cliprb"][2] - 1)
  IN  CASE r["controlsecond"].clip = "outside" -> area \ clip
        [] r["controlsecond"].clip = "inside"  -> area \cap clip
        [] OTHER -> area

\* The 2D engine: a solid fill, or the fast rotation of a whole area. The
\* rotation counts its size from zero and takes positions from the addresses.
Run2D(r, pix) ==
  IF r["controlmain"] = "solid"
  THEN Painted(pix[r["dstba"].bo], Filled(r), Plain(r["srcfgc"]))
  ELSE LET src == r["srcba"]
           dst == r["dstba"]
       IN  Painted(pix[dst.bo],
                   Area(Rect(dst.x, dst.y, r["dstsize"][1], r["dstsize"][2])),
                   Turned(InksIn(pix[src.bo],
                                 Rect(src.x, src.y, r["srcsize"][1] + 1,
                                      r["srcsize"][2] + 1)),
                          r["controlsecond"].rotate))

\* The 2D engine's scaler: heights count from zero, widths do not. A planar
\* source whose chroma is not where its luma is comes out in false colours.
RunSB(r, pix) ==
  LET src == r["srcba"]
      dst == r["dstba"]
      inks == InksIn(pix[src.bo], Rect(src.x, src.y, r["srcsize"][1],
                                       r["srcsize"][2] + 1))
      true_colours ==
        r["controlsb"].yuv =>
          /\ r["uba"] = [src EXCEPT !.plane = "u"]
          /\ r["vba"] = [src EXCEPT !.plane = "v"]
  IN  Painted(pix[dst.bo],
              Area(Rect(dst.x, dst.y, r["dstsize"][1], r["dstsize"][2] + 1)),
              IF true_colours THEN inks ELSE Plain("false_colours"))

\* The 3D engine draws a textured quad, its colours over those that are there.
Run3D(r, pix) ==
  LET dst == pix[r["rt"].bo]
      inks == InksIn(pix[r["texture"].bo], r["texcoords"])
  IN  [c \in DOMAIN dst |->
         IF c \in Area(r["position"]) \cap Area(r["scissor"]) /\ r["rt_enable"] = 1
         THEN dst[c] \cup inks ELSE dst[c]]

\* One word. An opcode where a value is expected is taken for the value, and a
\* value where an opcode is expected for an opcode: what follows is not ours.
Feed(e, item) ==
  IF e.stopped \/ ("open" \in DOMAIN item) # (e.pending = <<>>)
  THEN [e EXCEPT !.stopped = TRUE]
  ELSE IF "open" \in DOMAIN item THEN [e EXCEPT !.pending = item.open]
  ELSE LET reg  == Head(e.pending)
           regs == [e.regs EXCEPT ![reg] = item.word]
           next == [e EXCEPT !.pending = Tail(e.pending), !.regs = regs]
       IN  CASE e.class = "gr3d" /\ reg = "draw" ->
                  [next EXCEPT !.pix[regs["rt"].bo] = Run3D(regs, e.pix)]
             [] e.class = "gr2d" /\ reg = regs["trigger"] ->
                  [next EXCEPT !.pix[regs["dstba"].bo] = Run2D(regs, e.pix)]
             [] e.class = "gr2d_sb" /\ reg = regs["trigger"] ->
                  [next EXCEPT !.pix[regs["dstba"].bo] = RunSB(regs, e.pix)]
             [] OTHER -> next

\* A caller's engines: answers says of the jobs to come whether beginning,
\* building, ending and flushing them succeeds (all do that it does not name),
\* status how the last one went.
Asking(gpu, answers) ==
  [regs |-> gpu.regs, pix |-> gpu.pix, status |-> "done", answers |-> answers]

\* tegra_stream_push_setclass and the words after it, built, flushed and waited
\* for: every builder does this in one go, and returns when a part of it fails.
Run(gpu, class, words) ==
  LET after[n \in 0 .. Len(words)] ==
        IF n = 0
        THEN [class |-> class, regs |-> gpu.regs, pix |-> gpu.pix,
              pending |-> <<>>, stopped |-> FALSE]
        ELSE Feed(after[n - 1], words[n])
      e == after[Len(words)]
      left == SubSeq(gpu.answers, 2, Len(gpu.answers))
  IN  IF gpu.answers # <<>> /\ ~Head(gpu.answers)
      THEN [gpu EXCEPT !.status = "refused", !.answers = left]
      ELSE [regs |-> e.regs, pix |-> e.pix, status |-> "done", answers |-> left]

Rejected(gpu) == [gpu EXCEPT !.status = "invalid"]  \* -EINVAL, nothing was built

\* What earlier jobs, of other processes too, may have left in the registers.
LeftoverRegs(buf) ==
  [r \in Registers |->
     CASE r = "controlsecond" -> [clip |-> "outside", rotate |-> 1]
       [] r = "controlsb" -> [yuv |-> TRUE]
       [] r \in {"dstba", "srcba", "uba", "vba", "sbsrc", "sbdst", "rt", "texture"} ->
            Offset(buf, "y", 0, 0)
       [] r \in {"scissor", "viewport", "position", "texcoords"} -> FullRect(buf)
       [] r \in {"cliplt", "dstps", "srcps"} -> <<0, 0>>
       [] r \in {"cliprb", "dstsize", "srcsize"} -> <<buf.width, buf.height>>
       [] r = "dda" -> <<FullRect(buf), FullRect(buf)>>
       [] r \in {"cmdsel", "dstst", "srcst", "uvstride", "rt_enable", "draw"} -> 0
       [] OTHER -> "left over"]

-----------------------------------------------------------------------------
(* host1x-gr2d.c                                                           *)

\* Mutant: a clear that does not write controlsecond.
ClearRectAsClipped(gpu, buf, color, r) ==
  IF ~Fits(buf, r) THEN Rejected(gpu)
  ELSE Run(gpu, "gr2d",
         Burst(<<"trigger", "cmdsel">>, <<"dstps", 0>>)
         \o Burst(<<"controlmain", "ropfade">>, <<"solid", "copy">>)
         \o Burst(<<"dstba", "dstst">>, <<Offset(buf, "y", 0, 0), buf.width>>)
         \o Burst(<<"srcfgc">>, <<color>>)
         \o Burst(<<"tilemode">>, <<"linear">>)
         \o Burst(<<"dstsize", "dstps">>, <<<<r.w, r.h>>, <<r.x, r.y>>>>))

\* host1x_gr2d_clear_rect
ClearRect(gpu, buf, color, r) ==
  IF ~Fits(buf, r) THEN Rejected(gpu)
  ELSE Run(gpu, "gr2d",
         Burst(<<"trigger", "cmdsel">>, <<"dstps", 0>>)
         \o Burst(<<"controlsecond", "controlmain", "ropfade">>,
                  <<[clip |-> "off", rotate |-> 0], "solid", "copy">>)
         \o Burst(<<"dstba", "dstst">>, <<Offset(buf, "y", 0, 0), buf.width>>)
         \o Burst(<<"srcfgc">>, <<color>>)
         \o Burst(<<"tilemode">>, <<"linear">>)
         \o Burst(<<"dstsize", "dstps">>, <<<<r.w, r.h>>, <<r.x, r.y>>>>))

\* host1x_gr2d_clear_rect_clipped with draw_outside: all of r but keep.
ClearAround(gpu, buf, color, r, keep) ==
  IF ~Fits(buf, r) \/ ~Fits(buf, keep) THEN Rejected(gpu)
  ELSE IF r = keep THEN [gpu EXCEPT !.status = "done"]
  ELSE Run(gpu, "gr2d",
         Burst(<<"trigger", "cmdsel">>, <<"dstps", 0>>)
         \o Burst(<<"controlsecond", "controlmain", "ropfade">>,
                  <<[clip |-> "outside", rotate |-> 0], "solid", "copy">>)
         \o Burst(<<"cliplt", "cliprb">>,
                  <<<<keep.x, keep.y>>, <<keep.x + keep.w, keep.y + keep.h>>>>)
         \o Burst(<<"dstba", "dstst">>, <<Offset(buf, "y", 0, 0), buf.width>>)
         \o Burst(<<"srcfgc">>, <<color>>)
         \o Burst(<<"tilemode">>, <<"linear">>)
         \o Burst(<<"dstsize", "dstps">>, <<<<r.w, r.h>>, <<r.x, r.y>>>>))

\* host1x_gr2d_blit as rotate_surface_gr2d calls it: a rotation, src not dst.
Blit(gpu, src, dst, rotate, dx, dy, w, h) ==
  LET dw == IF rotate = 2 THEN w ELSE h
      dh == IF rotate = 2 THEN h ELSE w
  IN  IF ~Fits(src, Rect(0, 0, w, h)) \/ ~Fits(dst, Rect(dx, dy, dw, dh))
      THEN Rejected(gpu)
      ELSE Run(gpu, "gr2d",
             Burst(<<"trigger", "cmdsel">>, <<"dstps", 0>>)
             \o Burst(<<"controlsecond", "controlmain", "ropfade">>,
                      <<[clip |-> "off", rotate |-> rotate], "same_depth", "copy">>)
             \o Burst(<<"tilemode">>, <<"linear">>)
             \o Burst(<<"dstba", "dstst", "srcba", "srcst", "srcsize",
                        "dstsize", "srcps", "dstps">>,
                      <<Offset(dst, "y", dx, dy), dst.width,
                        Offset(src, "y", 0, 0), src.width,
                        <<w - 1, h - 1>>, <<dw, dh>>, <<0, 0>>, <<dx, dy>>>>))

\* host1x_gr2d_surface_blit: scale, and convert a planar source. A surface
\* without pixels has no buffer.
SurfaceBlit(gpu, src, dst, s, d) ==
  IF src = NoBuffer THEN Rejected(gpu)
  ELSE IF ~Fits(src, s) \/ ~Fits(dst, d) THEN Rejected(gpu)
  ELSE Run(gpu, "gr2d_sb",
         Burst(<<"trigger", "cmdsel", "dda">>, <<"dstsize", 1, <<s, d>>>>)
         \o (IF src.yuv
             THEN Burst(<<"vba", "uba">>, <<Offset(src, "v", s.x, s.y),
                                            Offset(src, "u", s.x, s.y)>>)
                  \o Burst(<<"csc", "uba", "vba", "sbformat", "controlsb",
                             "controlsecond", "controlmain">>,
                           <<"yuv", Offset(src, "u", s.x, s.y),
                             Offset(src, "v", s.x, s.y), "yv12", [yuv |-> TRUE],
                             [clip |-> "off", rotate |-> 0], "scale">>)
             ELSE Burst(<<"csc", "sbformat", "controlsb", "controlsecond",
                          "controlmain">>,
                        <<"rgb", "rgba", [yuv |-> FALSE],
                          [clip |-> "off", rotate |-> 0], "scale">>))
         \o Burst(<<"uvstride", "tilemode", "sbsrc", "sbdst">>,
                  <<src.width, "linear", Offset(src, "y", s.x, s.y),
                    Offset(dst, "y", d.x, d.y)>>)
         \o Burst(<<"dstba", "dstst", "srcba", "srcst", "srcsize", "dstsize">>,
                  <<Offset(dst, "y", d.x, d.y), dst.width,
                    Offset(src, "y", s.x, s.y), src.width,
                    <<s.w, s.h - 1>>, <<d.w, d.h - 1>>>>))

-----------------------------------------------------------------------------
(* surface_rotate.c                                                        *)

Aligned(n) == n % Align = 0
RoundUp(n) == Align * ((n + Align - 1) \div Align)

\* A buffer of its own for the length of a call.
WithBuffer(gpu, buf) ==
  [gpu EXCEPT !.pix = [b \in DOMAIN @ \cup {buf.bo} |->
     IF b = buf.bo THEN [c \in Area(FullRect(buf)) |-> Plain(Unpainted)] ELSE @[b]]]
WithoutBuffers(gpu, bos) ==
  [gpu EXCEPT !.pix = [b \in DOMAIN @ \ bos |-> @[b]]]

Swapped(rotate, w, h) == IF rotate = 2 THEN <<w, h>> ELSE <<h, w>>

\* rotate_surface_gr2d: scale the video to a buffer of the size it has before
\* the rotation, rotate that, straight to the surface when its place and size
\* are aligned, else to a second buffer that is scaled to the surface. A job that
\* is refused, or no memory for the second buffer, ends it.
RotateSurface(gpu, video, dst, rotate, s, d) ==
  LET pre  == Swapped(rotate, d.w, d.h)
      down == pre[1] * pre[2] <= s.w * s.h
      size == IF down THEN <<RoundUp(pre[1]), RoundUp(pre[2])>>
                      ELSE <<RoundUp(s.w), RoundUp(s.h)>>
      turn == IF down THEN <<RoundUp(d.w), RoundUp(d.h)>>
                      ELSE Swapped(rotate, size[1], size[2])
      tmp  == Buffer("tmp", size[1], size[2], FALSE)
      tmp2 == Buffer("tmp2", turn[1], turn[2], FALSE)
      first == SurfaceBlit(WithBuffer(gpu, tmp), video, tmp, s, FullRect(tmp))
      twopass == ~Aligned(d.x) \/ ~Aligned(d.y) \/ size # pre
      second == IF twopass
                THEN Blit(WithBuffer(first, tmp2), tmp, tmp2, rotate, 0, 0,
                          size[1], size[2])
                ELSE Blit(first, tmp, dst, rotate, d.x, d.y, size[1], size[2])
      third == IF twopass /\ second.status = "done"
               THEN SurfaceBlit(second, tmp2, dst, FullRect(tmp2), d) ELSE second
  IN  WithoutBuffers(IF first.status = "done" THEN third ELSE first, {"tmp", "tmp2"})

-----------------------------------------------------------------------------
(* host1x-gr3d.c and blend_surface of surface_output.c                     *)

\* host1x_gr3d_initialize: the state no draw sets, and the shaders.
Initialize(prog) == Burst(<<"program">>, <<prog>>)

\* blend_surface. The rows of the quad are pushed through the vertex buffer.
BlendSurface(gpu, src, dst, s, d, colored) ==
  Run(gpu, "gr3d",
    Initialize(IF colored THEN "blend_atop" ELSE "blend_atop_solid_shade")
    \o Burst(<<"scissor">>, <<FullRect(dst)>>)
    \o Burst(<<"viewport">>, <<FullRect(dst)>>)
    \o Burst(<<"rt">>, <<Offset(dst, "y", 0, 0)>>)
    \o Burst(<<"rt_enable">>, <<1>>)
    \o Burst(<<"position">>, <<d>>)
    \o (IF colored THEN Burst(<<"colors">>, <<"vertices">>) ELSE <<>>)
    \o Burst(<<"texcoords">>, <<s>>)
    \o Burst(<<"texture">>, <<Offset(src, "y", 0, 0)>>)
    \o Burst(<<"draw_params", "draw">>, <<"triangles", 6>>))
=============================================================================
