---------------------------- MODULE H264Pictures ----------------------------
(***************************************************************************)
(* What the decoder tells the kernel of a picture: the slice type read     *)
(* from the stream (bitstream.c) and the reference pictures with their     *)
(* numbers, order and flags (decoder.c), for the VDE interface in its two  *)
(* versions and for V4L2. The application is a player that follows the     *)
(* H.264 rules for frame_num and the sliding window of references.         *)
(***************************************************************************)
EXTENDS Integers, FiniteSets, FiniteSetsExt, SequencesExt

CONSTANTS
  Surfaces, None,
  MaxFrameNum,    \* 16 or more in a stream
  MaxReferences,
  MaxPoc,         \* bound: picture order counts are positive and at most this
  SliceData,      \* bound: what the slice of a stream's first picture, with order 1,
                  \* may begin with; the others begin as SliceOf below
  Rest,           \* what follows each of them
  Admits          \* the rules of the stream that are lifted

ASSUME PicturesAssumption ==
  /\ {MaxFrameNum, MaxReferences, MaxPoc} \subseteq Nat /\ MaxReferences < MaxFrameNum
  /\ MaxReferences < Cardinality(Surfaces) /\ MaxReferences < MaxPoc
  /\ SliceData \subseteq Seq(0..255) /\ Rest \in Seq(0..255)
  /\ Admits \subseteq {"intra_at_wrap", "b_only"}

Interfaces == {"vde", "vde_v1", "v4l2"}

VARIABLES
  kernel,   \* the interface the kernel has
  v1,       \* dec->v1: the first version of the VDE interface is in use
  frames,   \* per surface: frame_num and B flag of its frame, pic_order_cnt
  refs,     \* the application's references: frame_idx, order count, type
  prevRef,  \* frame_num of its last reference picture, None before the first
  pic,      \* the picture handed to vdp_decoder_render, None between the calls
  sent      \* the request of the call, None before it

vars == <<kernel, v1, frames, refs, prevRef, pic, sent>>

-----------------------------------------------------------------------------
(* bitstream.c: a reader of the bits of a slice, without the bytes put in to *)
(* keep start codes out of it.                                               *)

\* As copy_bitstream_to_dmabuf leaves it: behind a start code and its NAL byte.
StartCode == <<0, 0, 1, 65>>
Reader(d) == [data |-> d, off |-> 4, shift |-> 0]

Byte(d, i) == d[i + 1]
Bits(byte) == [k \in 1..8 |-> (byte \div 2^(8 - k)) % 2]
Advance(r, n) == [r EXCEPT !.off = @ + (r.shift + n) \div 8, !.shift = (r.shift + n) % 8]

\* Mutant of Skip: only one of the two bytes before is looked at.
SkipAll(d, i) ==
  IF Byte(d, i) = 3 /\ i >= 2 /\ Byte(d, i - 2) = 0 /\ i + 1 < Len(d) THEN i + 1 ELSE i

\* emulation_escape.
Skip(d, i) ==
  IF /\ Byte(d, i) = 3 /\ i >= 2 /\ i + 1 < Len(d)
     /\ Byte(d, i - 2) = 0 /\ Byte(d, i - 1) = 0 /\ Byte(d, i + 1) <= 3
  THEN i + 1 ELSE i

\* bitstream_read_bits: n bits out of the bytes they lie in; the offset counts the
\* bytes that were stepped over on the way.
ReadBits(r, n) ==
  LET more == (n + r.shift - 1) \div 8
      offs[k \in 0..more] == Skip(r.data, IF k = 0 THEN r.off ELSE offs[k - 1] + 1)
      all == FlattenSeq([k \in 1..(more + 1) |-> Bits(Byte(r.data, offs[k - 1]))])
  IN [bits |-> SubSeq(all, r.shift + 1, r.shift + n),
      reader |-> Advance([r EXCEPT !.off = offs[more] - more], n)]

\* bitstream_skip_leading_zeros: what is left of a byte first, then whole bytes.
\* The count is a uint8_t; the shift takes it modulo 8, which wrapping keeps.
SkipZeros(r) ==
  LET d == r.data
      Ones(o, from) == {k \in from..8 : Bits(Byte(d, o))[k] = 1}
      At(o, shift, k) == [zeros |-> k - 1 - shift,
                          reader |-> Advance([r EXCEPT !.off = o, !.shift = shift], k - shift)]
      bytes[b \in 0..Len(d)] ==
        LET o == Skip(d, b)
        IN IF Ones(o, 1) # {} THEN At(o, 0, Min(Ones(o, 1)))
           ELSE [bytes[o + 1] EXCEPT !.zeros = (@ + 8) % 256]
      here == Skip(d, r.off)
  IN IF r.shift = 0 THEN bytes[r.off]
     ELSE IF Ones(here, r.shift + 1) # {} THEN At(here, r.shift, Min(Ones(here, r.shift + 1)))
     ELSE [bytes[here + 1] EXCEPT !.zeros = (@ + 8 - r.shift) % 256]

\* bitstream_read_ue: the bits of the number plus one; more than 31 zeros end the
\* process.
ReadUe(r) ==
  LET z == SkipZeros(r)
  IN IF z.zeros > 31 THEN [code |-> None, reader |-> z.reader]
     ELSE IF z.zeros = 0 THEN [code |-> <<1>>, reader |-> z.reader]
     ELSE LET b == ReadBits(z.reader, z.zeros)
          IN [code |-> <<1>> \o b.bits, reader |-> b.reader]

\* get_slice_type: the second number of a slice.
SliceType(d) ==
  LET first == ReadUe(Reader(d))
  IN IF first.code = None THEN None ELSE ReadUe(first.reader).code

\* Slice types modulo 5.
I == 2
B == 1
Mod5(code) == (FoldLeft(LAMBDA n, b : (2 * n + b) % 5, 0, code) + 4) % 5

-----------------------------------------------------------------------------
(* The application: a player of an H.264 stream.                           *)

\* An encoder puts a byte 3 between two zero bytes and one of 0 to 3.
Encoded(payload) ==
  FoldLeft(LAMBDA d, b : IF b <= 3 /\ d[Len(d)] = 0 /\ d[Len(d) - 1] = 0
                         THEN d \o <<3, b>> ELSE Append(d, b), StartCode, payload)

\* A number of the stream, one less than what its bits say, and where it ends.
Ue(bits, from) ==
  LET zeros == Min({k \in from..Len(bits) : bits[k] = 1}) - from
  IN [code |-> IF zeros > 31 THEN None ELSE SubSeq(bits, from + zeros, from + 2 * zeros),
      next |-> from + 2 * zeros + 1]
TypeOf(payload) ==
  LET bits == FlattenSeq([k \in 1..Len(payload) |-> Bits(payload[k])])
      first == Ue(bits, 1)
  IN IF first.code = None THEN None ELSE Ue(bits, first.next).code

Slice(payload) == [data |-> Encoded(payload \o Rest), code |-> TypeOf(payload \o Rest)]

\* The slices after the first: macroblock 0, and a slice type. 5 and 7 say that all
\* slices of the picture are of type P or I. Rule: B pictures are of type 1, not 6.
Types == {5, 7, IF "b_only" \in Admits THEN 6 ELSE 1}
SliceOf == [t \in Types |-> Slice(CASE t = 1 -> <<175>> [] t = 5 -> <<155>>
                                     [] t = 6 -> <<159>> [] t = 7 -> <<136>>)]
FirstSlices == {Slice(payload) : payload \in SliceData}

NoFrame == [num |-> 0, b |-> FALSE, poc |-> 0]

\* A picture of the stream: its frame_num is that of the last reference picture plus
\* one, and no reference still has it. sorted is pic_order_cnt_type = 0: the others
\* have no B pictures here, and V4L2 does not look at it. Rule: the picture that
\* starts frame_num again looks at its references.
Render(s, t, idr, isRef, poc, sorted) ==
  /\ pic = None /\ sent = None
  /\ s \notin DOMAIN refs
  /\ prevRef = None => idr
  /\ idr => t % 5 = I /\ isRef
  /\ ~sorted => kernel # "v4l2" /\ t % 5 # B
  /\ LET num == IF idr THEN 0 ELSE (prevRef + 1) % MaxFrameNum
         R == IF idr THEN {} ELSE {r \in DOMAIN refs : refs[r].idx # num}
     IN /\ \A r \in R : refs[r].poc # poc
        /\ num = 0 /\ R # {} /\ t % 5 = I => "intra_at_wrap" \in Admits
        /\ refs' = [r \in R |-> refs[r]]
        /\ \E slice \in IF prevRef = None /\ poc = 1 /\ sorted THEN FirstSlices ELSE {SliceOf[t]} :
             pic' = [surf |-> s, isRef |-> isRef, num |-> num, poc |-> poc, sorted |-> sorted,
                     data |-> slice.data, code |-> slice.code]
  /\ UNCHANGED <<kernel, v1, frames, prevRef, sent>>

\* What becomes of its references: the window slides, or it forgets one. A first
\* picture that is not intra is no picture.
Continue(decoded) ==
  /\ pic' = None
  /\ prevRef' = IF pic.isRef THEN pic.num ELSE prevRef
  /\ IF ~pic.isRef THEN refs' = refs
     ELSE \E kept \in {DOMAIN refs} \cup {DOMAIN refs \ {r} : r \in DOMAIN refs} :
            LET new == IF decoded /\ (prevRef = None => Mod5(pic.code) = I)
                       THEN {pic.surf} ELSE {}
            IN /\ Cardinality(kept) < MaxReferences
               /\ refs' = [s \in kept \cup new |->
                             IF s \in kept THEN refs[s]
                             ELSE [idx |-> pic.num, poc |-> pic.poc, b |-> Mod5(pic.code) = B]]

-----------------------------------------------------------------------------
(* decoder.c: the references of a picture.                                 *)

\* Mutant of Before: the later pictures are not looked for.
BeforeEarlier(f, s, t, delim) ==
  IF f[s].poc < delim THEN f[s].poc > f[t].poc ELSE f[s].poc < f[t].poc

\* get_refs_sorted: s belongs before t in the list.
Before(f, s, t, delim) ==
  IF f[s].poc < delim THEN f[s].poc > f[t].poc \/ f[t].poc > delim
  ELSE f[s].poc < f[t].poc

Sorted(f, list, delim) ==
  LET Insert(l, s) ==
        LET at == {k \in 1..Len(l) : Before(f, s, l[k], delim)}
        IN IF at = {} THEN Append(l, s) ELSE InsertAt(l, Min(at), s)
  IN FoldLeft(Insert, <<>>, list)

\* The list: get_refs_dpb_order leaves it as the application gives it.
RefsOf(f, order, delim) == IF pic.sorted THEN Sorted(f, order, delim) ELSE order

\* Mutant of Wrapped: the number is taken from the frame, not from the application.
WrappedAgain(f, num) ==
  [s \in Surfaces |-> IF num = 0 /\ s \in DOMAIN refs
                      THEN [f[s] EXCEPT !.num = (@ - MaxFrameNum) % 2^23] ELSE f[s]]

\* Mutant of Wrapped: the number is not cut to the 23 bits of its field.
WrappedSigned(f, num) ==
  [s \in Surfaces |-> IF num = 0 /\ s \in DOMAIN refs
                      THEN [f[s] EXCEPT !.num = refs[s].idx - MaxFrameNum] ELSE f[s]]

\* When frame_num starts again, the references' numbers become negative, for good.
Wrapped(f, num) ==
  [s \in Surfaces |-> IF num = 0 /\ s \in DOMAIN refs
                      THEN [f[s] EXCEPT !.num = (refs[s].idx - MaxFrameNum) % 2^23] ELSE f[s]]

\* n frames are turned into those of the first version, which are shorter, in the
\* memory they are in: which of them the kernel then reads there, 0 if none is whole.
FrameWords == 16
FrameWordsV1 == 11
TurnedToV1 == [n \in 1..(MaxReferences + 1) |->
  LET before == [w \in 0..(FrameWords * n - 1) |-> <<w \div FrameWords + 1, w % FrameWords>>]
      Turn(m, i) ==
        LET new == FrameWordsV1 * (i - 1)
        IN [w \in DOMAIN m |-> IF w \in new..(new + FrameWordsV1 - 1)
                               THEN m[FrameWords * (i - 1) + w - new] ELSE m[w]]
      after == FoldLeft(Turn, before, [i \in 1..n |-> i])
      Whole(i, f) == \A w \in 0..(FrameWordsV1 - 1) :
                       after[FrameWordsV1 * (i - 1) + w] = <<f, w>>
  IN [i \in 1..n |-> IF \E f \in 1..n : Whole(i, f) THEN CHOOSE f \in 1..n : Whole(i, f) ELSE 0]]
AsV1(list) == [k \in 1..Len(list) |-> list[TurnedToV1[Len(list)][k]]]

Request(code, list, earlier, nums) ==
  [code |-> code, pic |-> pic, refs |-> refs, list |-> list, earlier |-> earlier,
   picNums |-> nums]

\* A request was made, and the process was not ended.
Sent == sent # None /\ sent.code # None

\* What a surface that is no reference keeps is written before it is read.
Kept(f) == [s \in Surfaces |-> IF s \in DOMAIN refs' THEN f[s] ELSE NoFrame]

\* tegra_decode_h264: the references of a picture that is not intra, sorted by their
\* order, a B picture's own order in the middle. A kernel of the first version says so.
DecodeVde(code, order) ==
  LET flagged == [frames EXCEPT ![pic.surf] =
                    [num |-> pic.num, b |-> code = <<1, 0>>, poc |-> pic.poc]]
      inter == Mod5(code) # I
      seen == IF inter THEN Wrapped(flagged, pic.num) ELSE flagged
      delim == IF Mod5(code) = B THEN pic.poc ELSE MaxPoc + 1
      list == IF inter THEN RefsOf(seen, order, delim) ELSE <<>>
      earlier == IF pic.sorted THEN {s \in ToSet(list) : seen[s].poc < delim} ELSE {}
      all == <<[surf |-> pic.surf, num |-> pic.num, b |-> Mod5(code) = B]>>
               \o [k \in 1..Len(list) |->
                     [surf |-> list[k], num |-> seen[list[k]].num, b |-> seen[list[k]].b]]
  IN /\ v1' = (kernel = "vde_v1")
     /\ frames' = Kept(seen)
     /\ sent' = Request(code, Tail(IF v1' THEN AsV1(all) ELSE all), Cardinality(earlier), <<>>)

\* tegra_decode_h264_v4l2: in the application's order, whatever the picture.
DecodeV4l2(code, order) ==
  LET seen == [frames EXCEPT ![pic.surf].num = pic.num, ![pic.surf].poc = pic.poc]
      num == [k \in 1..Len(order) |-> seen[order[k]].num]
  IN /\ v1' = v1
     /\ frames' = Kept(seen)
     /\ sent' = Request(code, [k \in 1..Len(order) |-> [surf |-> order[k], num |-> num[k]]], 0,
          [k \in 1..Len(order) |-> IF pic.num = 0 THEN num[k] - MaxFrameNum ELSE num[k]])

Decode ==
  /\ pic # None
  /\ LET code == SliceType(pic.data)
     IN IF code = None  \* exit(EXIT_FAILURE)
        THEN /\ pic' = None /\ sent' = Request(code, <<>>, 0, <<>>)
             /\ UNCHANGED <<v1, frames, refs, prevRef>>
        ELSE /\ Continue(TRUE)
             /\ \E order \in SetToSeqs(DOMAIN refs) :
                  IF kernel = "v4l2" THEN DecodeV4l2(code, order) ELSE DecodeVde(code, order)
  /\ UNCHANGED kernel

\* Weighted prediction or CABAC: nothing is looked at. Rule "intra_at_wrap" as well.
Refuse ==
  /\ pic # None /\ SliceType(pic.data) # None
  /\ pic.num = 0 => refs = <<>> \/ "intra_at_wrap" \in Admits
  /\ Continue(FALSE)
  /\ frames' = Kept(frames)
  /\ UNCHANGED <<kernel, v1, sent>>

\* vdp_decoder_render returns.
Return ==
  /\ Sent /\ sent' = None
  /\ UNCHANGED <<kernel, v1, frames, refs, prevRef, pic>>

Init ==
  /\ kernel \in Interfaces /\ v1 = FALSE
  /\ frames = [s \in Surfaces |-> NoFrame]
  /\ refs = <<>> /\ prevRef = None
  /\ pic = None /\ sent = None

Next ==
  \/ \E s \in Surfaces, t \in Types, idr, isRef, sorted \in BOOLEAN, poc \in 1..MaxPoc :
       Render(s, t, idr, isRef, poc, sorted)
  \/ Decode \/ Refuse \/ Return

Spec == Init /\ [][Next]_vars

-----------------------------------------------------------------------------
(* Properties.                                                             *)

\* The variables have their types; the references fit the list of the interface.
TypeOK ==
  /\ kernel \in Interfaces /\ v1 \in BOOLEAN
  /\ \A s \in Surfaces : /\ frames[s].num \in 0..(2^23 - 1) /\ frames[s].b \in BOOLEAN
                         /\ frames[s].poc \in 0..MaxPoc
  /\ DOMAIN refs \subseteq Surfaces /\ Cardinality(DOMAIN refs) <= MaxReferences
  /\ prevRef \in 0..(MaxFrameNum - 1) \cup {None}
  /\ sent # None => Len(sent.list) <= MaxReferences

\* The slice type is read from the stream as it was written, whatever bytes had to be
\* put in between and wherever in its bytes a number begins, and a number too long
\* for the reader is noticed.
SliceTypeIsRead == sent # None => sent.code = sent.pic.code

\* The order counts of the list: those before the picture, the nearest first, and
\* then those behind it, the nearest first, each reference once, and the number of the
\* former; and that is what a kernel of the first version reads out of the same memory.
ListIsOrdered ==
  Sent /\ kernel # "v4l2" /\ Mod5(sent.code) # I =>
    LET R == DOMAIN sent.refs
        poc == [s \in R |-> sent.refs[s].poc]
        surfs == [k \in 1..Len(sent.list) |-> sent.list[k].surf]
        E == IF Mod5(sent.code) = B THEN {s \in R : poc[s] < sent.pic.poc} ELSE R
        Nearer(s, t) == IF s \in E THEN t \in E => poc[s] > poc[t]
                        ELSE t \notin E /\ poc[s] < poc[t]
    IN /\ ToSet(surfs) = R /\ Len(surfs) = Cardinality(R)
       /\ sent.pic.sorted =>
            /\ \A k \in 2..Len(surfs) : Nearer(surfs[k - 1], surfs[k])
            /\ sent.earlier = Cardinality(E)

\* FrameNumWrap of H.264: a reference with a greater frame_num is from before its wrap.
FrameNumWrap(idx) == IF idx > sent.pic.num THEN idx - MaxFrameNum ELSE idx

\* Each reference is passed with the number H.264 gives it for this picture, negative
\* when frame_num has started again since, although the number is only changed once,
\* in the surface, by the picture that starts it again; and with the flag of a B picture.
ReferencesAreDescribed ==
  Sent => \A k \in 1..Len(sent.list) :
            LET ref == sent.refs[sent.list[k].surf]
            IN IF kernel = "v4l2" THEN sent.list[k].num = ref.idx
               ELSE /\ sent.list[k].num = FrameNumWrap(ref.idx) % 2^23
                    /\ sent.list[k].b = ref.b

\* v4l2-controls.h:1520, pic_num "matches PicNum variable assigned during the reference
\* picture lists construction process", which is FrameNumWrap for a frame.
PicNumsMatch ==
  Sent /\ kernel = "v4l2" =>
    \A k \in 1..Len(sent.list) :
      sent.picNums[k] = FrameNumWrap(sent.refs[sent.list[k].surf].idx)

\* The list of references names every reference once, in the order and by the
\* numbers that H.264 has for the picture.
ReferenceListIsRight == ListIsOrdered /\ ReferencesAreDescribed
=============================================================================
