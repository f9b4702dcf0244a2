---------------------------- MODULE TegraStream ----------------------------
(***************************************************************************)
(* Command streams: tegra_stream.h over the two interfaces of the kernel,  *)
(* tegra_stream_v1.c with uapi_v1/ (command buffers are buffer objects,    *)
(* relocations are a list beside them) and tegra_stream_v2.c with uapi_v2/ *)
(* (one buffer in memory, relocations are words that name an entry of a    *)
(* buffer table). A stream is used under the lock of its surface, so that  *)
(* a call is one step; every allocation and every call of the kernel may   *)
(* fail. Calls refused by the status check of a wrapper change nothing.    *)
(***************************************************************************)
EXTENDS Integers, Sequences, FiniteSets, SequencesExt

CONSTANTS
  Targets, Classes, Fences, None,
  Page,                \* v1: 1024 words, what command buffers are multiples of
  FirstWords, MinGrow, RelocGrow,  \* v2: 65536, 1024 and 256 words
  FirstSlots, SlotGrow,            \* v2: 16 and 8 entries of the buffer table
  RefLimit,            \* 10: tegra_stream_put_fence refuses above it
  MaxWords, MaxBufs,   \* bounds: words and command buffers of a stream,
  MaxHeld,             \* references of the users
  Admits               \* the rules of the callers that are lifted

ASSUME TegraStreamAssumption ==
  /\ {Page, FirstWords, MinGrow, RelocGrow, SlotGrow} \subseteq Nat \ {0}
  /\ {FirstSlots, RefLimit, MaxWords, MaxBufs, MaxHeld} \subseteq Nat
  /\ Page > 2 /\ MaxHeld < RefLimit
  /\ Admits \subseteq {"full_end", "late_reloc", "drop_class"}
  /\ None \notin {"v1", "v2"} \cup Targets \cup Classes \cup Fences

VARIABLES
  api,             \* the interface tegra_stream_create found; None: no stream
  status, class_id, op_done_synced, last_fence,   \* struct tegra_stream
  job,             \* v1: stream->job is NULL, live or freed but not forgotten
  push,            \* the command buffers with what belongs to them
  fences, refcnt,  \* the fences that exist; their counts
  pending,         \* v1: the fences whose kernel fence was not waited for
  held, stray,     \* references of the users; fences nobody stored
  room,            \* the words the caller may push before it prepares again
  built, sent      \* the words pushed since begin; what the kernel got of them

fenceVars == <<last_fence, fences, refcnt, pending, held, stray>>
streamVars == <<api, status, class_id, op_done_synced>>
vars == <<streamVars, fenceVars, job, push, room, built, sent>>

-----------------------------------------------------------------------------
(* Words: data, the class that follows, syncpoint increments (OP_DONE or   *)
(* another condition), the wait for one, relocations. In memory, a         *)
(* relocation is a hole (v1) or the index of a table entry (v2).           *)

Word(op, arg) == [op |-> op, arg |-> arg]

Data == Word("data", None)
Wait == Word("wait", None)
SetClass(c) == Word("class", c)
Increment(cond) == Word(cond, None)
Reloc(t) == Word("reloc", t)
Hole == Word("hole", None)
Slot(i) == Word("slot", i)

Conds == {"op_done", "rd_done"}
Host1x == Word("host1x", None)
Opcode == Word("opcode", None)

\* Only bookkeeping follows the OP_DONE increment, no work for the engine.
Closed(ws) ==
  \E i \in DOMAIN ws : /\ ws[i] = Increment("op_done")
                       /\ \A j \in i + 1..Len(ws) : ws[j].op \notin {"data", "reloc"}

\* The class the words after ws are executed in.
ClassAfter(ws) ==
  LET sets == {i \in DOMAIN ws : ws[i].op \in {"class", "host1x"}}
  IN IF sets = {} THEN None
     ELSE IF ws[Max(sets)].op = "host1x" THEN Host1x ELSE ws[Max(sets)].arg

-----------------------------------------------------------------------------
(* Command buffers. An operation is the set of its outcomes.               *)

Empty == [bufs |-> <<>>, cur |-> 0, cmdbufs |-> <<>>, relocs |-> {}, increments |-> 0,
          refs |-> 0, maps |-> 0, table |-> <<>>, slots |-> 0]

Ok(p) == [p |-> p, ok |-> TRUE]
Err(p) == [p |-> p, ok |-> FALSE]
Then(outs, Step(_)) == UNION {IF o.ok THEN Step(o.p) ELSE {o} : o \in outs}

Current(p) == p.bufs[p.cur]
Used(p) == Len(Current(p).mem)
Written(p, ws) == [p EXCEPT !.bufs[p.cur].mem = @ \o ws]

AlignUp(n) == ((n + Page - 1) \div Page) * Page

\* Mutant of CutOff: the buffer stays the current one.
CutOffKept(p) == [p EXCEPT !.maps = @ - 1]

\* drm_tegra_pushbuf_queue: unmaps the current buffer and lists it for the job.
CutOff(p) == [p EXCEPT !.maps = @ - 1, !.cur = 0]
Queue(p) ==
  IF p.cur = 0 THEN {Ok(p)}
  ELSE {Err(CutOff(p)),
        Ok([CutOff(p) EXCEPT !.cmdbufs = Append(@, [buf |-> p.cur, words |-> Used(p)])])}

\* drm_tegra_pushbuf_prepare: a new buffer takes over when the words do not fit.
NewBuffer(p, n) ==
  [p EXCEPT !.bufs = Append(@, [cap |-> AlignUp(n), mem |-> <<>>]),
            !.cur = Len(p.bufs) + 1, !.refs = @ + 1, !.maps = @ + 1]
PrepareV1(p, n) ==
  IF p.cur # 0 /\ Used(p) + n < Current(p).cap THEN {Ok(p)}
  ELSE {Err(p)} \cup Then(Queue(p), LAMBDA q : {Ok(NewBuffer(q, n))})

\* drm_tegra_job_resize_v2, with the number of words, the number of table
\* entries, or both changed.
Resize(p, cap, slots) ==
  LET words == [p EXCEPT !.bufs[1].cap = cap]
  IN {Ok([words EXCEPT !.slots = slots])}
       \cup (IF cap # p.bufs[1].cap THEN {Err(p)} ELSE {})
       \cup (IF slots # p.slots THEN {Err(words)} ELSE {})

\* Mutant of PrepareV2: what is in the buffer already does not count.
PrepareV2Unused(p, n) ==
  IF n > Current(p).cap THEN Resize(p, Current(p).cap + Max({n, MinGrow}), Len(p.table))
  ELSE {Ok(p)}

\* tegra_stream_prep_v2.
PrepareV2(p, n) ==
  IF Used(p) + n > Current(p).cap
  THEN Resize(p, Current(p).cap + Max({n, MinGrow}), Len(p.table))
  ELSE {Ok(p)}

Prepare(p, n) == IF api = "v1" THEN PrepareV1(p, n) ELSE PrepareV2(p, n)

\* Mutant of RelocateV1: the place is taken before a new buffer may take over.
RelocateV1Early(p, t) ==
  Then(PrepareV1(p, 1), LAMBDA q :
    {Err(q), Ok(Written([q EXCEPT !.relocs =
                           @ \cup {[buf |-> q.cur, at |-> Used(p) + 1, target |-> t]}], <<Hole>>))})

\* drm_tegra_pushbuf_relocate.
RelocateV1(p, t) ==
  Then(PrepareV1(p, 1), LAMBDA q :
    {Err(q), Ok(Written([q EXCEPT !.relocs =
                           @ \cup {[buf |-> q.cur, at |-> Used(q) + 1, target |-> t]}], <<Hole>>))})

\* drm_tegra_job_push_reloc_v2.
Tabled(p, t) ==
  IF t \in ToSet(p.table) THEN {Ok(p)}
  ELSE Then(IF Len(p.table) = p.slots THEN Resize(p, Current(p).cap, p.slots + SlotGrow)
                                      ELSE {Ok(p)},
            LAMBDA q : {Ok([q EXCEPT !.table = Append(@, t)])})
RelocateV2(p, t) ==
  Then(Tabled(p, t), LAMBDA q :
    Then(IF Used(q) = Current(q).cap THEN Resize(q, Current(q).cap + RelocGrow, q.slots)
                                     ELSE {Ok(q)},
         LAMBDA r : {Ok(Written(r, <<Slot(CHOOSE i \in DOMAIN r.table : r.table[i] = t)>>))}))

Relocate(p, t) == IF api = "v1" THEN RelocateV1(p, t) ELSE RelocateV2(p, t)

\* drm_tegra_pushbuf_sync.
SyncWordsV1(cond) == <<Opcode, Increment(cond)>>
SyncV1(p, cond) ==
  Then(PrepareV1(p, 2), LAMBDA q :
    {Ok([Written(q, SyncWordsV1(cond)) EXCEPT !.increments = @ + 1])})

\* tegra_stream_sync_v2 prepares four words and pushes up to four.
SyncWordsV2(cond, keep) ==
  <<Increment(cond), Host1x, Wait>> \o (IF keep THEN <<SetClass(class_id)>> ELSE <<>>)
SyncV2(p, cond, keep) ==
  Then(PrepareV2(p, 4), LAMBDA q : {Ok(Written(q, SyncWordsV2(cond, keep)))})

\* Mutant of FreeJob: the current buffer is not unmapped.
FreeJobMapped(p) == [Empty EXCEPT !.refs = p.refs - Len(p.bufs), !.maps = p.maps]

\* drm_tegra_job_free with drm_tegra_pushbuf_free, and drm_tegra_job_reset_v2.
FreeJob(p) == [Empty EXCEPT !.refs = p.refs - Len(p.bufs),
                            !.maps = p.maps - (IF p.cur = 0 THEN 0 ELSE 1)]
ResetJob(p) == [p EXCEPT !.bufs[1].mem = <<>>, !.table = <<>>]

\* What the kernel reads when the job is submitted.
Patched(p, b, i) ==
  LET at == {r \in p.relocs : r.buf = b /\ r.at = i}
  IN IF at # {} THEN Reloc((CHOOSE r \in at : TRUE).target) ELSE p.bufs[b].mem[i]
ReceivedV1(p) ==
  FlattenSeq([k \in DOMAIN p.cmdbufs |->
                [i \in 1..p.cmdbufs[k].words |-> Patched(p, p.cmdbufs[k].buf, i)]])
ReceivedV2(p) ==
  [i \in DOMAIN p.bufs[1].mem |->
     IF p.bufs[1].mem[i].op = "slot" THEN Reloc(p.table[p.bufs[1].mem[i].arg])
                                     ELSE p.bufs[1].mem[i]]

-----------------------------------------------------------------------------
(* Fences.                                                                 *)

\* tegra_stream_put_fence with free_fence.
Refused(f) == refcnt[f] < 0 \/ refcnt[f] > RefLimit

PutFence(f) ==
  IF f = None \/ Refused(f) THEN UNCHANGED <<fences, refcnt, pending>>
  ELSE /\ refcnt' = [refcnt EXCEPT ![f] = @ - 1]
       /\ fences' = IF refcnt[f] = 0 THEN fences \ {f} ELSE fences
       /\ pending' = IF refcnt[f] = 0 THEN pending \ {f} ELSE pending

\* Mutant of ReplaceLastFence: the last fence is overwritten.
ReplaceLastFenceLost(f) ==
  /\ fences' = fences \cup {f}
  /\ pending' = pending \cup (IF api = "v1" THEN {f} ELSE {})
  /\ refcnt' = [refcnt EXCEPT ![f] = 0]
  /\ last_fence' = f
  /\ UNCHANGED <<held, stray>>

\* tegra_stream_create_fence_v1, _v2 in place of the last fence.
ReplaceLastFence(f) ==
  LET old == last_fence
      gone == {g \in {old} \ {None} : refcnt[g] = 0}
      put == {g \in {old} \ {None} : ~Refused(g)}
  IN /\ fences' = (fences \ gone) \cup {f}
     /\ pending' = (pending \ gone) \cup (IF api = "v1" THEN {f} ELSE {})
     /\ refcnt' = [g \in Fences |-> IF g = f THEN 0
                                    ELSE IF g \in put THEN refcnt[g] - 1 ELSE refcnt[g]]
     /\ last_fence' = f
     /\ UNCHANGED <<held, stray>>

-----------------------------------------------------------------------------
Init ==
  /\ api = None /\ status = "free" /\ class_id = None /\ op_done_synced = FALSE
  /\ last_fence = None /\ fences = {} /\ refcnt = [f \in Fences |-> -1] /\ pending = {}
  /\ held = [f \in Fences |-> 0] /\ stray = {}
  /\ job = "null" /\ push = Empty /\ room = 0 /\ built = <<>> /\ sent = <<>>

\* tegra_stream_create: the new interface, else the old one.
Create ==
  /\ api = None
  /\ api' \in {"v1", "v2"}
  /\ status' = "free" /\ class_id' = None /\ op_done_synced' = FALSE /\ last_fence' = None
  /\ job' = IF api' = "v2" THEN "live" ELSE "null"
  /\ push' = IF api' = "v2"
             THEN [Empty EXCEPT !.bufs = <<[cap |-> FirstWords, mem |-> <<>>]>>,
                                !.cur = 1, !.slots = FirstSlots]
             ELSE Empty
  /\ room' = 0
  /\ UNCHANGED <<fences, refcnt, pending, held, stray, built, sent>>

\* tegra_stream_destroy, whose drm_tegra_job_free frees a forgotten job again.
Destroy ==
  /\ api # None /\ job # "dangling"
  /\ PutFence(last_fence)
  /\ api' = None /\ last_fence' = None /\ job' = "null" /\ status' = "free"
  /\ push' = IF api = "v1" THEN FreeJob(push) ELSE Empty
  /\ room' = 0 /\ built' = <<>> /\ sent' = <<>>
  /\ UNCHANGED <<class_id, op_done_synced, held, stray>>

\* Mutant of Constructing: the class of the last job is kept.
ConstructingKeepsClass(p, n) ==
  /\ push' = p /\ job' = "live" /\ room' = n
  /\ status' = "construct" /\ op_done_synced' = FALSE /\ UNCHANGED class_id
  /\ built' = <<>> /\ sent' = <<>>

Constructing(p, n) ==
  /\ push' = p /\ job' = "live" /\ room' = n
  /\ status' = "construct" /\ class_id' = None /\ op_done_synced' = FALSE
  /\ built' = <<>> /\ sent' = <<>>

\* tegra_stream_begin_v1: a failure frees the job and keeps its address.
BeginV1 ==
  /\ api = "v1" /\ status = "free"
  /\ \E o \in {Err(Empty)} \cup PrepareV1(Empty, 1) :
       IF o.ok THEN Constructing(o.p, Page)
       ELSE /\ job' = "dangling" /\ push' = FreeJob(o.p)
            /\ UNCHANGED <<status, class_id, op_done_synced, room, built, sent>>
  /\ UNCHANGED <<api, fenceVars>>

BeginV2 ==
  /\ api = "v2" /\ status = "free"
  /\ Constructing(push, push.bufs[1].cap)
  /\ UNCHANGED <<api, fenceVars>>

-----------------------------------------------------------------------------
(* The wrappers between begin and end. The caller prepares before it       *)
(* pushes; after begin it takes a whole buffer for granted, as             *)
(* host1x-gr2d.c does.                                                     *)

Fits(n) ==
  /\ status = "construct"
  /\ Len(built) + n <= MaxWords /\ Len(push.bufs) <= MaxBufs

\* The outcome o of an operation that pushed ws, and the room left after it.
Outcome(o, ws, left) ==
  /\ push' = o.p
  /\ IF o.ok THEN status' = status /\ built' = built \o ws /\ room' = left
             ELSE status' = "failed" /\ room' = 0 /\ UNCHANGED built

Prep(n) ==
  /\ Fits(n)
  /\ \E o \in Prepare(push, n) : Outcome(o, <<>>, n)
  /\ UNCHANGED <<api, class_id, op_done_synced, fenceVars, job, sent>>

\* Mutant of PushedWord: the flag stays set.
PushedWordSynced(w) ==
  /\ Fits(1) /\ room > 0
  /\ Outcome(Ok(Written(push, <<w>>)), <<w>>, room - 1)
  /\ UNCHANGED op_done_synced

\* tegra_stream_push: no check of the room.
PushedWord(w) ==
  /\ Fits(1) /\ room > 0
  /\ Outcome(Ok(Written(push, <<w>>)), <<w>>, room - 1)
  /\ op_done_synced' = FALSE

Push == PushedWord(Data) /\ UNCHANGED <<api, class_id, fenceVars, job, sent>>

\* tegra_stream_push_setclass; the class that is set already is not pushed.
PushSetClass(c) ==
  /\ class_id # c
  /\ PushedWord(SetClass(c))
  /\ class_id' = c
  /\ UNCHANGED <<api, fenceVars, job, sent>>

\* Nothing may follow an OP_DONE increment without resetting op_done_synced.
MayRelocate == ~op_done_synced \/ "late_reloc" \in Admits

PushReloc(t) ==
  /\ Fits(1) /\ MayRelocate
  /\ \E o \in Relocate(push, t) : Outcome(o, <<Reloc(t)>>, Max({0, room - 1}))
  /\ UNCHANGED <<api, class_id, op_done_synced, fenceVars, job, sent>>

\* tegra_stream_push_words of n words, the last of them relocated if t says so.
PushWords(n, t) ==
  LET plain == [i \in 1..(IF t = None THEN n ELSE n - 1) |-> Data]
      words == IF t = None THEN plain ELSE Append(plain, Reloc(t))
      Copy(p) == IF class_id = None THEN {Err(p)}
                 ELSE IF t = None THEN {Ok(Written(p, plain))}
                 ELSE Relocate(Written(p, plain), t)
  IN /\ Fits(n) /\ MayRelocate
     /\ \E o \in Then(Prepare(push, n), Copy) : Outcome(o, words, 0)
     /\ UNCHANGED <<api, class_id, op_done_synced, fenceVars, job, sent>>

Sync(cond, keep) ==
  LET words == IF api = "v1" THEN SyncWordsV1(cond) ELSE SyncWordsV2(cond, keep)
      outs == IF api = "v1" THEN SyncV1(push, cond) ELSE SyncV2(push, cond, keep)
  IN /\ Fits(Len(words))
     /\ keep \/ "drop_class" \in Admits
     /\ \E o \in outs :
          /\ Outcome(o, words, 0)
          /\ op_done_synced' = IF ~o.ok THEN op_done_synced
                               ELSE IF cond = "op_done" THEN TRUE
                               ELSE api = "v1" /\ op_done_synced
     /\ UNCHANGED <<api, class_id, fenceVars, job, sent>>

\* tegra_stream_end_v1, _v2. The second pushes a word it did not prepare.
End ==
  LET words == IF api = "v1" THEN SyncWordsV1("op_done") ELSE <<Increment("op_done")>>
      outs == IF api = "v1" THEN SyncV1(push, "op_done") ELSE {Ok(Written(push, words))}
  IN /\ status = "construct" /\ room' = 0
     /\ IF op_done_synced
        THEN /\ status' = "ready" /\ op_done_synced' = FALSE
             /\ UNCHANGED <<push, built>>
        ELSE /\ api = "v2" => Used(push) < Current(push).cap \/ "full_end" \in Admits
             /\ \E o \in outs :
                  /\ push' = o.p
                  /\ status' = IF o.ok THEN "ready" ELSE "failed"
                  /\ built' = IF o.ok THEN built \o words ELSE built
                  /\ op_done_synced' = FALSE
     /\ UNCHANGED <<api, class_id, fenceVars, job, sent>>

-----------------------------------------------------------------------------
(* tegra_stream_cleanup, tegra_stream_flush, tegra_stream_submit.          *)

Dropped ==
  /\ push' = IF api = "v1" THEN FreeJob(push) ELSE ResetJob(push)
  /\ job' = IF api = "v1" THEN "null" ELSE job
  /\ status' = "free" /\ room' = 0
  /\ UNCHANGED <<api, class_id, op_done_synced>>

\* drm_tegra_job_submit, drm_tegra_job_submit_v2: what the kernel may get.
Received ==
  IF api = "v2" THEN {ReceivedV2(push)}
  ELSE {ReceivedV1(o.p) : o \in {q \in Queue(push) : q.ok}}

NothingSent == built' = <<>> /\ sent' = <<>>
Sent == status = "ready" /\ sent' \in Received /\ UNCHANGED built

Cleanup ==
  /\ api # None /\ job # "dangling"
  /\ Dropped /\ NothingSent
  /\ UNCHANGED fenceVars

\* The fence of a flush lives and dies within the call.
Flush ==
  /\ api # None
  /\ PutFence(last_fence)
  /\ last_fence' = None
  /\ IF status = "free" THEN UNCHANGED <<streamVars, job, push, room, built, sent>>
     ELSE Dropped /\ (NothingSent \/ Sent)
  /\ UNCHANGED <<held, stray>>

Submit ==
  /\ api # None /\ status # "free"
  /\ Dropped
  /\ \/ NothingSent /\ UNCHANGED fenceVars                 \* no fence, or v1: not accepted
     \/ /\ Sent
        /\ \/ \E f \in Fences \ fences : ReplaceLastFence(f)
           \/ api = "v1" /\ UNCHANGED fenceVars             \* waited for instead
     \/ /\ api = "v2" /\ status = "ready"                   \* the fence is returned all the same
        /\ \E f \in Fences \ fences :
             /\ fences' = fences \cup {f} /\ stray' = stray \cup {f}
             /\ refcnt' = [refcnt EXCEPT ![f] = 0]
        /\ NothingSent
        /\ UNCHANGED <<last_fence, pending, held>>

\* tegra_stream_get_last_fence with tegra_stream_ref_fence.
GetLastFence ==
  /\ api # None /\ last_fence # None
  /\ held[last_fence] < MaxHeld
  /\ refcnt' = [refcnt EXCEPT ![last_fence] = @ + 1]
  /\ held' = [held EXCEPT ![last_fence] = @ + 1]
  /\ UNCHANGED <<streamVars, job, push, room, built, sent, last_fence, fences, pending, stray>>

WaitFence(f) ==
  /\ f \in pending /\ held[f] > 0
  /\ pending' = pending \ {f}
  /\ UNCHANGED <<streamVars, job, push, room, built, sent, last_fence, fences, refcnt, held,
                 stray>>

ReleaseFence(f) ==
  /\ held[f] > 0
  /\ PutFence(f)
  /\ held' = [held EXCEPT ![f] = @ - 1]
  /\ UNCHANGED <<streamVars, job, push, room, built, sent, last_fence, stray>>

Next ==
  \/ Create \/ Destroy \/ BeginV1 \/ BeginV2
  \/ \E n \in 1..MaxWords : Prep(n)
  \/ Push
  \/ \E c \in Classes : PushSetClass(c)
  \/ \E t \in Targets : PushReloc(t)
  \/ \E n \in 1..2, t \in Targets \cup {None} : PushWords(n, t)
  \/ \E cond \in Conds, keep \in BOOLEAN : Sync(cond, keep)
  \/ End \/ Cleanup \/ Flush \/ Submit
  \/ GetLastFence
  \/ \E f \in Fences : WaitFence(f) \/ ReleaseFence(f)

Spec == Init /\ [][Next]_vars

-----------------------------------------------------------------------------
\* The variables have their types, and what the caller may still push is within
\* the current command buffer.
TypeOK ==
  /\ api \in {None, "v1", "v2"} /\ job \in {"null", "live", "dangling"}
  /\ status \in {"free", "construct", "failed", "ready"}
  /\ class_id \in Classes \cup {None} /\ op_done_synced \in BOOLEAN
  /\ fences \subseteq Fences /\ stray \subseteq fences /\ pending \subseteq fences
  /\ last_fence \in fences \cup {None}
  /\ refcnt \in [Fences -> -1..RefLimit + 1] /\ held \in [Fences -> 0..MaxHeld]
  /\ \A f \in Fences : (refcnt[f] >= 0) <=> f \in fences
  /\ room \in Nat /\ push.cur \in 0..Len(push.bufs)
  /\ push.increments \in Nat /\ push.refs \in Nat /\ push.maps \in 0..1
  /\ push.cur # 0 => room <= Current(push).cap

\* A word is never written outside of the command buffer: not by a push whose
\* room was prepared, by a relocation, which makes room for itself, by the words
\* of a synchronisation, or by tegra_stream_end. Buffers are exchanged (v1) or
\* moved (v2) in between, and the caller only knows how much it prepared.
NoOverrun ==
  /\ \A b \in DOMAIN push.bufs : Len(push.bufs[b].mem) <= push.bufs[b].cap
  /\ room > 0 => push.cur # 0 /\ Used(push) + room <= Current(push).cap

\* The engine executes words in the class the library believes it to be in:
\* class_id, which lets tegra_stream_push_setclass leave out a word, is the class
\* of the stream itself, from the first word of each job on.
ClassIsTracked == status = "construct" => ClassAfter(built) = class_id

\* op_done_synced, which lets tegra_stream_end leave out the final increment, is
\* set only while nothing follows an OP_DONE increment; and a job asks the kernel
\* to wait for as many increments as its words make.
DoneIsLast == op_done_synced /\ status = "construct" => Closed(built)
IncrementsAreExact ==
  /\ DoneIsLast
  /\ api = "v1" /\ status \in {"construct", "ready"} =>
       push.increments = Cardinality({i \in DOMAIN built : built[i].op \in Conds})

\* A fence lives as long as someone refers to it: the stream for its last job and
\* the users, each counted once. A fence of a job the kernel refused is stored by
\* nobody.
FencesAreCounted ==
  \A f \in fences :
    refcnt[f] + 1 = held[f] + (IF f = last_fence THEN 1 ELSE 0) + (IF f \in stray THEN 1 ELSE 0)

\* On every path, the failing ones included, the stream holds one reference to
\* each command buffer of its job and maps the current one only; without a job
\* it holds nothing.
BuffersAreReturned ==
  api # "v2" => /\ push.refs = Len(push.bufs)
                /\ push.maps = IF push.cur = 0 THEN 0 ELSE 1
                /\ job # "live" => push.bufs = <<>>

\* Both interfaces deliver what was pushed, whole and in order, with every
\* relocation at its word, or nothing.
Stream == INSTANCE CommandStream WITH phase <- status
DeliversWhatWasBuilt == Stream!Spec

\* The words that are left out, a class that is set already and an increment that
\* was made already, are those the engine and the kernel do not need.
SparedWordsAreKnown == ClassIsTracked /\ IncrementsAreExact

\* Fences and command buffers are counted exactly on every path.
NothingIsLost == FencesAreCounted /\ BuffersAreReturned
=============================================================================
