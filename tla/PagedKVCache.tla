---------------------------- MODULE PagedKVCache ----------------------------
(***************************************************************************)
(* The paged attention KV cache of the relax virtual machine               *)
(* (src/runtime/vm/paged_kv_cache.cc, attn_utils.h).                       *)
(*                                                                         *)
(* Entries live in pages; a block owns a list of pages; a sequence is a    *)
(* path of blocks from a root to its last block, and sequences with a      *)
(* common prefix share the blocks of that prefix.  One record, kv, holds   *)
(* what the object keeps on the host, the copies it has queued on the copy *)
(* stream, and ok, which is FALSE once an operation has thrown after it    *)
(* changed something: nothing is called after that.  The entries are in    *)
(* store, on the device.  The client waits for the outcome of a forward    *)
(* before it calls the cache again, so the compute stream needs no queue.  *)
(* One layer is modelled: every layer gets the same writes and copies.     *)
(*                                                                         *)
(* Names of pages and blocks are interchangeable.  The model keeps the     *)
(* free pages as a set, only the blocks in use in the pool, and takes the  *)
(* least free one where the code takes the one freed last; the entry of a  *)
(* place that no sequence and no queued copy reads is forgotten.           *)
(***************************************************************************)
EXTENDS Integers, Sequences, FiniteSets, SequencesExt, TLC

CONSTANTS
    NumSeqs,     \* the client's sequence ids are 0 .. NumSeqs - 1
    NumPages,    \* num_total_pages_
    PageSize,    \* page_size_
    MaxAppend,   \* bound: entries one forward appends
    MaxBatch,    \* bound: sequences in one forward
    MaxCopies,   \* bound: copies queued on the copy stream
    Windows,     \* windows the client asks for: records [size, sink]
    Trees,       \* token trees a forward may carry
    Liberties    \* what the client takes that the promise does not survive

ASSUME CacheAssumption ==
    /\ NumSeqs \in Nat \ {0} /\ NumPages \in Nat \ {0} /\ PageSize \in Nat \ {0}
    /\ MaxAppend \in Nat \ {0} /\ MaxBatch \in Nat \ {0} /\ MaxCopies \in Nat \ {0}
    /\ Windows \subseteq [size : Nat \ {0}, sink : Nat]
    /\ Liberties \subseteq {"mixed trees", "tree rounds", "tree pops", "any commit",
                           "window forks", "window pops"}

VARIABLES
    support,  \* support_sliding_window_
    kv,       \* the host side of the cache
    round,    \* the latest forward: ids, lengths, append positions, writes due
    store,    \* page -> slot -> entry
    call,     \* the call this step answers, with its arguments
    reads     \* what DebugGetKV returns of each sequence

vars == <<support, kv, round, store, call, reads>>

SeqIds == 0..NumSeqs - 1
Pages == 0..NumPages - 1
TempPage == -1
Root == -1

\* The cache moves entries and never looks at them.  One marked entry among
\* plain ones therefore shows wherever an entry is misplaced, lost or seen by
\* a sequence it does not belong to.
Nothing == "nothing"
Plain == "plain"
Marked == "marked"

-----------------------------------------------------------------------------
(* Blocks and sequences. *)

NewBlock == [pages |-> <<>>, len |-> 0, start |-> 0, sink |-> 0, offset |-> 0,
             parent |-> Root, refs |-> 0]

\* GetFreeBlock: one that is not in use, reset.
FreeBlock(k) == Min((0..Cardinality(DOMAIN k.pool)) \ DOMAIN k.pool)

TakeBlock(k) == [k EXCEPT !.pool = (FreeBlock(k) :> NewBlock) @@ @]

\* GetFreePage, when there is one.
FreePage(k) == Min(k.freePages)

\* Sequence::GetBlockTrace: the blocks from the root to block b.
Trace(k, b) ==
    LET trace[x \in DOMAIN k.pool \cup {Root}] ==
            IF x = Root THEN <<>> ELSE Append(trace[k.pool[x].parent], x)
    IN  trace[b]

\* The total length of the first i blocks of a trace.
LengthUpTo(k, trace, i) == FoldSeq(LAMBDA b, sum : k.pool[b].len + sum, 0, SubSeq(trace, 1, i))

Length(k, trace) == LengthUpTo(k, trace, Len(trace))

\* Sequence::Sequence
NewSequence(k, s, b) ==
    [k EXCEPT !.pool[b].refs = @ + 1,
              !.map = (s :> [last |-> b, len |-> Length(k, Trace(k, b)), window |-> 0, sink |-> 0,
                             pinned |-> 0, tree |-> <<>>, chain |-> TRUE,
                             committed |-> TRUE]) @@ @,
              !.dirty = TRUE]

\* Return the blocks of a trace after index i, and their pages.
Release(k, trace, i) ==
    LET gone == ToSet(SubSeq(trace, i + 1, Len(trace)))
    IN  [k EXCEPT !.freePages = @ \cup UNION {ToSet(k.pool[b].pages) : b \in gone},
                  !.pool = [b \in DOMAIN @ \ gone |-> @[b]]]

\* The last block of a trace that something else refers to as well, 0 for none.
Shared(k, trace) == SelectLastInSeq(trace, LAMBDA b : k.pool[b].refs # 1)

Drop(k, s) == [k EXCEPT !.map = [x \in DOMAIN @ \ {s} |-> @[x]], !.dirty = TRUE]

RemoveFrom(k, s, trace, i) ==
    Drop(IF i = 0 THEN Release(k, trace, 0)
         ELSE [Release(k, trace, i) EXCEPT !.pool[trace[i]].refs = @ - 1], s)

RemoveIn(k, s) == RemoveFrom(k, s, Trace(k, k.map[s].last), Shared(k, Trace(k, k.map[s].last)))

-----------------------------------------------------------------------------
(* ForkSequence. *)

\* A page-aligned fork at the end: the parent goes on in a new, empty block.
Extend(k, p) ==
    [TakeBlock(k) EXCEPT
        !.pool[FreeBlock(k)] = [NewBlock EXCEPT !.start = k.map[p].len,
                                                !.parent = k.map[p].last, !.refs = 1],
        !.map[p].last = FreeBlock(k)]

\* Mutant of Beside: the shared parent gets no reference.
Beside_Unreferenced(k, child, f) ==
    [k EXCEPT !.pool[child].parent = k.pool[f].parent]

\* The fork is in the first page of block f: the child starts beside f.
Beside(k, child, f) ==
    [k EXCEPT !.pool = [b \in DOMAIN @ |->
        IF b = child THEN [@[b] EXCEPT !.parent = k.pool[f].parent]
        ELSE IF b = k.pool[f].parent THEN [@[b] EXCEPT !.refs = @ + 1]
        ELSE @[b]]]

\* Mutant of Split: the rest of the block keeps its start.
Split_KeepStart(k, p, child, f, moved) ==
    [TakeBlock(k) EXCEPT
        !.pool[FreeBlock(k)] = [NewBlock EXCEPT
            !.pages = SubSeq(k.pool[f].pages, 1, moved \div PageSize), !.len = moved,
            !.start = k.pool[f].start, !.parent = k.pool[f].parent, !.refs = 2],
        !.pool[f].pages = SubSeq(@, moved \div PageSize + 1, Len(@)),
        !.pool[f].len = @ - moved,
        !.pool[f].parent = FreeBlock(k),
        !.pool[child].parent = FreeBlock(k),
        !.map[p].sink = IF k.map[p].window # 0 /\ f = k.map[p].last THEN @ - moved ELSE @]

\* The fork is in a later page: the leading pages move to a new parent of both.
Split(k, p, child, f, moved) ==
    [TakeBlock(k) EXCEPT
        !.pool[FreeBlock(k)] = [NewBlock EXCEPT
            !.pages = SubSeq(k.pool[f].pages, 1, moved \div PageSize), !.len = moved,
            !.start = k.pool[f].start, !.parent = k.pool[f].parent, !.refs = 2],
        !.pool[f].pages = SubSeq(@, moved \div PageSize + 1, Len(@)),
        !.pool[f].len = @ - moved,
        !.pool[f].start = @ + moved,
        !.pool[f].parent = FreeBlock(k),
        !.pool[child].parent = FreeBlock(k),
        !.map[p].sink = IF k.map[p].window # 0 /\ f = k.map[p].last THEN @ - moved ELSE @]

\* CopySinglePage, and the child sequence.  Without a free page the fork
\* throws, and the child's block is nobody's.
Child(k, c, pos, child, f, in_page) ==
    CASE in_page = 0 ->
           NewSequence([k EXCEPT !.pool[child].start = pos], c, child)
      [] in_page > 0 /\ k.freePages = {} ->
           [k EXCEPT !.pool[child].start = pos - in_page, !.pool[child].len = in_page,
                     !.ok = FALSE]
      [] OTHER ->
           NewSequence(
             [k EXCEPT !.pool[child].start = pos - in_page, !.pool[child].len = in_page,
                       !.pool[child].pages = <<FreePage(k)>>,
                       !.freePages = @ \ {FreePage(k)},
                       !.copies = Append(@, [i \in 1..in_page |->
                          [from |-> [page |-> k.pool[f].pages[1], slot |-> i - 1],
                           to   |-> [page |-> FreePage(k), slot |-> i - 1]]])],
             c, child)

\* The fork is at offset off of block f.
ForkBlock(k, p, c, pos, child, f, off) ==
    IF off < PageSize
    THEN Child(Beside(k, child, f), c, pos, child, f, off)
    ELSE Child(Split(k, p, child, f, off - (off % PageSize)), c, pos, child, f, off % PageSize)

\* The block of a trace that a fork at pos divides.
Forked(k, trace, pos) ==
    CHOOSE i \in 1..Len(trace) :
        /\ i = Len(trace) \/ LengthUpTo(k, trace, i) > pos
        /\ \A j \in 1..i - 1 : LengthUpTo(k, trace, j) <= pos

ForkAt(k, p, c, pos, child, trace, i) ==
    ForkBlock(k, p, c, pos, child, trace[i], pos - LengthUpTo(k, trace, i - 1))

ForkTrace(k, p, c, pos, child, trace) == ForkAt(k, p, c, pos, child, trace, Forked(k, trace, pos))

ForkInto(k, p, c, pos) ==
    ForkTrace(TakeBlock(k), p, c, pos, FreeBlock(k), Trace(k, k.map[p].last))

ForkIn(k, p, c, pos) ==
    ForkInto(IF pos = k.map[p].len /\ pos % PageSize = 0 /\ k.pool[k.map[p].last].len > 0
             THEN Extend(k, p) ELSE k,
             p, c, pos)

\* The length of the blocks before the last one.
PrefixLength(k, s) == k.map[s].len - k.pool[k.map[s].last].len

\* The position a fork of a sequence with a window may not exceed.
ForkLimit(k, s) ==
    IF k.map[s].window = 0 THEN k.map[s].len ELSE PrefixLength(k, s) + k.map[s].sink

-----------------------------------------------------------------------------
(* PopN. *)

Ceil(n) == (n + PageSize - 1) \div PageSize

MinOf(a, b) == IF a < b THEN a ELSE b
MaxOf(a, b) == IF a > b THEN a ELSE b

\* Mutant of Truncate: the pages given back stay in the block.
Truncate_KeepPages(k, b, n, keep) ==
    [k EXCEPT !.freePages = @ \cup ToSet(SubSeq(k.pool[b].pages, keep + 1, Len(k.pool[b].pages))),
              !.pool[b].len = @ - n,
              !.dirty = TRUE]

\* Drop n entries of block b, and the pages it then has too many.
Truncate(k, b, n, keep) ==
    [k EXCEPT !.freePages = @ \cup ToSet(SubSeq(k.pool[b].pages, keep + 1, Len(k.pool[b].pages))),
              !.pool[b].pages = SubSeq(@, 1, MinOf(keep, Len(@))),
              !.pool[b].len = @ - n,
              !.dirty = TRUE]

\* Drop the blocks of a trace after block i from the sequence.
Shorten(k, s, trace, i) ==
    [Release(k, trace, i) EXCEPT
        !.map[s].last = trace[i],
        !.map[s].len = @ - (Length(k, trace) - LengthUpTo(k, trace, i))]

PopWithin(k, s, n, trace, i, rest) ==
    [Truncate(Shorten(k, s, trace, i), trace[i], rest, Ceil(k.pool[trace[i]].len - rest))
        EXCEPT !.map[s].len = @ - rest]

\* Mutant of Rename: the temporary id stays.
Rename_KeepTemporary(k, s) == [k EXCEPT !.map = (s :> @[-1 - s]) @@ @]

\* The rest is in shared blocks: fork a temporary sequence, give it the id.
Rename(k, s) == [k EXCEPT !.map = (s :> @[-1 - s]) @@ [x \in DOMAIN @ \ {-1 - s} |-> @[x]]]

Replace(k, s) == IF k.ok THEN Rename(RemoveIn(k, s), s) ELSE k

PopShared(k, s, pos) ==
    IF pos > ForkLimit(k, s) \/ ~k.map[s].committed THEN [k EXCEPT !.ok = FALSE]
    ELSE Replace(ForkIn(k, s, -1 - s, pos), s)

\* The blocks a pop of n entries can stop at: the sequence's own, long enough.
PopStops(k, n, trace, own) ==
    {i \in own + 1..Len(trace) : Length(k, trace) - LengthUpTo(k, trace, i - 1) >= n}

PopTrace(k, s, n, trace, own) ==
    IF PopStops(k, n, trace, own) # {}
    THEN LET i == Max(PopStops(k, n, trace, own))
         IN  PopWithin(k, s, n, trace, i, n - (Length(k, trace) - LengthUpTo(k, trace, i)))
    ELSE PopShared(Shorten(k, s, trace, own), s, k.map[s].len - n)

PopIn(k, s, n) ==
    IF n = 0 THEN k
    ELSE PopTrace(k, s, n, Trace(k, k.map[s].last), Shared(k, Trace(k, k.map[s].last)))

-----------------------------------------------------------------------------
(* ReserveAppendLengthInSeq and SlideWindowForSequence. *)

\* The pages n calls of GetFreePage return.
Taken(k, n) == SubSeq(SetToSortSeq(k.freePages, <), 1, n)

\* n more pages for block b.  With a window, pages that are not there yet are borrowed.
Grow(k, s, b, n, have) ==
    [k EXCEPT !.freePages = @ \ ToSet(Taken(k, have)),
              !.pool[b].pages = @ \o Taken(k, have)
                                  \o (IF k.map[s].window # 0 THEN [i \in 1..n - have |-> TempPage]
                                      ELSE <<>>),
              !.ok = have = n \/ k.map[s].window # 0]

\* The first slide fixes the sink of the block.
PinSink(k, b, sink) ==
    IF sink > 0 /\ k.pool[b].sink = 0
    THEN [k EXCEPT !.pool[b].sink = sink, !.pool[b].offset = sink] ELSE k

\* Slide the window of block b by n entries: its pages up to index first are out.
SlideBy(k, s, b, n, pinned, first) ==
    [k EXCEPT !.freePages = @ \cup (ToSet(SubSeq(k.pool[b].pages, pinned + 1,
                                              MinOf(first, Len(k.pool[b].pages)))) \ {TempPage}),
              !.pool[b].pages = IF first > pinned
                                THEN SubSeq(@, 1, pinned) \o SubSeq(@, first + 1, Len(@)) ELSE @,
              !.pool[b].len = @ - n,
              !.pool[b].offset = MinOf(first, pinned) * PageSize + ((@ + n) % PageSize),
              !.map[s].len = k.map[s].window]

\* The checks at the end of a slide.
SlideHolds(k, b, pinned) ==
    /\ k.pool[b].offset \div PageSize \in {pinned - 1, pinned}
    /\ k.pool[b].len >= k.pool[b].sink
    /\ k.pool[b].offset >= k.pool[b].sink
    /\ Ceil(k.pool[b].offset + k.pool[b].len - k.pool[b].sink) = Len(k.pool[b].pages)

Checked(k, b, pinned) == [k EXCEPT !.ok = SlideHolds(k, b, pinned)]

SlidePinned(k, s, b, n, pinned) ==
    Checked(SlideBy(k, s, b, n, pinned, (k.pool[b].offset + n) \div PageSize), b, pinned)

SlideBlock(k, s, b, n) == SlidePinned(k, s, b, n, Ceil(k.pool[b].sink))

SlideWindowForSequence(k, s) ==
    IF k.map[s].window = 0 \/ k.map[s].len <= k.map[s].window THEN k
    ELSE SlideBlock(PinSink(k, k.map[s].last, k.map[s].sink), s, k.map[s].last,
                    k.map[s].len - k.map[s].window)

\* The borrowed pages are replaced by pages the slide has released.
Borrowed(k, b) == {i \in 1..Len(k.pool[b].pages) : k.pool[b].pages[i] = TempPage}

Settle(k, b, borrowed) ==
    IF Cardinality(borrowed) > Cardinality(k.freePages) THEN [k EXCEPT !.ok = FALSE]
    ELSE [k EXCEPT !.pool[b].pages =
                       [i \in 1..Len(@) |->
                          IF i \in borrowed
                          THEN Taken(k, Cardinality(borrowed))[Cardinality({j \in borrowed : j <= i})]
                          ELSE @[i]],
                   !.freePages = @ \ ToSet(Taken(k, Cardinality(borrowed)))]

SettleIn(k, b) == IF k.ok THEN Settle(k, b, Borrowed(k, b)) ELSE k

\* The block is long enough: append, slide, settle.
Appended(k, s, b, n) ==
    IF ~k.ok THEN k
    ELSE SettleIn(SlideWindowForSequence([k EXCEPT !.pool[b].len = @ + n, !.dirty = TRUE], s), b)

ReserveIn(k, s, b, n, need) ==
    Appended(IF need > 0 THEN Grow(k, s, b, need, MinOf(need, Cardinality(k.freePages))) ELSE k, s, b, n)

ReserveBlock(k, s, b, n) ==
    IF k.pool[b].refs # 1 THEN [k EXCEPT !.ok = FALSE]
    ELSE ReserveIn(k, s, b, n,
                   Ceil(k.pool[b].len - k.pool[b].sink + k.pool[b].offset + n)
                     - Len(k.pool[b].pages))

ReserveAppendLengthInSeq(k, r) ==
    IF k.ok THEN ReserveBlock(k, r.seq, k.map[r.seq].last, Len(r.new)) ELSE k

-----------------------------------------------------------------------------
(* Where the entries of a sequence are. *)

\* The place of position i of a block, counted from 0.
InBlock(blk, i) ==
    IF i < blk.sink THEN i ELSE i - blk.sink + blk.offset

NoPlace == [page |-> TempPage, slot |-> 0]

\* The entry of a place outside the block's pages is nothing the client wrote.
Place(blk, offset) ==
    IF offset \div PageSize \notin 0..Len(blk.pages) - 1 THEN NoPlace
    ELSE [page |-> blk.pages[offset \div PageSize + 1], slot |-> offset % PageSize]

\* append_position_map: where position i of an append of n goes; before is
\* the length of the block before the append.
AppendPlace(blk, before, n, i) ==
    IF before + i < blk.sink THEN Place(blk, before + i)
    ELSE IF blk.len - n + i < blk.sink THEN NoPlace
    ELSE Place(blk, blk.len - n + i - blk.sink + blk.offset)

\* DebugGetKV: the places of all entries of a sequence, in order.
Places(k, s) ==
    FlattenSeq([j \in 1..Len(Trace(k, k.map[s].last)) |->
        LET blk == k.pool[Trace(k, k.map[s].last)[j]]
        IN  [i \in 1..blk.len |-> Place(blk, InBlock(blk, i - 1))]])

\* The store after a list of writes, skipped ones left out, or of copies.
Write(st, writes) ==
    FoldLeft(LAMBDA acc, w : IF w.to = NoPlace THEN acc
                             ELSE [acc EXCEPT ![w.to.page][w.to.slot] = w.entry], st, writes)

EntryAt(st, place) == IF place = NoPlace THEN Nothing ELSE st[place.page][place.slot]

Copy(st, copy) ==
    FoldLeft(LAMBDA acc, c : IF c.to = NoPlace THEN acc
                             ELSE [acc EXCEPT ![c.to.page][c.to.slot] = EntryAt(acc, c.from)],
             st, copy)

CopyAll(st, queue) == FoldLeft(LAMBDA acc, copy : Copy(acc, copy), st, queue)

\* The places some sequence or some queued copy reads.
Readable(k) ==
    UNION ({ToSet(Places(k, s)) : s \in DOMAIN k.map}
             \cup {{copy[i].from : i \in DOMAIN copy} : copy \in ToSet(k.copies)})

Remember(st, readable) ==
    [p \in Pages |-> [i \in 0..PageSize - 1 |->
        IF [page |-> p, slot |-> i] \in readable THEN st[p][i] ELSE Nothing]]

\* What the device holds once everything launched so far has run.
Settled(st, k, r) == Write(CopyAll(st, k.copies), r.writes)

Read(st, places) == [i \in 1..Len(places) |-> EntryAt(st, places[i])]

\* DebugGetKV of every sequence, once the streams are idle.
ReadAll(st, k) == [s \in DOMAIN k.map |-> Read(st, Places(k, s))]

-----------------------------------------------------------------------------
(* The operations.  The client is idle between a forward's BeginForward and
   its attention, makes no call the cache refuses, and none after one has
   thrown half way.  Unless it takes the liberty, it commits a token tree after
   the forward that computed it, with all the sequences of that forward, and
   pops no entry of a tree or of a sequence with a window. *)

Takes(liberty) == liberty \in Liberties

FreshCache ==
    [map |-> <<>>, pool |-> <<>>, freePages |-> Pages, copies |-> <<>>, dirty |-> FALSE, ok |-> TRUE]

NoRound == [batch |-> <<>>, places |-> <<>>, writes |-> <<>>, due |-> FALSE]

Init ==
    /\ support \in (IF Windows = {} THEN {FALSE} ELSE BOOLEAN)
    /\ kv = FreshCache
    /\ round = NoRound
    /\ store = [p \in Pages |-> [i \in 0..PageSize - 1 |-> Nothing]]
    /\ call = [op |-> "internal"]
    /\ reads = <<>>

Idle == kv.ok /\ ~round.due

Clear ==
    /\ Idle
    /\ call' = [op |-> "clear"]
    /\ kv' = [FreshCache EXCEPT !.copies = kv.copies]
    /\ store' = Remember(store, Readable(kv'))
    /\ UNCHANGED <<support, round>>

AddSequence(s) ==
    /\ Idle
    /\ s \notin DOMAIN kv.map
    /\ call' = [op |-> "add", seq |-> s]
    /\ kv' = NewSequence(TakeBlock(kv), s, FreeBlock(kv))
    /\ store' = Remember(store, Readable(kv'))
    /\ UNCHANGED <<support, round>>

RemoveSequence(s) ==
    /\ Idle
    /\ s \in DOMAIN kv.map
    /\ call' = [op |-> "remove", seq |-> s]
    /\ kv' = RemoveIn(kv, s)
    /\ store' = Remember(store, Readable(kv'))
    /\ UNCHANGED <<support, round>>

ForkSequence(p, c, pos) ==
    /\ Idle
    /\ p \in DOMAIN kv.map /\ c \notin DOMAIN kv.map
    /\ Takes("window forks") \/ kv.map[p].window = 0
    /\ pos \in 0..kv.map[p].len
    /\ kv.map[p].committed
    /\ pos <= ForkLimit(kv, p)
    /\ call' = [op |-> "fork", parent |-> p, seq |-> c, pos |-> pos]
    /\ kv' = ForkIn(kv, p, c, pos)
    /\ Len(kv'.copies) <= MaxCopies
    /\ store' = Remember(store, Readable(kv'))
    /\ UNCHANGED <<support, round>>

EnableSlidingWindowForSeq(s, w) ==
    /\ Idle
    /\ support
    /\ s \in DOMAIN kv.map
    /\ w.sink < w.size
    /\ kv.map[s].window = 0
    /\ call' = [op |-> "window", seq |-> s, size |-> w.size, sink |-> w.sink]
    /\ kv' = [kv EXCEPT !.map[s].sink = MaxOf(w.sink - PrefixLength(kv, s), 0),
                        !.map[s].window = w.size,
                        !.map[s].pinned = MaxOf(w.sink, PrefixLength(kv, s))]
    /\ store' = Remember(store, Readable(kv'))
    /\ UNCHANGED <<support, round>>

PopN(s, n) ==
    /\ Idle
    /\ s \in DOMAIN kv.map
    /\ Takes("window pops") \/ kv.map[s].window = 0
    /\ Takes("tree pops") \/ kv.map[s].committed
    /\ n \in 1..kv.map[s].len
    /\ call' = [op |-> "pop", seq |-> s, n |-> n]
    /\ kv' = PopIn(kv, s, n)
    /\ Len(kv'.copies) <= MaxCopies
    /\ store' = Remember(store, Readable(kv'))
    /\ UNCHANGED <<support, round>>

\* What the positions of an append may hold.
News(n) == {new \in [1..n -> {Plain, Marked}] : Cardinality({i \in 1..n : new[i] = Marked}) <= 1}

Parts == {[seq |-> s, new |-> new, tree |-> <<>>] :
                    s \in SeqIds, new \in UNION {News(n) : n \in 1..MaxAppend}}

TreeParts == UNION {{[seq |-> s, new |-> new, tree |-> t] : s \in SeqIds, new \in News(Len(t))} :
                       t \in Trees}

IsChain(tree) == \A i \in 1..Len(tree) : tree[i] = i - 1

\* A batch names distinct sequences, all with a tree or all without.
Batches ==
    {b \in SeqOf(Parts, MaxBatch) \cup SeqOf(TreeParts, MaxBatch) :
        /\ b # <<>>
        /\ FoldLeft(LAMBDA sum, r : sum + Len(r.new), 0, b) <= MaxAppend
        /\ \A i, j \in 1..Len(b) : i # j =>
             /\ b[i].seq # b[j].seq
             /\ Marked \notin ToSet(b[i].new) \cap ToSet(b[j].new)
             /\ Takes("mixed trees") \/ (IsChain(b[i].tree) <=> IsChain(b[j].tree))}

\* The sequences of a batch grow.  A tree extends the one its sequence has not
\* committed yet, which must still fit in the last block.
Announce(k, batch) ==
    FoldLeft(LAMBDA acc, r : [acc EXCEPT !.map[r.seq].len = @ + Len(r.new),
                                         !.map[r.seq].tree = @ \o r.tree,
                                         !.map[r.seq].chain = IsChain(k.map[r.seq].tree \o r.tree),
                                         !.map[r.seq].committed = r.tree = <<>>,
                                         !.ok = @ /\ Len(k.map[r.seq].tree)
                                                       <= k.pool[k.map[r.seq].last].len], k, batch)

Reserve(k, batch) == FoldLeft(ReserveAppendLengthInSeq, k, batch)

KV == INSTANCE KVSequences WITH
        seqs <- [s \in DOMAIN kv.map |->
                   [toks |-> reads[s], size |-> kv.map[s].window, sink |-> kv.map[s].pinned,
                    tree |-> IF kv.map[s].committed THEN <<>> ELSE kv.map[s].tree]],
        broken <- ~kv.ok

AppendPlaces(k, r) ==
    [i \in 1..Len(r.new) |->
        AppendPlace(k.pool[k.map[r.seq].last], kv.pool[kv.map[r.seq].last].len, Len(r.new), i - 1)]

\* The writes of a forward.
Writes(batch, places) ==
    FlattenSeq([i \in 1..Len(batch) |->
        [j \in 1..Len(places[i]) |-> [to |-> places[i][j], entry |-> batch[i].new[j]]]])

Begun(batch, places) ==
    [batch |-> batch, places |-> places, due |-> TRUE, writes |-> Writes(batch, places)]

BeginForward(batch) ==
    /\ Idle
    /\ \A i \in 1..Len(batch) :
          /\ batch[i].seq \in DOMAIN kv.map
          /\ batch[i].tree = <<>> \/ ~Takes("tree rounds") => kv.map[batch[i].seq].committed
          /\ batch[i].tree # <<>> => ~support
          /\ Marked \in ToSet(batch[i].new) => \A s \in DOMAIN kv.map : Marked \notin ToSet(reads[s])
    /\ call' = [op |-> "forward", batch |-> batch]
    /\ kv' = Reserve(Announce(kv, batch), batch)
    /\ round' = IF kv'.ok THEN Begun(batch, [i \in 1..Len(batch) |-> AppendPlaces(kv', batch[i])])
                ELSE round
    /\ UNCHANGED <<support, store>>

\* Mutant of Attention: the compute stream does not wait for the copies.
Attention_NoWait ==
    /\ kv.ok /\ round.due
    /\ call' = KV!Internal
    /\ store' = Write(store, round.writes)
    /\ kv' = [kv EXCEPT !.dirty = FALSE]
    /\ round' = [round EXCEPT !.due = FALSE, !.writes = <<>>]
    /\ UNCHANGED support

\* AttentionWithFusedQKV: the compute stream waits for the copy stream when
\* the auxiliary data is dirty, then the new entries are written.
Attention ==
    /\ kv.ok /\ round.due
    /\ call' = KV!Internal
    /\ store' = Write(IF kv.dirty THEN CopyAll(store, kv.copies) ELSE store, round.writes)
    /\ kv' = [kv EXCEPT !.dirty = FALSE, !.copies = IF kv.dirty THEN <<>> ELSE @]
    /\ round' = [round EXCEPT !.due = FALSE, !.writes = <<>>]
    /\ UNCHANGED support

\* Position n of append_position_map, counted from where part i of the round
\* starts.
Position(i, n) ==
    LET positions == FlattenSeq(SubSeq(round.places, i, Len(round.places)))
    IN  IF n <= Len(positions) THEN positions[n] ELSE NoPlace

\* The latest forward computed trees, and none is committed.
Uncommitted ==
    \A i \in 1..Len(round.batch) :
        round.batch[i].seq \in DOMAIN kv.map /\ ~kv.map[round.batch[i].seq].committed

\* The copies that bring an accepted path to the front of the append.
Compaction(i, path) ==
    LET moved == {n \in 1..Len(path) : \E j \in 1..n : path[j] # j}
    IN  [n \in 1..Cardinality(moved) |->
           LET j == Len(path) - Cardinality(moved) + n
           IN  [from |-> Position(i, path[j]), to |-> Position(i, j)]]

\* CompactKVCopy, launched when the sequence looked at last has a tree and
\* there is something to move.
Launch(k, copy) == IF copy = <<>> THEN k ELSE [k EXCEPT !.copies = Append(@, copy)]

Compact(k, ids, leaf) ==
    IF k.map[Last(ids)].chain THEN k
    ELSE Launch(k, FlattenSeq([i \in 1..Len(ids) |->
            Compaction(i, KV!Path(k.map[ids[i]].tree, leaf[i]))]))

\* PopN with its checks, from inside a commit.
PopChecked(k, s, n) ==
    IF s \in DOMAIN k.map /\ n \in 0..k.map[s].len THEN PopIn(k, s, n) ELSE [k EXCEPT !.ok = FALSE]

\* What sequence s computed is settled; a pop may have taken it away.
Committed(k, s) ==
    IF k.ok /\ s \in DOMAIN k.map
    THEN [k EXCEPT !.map[s].committed = TRUE, !.map[s].tree = <<>>] ELSE k

\* Entry i of a commit: what the round appended and is not on the path is popped
\* from the sequence at that index of the round.
Accept(k, i, s, leaf) ==
    IF ~k.ok THEN k
    ELSE Committed(PopChecked(k, round.batch[i].seq,
                            Len(round.batch[i].new) - Len(KV!Path(k.map[s].tree, leaf))), s)

\* More sequences than the round has would index outside its arrays, and one
\* named twice outside its tree: neither is modelled.
CommitAcceptedTokenTreeNodes(ids, leaf) ==
    /\ Idle
    /\ Len(ids) = Len(leaf) /\ Len(ids) \in 1..Len(round.batch)
    /\ \A i \in 1..Len(ids) :
          /\ ids[i] \in DOMAIN kv.map
          /\ leaf[i] = 0 \/ ~kv.map[ids[i]].committed
          /\ leaf[i] <= Len(kv.map[ids[i]].tree)
    /\ IsInjective(ids)
    /\ ~Takes("any commit") =>
          Uncommitted /\ ids = [i \in 1..Len(round.batch) |-> round.batch[i].seq]
    /\ call' = [op |-> "commit", ids |-> ids, leaf |-> leaf]
    /\ kv' = FoldLeftDomain(LAMBDA acc, i : Accept(acc, i, ids[i], leaf[i]),
                            Compact(kv, ids, leaf), leaf)
    /\ Len(kv'.copies) <= MaxCopies
    /\ store' = Remember(store, Readable(kv'))
    /\ UNCHANGED <<support, round>>

\* The copy stream runs the oldest copy in its queue.
CopyStream ==
    /\ kv.ok /\ kv.copies # <<>>
    /\ call' = KV!Internal
    /\ kv' = [kv EXCEPT !.copies = Tail(@)]
    /\ store' = Remember(Copy(store, Head(kv.copies)), Readable(kv'))
    /\ UNCHANGED <<support, round>>

Operation ==
    \/ Clear
    \/ \E s \in SeqIds : AddSequence(s)
    \/ \E s \in SeqIds : RemoveSequence(s)
    \/ \E p, c \in SeqIds, pos \in 0..NumPages * PageSize : ForkSequence(p, c, pos)
    \/ \E s \in SeqIds, w \in Windows : EnableSlidingWindowForSeq(s, w)
    \/ \E s \in SeqIds, n \in 1..NumPages * PageSize : PopN(s, n)
    \/ \E batch \in Batches : BeginForward(batch)
    \/ Attention
    \/ \E ids \in SeqOf(SeqIds, MaxBatch), leaf \in SeqOf(0..NumPages * PageSize, MaxBatch) :
         CommitAcceptedTokenTreeNodes(ids, leaf)
    \/ CopyStream

Next ==
    /\ Operation
    /\ reads' = IF kv'.ok THEN ReadAll(Settled(store', kv', round'), kv') ELSE reads

Spec == Init /\ [][Next]_vars

-----------------------------------------------------------------------------
(* Properties. *)

\* The pages are the cache's, every sequence ends in a block in use, and no
\* length is negative.
TypeOK ==
    /\ DOMAIN kv.map \subseteq SeqIds
    /\ kv.freePages \subseteq Pages
    /\ \A s \in DOMAIN kv.map : kv.map[s].last \in DOMAIN kv.pool
    /\ \A b \in DOMAIN kv.pool :
         /\ kv.ok => kv.pool[b].len \in Nat
         /\ kv.pool[b].parent \in DOMAIN kv.pool \cup {Root}
         /\ ToSet(kv.pool[b].pages) \subseteq Pages \cup {TempPage}

\* Every page is in one place: in the free list or once in one block that is
\* in use (attn_utils.h: different blocks do not share pages), also after an
\* operation has thrown.
PagesOwnedOnce ==
    \A p \in Pages :
        1 = (IF p \in kv.freePages THEN 1 ELSE 0)
            + Cardinality({<<b, i>> \in (DOMAIN kv.pool) \X (1..NumPages) :
                              i <= Len(kv.pool[b].pages) /\ kv.pool[b].pages[i] = p})

\* The reference count of a block in use is the number of sequences that end
\* in it plus the number of blocks in use that continue it, at least one, and
\* one for the block a sequence appends to.
RefsCounted ==
    kv.ok =>
      /\ \A b \in DOMAIN kv.pool :
           /\ kv.pool[b].refs >= 1
           /\ kv.pool[b].refs = Cardinality({s \in DOMAIN kv.map : kv.map[s].last = b})
                                + Cardinality({c \in DOMAIN kv.pool : kv.pool[c].parent = b})
      /\ \A s \in DOMAIN kv.map : kv.pool[kv.map[s].last].refs = 1

\* The length of a sequence is the sum of the lengths of its blocks, every
\* block that another one continues is filled to whole pages, and a block
\* starts where its prefix ends (without a window).
LengthsAddUp ==
    kv.ok =>
      \A s \in DOMAIN kv.map :
        LET trace == Trace(kv, kv.map[s].last)
        IN  /\ kv.map[s].len = Length(kv, trace)
            /\ \A i \in 1..Len(trace) - 1 :
                 kv.pool[trace[i]].len > 0 /\ kv.pool[trace[i]].len % PageSize = 0
            /\ \A i \in 1..Len(trace) : kv.pool[trace[i]].start = LengthUpTo(kv, trace, i - 1)

\* The entries a window pins are those the client asked for when it enabled
\* the window: forks of the sequence do not change their number.
PinnedAsAsked ==
    kv.ok => \A s \in DOMAIN kv.map :
        kv.map[s].window # 0 => PrefixLength(kv, s) + kv.map[s].sink = kv.map[s].pinned

\* Each sequence reads as the list of entries the client put there: blocks
\* shared by forks, pages reused after a removal and copies still queued are
\* never visible.
SequencesIndependent == KV!Spec
=============================================================================
