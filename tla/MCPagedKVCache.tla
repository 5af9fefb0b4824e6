--------------------------- MODULE MCPagedKVCache ---------------------------
(* Instances of the paged KV cache for TLC. *)
EXTENDS PagedKVCache

\* A window of three entries whose first one is pinned.
SmallWindow == {[size |-> 3, sink |-> 1]}

\* One that pins a whole page.
PageWindow == {[size |-> 3, sink |-> 2]}

NoWindow == {}

\* A chain, and a root with two children.
SmallTrees == {<<0, 1>>, <<0, 1, 1>>}

\* A chain, and two roots.
PairTrees == {<<0, 1>>, <<0, 0>>}

NoTree == {}

\* The client's liberties of each instance.
NoLiberty == {}
MixesTrees == {"mixed trees"}
TreeRounds == {"tree rounds"}
TreePops == {"tree pops"}
AnyCommit == {"any commit"}
WindowForks == {"window forks"}
WindowPops == {"window pops"}

-----------------------------------------------------------------------------
(* States that differ only in the names of blocks and pages are one state to
   TLC: the view numbers them in the order the sequences reach them. *)

Distinct(seq) ==
    FoldLeft(LAMBDA acc, x : IF Contains(acc, x) THEN acc ELSE Append(acc, x), <<>>, seq)

Rank(seq, x) == IF Contains(seq, x) THEN SelectInSeq(seq, LAMBDA y : y = x) ELSE x

BlockOrder ==
    Distinct(FlattenSeq([i \in 1..NumSeqs |->
               IF i - 1 \in DOMAIN kv.map THEN Trace(kv, kv.map[i - 1].last) ELSE <<>>])
             \o SetToSortSeq(DOMAIN kv.pool, <))

PageOrder(blocks) ==
    Distinct(SelectSeq(FlattenSeq([i \in 1..Len(blocks) |-> kv.pool[blocks[i]].pages]),
                       LAMBDA p : p # TempPage)
             \o FlattenSeq([i \in 1..Len(kv.copies) |->
                  [j \in 1..2 |-> IF j = 1 THEN kv.copies[i][1].from.page ELSE kv.copies[i][1].to.page]])
             \o [i \in 1..NumPages |-> i - 1])

\* A client that commits the latest round only never looks at an older round, or
\* at the flag of a sequence it has committed.
RoundMatters == round.due \/ Uncommitted \/ Takes("any commit")
ChainMatters(s) == ~kv.map[s].committed \/ Takes("any commit")

Named(place, pages) == [place EXCEPT !.page = Rank(pages, @)]

ViewOf(blocks, pages) ==
    <<support,
      [s \in DOMAIN kv.map |->
          [kv.map[s] EXCEPT !.last = Rank(blocks, @), !.chain = @ \/ ~ChainMatters(s)]],
      [i \in 1..Len(blocks) |->
          [kv.pool[blocks[i]] EXCEPT !.parent = Rank(blocks, @),
                                     !.pages = [j \in 1..Len(@) |-> Rank(pages, @[j])]]],
      [i \in 1..Len(kv.copies) |->
          [j \in 1..Len(kv.copies[i]) |->
              <<Named(kv.copies[i][j].from, pages), Named(kv.copies[i][j].to, pages)>>]],
      kv.dirty, kv.ok,
      IF RoundMatters
      THEN <<[i \in 1..Len(round.batch) |-> <<round.batch[i].seq, round.batch[i].tree>>],
             [i \in 1..Len(round.places) |->
                [j \in 1..Len(round.places[i]) |-> Named(round.places[i][j], pages)]]>>
      ELSE <<>>,
      round.due,
      [i \in 1..Len(round.writes) |-> round.writes[i].entry],
      [i \in 1..NumPages |-> store[pages[i]]]>>

ViewIn(blocks) == ViewOf(blocks, PageOrder(blocks))

View == ViewIn(BlockOrder)
=============================================================================
