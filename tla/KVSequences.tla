----------------------------- MODULE KVSequences -----------------------------
(***************************************************************************)
(* What the attention KV cache promises its client (kv_state.h, and the    *)
(* reference the runtime's own tests keep beside the cache): every         *)
(* sequence is a list of token entries of its own.  A fork starts from a   *)
(* prefix of its parent, a pop drops the tail, a forward appends, a token  *)
(* tree is committed by keeping one of its paths, and a sliding window     *)
(* keeps the sink and the most recent entries.  No operation on one        *)
(* sequence is visible in another one.                                     *)
(***************************************************************************)
EXTENDS Integers, Sequences, SequencesExt, FiniteSets

CONSTANTS
    SeqIds      \* sequence ids the client may use

VARIABLES
    call,       \* the call the latest step answers: a record with its arguments
    seqs,       \* sequence id -> its entries, window and uncommitted tree
    broken      \* an operation has thrown half way

\* What a window of the given size keeps: the sink and the latest entries.
Kept(toks, size, sink) ==
    IF size = 0 \/ Len(toks) <= size
    THEN toks
    ELSE SubSeq(toks, 1, sink) \o SubSeq(toks, Len(toks) - (size - sink) + 1, Len(toks))

\* The nodes on the way from a root of a token tree to node n, 0 for none.
\* A tree gives the parent of each node, 0 for a root; a parent precedes
\* its children.
Path(tree, n) ==
    LET path[m \in 0..Len(tree)] == IF m = 0 THEN <<>> ELSE Append(path[tree[m]], m)
    IN  path[n]

NewSequence(toks) == [toks |-> toks, size |-> 0, sink |-> 0, tree |-> <<>>]

With(S, s, r) == [x \in DOMAIN S \cup {s} |-> IF x = s THEN r ELSE S[x]]

-----------------------------------------------------------------------------
(* The operations: call c takes the sequences from S to T. *)

\* A step of the device: the client has called nothing.
Internal == [op |-> "internal"]

Clear(c, T) == c.op = "clear" /\ T = <<>>

AddSequence(c, S, T) ==
    /\ c.op = "add"
    /\ c.seq \in SeqIds \ DOMAIN S
    /\ T = With(S, c.seq, NewSequence(<<>>))

RemoveSequence(c, S, T) ==
    /\ c.op = "remove"
    /\ c.seq \in DOMAIN S
    /\ T = [x \in DOMAIN S \ {c.seq} |-> S[x]]

ForkSequence(c, S, T) ==
    /\ c.op = "fork"
    /\ c.parent \in DOMAIN S /\ c.seq \in SeqIds \ DOMAIN S
    /\ c.pos <= Len(S[c.parent].toks)
    /\ T = With(S, c.seq, NewSequence(SubSeq(S[c.parent].toks, 1, c.pos)))

PopN(c, S, T) ==
    /\ c.op = "pop"
    /\ c.seq \in DOMAIN S
    /\ c.n <= Len(S[c.seq].toks)
    /\ T = With(S, c.seq, [S[c.seq] EXCEPT !.toks = SubSeq(@, 1, Len(@) - c.n)])

\* At least the sink asked for is pinned.
EnableSlidingWindowForSeq(c, S, T) ==
    /\ c.op = "window"
    /\ c.seq \in DOMAIN S \cap DOMAIN T
    /\ S[c.seq].size = 0
    /\ T[c.seq].sink >= c.sink
    /\ T = With(S, c.seq, [S[c.seq] EXCEPT !.size = c.size, !.sink = T[c.seq].sink])

\* The part of a batch that is sequence s's, if it has one.
PartOf(batch, s) == {i \in 1..Len(batch) : batch[i].seq = s}

\* A forward appends to the sequences of its batch, as a chain or as a tree,
\* which extends the one not committed yet.
Forward(c, S, T) ==
    /\ c.op = "forward"
    /\ DOMAIN T = DOMAIN S
    /\ \A s \in DOMAIN S :
         /\ PartOf(c.batch, s) = {} => T[s] = S[s]
         /\ \A i \in PartOf(c.batch, s) :
              T[s] = [S[s] EXCEPT !.toks = Kept(@ \o c.batch[i].new, S[s].size, S[s].sink),
                                  !.tree = @ \o c.batch[i].tree]

\* Of an uncommitted tree the entries of one path are kept, in order.
Committed(r, leaf) ==
    [r EXCEPT !.tree = <<>>,
              !.toks = SubSeq(@, 1, Len(@) - Len(r.tree))
                         \o [i \in 1..Len(Path(r.tree, leaf)) |->
                               @[Len(@) - Len(r.tree) + Path(r.tree, leaf)[i]]]]

CommitAcceptedTokenTreeNodes(c, S, T) ==
    /\ c.op = "commit"
    /\ DOMAIN T = DOMAIN S
    /\ \A s \in DOMAIN S :
         /\ s \notin ToSet(c.ids) => T[s] = S[s]
         /\ \A i \in 1..Len(c.ids) : c.ids[i] = s =>
              Len(S[s].tree) <= Len(S[s].toks) /\ T[s] = Committed(S[s], c.leaf[i])

Operation(c, S, T) ==
    \/ c = Internal /\ T = S
    \/ Clear(c, T)
    \/ AddSequence(c, S, T)
    \/ RemoveSequence(c, S, T)
    \/ ForkSequence(c, S, T)
    \/ PopN(c, S, T)
    \/ EnableSlidingWindowForSeq(c, S, T)
    \/ Forward(c, S, T)
    \/ CommitAcceptedTokenTreeNodes(c, S, T)

-----------------------------------------------------------------------------
Init == call = Internal /\ seqs = <<>> /\ broken = FALSE

\* An operation that throws half way promises nothing any more.
Next ==
    \/ broken' = TRUE
    \/ UNCHANGED broken /\ Operation(call', seqs, seqs')

vars == <<call, seqs, broken>>

Spec == Init /\ [][Next]_vars
=============================================================================
