-------------------------------- MODULE Chunking --------------------------------
(***************************************************************************)
(* How a document is cut (retrieval/chunking.py, the generic strategy):    *)
(* into parents at its headings, and each parent into overlapping windows  *)
(* of tokens, the children, which are what a search ranks and cites.       *)
(*                                                                         *)
(* Lengths are in tokens, numbered from 0; a range begins at its first     *)
(* token and ends before its last number.  An empty line and a heading are *)
(* known by the token they come before; a heading of level n has n tokens  *)
(* of # and a title.  A line of #s in a fenced block of code is no heading *)
(* and has level 0 here.                                                   *)
(***************************************************************************)
EXTENDS Integers, Sequences, FiniteSets

CONSTANTS
    Target, Hard, Overlap,  \* ChunkingConfig: target_tokens, max_tokens, overlap_tokens
    MaxTokens,              \* bound: tokens of a document
    MaxLevel                \* bound: level of a heading (6 in Markdown)

ASSUME ConfigAssumption ==
    /\ Target \in Nat /\ Hard \in Nat /\ Overlap \in Nat
    /\ Overlap < Target /\ Target <= Hard
    /\ MaxTokens \in Nat /\ MaxLevel \in Nat

VARIABLES
    count,   \* tokens of the document
    level,   \* of the heading that begins at each token, 0 if none does
    breaks,  \* tokens that an empty line comes before
    start,   \* where the next window begins
    chunks   \* the windows so far

document == <<count, level, breaks>>
vars == <<document, start, chunks>>

Tokens == 0..(count - 1)
Windows == [from : 0..MaxTokens, to : 0..MaxTokens]

TypeOK ==
    /\ count \in 0..MaxTokens /\ level \in [Tokens -> 0..MaxLevel]
    /\ breaks \subseteq 1..(count - 1)
    /\ start \in 0..count /\ chunks \in Seq(Windows)

Headings == {t \in Tokens : level[t] > 0}
Title(h) == (h + 1)..(h + level[h])   \* the rest of its line

Init ==
    /\ count \in 0..MaxTokens /\ level \in [Tokens -> 0..MaxLevel]
    /\ \A h \in Headings : h + level[h] < count /\ \A t \in Title(h) : level[t] = 0
    /\ breaks \in SUBSET ((1..(count - 1)) \ UNION {Title(h) : h \in Headings})
    /\ start = 0 /\ chunks = <<>>

\* The parents lie between these.
Boundaries == {0, count} \cup Headings

Smaller(a, b) == IF a < b THEN a ELSE b
Larger(a, b)  == IF a < b THEN b ELSE a

\* Where the range of a token ends.
EndsAt(t, end) ==
    end \in Boundaries /\ t < end /\ \A b \in Boundaries : t < b => end <= b

\* A window has the target length, or more, up to the last empty line before the
\* hard limit; the last of its range may be shorter.
WindowEnds(from, end, to) ==
    LET soft == Smaller(from + Target, end)
        hard == Smaller(from + Hard, end)
        found == {b \in breaks : soft < b /\ b < hard} IN
    \/ found = {} /\ to = soft
    \/ to \in found /\ \A b \in found : b <= to

SkipsAhead(from, to) == to + 1   \* mutant: the token after the window is lost
StaysOn(from, to) == from        \* mutant: windows of no progress
StepsBack(from, to) == Larger(from + 1, to - Overlap)

\* One round of _chunks_for_range.  A window that ends its range is the last.
Window ==
    /\ start < count
    /\ \E end, to \in 1..count :
        /\ EndsAt(start, end) /\ WindowEnds(start, end, to)
        /\ chunks' = Append(chunks, [from |-> start, to |-> to])
        /\ start' = IF to = end THEN end ELSE StepsBack(start, to)
    /\ UNCHANGED document

Done == start = count

\* The parent of a child: the range it lies in.
ParentOf(i) == CHOOSE p \in Boundaries \X Boundaries :
    p[1] <= chunks[i].from /\ EndsAt(p[1], p[2]) /\ chunks[i].from < p[2]

\* _title_path_at, for every token: a heading of level n keeps n - 1 titles.
KeptOneLess(path, n) == SubSeq(path, 1, Smaller(n - 2, Len(path)))  \* mutant: off by one
Kept(path, n) == SubSeq(path, 1, Smaller(n - 1, Len(path)))
TitlePath ==
    LET path[t \in -1..(count - 1)] ==
            IF t = -1 THEN <<>>
            ELSE IF t \in Headings THEN Append(Kept(path[t - 1], level[t]), t)
            ELSE path[t - 1]
    IN path

-----------------------------------------------------------------------------
(* Properties. *)

\* Every token of the text can be found: the windows leave no gap within a range
\* and none between two (chunking.py:211-248).
EveryTokenIsCovered ==
    \A t \in 0..(start - 1) : \E i \in DOMAIN chunks : chunks[i].from <= t /\ t < chunks[i].to

\* Each window begins and ends after the one before it, so that none lies within
\* another and no chunk_id, which is made from the range and is UNIQUE in the
\* index (index.py:93), comes twice; none is over the limit or crosses a heading.
WindowsAdvance ==
    \A j \in DOMAIN chunks :
        /\ chunks[j].from < chunks[j].to /\ chunks[j].to - chunks[j].from <= Hard
        /\ \A b \in Headings : b <= chunks[j].from \/ chunks[j].to <= b
        /\ \A i \in 1..(j - 1) :
                chunks[i].from < chunks[j].from /\ chunks[i].to < chunks[j].to

\* The section of a heading ends at the next of its level or a lower one.
LiesIn(t, h) == h <= t /\ \A g \in Headings : h < g /\ g <= t => level[h] < level[g]
PathOf(chunk) == {TitlePath[chunk.from][k] : k \in DOMAIN TitlePath[chunk.from]}

\* A citation names every section that the text lies in (chunking.py:90-97, 242).
TitlesAreKept ==
    \A i \in DOMAIN chunks : \A h \in Headings :
        LiesIn(chunks[i].from, h) => h \in PathOf(chunks[i])

\* And no other section.
OnlyOwnTitles ==
    \A i \in DOMAIN chunks : \A h \in PathOf(chunks[i]) : LiesIn(chunks[i].from, h)
===============================================================================
