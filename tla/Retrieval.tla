------------------------------- MODULE Retrieval -------------------------------
(***************************************************************************)
(* A search in one document that Chunking has cut: the rankings of its     *)
(* children by words and by vectors, their fusion (retrieval/fusion.py),   *)
(* and the results with the text around each match (retrieval/index.py).   *)
(* Which children a query finds, and in which order, is free.              *)
(***************************************************************************)
EXTENDS Chunking

CONSTANTS
    Candidates,  \* candidate_limit: length of a ranking
    K,           \* rrf_k
    Limit,       \* results
    Budget,      \* max_context_chars, in tokens here
    MaxSearched  \* bound: tokens of a document that is searched

ASSUME SearchAssumption ==
    Candidates \in Nat /\ K \in Nat \ {0} /\ Limit \in Nat \ {0} /\ Budget \in Nat \ {0}

VARIABLES
    query,     \* strategy, words, vectors: what was asked, and the two rankings
    taken,     \* candidates that the loop has looked at
    results    \* child and context

search == <<query, taken, results>>
allVars == <<vars, search>>

Children == DOMAIN chunks
Rankings(n) == {r \in [1..n -> Children] : \A i, j \in 1..n : r[i] = r[j] => i = j}
NoQuery == [strategy |-> "none", words |-> <<>>, vectors |-> <<>>]

\* search: the words find some children, the vectors, unless the search is by
\* words only, the nearest.  The parent strategy is the service's, the others are
\* of the evaluation.
Query ==
    /\ Done /\ query = NoQuery /\ count <= MaxSearched
    /\ \E strategy \in {"child", "adjacent", "parent"},
          n \in 0..Smaller(Candidates, Len(chunks)), k \in {0, Smaller(Candidates, Len(chunks))} :
        \E w \in Rankings(n), v \in Rankings(k) :
            query' = [strategy |-> strategy, words |-> w, vectors |-> v]
    /\ UNCHANGED <<vars, taken, results>>

-----------------------------------------------------------------------------
(* reciprocal_rank_fusion: a sum of 1 / (K + rank), as a fraction. *)

In(ranking, c) == \E r \in DOMAIN ranking : ranking[r] = c
Rank(ranking, c) == CHOOSE r \in DOMAIN ranking : ranking[r] = c

Unranked(ranking, c) == IF In(ranking, c) THEN K ELSE 0   \* mutant: the rank does not count
Weight(ranking, c) == IF In(ranking, c) THEN K + Rank(ranking, c) ELSE 0   \* 0 for infinity

Numerator(a, b) == IF a = 0 \/ b = 0 THEN 1 ELSE a + b
Denominator(a, b) == IF a = 0 THEN b ELSE IF b = 0 THEN a ELSE a * b
Outscores(c, d) ==
    LET cw == Weight(query.words, c) cv == Weight(query.vectors, c)
        dw == Weight(query.words, d) dv == Weight(query.vectors, d) IN
    Numerator(cw, cv) * Denominator(dw, dv) > Numerator(dw, dv) * Denominator(cw, cv)

Fused == {c \in Children : In(query.words, c) \/ In(query.vectors, c)}

-----------------------------------------------------------------------------
(* _context_for: what is returned around a match. *)

Range(kind, from, to) == [kind |-> kind, from |-> from, to |-> to]
Length(range) == range.to - range.from
Itself(c) == Range("range", chunks[c].from, chunks[c].to)

Neighbours(c) == {d \in Children : d \in (c - 1)..(c + 1) /\ ParentOf(d) = ParentOf(c)}
Adjacent(c) ==
    LET near == Neighbours(c)
        first == CHOOSE d \in near : \A e \in near : d <= e
        last == CHOOSE d \in near : \A e \in near : e <= d
        wide == Range("range", chunks[first].from, chunks[last].to) IN
    IF Length(wide) > Budget THEN Itself(c) ELSE wide

\* Half of what the budget leaves goes before the match, ...
HalfOfAll(c) == Budget \div 2     \* mutant: the length of the match is forgotten
Before(c) == Larger(0, Budget - Length(Itself(c))) \div 2

\* ... and what is beyond the end of the parent goes there too.
Clipped(c) ==
    LET parent == ParentOf(c)
        begin == Larger(parent[1], chunks[c].from - Before(c))
        end == Smaller(parent[2], begin + Budget) IN
    Range("range", Larger(parent[1], end - Budget), end)

InParent(c) ==
    LET parent == ParentOf(c) IN
    IF parent[2] - parent[1] <= Budget
    THEN Range("parent", parent[1], parent[2])
    ELSE Clipped(c)

Context(c) ==
    CASE query.strategy = "child"    -> [Itself(c) EXCEPT !.kind = "chunk"]
      [] query.strategy = "adjacent" -> Adjacent(c)
      [] query.strategy = "parent"   -> InParent(c)

-----------------------------------------------------------------------------
SearchInit == Init /\ query = NoQuery /\ taken = {} /\ results = <<>>

Better(c) == {d \in Fused \ taken : Outscores(d, c)}

Shown(c) == \E r \in DOMAIN results : results[r].context = Context(c)

\* One round of the loop: the best candidate left, unless its context is there.
\* Equal scores are in the order of the chunk_ids, which are hashes.
Take ==
    /\ Len(results) < Limit
    /\ \E c \in Fused \ taken :
        /\ Better(c) = {}
        /\ taken' = taken \cup {c}
        /\ results' = IF Shown(c) THEN results
                      ELSE Append(results, [child |-> c, context |-> Context(c)])
    /\ UNCHANGED <<vars, query>>

\* The answer is complete, or the document is not searched here.
Answered ==
    /\ IF query = NoQuery THEN Done /\ count > MaxSearched
       ELSE Len(results) = Limit \/ Fused \subseteq taken
    /\ UNCHANGED allVars

SearchNext == (Window /\ UNCHANGED search) \/ Query \/ Take \/ Answered

SearchSpec == SearchInit /\ [][SearchNext]_allVars

-----------------------------------------------------------------------------
(* Properties. *)

\* A child that both rankings put before another, or that only it is in, does not
\* lose to it: where the other is shown, its own context is shown above
\* (fusion.py:6-15, index.py:328-376).
Precedes(ranking, c, d) == In(ranking, c) /\ (In(ranking, d) => Rank(ranking, c) < Rank(ranking, d))
NoWorse(ranking, c, d) == Precedes(ranking, c, d) \/ (~In(ranking, c) /\ ~In(ranking, d))
Dominates(c, d) ==
    /\ NoWorse(query.words, c, d) /\ NoWorse(query.vectors, c, d)
    /\ Precedes(query.words, c, d) \/ Precedes(query.vectors, c, d)
AgreementIsKept ==
    \A j \in DOMAIN results : \A c \in Fused : Dominates(c, results[j].child) =>
        \E i \in 1..(j - 1) : results[i].context = Context(c)

\* The context of a match that fits into the budget holds the match, keeps to the
\* budget and does not leave the parent (index.py:378-460).
Within(a, b) == b.from <= a.from /\ a.to <= b.to
ContextHoldsMatch ==
    \A r \in DOMAIN results : LET c == results[r].child context == results[r].context IN
        Length(Itself(c)) <= Budget =>
            /\ Within(Itself(c), context) /\ Length(context) <= Budget
            /\ ParentOf(c)[1] <= context.from /\ context.to <= ParentOf(c)[2]
===============================================================================
