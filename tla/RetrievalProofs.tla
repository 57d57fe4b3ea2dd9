---------------------------- MODULE RetrievalProofs ----------------------------
(* What holds of the windows for every configuration, document and query. *)
EXTENDS Retrieval, WellFoundedInduction, TLAPS

-----------------------------------------------------------------------------
(* The inductive invariant. *)

Last == chunks[Len(chunks)]

\* The next window begins within the last or where it ends; in the first case a
\* window of the target length from there, and every later heading, end beyond it.
NextAdvances ==
    chunks # <<>> =>
        /\ Last.from < start /\ start <= Last.to
        /\ start = Last.to \/ /\ start + Target > Last.to
                              /\ \A b \in Boundaries : start < b => Last.to < b

WindowsInside == \A i \in DOMAIN chunks : chunks[i].to <= count

IInv ==
    /\ TypeOK
    /\ chunks = <<>> => start = 0
    /\ NextAdvances
    /\ EveryTokenIsCovered
    /\ WindowsAdvance
    /\ WindowsInside

USE ConfigAssumption DEF ConfigAssumption

LEMMA InitInv == Init => IInv
<1> SUFFICES ASSUME Init PROVE IInv
  OBVIOUS
<1>1. TypeOK
  <2>1. breaks \subseteq 1..(count - 1)
    BY DEF Init
  <2>2. start \in 0..count /\ chunks \in Seq(Windows)
    BY DEF Init
  <2> QED
    BY <2>1, <2>2 DEF Init, TypeOK
<1> QED
  BY <1>1 DEF Init, IInv, NextAdvances, EveryTokenIsCovered, WindowsAdvance, WindowsInside

\* What one round of the loop makes.
LEMMA WindowBounds ==
    ASSUME TypeOK, NEW end \in 1..count, NEW to \in 1..count, start < count,
           EndsAt(start, end), WindowEnds(start, end, to)
    PROVE  /\ start < to /\ to <= end /\ to - start <= Hard
           /\ to >= start + Target \/ to >= end
           /\ \A b \in Headings : b <= start \/ to <= b
<1>1. count \in Nat /\ start \in Nat /\ breaks \subseteq Int /\ Headings \subseteq Nat
  BY DEF TypeOK, Headings, Tokens
<1>2. start < end /\ \A b \in Headings : start < b => end <= b
  BY DEF EndsAt, Boundaries
<1> DEFINE soft == Smaller(start + Target, end)
           hard == Smaller(start + Hard, end)
<1>3. /\ soft \in Nat /\ hard \in Nat /\ soft <= end /\ hard <= end
      /\ start < soft /\ soft <= start + Target /\ hard <= start + Hard
      /\ soft = start + Target \/ soft = end
  BY <1>1, <1>2 DEF Smaller
<1>4. to = soft \/ (soft < to /\ to < hard)
  BY DEF WindowEnds
<1> HIDE DEF soft, hard
<1>5. start < to /\ to <= end /\ to - start <= Hard /\ (to >= start + Target \/ to >= end)
  BY <1>1, <1>2, <1>3, <1>4
<1> QED
  BY <1>1, <1>2, <1>5

LEMMA BelowRange == ASSUME NEW n \in Int, NEW t \in 0..(n - 1) PROVE t < n
OBVIOUS

LEMMA WindowStep == ASSUME IInv, Window PROVE IInv'
<1> USE DEF IInv
<1>1. PICK end \in 1..count, to \in 1..count :
        /\ EndsAt(start, end) /\ WindowEnds(start, end, to)
        /\ chunks' = Append(chunks, [from |-> start, to |-> to])
        /\ start' = IF to = end THEN end ELSE StepsBack(start, to)
  BY DEF Window
<1>2. start < count /\ UNCHANGED <<count, level, breaks>>
  BY DEF Window, document
<1>3. count \in 0..MaxTokens /\ start \in 0..count /\ chunks \in Seq(Windows) /\ Len(chunks) \in Nat
  BY DEF TypeOK
<1>4. /\ start < to /\ to <= end /\ to - start <= Hard
      /\ to >= start + Target \/ to >= end
      /\ \A b \in Headings : b <= start \/ to <= b
  BY <1>1, <1>2, WindowBounds
<1> DEFINE w == [from |-> start, to |-> to]
<1>5. /\ chunks' \in Seq(Windows) /\ Len(chunks') = Len(chunks) + 1 /\ chunks'[Len(chunks')] = w
      /\ \A i \in DOMAIN chunks : i \in DOMAIN chunks' /\ chunks'[i] = chunks[i]
      /\ \A i \in DOMAIN chunks' : i \in DOMAIN chunks \/ i = Len(chunks')
  <2>1. w \in Windows
    BY <1>3 DEF Windows
  <2> QED
    BY <1>1, <1>3, <2>1
<1>6. start < start' /\ start' <= to
  <2>1. CASE to = end
    BY <1>1, <1>3, <1>4, <2>1
  <2>2. CASE to # end
    <3>1. start' = Larger(start + 1, to - Overlap)
      BY <1>1, <2>2 DEF StepsBack
    <3> QED
      BY <1>3, <1>4, <3>1 DEF Larger
  <2> QED
    BY <2>1, <2>2
<1>7. TypeOK'
  <2>1. start' \in 0..count
    <3>1. start' \in Int
      BY <1>1, <1>3 DEF StepsBack, Larger
    <3> QED
      BY <1>3, <1>6, <3>1
  <2> QED
    BY <1>2, <1>5, <2>1 DEF TypeOK, Tokens
<1>8. NextAdvances'
  <2>1. Last' = w
    BY <1>5 DEF Last
  <2>2. start' = to \/ (start' + Target > to /\ \A b \in Boundaries : start' < b => to < b)
    <3>1. CASE to = end
      BY <1>1, <3>1
    <3>2. CASE to # end
      <4>1. start' = Larger(start + 1, to - Overlap)
        BY <1>1, <3>2 DEF StepsBack
      <4>2. start' + Target > to
        BY <1>3, <1>4, <4>1 DEF Larger
      <4>3. \A b \in Boundaries : b \in Int /\ (start < b => end <= b)
        BY <1>1, <1>3 DEF EndsAt, Boundaries, Headings, Tokens
      <4>4. \A b \in Boundaries : start' < b => to < b
        BY <1>3, <1>4, <1>6, <1>7, <3>2, <4>3 DEF TypeOK
      <4> QED
        BY <4>2, <4>4
    <3> QED
      BY <3>1, <3>2
  <2>3. Boundaries' = Boundaries
    BY <1>2 DEF Boundaries, Headings, Tokens
  <2> QED
    BY <1>6, <2>1, <2>2, <2>3 DEF NextAdvances
<1>9. EveryTokenIsCovered'
  <2> SUFFICES ASSUME NEW t \in 0..(start' - 1)
               PROVE  \E i \in DOMAIN chunks' : chunks'[i].from <= t /\ t < chunks'[i].to
    BY DEF EveryTokenIsCovered
  <2>1. CASE t < start
    <3>1. t \in 0..(start - 1)
      BY <1>3, <2>1
    <3> PICK i \in DOMAIN chunks : chunks[i].from <= t /\ t < chunks[i].to
      BY <3>1 DEF EveryTokenIsCovered
    <3> QED
      BY <1>5
  <2>2. CASE start <= t
    <3>1. Len(chunks') \in DOMAIN chunks'
      BY <1>3, <1>5
    <3>2. t < to
      <4>1. start' \in 0..count
        BY <1>2, <1>7 DEF TypeOK
      <4>2. start' \in Int
        BY <1>3, <4>1
      <4>3. t < start'
        BY <4>2, BelowRange
      <4> QED
        BY <1>3, <1>6, <4>1, <4>3
    <3> QED
      BY <1>5, <2>2, <3>1, <3>2
  <2> QED
    BY <1>3, <2>1, <2>2
<1>10. WindowsAdvance'
  <2>1. Headings' = Headings
    BY <1>2 DEF Headings, Tokens
  <2>2. \A i \in DOMAIN chunks : chunks[i].from < start /\ chunks[i].to < to
    <3> SUFFICES ASSUME NEW i \in DOMAIN chunks PROVE chunks[i].from < start /\ chunks[i].to < to
      OBVIOUS
    <3>1. chunks # <<>> /\ Len(chunks) \in DOMAIN chunks /\ i \in 1..Len(chunks)
      BY <1>3
    <3>2. /\ chunks[i] \in Windows /\ Last \in Windows
      BY <1>3, <3>1 DEF Last
    <3>3. chunks[i].from <= Last.from /\ chunks[i].to <= Last.to
      <4>1. CASE i = Len(chunks)
        BY <3>2, <4>1 DEF Last, Windows
      <4>2. CASE i # Len(chunks)
        <5>1. i \in 1..(Len(chunks) - 1)
          BY <1>3, <3>1, <4>2
        <5>2. chunks[i].from < Last.from /\ chunks[i].to < Last.to
          BY <3>1, <5>1 DEF WindowsAdvance, Last
        <5> QED
          BY <3>2, <5>2 DEF Windows
      <4> QED
        BY <4>1, <4>2
    <3>4. Last.from < start /\ Last.to < to
      <4>1. CASE start = Last.to
        BY <1>3, <1>4, <3>1, <3>2, <4>1 DEF NextAdvances, Windows
      <4>2. CASE start # Last.to
        <5>1. Last.from < start /\ start + Target > Last.to /\ \A b \in Boundaries : start < b => Last.to < b
          BY <3>1, <4>2 DEF NextAdvances
        <5>2. Last.to < end
          BY <1>1, <5>1 DEF EndsAt
        <5> QED
          BY <1>3, <1>4, <3>2, <5>1, <5>2 DEF Windows
      <4> QED
        BY <4>1, <4>2
    <3> QED
      BY <1>3, <3>2, <3>3, <3>4 DEF Windows
  <2> SUFFICES ASSUME NEW j \in DOMAIN chunks'
               PROVE  /\ chunks'[j].from < chunks'[j].to /\ chunks'[j].to - chunks'[j].from <= Hard
                      /\ \A b \in Headings : b <= chunks'[j].from \/ chunks'[j].to <= b
                      /\ \A i \in 1..(j - 1) :
                            chunks'[i].from < chunks'[j].from /\ chunks'[i].to < chunks'[j].to
    BY <2>1 DEF WindowsAdvance
  <2>3. CASE j \in DOMAIN chunks
    <3>1. chunks'[j] = chunks[j] /\ \A i \in 1..(j - 1) : i \in DOMAIN chunks
      BY <1>3, <1>5, <2>3
    <3> QED
      BY <1>5, <2>3, <3>1 DEF WindowsAdvance
  <2>4. CASE j = Len(chunks')
    <3>1. chunks'[j] = w /\ \A i \in 1..(j - 1) : i \in DOMAIN chunks
      BY <1>3, <1>5, <2>4
    <3> QED
      BY <1>4, <1>5, <2>2, <3>1
  <2> QED
    BY <1>5, <2>3, <2>4
<1>11. WindowsInside'
  <2> SUFFICES ASSUME NEW i \in DOMAIN chunks' PROVE chunks'[i].to <= count
    BY <1>2 DEF WindowsInside
  <2>1. CASE i \in DOMAIN chunks
    BY <1>5, <2>1 DEF WindowsInside
  <2>2. CASE i = Len(chunks')
    BY <1>3, <1>5, <2>2
  <2> QED
    BY <1>5, <2>1, <2>2
<1> QED
  BY <1>5, <1>7, <1>8, <1>9, <1>10, <1>11

LEMMA SameInv == ASSUME IInv, UNCHANGED vars PROVE IInv'
BY DEF IInv, TypeOK, NextAdvances, EveryTokenIsCovered, WindowsAdvance, WindowsInside, Last, Boundaries, Headings,
       Tokens, vars, document

LEMMA Invariance == SearchSpec => []IInv
<1>1. SearchInit => IInv
  BY InitInv DEF SearchInit
<1>2. IInv /\ [SearchNext]_allVars => IInv'
  BY WindowStep, SameInv DEF SearchNext, Query, Take, Answered, allVars
<1> QED
  BY <1>1, <1>2, PTL DEF SearchSpec

\* Types of the document and of the windows.
THEOREM TypeCorrect == SearchSpec => []TypeOK
<1>1. IInv => TypeOK
  BY DEF IInv
<1> QED
  BY <1>1, Invariance, PTL

\* No token of a document is lost between two windows, for every target, limit and overlap
\* that the configuration accepts (chunking.py:211-248).
THEOREM TokensCovered == SearchSpec => []EveryTokenIsCovered
<1>1. IInv => EveryTokenIsCovered
  BY DEF IInv
<1> QED
  BY <1>1, Invariance, PTL

\* The windows of a document advance at both ends, keep to the limit and cross no heading
\* (chunking.py:211-248).
THEOREM WindowsDoAdvance == SearchSpec => []WindowsAdvance
<1>1. IInv => WindowsAdvance
  BY DEF IInv
<1> QED
  BY <1>1, Invariance, PTL
-----------------------------------------------------------------------------
(* The parent of a window. *)

\* A set of naturals has a least element, and a greatest if it is bounded.
LEMMA Least ==
    ASSUME NEW S \in SUBSET Nat, S # {}
    PROVE  \E m \in S : \A n \in S : m <= n
<1> DEFINE R == OpToRel(<, Nat)
<1>1. IsWellFoundedOn(R, Nat)
  BY NatLessThanWellFounded
<1>2. \A m, n \in Nat : m < n => <<m, n>> \in R
  BY DEF OpToRel
<1> HIDE DEF R
<1>3. PICK m \in S : \A n \in S : ~(<<n, m>> \in R)
  BY <1>1, WFMin
<1>4. \A n \in S : ~(n < m)
  BY <1>2, <1>3
<1> QED
  BY <1>4

LEMMA Greatest ==
    ASSUME NEW S \in SUBSET Nat, S # {}, NEW top \in Nat, \A n \in S : n <= top
    PROVE  \E m \in S : \A n \in S : n <= m
<1> DEFINE T == {t \in Nat : top - t \in S}
<1>1. \A n \in S : top - n \in T
  OBVIOUS
<1>2. T \in SUBSET Nat /\ T # {}
  BY <1>1
<1>3. PICK t \in T : \A u \in T : t <= u
  BY <1>2, Least
<1>4. top - t \in S /\ \A n \in S : t <= top - n
  BY <1>1, <1>3
<1> QED
  BY <1>4

Surrounds(p, c) == p[1] <= chunks[c].from /\ EndsAt(p[1], p[2]) /\ chunks[c].from < p[2]

\* There is a parent, as the boundaries include 0 and the end of the document, and the
\* whole window lies in it, as it crosses no heading.
LEMMA ParentHolds ==
    ASSUME IInv, NEW c \in Children
    PROVE  /\ ParentOf(c) \in Boundaries \X Boundaries
           /\ ParentOf(c)[1] \in Nat /\ ParentOf(c)[2] \in Nat
           /\ chunks[c].from \in Nat /\ chunks[c].to \in Nat
           /\ ParentOf(c)[1] <= chunks[c].from
           /\ chunks[c].from < chunks[c].to /\ chunks[c].to <= ParentOf(c)[2]
<1>1. count \in Nat /\ c \in DOMAIN chunks /\ chunks \in Seq(Windows)
  BY DEF IInv, TypeOK, Children
<1>2. Boundaries \in SUBSET Nat /\ 0 \in Boundaries /\ count \in Boundaries
  BY <1>1 DEF Boundaries, Headings, Tokens
<1>3. chunks[c] \in Windows
  BY <1>1
<1> DEFINE from == chunks[c].from
           to == chunks[c].to
<1>4. from \in Nat /\ to \in Nat
  BY <1>3 DEF Windows
<1>5. /\ from < to /\ to <= count
      /\ \A b \in Headings : b <= from \/ to <= b
  BY <1>1 DEF IInv, WindowsAdvance, WindowsInside
<1> HIDE DEF from, to
<1> DEFINE below == {b \in Boundaries : b <= from}
           above == {b \in Boundaries : from < b}
<1>6. PICK p1 \in below : \A b \in below : b <= p1
  <2>1. 0 \in below
    BY <1>2, <1>4
  <2>2. below \in SUBSET Nat /\ \A b \in below : b <= from
    BY <1>2
  <2> HIDE DEF below
  <2> QED
    BY <1>4, <2>1, <2>2, Greatest
<1>7. PICK p2 \in above : \A b \in above : p2 <= b
  <2>1. count \in above
    BY <1>1, <1>2, <1>4, <1>5
  <2>2. above \in SUBSET Nat
    BY <1>2
  <2> HIDE DEF above
  <2> QED
    BY <2>1, <2>2, Least
<1>8. \A b \in Boundaries : p1 < b => p2 <= b
  BY <1>2, <1>4, <1>6, <1>7
<1>9. p1 < p2 /\ p1 <= from /\ from < p2 /\ p1 \in Boundaries /\ p2 \in Boundaries
  BY <1>2, <1>4, <1>6, <1>7
<1>10. \E p \in Boundaries \X Boundaries : Surrounds(p, c)
  <2>1. <<p1, p2>> \in Boundaries \X Boundaries
    BY <1>9
  <2>2. Surrounds(<<p1, p2>>, c)
    BY <1>8, <1>9 DEF Surrounds, EndsAt, from
  <2> QED
    BY <2>1, <2>2
<1>11. ParentOf(c) = CHOOSE p \in Boundaries \X Boundaries : Surrounds(p, c)
  BY DEF ParentOf, Surrounds
<1>12. ParentOf(c) \in Boundaries \X Boundaries /\ Surrounds(ParentOf(c), c)
  BY <1>10, <1>11
<1>13. ParentOf(c)[1] \in Boundaries /\ ParentOf(c)[2] \in Boundaries
  BY <1>12
<1>14. ParentOf(c)[1] <= from /\ from < ParentOf(c)[2]
  BY <1>12 DEF Surrounds, from
<1>15. to <= ParentOf(c)[2]
  BY <1>2, <1>4, <1>5, <1>13, <1>14 DEF Boundaries
<1> QED
  BY <1>2, <1>4, <1>5, <1>12, <1>13, <1>14, <1>15 DEF from, to

-----------------------------------------------------------------------------
(* The text around a match. *)

Holds(context, c) ==
    /\ Within(Itself(c), context) /\ Length(context) <= Budget
    /\ ParentOf(c)[1] <= context.from /\ context.to <= ParentOf(c)[2]

\* The neighbours that a window has are those before it and after it, or it itself.
LEMMA AdjacentHolds ==
    ASSUME IInv, NEW c \in Children, Length(Itself(c)) <= Budget
    PROVE  Holds(Adjacent(c), c)
<1> DEFINE near == Neighbours(c)
           first == CHOOSE d \in near : \A e \in near : d <= e
           last == CHOOSE d \in near : \A e \in near : e <= d
           wide == Range("range", chunks[first].from, chunks[last].to)
<1>1. /\ chunks[c].from \in Nat /\ chunks[c].to \in Nat
      /\ ParentOf(c)[1] <= chunks[c].from /\ chunks[c].to <= ParentOf(c)[2]
  BY ParentHolds
<1>2. Holds(Itself(c), c)
  BY <1>1 DEF Holds, Within, Itself, Range
<1>3. DOMAIN chunks = 1..Len(chunks) /\ Len(chunks) \in Nat
  BY DEF IInv, TypeOK
<1>4. near \subseteq Children /\ near \subseteq (c - 1)..(c + 1) /\ c \in near /\ c \in Nat
  BY <1>3 DEF Neighbours, Children
<1>5. \A d \in near : d = c - 1 \/ d = c \/ d = c + 1
  BY <1>4
<1>6. first \in near /\ first <= c
  <2>1. \E d \in near : \A e \in near : d <= e
    <3>1. CASE c - 1 \in near
      BY <1>4, <1>5, <3>1
    <3>2. CASE c - 1 \notin near
      BY <1>4, <1>5, <3>2
    <3> QED
      BY <3>1, <3>2
  <2> HIDE DEF near
  <2>2. first \in near /\ \A e \in near : first <= e
    BY <2>1
  <2> QED
    BY <1>4, <2>2
<1>7. last \in near /\ c <= last
  <2>1. \E d \in near : \A e \in near : e <= d
    <3>1. CASE c + 1 \in near
      BY <1>4, <1>5, <3>1
    <3>2. CASE c + 1 \notin near
      BY <1>4, <1>5, <3>2
    <3> QED
      BY <3>1, <3>2
  <2> HIDE DEF near
  <2>2. last \in near /\ \A e \in near : e <= last
    BY <2>1
  <2> QED
    BY <1>4, <2>2
<1>8. \A d \in near : ParentOf(d) = ParentOf(c)
  BY DEF Neighbours
<1> HIDE DEF near, first, last
<1>9. /\ chunks[first].from \in Nat /\ chunks[last].to \in Nat
      /\ ParentOf(c)[1] <= chunks[first].from /\ chunks[last].to <= ParentOf(c)[2]
  BY <1>4, <1>6, <1>7, <1>8, ParentHolds
<1>10. chunks[first].from <= chunks[c].from
  <2>1. CASE first = c
    BY <1>1, <2>1
  <2>2. CASE first # c
    <3>1. first \in 1..(c - 1) /\ c \in DOMAIN chunks
      BY <1>3, <1>4, <1>6, <2>2 DEF Children
    <3> QED
      BY <1>1, <1>9, <3>1 DEF IInv, WindowsAdvance
  <2> QED
    BY <2>1, <2>2
<1>11. chunks[c].to <= chunks[last].to
  <2>1. CASE last = c
    BY <1>1, <2>1
  <2>2. CASE last # c
    <3>1. c \in 1..(last - 1) /\ last \in DOMAIN chunks
      BY <1>3, <1>4, <1>7, <2>2 DEF Children
    <3> QED
      BY <1>1, <1>9, <3>1 DEF IInv, WindowsAdvance
  <2> QED
    BY <2>1, <2>2
<1>12. Adjacent(c) = IF Length(wide) > Budget THEN Itself(c) ELSE wide
  BY DEF Adjacent, near, first, last
<1>13. CASE Length(wide) > Budget
  BY <1>2, <1>12, <1>13
<1>14. CASE ~(Length(wide) > Budget)
  <2>1. Adjacent(c) = wide
    BY <1>12, <1>14
  <2>2. Length(wide) <= Budget
    BY <1>9, <1>14, SearchAssumption DEF Length, Range, SearchAssumption
  <2>3. Within(Itself(c), wide) /\ ParentOf(c)[1] <= wide.from /\ wide.to <= ParentOf(c)[2]
    BY <1>9, <1>10, <1>11 DEF Within, Itself, Range
  <2> QED
    BY <2>1, <2>2, <2>3 DEF Holds
<1> QED
  BY <1>13, <1>14

\* What is cut from the parent: neither half of the rest of the budget, nor what is moved
\* from behind the end of the parent to the front, cuts the match.
LEMMA InParentHolds ==
    ASSUME IInv, NEW c \in Children, Length(Itself(c)) <= Budget
    PROVE  Holds(InParent(c), c)
<1> DEFINE p1 == ParentOf(c)[1]
           p2 == ParentOf(c)[2]
           from == chunks[c].from
           to == chunks[c].to
<1>1. /\ p1 \in Nat /\ p2 \in Nat /\ from \in Nat /\ to \in Nat
      /\ p1 <= from /\ from < to /\ to <= p2
  BY ParentHolds
<1>2. Length(Itself(c)) = to - from /\ Budget \in Nat
  BY SearchAssumption DEF Length, Itself, Range, SearchAssumption
<1>3. to - from <= Budget
  BY <1>2
<1>4. CASE p2 - p1 <= Budget
  <2>1. InParent(c) = Range("parent", p1, p2)
    BY <1>4 DEF InParent
  <2> QED
    BY <1>1, <1>4, <2>1 DEF Holds, Within, Length, Itself, Range
<1>5. CASE ~(p2 - p1 <= Budget)
  <2> DEFINE before == Before(c)
             begin == Larger(p1, from - before)
             end == Smaller(p2, begin + Budget)
             clip == Larger(p1, end - Budget)
  <2>1. before \in Nat /\ before <= Budget - (to - from)
    <3>1. Larger(0, Budget - (to - from)) = Budget - (to - from)
      BY <1>1, <1>2, <1>3 DEF Larger
    <3> DEFINE rest == Budget - (to - from)
    <3>2. rest \in Nat
      BY <1>1, <1>2, <1>3
    <3>3. before = rest \div 2
      BY <1>2, <3>1 DEF Before
    <3> HIDE DEF rest
    <3>4. rest \div 2 \in Nat /\ rest \div 2 <= rest
      BY <3>2
    <3> QED
      BY <3>3, <3>4 DEF rest
  <2> HIDE DEF before
  <2>2. begin \in Nat /\ p1 <= begin /\ begin <= from /\ from - before <= begin
    BY <1>1, <2>1 DEF Larger
  <2> HIDE DEF begin
  <2>3. end \in Nat /\ to <= end /\ end <= p2 /\ end - Budget <= begin
    BY <1>1, <1>2, <2>1, <2>2 DEF Smaller
  <2> HIDE DEF end
  <2>4. clip \in Nat /\ p1 <= clip /\ clip <= from /\ end - clip <= Budget
    BY <1>1, <1>2, <2>2, <2>3 DEF Larger
  <2>5. InParent(c) = Range("range", clip, end)
    BY <1>5 DEF InParent, Clipped, clip, end, begin, before
  <2> HIDE DEF clip
  <2> QED
    BY <2>3, <2>4, <2>5 DEF Holds, Within, Length, Itself, Range
<1> QED
  BY <1>4, <1>5

Strategies == {"child", "adjacent", "parent"}

LEMMA ContextHolds ==
    ASSUME IInv, NEW c \in Children, Length(Itself(c)) <= Budget, query.strategy \in Strategies
    PROVE  Holds(Context(c), c)
<1>1. CASE query.strategy = "child"
  <2>1. Context(c) = [kind |-> "chunk", from |-> chunks[c].from, to |-> chunks[c].to]
    BY <1>1 DEF Context, Itself, Range
  <2> QED
    BY <2>1, ParentHolds DEF Holds, Within, Length, Itself, Range
<1>2. CASE query.strategy = "adjacent"
  BY <1>2, AdjacentHolds DEF Context
<1>3. CASE query.strategy = "parent"
  BY <1>3, InParentHolds DEF Context
<1> QED
  BY <1>1, <1>2, <1>3 DEF Strategies

-----------------------------------------------------------------------------
(* The search: once there is a query the document is cut, so that contexts and *)
(* scores stay what they are. *)

Entries == {[child |-> c, context |-> Context(c)] : c \in Fused}

SearchInv ==
    /\ query = NoQuery => taken = {} /\ results = <<>>
    /\ query # NoQuery => /\ Done
                          /\ query.strategy \in Strategies
                          /\ query.words \in Seq(Children) /\ query.vectors \in Seq(Children)
    /\ taken \subseteq Fused /\ results \in Seq(Entries)

\* What the loop has looked at is among the results, by itself or by a context that
\* another has, too.
TakenAreShown == \A c \in taken : Shown(c)

LEMMA NoneFused == ASSUME query = NoQuery PROVE Fused = {}
<1>1. DOMAIN query.words = {} /\ DOMAIN query.vectors = {}
  BY DEF NoQuery
<1> QED
  BY <1>1 DEF Fused, In

LEMMA SearchInitInv == SearchInit => SearchInv /\ TakenAreShown
BY DEF SearchInit, SearchInv, TakenAreShown

\* The parts of the search that no step after the query changes.
LEMMA SameQuery ==
    ASSUME UNCHANGED <<vars, query>>
    PROVE  /\ Fused' = Fused /\ Children' = Children /\ Entries' = Entries /\ Done' = Done
           /\ \A c : Context(c)' = Context(c) /\ ParentOf(c)' = ParentOf(c) /\ Itself(c)' = Itself(c)
           /\ \A c, d : Dominates(c, d)' = Dominates(c, d)
<1>1. /\ UNCHANGED <<count, level, breaks, start, chunks, query>>
  BY DEF vars, document
<1>2. Boundaries' = Boundaries
  BY <1>1 DEF Boundaries, Headings, Tokens
<1>3. \A c : ParentOf(c)' = ParentOf(c)
  BY <1>1, <1>2 DEF ParentOf, EndsAt
<1>4. \A c : Itself(c)' = Itself(c)
  BY <1>1 DEF Itself
<1>5. Fused' = Fused /\ Children' = Children /\ Done' = Done
  BY <1>1 DEF Fused, Children, Done
<1>6. \A c : Neighbours(c)' = Neighbours(c)
  BY <1>3, <1>5 DEF Neighbours
<1>7. \A c : Adjacent(c)' = Adjacent(c)
  <2> DEFINE First(near) == CHOOSE d \in near : \A e \in near : d <= e
             End(near) == CHOOSE d \in near : \A e \in near : e <= d
             Wide(near) == Range("range", chunks[First(near)].from, chunks[End(near)].to)
             Around(c, near) == IF Length(Wide(near)) > Budget THEN Itself(c) ELSE Wide(near)
  <2>1. \A c : Adjacent(c) = Around(c, Neighbours(c))
    BY DEF Adjacent
  <2>2. \A c : Adjacent(c)' = Around(c, Neighbours(c))'
    BY DEF Adjacent
  <2>3. \A near : Wide(near)' = Wide(near)
    BY <1>1
  <2> HIDE DEF Wide
  <2>4. \A c : Around(c, Neighbours(c))' = Around(c, Neighbours(c))
    BY <1>4, <1>6, <2>3
  <2> HIDE DEF Around
  <2> QED
    BY <2>1, <2>2, <2>4
<1>8. \A c : InParent(c)' = InParent(c)
  BY <1>1, <1>3, <1>4 DEF InParent, Clipped, Before
<1>9. \A c : Context(c)' = Context(c)
  BY <1>1, <1>4, <1>7, <1>8 DEF Context
<1>10. Entries' = Entries
  BY <1>5, <1>9 DEF Entries
<1>11. \A c, d : Dominates(c, d)' = Dominates(c, d)
  BY <1>1 DEF Dominates, NoWorse, Precedes
<1> QED
  BY <1>3, <1>4, <1>5, <1>9, <1>10, <1>11

LEMMA QuerySearch == ASSUME IInv, SearchInv, Query PROVE SearchInv' /\ taken' = {} /\ results' = <<>>
<1>1. /\ Done /\ query = NoQuery /\ UNCHANGED <<vars, taken, results>>
  BY DEF Query
<1>2. taken = {} /\ results = <<>>
  BY <1>1 DEF SearchInv
<1>3. PICK strategy \in {"child", "adjacent", "parent"},
           n \in 0..Smaller(Candidates, Len(chunks)), k \in {0, Smaller(Candidates, Len(chunks))} :
        \E w \in Rankings(n), v \in Rankings(k) :
            query' = [strategy |-> strategy, words |-> w, vectors |-> v]
  BY DEF Query
<1>4. PICK w \in Rankings(n), v \in Rankings(k) :
        query' = [strategy |-> strategy, words |-> w, vectors |-> v]
  BY <1>3
<1>5. n \in Nat /\ k \in Nat
  <2>1. Smaller(Candidates, Len(chunks)) \in Nat
    BY SearchAssumption DEF SearchAssumption, Smaller, IInv, TypeOK
  <2> QED
    BY <2>1
<1>6. w \in Seq(Children) /\ v \in Seq(Children)
  BY <1>5 DEF Rankings
<1>7. Done' /\ Children' = Children
  BY <1>1 DEF Done, Children, vars, document
<1> QED
  BY <1>1, <1>2, <1>4, <1>6, <1>7 DEF SearchInv, Strategies

LEMMA TakeSearch == ASSUME SearchInv, TakenAreShown, Take PROVE SearchInv' /\ TakenAreShown'
<1>1. PICK c \in Fused \ taken :
        /\ taken' = taken \cup {c}
        /\ results' = IF Shown(c) THEN results
                      ELSE Append(results, [child |-> c, context |-> Context(c)])
  BY DEF Take
<1>2. UNCHANGED <<vars, query>>
  BY DEF Take
<1>3. query # NoQuery
  BY NoneFused
<1>4. results \in Seq(Entries) /\ [child |-> c, context |-> Context(c)] \in Entries
  BY DEF SearchInv, Entries
<1>5. results' \in Seq(Entries)
  BY <1>1, <1>4
<1>6. \A r \in DOMAIN results : r \in DOMAIN results' /\ results'[r] = results[r]
  BY <1>1, <1>4
<1>7. SearchInv'
  BY <1>1, <1>2, <1>3, <1>5, SameQuery DEF SearchInv
<1>8. \A d \in taken : Shown(d)'
  BY <1>2, <1>6, SameQuery DEF TakenAreShown, Shown
<1>9. Shown(c)'
  <2>1. CASE Shown(c)
    BY <1>2, <1>6, <2>1, SameQuery DEF Shown
  <2>2. CASE ~Shown(c)
    <3>1. results' = Append(results, [child |-> c, context |-> Context(c)])
      BY <1>1, <2>2
    <3>2. Len(results') \in DOMAIN results' /\ results'[Len(results')].context = Context(c)
      BY <1>4, <3>1
    <3> QED
      BY <1>2, <3>2, SameQuery DEF Shown
  <2> QED
    BY <2>1, <2>2
<1> QED
  BY <1>1, <1>7, <1>8, <1>9 DEF TakenAreShown

LEMMA StutterSearch ==
    ASSUME SearchInv, TakenAreShown, UNCHANGED allVars PROVE SearchInv' /\ TakenAreShown'
BY SameQuery DEF SearchInv, TakenAreShown, Shown, allVars, search

LEMMA WindowSearch ==
    ASSUME IInv, SearchInv, TakenAreShown, Window, UNCHANGED search PROVE SearchInv' /\ TakenAreShown'
<1>1. query = NoQuery
  BY DEF Window, SearchInv, Done, IInv, TypeOK
<1> QED
  BY <1>1 DEF SearchInv, TakenAreShown, search

LEMMA SearchInvariance == SearchSpec => [](IInv /\ SearchInv /\ TakenAreShown)
<1>1. IInv /\ SearchInv /\ TakenAreShown /\ [SearchNext]_allVars => SearchInv' /\ TakenAreShown'
  <2> SUFFICES ASSUME IInv, SearchInv, TakenAreShown, [SearchNext]_allVars
               PROVE  SearchInv' /\ TakenAreShown'
    OBVIOUS
  <2>1. CASE Window /\ UNCHANGED search
    BY <2>1, WindowSearch
  <2>2. CASE Query
    BY <2>2, QuerySearch DEF TakenAreShown
  <2>3. CASE Take
    BY <2>3, TakeSearch
  <2>4. CASE Answered \/ UNCHANGED allVars
    BY <2>4, StutterSearch DEF Answered
  <2> QED
    BY <2>1, <2>2, <2>3, <2>4 DEF SearchNext
<1> QED
  BY <1>1, SearchInitInv, Invariance, PTL DEF SearchSpec

\* For every strategy, budget and document, a context holds the match that it is shown
\* for if the budget allows it, and stays in the parent (index.py:378-460).
THEOREM MatchIsHeld == SearchSpec => []ContextHoldsMatch
<1>1. IInv /\ SearchInv => ContextHoldsMatch
  <2> SUFFICES ASSUME IInv, SearchInv, NEW r \in DOMAIN results,
                      Length(Itself(results[r].child)) <= Budget
               PROVE  Holds(results[r].context, results[r].child)
    BY DEF ContextHoldsMatch, Holds
  <2>1. results[r] \in Entries
    BY DEF SearchInv
  <2>2. results[r].child \in Children /\ results[r].context = Context(results[r].child)
    BY <2>1 DEF Entries, Fused
  <2>3. query.strategy \in Strategies
    BY DEF SearchInv
  <2> QED
    BY <2>2, <2>3, ContextHolds
<1> QED
  BY <1>1, SearchInvariance, PTL

-----------------------------------------------------------------------------
(* The order of the results. *)

LEMMA WeightOfRank ==
    ASSUME NEW ranking \in Seq(Children), NEW c
    PROVE  /\ Weight(ranking, c) \in Nat
           /\ In(ranking, c) => /\ Rank(ranking, c) \in Nat
                                /\ Weight(ranking, c) = K + Rank(ranking, c) /\ Weight(ranking, c) > 0
           /\ ~In(ranking, c) => Weight(ranking, c) = 0
<1>1. CASE In(ranking, c)
  <2>1. DOMAIN ranking \subseteq Nat
    OBVIOUS
  <2>2. Rank(ranking, c) \in DOMAIN ranking
    BY <1>1 DEF In, Rank
  <2> QED
    BY <1>1, <2>1, <2>2, SearchAssumption DEF Weight, SearchAssumption
<1>2. CASE ~In(ranking, c)
  BY <1>2 DEF Weight
<1> QED
  BY <1>1, <1>2

\* Multiplying by a larger number.
LEMMA Product == ASSUME NEW a \in Nat, NEW b \in Nat, NEW x \in Nat, a < b, x > 0 PROVE a * x < b * x
OBVIOUS

\* The sum of 1/a and 1/b is more than that of 1/c and 1/d.
LEMMA Fractions ==
    ASSUME NEW a \in Nat, NEW b \in Nat, NEW c \in Nat, NEW d \in Nat,
           a > 0, b > 0, a < c, b < d
    PROVE  (a + b) * (c * d) > (c + d) * (a * b)
<1> DEFINE ac == a * c
           bd == b * d
<1>1. ac \in Nat /\ bd \in Nat /\ ac > 0 /\ bd > 0
  OBVIOUS
<1>2. b * ac < d * ac
  BY <1>1, Product
<1>3. a * bd < c * bd
  BY <1>1, Product
<1>4. (a + b) * (c * d) = d * ac + c * bd
  OBVIOUS
<1>5. (c + d) * (a * b) = b * ac + a * bd
  OBVIOUS
<1> HIDE DEF ac, bd
<1> QED
  BY <1>1, <1>2, <1>3, <1>4, <1>5

LEMMA DominatesOutscores ==
    ASSUME query.words \in Seq(Children), query.vectors \in Seq(Children),
           NEW c \in Fused, NEW d \in Fused, Dominates(c, d)
    PROVE  Outscores(c, d)
<1> DEFINE cw == Weight(query.words, c)
           cv == Weight(query.vectors, c)
           dw == Weight(query.words, d)
           dv == Weight(query.vectors, d)
<1>1. cw \in Nat /\ cv \in Nat /\ dw \in Nat /\ dv \in Nat
  BY WeightOfRank
<1>2. Precedes(query.words, c, d) => cw > 0 /\ (dw = 0 \/ cw < dw)
  <2> SUFFICES ASSUME Precedes(query.words, c, d) PROVE cw > 0 /\ (dw = 0 \/ cw < dw)
    OBVIOUS
  <2>1. In(query.words, c) /\ (In(query.words, d) => Rank(query.words, c) < Rank(query.words, d))
    BY DEF Precedes
  <2> QED
    BY <2>1, WeightOfRank, SearchAssumption DEF SearchAssumption
<1>3. Precedes(query.vectors, c, d) => cv > 0 /\ (dv = 0 \/ cv < dv)
  <2> SUFFICES ASSUME Precedes(query.vectors, c, d) PROVE cv > 0 /\ (dv = 0 \/ cv < dv)
    OBVIOUS
  <2>1. In(query.vectors, c) /\ (In(query.vectors, d) => Rank(query.vectors, c) < Rank(query.vectors, d))
    BY DEF Precedes
  <2> QED
    BY <2>1, WeightOfRank, SearchAssumption DEF SearchAssumption
<1>4. ~In(query.words, c) /\ ~In(query.words, d) => cw = 0 /\ dw = 0
  BY WeightOfRank
<1>5. ~In(query.vectors, c) /\ ~In(query.vectors, d) => cv = 0 /\ dv = 0
  BY WeightOfRank
<1>6. dw > 0 \/ dv > 0
  BY WeightOfRank DEF Fused
<1>7. /\ (cw > 0 /\ (dw = 0 \/ cw < dw)) \/ (cw = 0 /\ dw = 0)
      /\ (cv > 0 /\ (dv = 0 \/ cv < dv)) \/ (cv = 0 /\ dv = 0)
  BY <1>2, <1>3, <1>4, <1>5 DEF Dominates, NoWorse
<1>8. Outscores(c, d) <=> Numerator(cw, cv) * Denominator(dw, dv) > Numerator(dw, dv) * Denominator(cw, cv)
  BY DEF Outscores
<1> HIDE DEF cw, cv, dw, dv
<1>9. CASE cw = 0 \/ cv = 0
  BY <1>1, <1>6, <1>7, <1>8, <1>9 DEF Numerator, Denominator
<1>10. CASE cw > 0 /\ cv > 0 /\ dw > 0 /\ dv > 0
  <2>1. (cw + cv) * (dw * dv) > (dw + dv) * (cw * cv)
    BY <1>1, <1>7, <1>10, Fractions
  <2> QED
    BY <1>1, <1>8, <1>10, <2>1 DEF Numerator, Denominator
<1>11. CASE cw > 0 /\ cv > 0 /\ dw = 0
  <2>1. cv * cw < dv * cw /\ cv * dv > 0
    BY <1>1, <1>6, <1>7, <1>11, Product
  <2>2. (cw + cv) * dv = dv * cw + cv * dv /\ cv * cw = cw * cv
    BY <1>1
  <2>3. cv * cw \in Nat /\ dv * cw \in Nat /\ cv * dv \in Nat
    BY <1>1
  <2>4. (cw + cv) * dv > 1 * (cw * cv)
    BY <2>1, <2>2, <2>3
  <2> QED
    BY <1>1, <1>8, <1>11, <2>4 DEF Numerator, Denominator
<1>12. CASE cw > 0 /\ cv > 0 /\ dv = 0
  <2>1. cw * cv < dw * cv /\ cw * dw > 0
    BY <1>1, <1>6, <1>7, <1>12, Product
  <2>2. (cw + cv) * dw = dw * cv + cw * dw
    BY <1>1
  <2>3. cw * cv \in Nat /\ dw * cv \in Nat /\ cw * dw \in Nat
    BY <1>1
  <2>4. (cw + cv) * dw > 1 * (cw * cv)
    BY <2>1, <2>2, <2>3
  <2> QED
    BY <1>1, <1>6, <1>8, <1>12, <2>4 DEF Numerator, Denominator
<1> QED
  BY <1>1, <1>9, <1>10, <1>11, <1>12

\* A new result comes when all that dominate it have been taken.
LEMMA TakeAgrees == ASSUME SearchInv, TakenAreShown, AgreementIsKept, Take PROVE AgreementIsKept'
<1>1. PICK c \in Fused \ taken :
        /\ Better(c) = {}
        /\ results' = IF Shown(c) THEN results
                      ELSE Append(results, [child |-> c, context |-> Context(c)])
  BY DEF Take
<1>2. UNCHANGED <<vars, query>>
  BY DEF Take
<1>3. query # NoQuery
  BY NoneFused
<1>4. /\ Fused' = Fused
      /\ \A d : Context(d)' = Context(d)
      /\ \A d, e : Dominates(d, e)' = Dominates(d, e)
  BY <1>2, SameQuery
<1>5. results \in Seq(Entries) /\ Len(results) \in Nat /\ DOMAIN results = 1..Len(results)
  BY DEF SearchInv
<1>6. CASE Shown(c)
  <2>1. results' = results
    BY <1>1, <1>6
  <2> QED
    BY <1>4, <2>1 DEF AgreementIsKept
<1>7. CASE ~Shown(c)
  <2>1. results' = Append(results, [child |-> c, context |-> Context(c)])
    BY <1>1, <1>7
  <2> DEFINE n == Len(results) + 1
  <2>2. /\ DOMAIN results' = 1..n /\ results'[n].child = c
        /\ \A i \in 1..Len(results) : results'[i] = results[i]
    BY <1>5, <2>1
  <2> SUFFICES ASSUME NEW j \in 1..n, NEW d \in Fused, Dominates(d, results'[j].child)
               PROVE  \E i \in 1..(j - 1) : results'[i].context = Context(d)
    BY <1>4, <2>2 DEF AgreementIsKept
  <2>3. CASE j \in 1..Len(results)
    <3>1. Dominates(d, results[j].child)
      BY <2>2, <2>3
    <3>2. PICK i \in 1..(j - 1) : results[i].context = Context(d)
      BY <1>5, <2>3, <3>1 DEF AgreementIsKept
    <3> QED
      BY <1>5, <2>2, <2>3, <3>2
  <2>4. CASE j = n
    <3>1. Outscores(d, c)
      BY <1>3, <2>2, <2>4, DominatesOutscores DEF SearchInv
    <3>2. d \in taken
      BY <1>1, <3>1 DEF Better
    <3>3. PICK i \in DOMAIN results : results[i].context = Context(d)
      BY <3>2 DEF TakenAreShown, Shown
    <3> QED
      BY <1>5, <2>2, <2>4, <3>3
  <2> QED
    BY <1>5, <2>3, <2>4
<1> QED
  BY <1>6, <1>7

\* Whatever the rankings and rrf_k: what both rankings agree on is the order of the
\* results (fusion.py:6-15, index.py:328-376).
THEOREM AgreementKept == SearchSpec => []AgreementIsKept
<1>1. SearchInit => AgreementIsKept
  BY DEF SearchInit, AgreementIsKept
<1>2. IInv /\ SearchInv /\ TakenAreShown /\ AgreementIsKept /\ [SearchNext]_allVars => AgreementIsKept'
  <2> SUFFICES ASSUME IInv, SearchInv, TakenAreShown, AgreementIsKept, [SearchNext]_allVars
               PROVE  AgreementIsKept'
    OBVIOUS
  <2>1. CASE Window /\ UNCHANGED search
    <3>1. query = NoQuery
      BY <2>1 DEF Window, SearchInv, Done, IInv, TypeOK
    <3> QED
      BY <2>1, <3>1 DEF SearchInv, AgreementIsKept, search
  <2>2. CASE Query
    BY <2>2, QuerySearch DEF AgreementIsKept
  <2>3. CASE Take
    BY <2>3, TakeAgrees
  <2>4. CASE Answered \/ UNCHANGED allVars
    <3>1. UNCHANGED <<vars, query, results>>
      BY <2>4 DEF Answered, allVars, search
    <3> QED
      BY <3>1, SameQuery DEF AgreementIsKept
  <2> QED
    BY <2>1, <2>2, <2>3, <2>4 DEF SearchNext
<1> QED
  BY <1>1, <1>2, SearchInvariance, PTL DEF SearchSpec

-----------------------------------------------------------------------------
(* The titles. *)

LEMMA Induction ==
    ASSUME NEW S, 0 \in S, \A n \in Nat : n \in S => n + 1 \in S
    PROVE  Nat \subseteq S
<1> SUFFICES ASSUME Nat \ S # {} PROVE FALSE
  OBVIOUS
<1>1. PICK m \in Nat \ S : \A n \in Nat \ S : m <= n
  BY Least
<1>2. m - 1 \in Nat
  BY <1>1
<1>3. m - 1 \in S
  BY <1>1, <1>2
<1> QED
  BY <1>1, <1>2, <1>3

\* The path at a token, from the paths of those before it.
PathAt(path, t) ==
    IF t = -1 THEN <<>>
    ELSE IF t \in Headings THEN Append(Kept(path[t - 1], level[t]), t)
    ELSE path[t - 1]

IsPathUpTo(path, n) == path = [t \in -1..(n - 1) |-> PathAt(path, t)]

\* The recursion defines a path for every token.
LEMMA PathExists == ASSUME NEW n \in Nat PROVE \E path : IsPathUpTo(path, n)
<1> DEFINE S == {m \in Nat : \E path : IsPathUpTo(path, m)}
<1>1. 0 \in S
  <2> DEFINE first == [t \in -1..(0 - 1) |-> <<>>]
  <2>1. \A t \in -1..(0 - 1) : t = -1
    OBVIOUS
  <2>2. first = [t \in -1..(0 - 1) |-> PathAt(first, t)]
    BY <2>1 DEF PathAt
  <2> HIDE DEF first
  <2>3. IsPathUpTo(first, 0)
    BY <2>2 DEF IsPathUpTo
  <2> QED
    BY <2>3
<1>2. \A m \in Nat : m \in S => m + 1 \in S
  <2> SUFFICES ASSUME NEW m \in Nat, NEW path, IsPathUpTo(path, m)
               PROVE  \E g : IsPathUpTo(g, m + 1)
    OBVIOUS
  <2> DEFINE longer == [t \in -1..m |-> IF t = m THEN PathAt(path, m) ELSE path[t]]
  <2>1. \A t \in -1..(m - 1) : path[t] = PathAt(path, t) /\ longer[t] = path[t]
    BY DEF IsPathUpTo
  <2>2. \A t \in -1..m : PathAt(longer, t) = PathAt(path, t)
    <3> SUFFICES ASSUME NEW t \in -1..m PROVE PathAt(longer, t) = PathAt(path, t)
      OBVIOUS
    <3>1. CASE t = -1
      BY <3>1 DEF PathAt
    <3>2. CASE t # -1
      <4>1. t - 1 \in -1..(m - 1)
        BY <3>2
      <4>2. longer[t - 1] = path[t - 1]
        BY <2>1, <4>1
      <4> HIDE DEF longer
      <4> QED
        BY <4>2 DEF PathAt
    <3> QED
      BY <3>1, <3>2
  <2>3. \A t \in -1..m : longer[t] = PathAt(longer, t)
    <3> SUFFICES ASSUME NEW t \in -1..m PROVE longer[t] = PathAt(longer, t)
      OBVIOUS
    <3>1. CASE t = m
      BY <2>2, <3>1
    <3>2. CASE t # m
      <4>1. t \in -1..(m - 1)
        BY <3>2
      <4> QED
        BY <2>1, <2>2, <4>1
    <3> QED
      BY <3>1, <3>2
  <2>4. longer = [t \in -1..m |-> longer[t]]
    OBVIOUS
  <2> HIDE DEF longer
  <2>5. longer = [t \in -1..((m + 1) - 1) |-> PathAt(longer, t)]
    BY <2>3, <2>4
  <2> QED
    BY <2>5 DEF IsPathUpTo
<1> HIDE DEF S
<1>3. n \in S
  BY <1>1, <1>2, Induction
<1> QED
  BY <1>3 DEF S

LEMMA TitlePathAt ==
    ASSUME count \in Nat, NEW t \in -1..(count - 1) PROVE TitlePath[t] = PathAt(TitlePath, t)
<1>1. TitlePath = CHOOSE path : IsPathUpTo(path, count)
  BY DEF TitlePath, IsPathUpTo, PathAt
<1>2. IsPathUpTo(TitlePath, count)
  BY <1>1, PathExists
<1> HIDE DEF TitlePath
<1> QED
  BY <1>2 DEF IsPathUpTo

\* The path at a token has the headings of the sections that it lies in, each no deeper in
\* the path than its level says: therefore a later heading of a higher level keeps it.
PathIsGood(t) ==
    /\ TitlePath[t] \in Seq(Headings)
    /\ \A k \in DOMAIN TitlePath[t] : k <= level[TitlePath[t][k]]
    /\ \A h \in Headings : LiesIn(t, h) => \E k \in DOMAIN TitlePath[t] : TitlePath[t][k] = h

LEMMA Prefix ==
    ASSUME NEW S, NEW s \in Seq(S), NEW n \in Nat, n <= Len(s)
    PROVE  /\ SubSeq(s, 1, n) \in Seq(S) /\ Len(SubSeq(s, 1, n)) = n
           /\ \A k \in 1..n : SubSeq(s, 1, n)[k] = s[k]
<1>1. Len(SubSeq(s, 1, n)) = n
  OBVIOUS
<1>2. \A k \in 1..n : SubSeq(s, 1, n)[k] = s[k]
  OBVIOUS
<1>3. \A k \in 1..n : s[k] \in S
  OBVIOUS
<1>4. SubSeq(s, 1, n) \in Seq(S)
  BY <1>3
<1> QED
  BY <1>1, <1>2, <1>4

LEMMA GoodStep ==
    ASSUME TypeOK, NEW t \in Tokens, PathIsGood(t - 1) PROVE PathIsGood(t)
<1>1. count \in Nat /\ level \in [Tokens -> Nat] /\ Headings \subseteq Nat /\ t \in Nat
  BY DEF TypeOK, Headings, Tokens
<1>2. TitlePath[t] = IF t \in Headings THEN Append(Kept(TitlePath[t - 1], level[t]), t) ELSE TitlePath[t - 1]
  <2>1. t \in -1..(count - 1) /\ t # -1
    BY <1>1 DEF Tokens
  <2> QED
    BY <1>1, <2>1, TitlePathAt DEF PathAt
<1> DEFINE old == TitlePath[t - 1]
           new == TitlePath[t]
<1>3. /\ old \in Seq(Headings)
      /\ \A k \in DOMAIN old : k <= level[old[k]]
      /\ \A h \in Headings : LiesIn(t - 1, h) => \E k \in DOMAIN old : old[k] = h
  BY DEF PathIsGood
<1>4. \A h \in Headings : LiesIn(t, h) /\ h # t => LiesIn(t - 1, h)
  BY <1>1 DEF LiesIn
<1> HIDE DEF old
<1>5. CASE t \notin Headings
  <2>1. new = old
    BY <1>2, <1>5 DEF old
  <2>2. \A h \in Headings : h # t
    BY <1>5
  <2> QED
    BY <1>3, <1>4, <2>1, <2>2 DEF PathIsGood
<1>6. CASE t \in Headings
  <2> DEFINE n == level[t]
             kept == Kept(old, n)
  <2>1. n \in Nat /\ n > 0
    BY <1>1, <1>6 DEF Headings
  <2>2. Len(old) \in Nat /\ DOMAIN old = 1..Len(old)
    BY <1>3
  <2> HIDE DEF n
  <2>3. PICK size \in Nat :
            /\ size <= n - 1 /\ size <= Len(old) /\ (size = n - 1 \/ size = Len(old))
            /\ size = Smaller(n - 1, Len(old))
    <3> DEFINE size == Smaller(n - 1, Len(old))
    <3>1. size = n - 1 \/ size = Len(old)
      BY DEF Smaller
    <3>2. size \in Int /\ size <= n - 1 /\ size <= Len(old)
      BY <2>1, <2>2 DEF Smaller
    <3>3. size \in Nat
      BY <2>1, <2>2, <3>1
    <3> QED
      BY <3>1, <3>2, <3>3
  <2>4. kept = SubSeq(old, 1, size)
    BY <2>3 DEF Kept
  <2> HIDE DEF kept
  <2>5. kept \in Seq(Headings) /\ Len(kept) = size /\ \A k \in 1..size : kept[k] = old[k]
    BY <1>3, <2>3, <2>4, Prefix
  <2>6. new = Append(kept, t)
    BY <1>2, <1>6 DEF old, kept, n
  <2>7. /\ new \in Seq(Headings) /\ DOMAIN new = 1..(size + 1) /\ new[size + 1] = t
        /\ \A k \in 1..size : new[k] = old[k]
    BY <1>6, <2>3, <2>5, <2>6
  <2>8. \A k \in DOMAIN new : k <= level[new[k]]
    <3> SUFFICES ASSUME NEW k \in 1..(size + 1) PROVE k <= level[new[k]]
      BY <2>7
    <3>1. CASE k = size + 1
      BY <2>1, <2>3, <2>7, <3>1 DEF n
    <3>2. CASE k # size + 1
      <4>1. k \in 1..size /\ k \in DOMAIN old
        <5>1. k \in Nat /\ 1 <= k /\ k <= size /\ k <= Len(old)
          BY <2>2, <2>3, <3>2
        <5> QED
          BY <2>2, <2>3, <5>1
      <4> QED
        BY <1>3, <2>7, <4>1
    <3> QED
      BY <3>1, <3>2
  <2>9. ASSUME NEW h \in Headings, LiesIn(t, h) PROVE \E k \in DOMAIN new : new[k] = h
    <3>1. CASE h = t
      BY <2>3, <2>7, <3>1
    <3>2. CASE h # t
      <4>1. level[h] < n /\ level[h] \in Nat
        BY <1>1, <1>6, <2>9, <3>2 DEF LiesIn, Headings, n
      <4>2. PICK k \in DOMAIN old : old[k] = h
        BY <1>3, <1>4, <2>9, <3>2
      <4>3. k <= level[h]
        BY <1>3, <4>2
      <4>4. k \in 1..size
        <5>1. k \in Nat /\ 1 <= k /\ k <= Len(old) /\ k <= n - 1
          BY <2>1, <2>2, <4>1, <4>2, <4>3
        <5>2. k <= size
          BY <2>3, <5>1
        <5> QED
          BY <2>3, <5>1, <5>2
      <4>5. k \in DOMAIN new
        BY <2>3, <2>7, <4>4
      <4>6. new[k] = h
        BY <2>7, <4>2, <4>4
      <4> QED
        BY <4>5, <4>6
    <3> QED
      BY <3>1, <3>2
  <2> QED
    BY <2>7, <2>8, <2>9 DEF PathIsGood
<1> QED
  BY <1>5, <1>6

LEMMA PathsAreGood == ASSUME TypeOK, NEW t \in Tokens PROVE PathIsGood(t)
<1> DEFINE S == {m \in Nat : m <= count => PathIsGood(m - 1)}
<1>1. count \in Nat /\ Headings \subseteq Nat
  BY DEF TypeOK, Headings, Tokens
<1>2. 0 \in S
  <2>1. TitlePath[-1] = <<>>
    BY <1>1, TitlePathAt DEF PathAt
  <2>2. \A h \in Headings : ~LiesIn(-1, h)
    BY <1>1 DEF LiesIn
  <2>3. PathIsGood(-1)
    BY <2>1, <2>2 DEF PathIsGood
  <2>4. 0 - 1 = -1
    OBVIOUS
  <2> QED
    BY <2>3, <2>4
<1>3. \A m \in Nat : m \in S => m + 1 \in S
  <2> SUFFICES ASSUME NEW m \in Nat, m + 1 <= count, PathIsGood(m - 1) PROVE PathIsGood((m + 1) - 1)
    BY <1>1
  <2>1. m \in Tokens /\ (m + 1) - 1 = m
    BY <1>1 DEF Tokens
  <2> QED
    BY <2>1, GoodStep
<1> HIDE DEF S
<1>4. Nat \subseteq S
  BY <1>2, <1>3, Induction
<1>5. t + 1 \in Nat /\ t + 1 <= count /\ (t + 1) - 1 = t
  BY <1>1 DEF Tokens
<1>6. t + 1 \in S
  BY <1>4, <1>5
<1> QED
  BY <1>5, <1>6 DEF S

\* For every document: the titles of a citation include those of all the sections that its
\* text lies in (chunking.py:90-97, 242).
THEOREM TitlesKept == SearchSpec => []TitlesAreKept
<1>1. IInv => TitlesAreKept
  <2> SUFFICES ASSUME IInv, NEW i \in DOMAIN chunks, NEW h \in Headings, LiesIn(chunks[i].from, h)
               PROVE  h \in PathOf(chunks[i])
    BY DEF TitlesAreKept
  <2>1. chunks[i].from \in Tokens
    <3>1. chunks[i] \in Windows /\ count \in Nat
      BY DEF IInv, TypeOK
    <3>2. chunks[i].from < chunks[i].to /\ chunks[i].to <= count
      BY DEF IInv, WindowsAdvance, WindowsInside
    <3> QED
      BY <3>1, <3>2 DEF Windows, Tokens
  <2>2. PathIsGood(chunks[i].from)
    BY <2>1, PathsAreGood DEF IInv
  <2> QED
    BY <2>2 DEF PathIsGood, PathOf
<1> QED
  BY <1>1, Invariance, PTL

-----------------------------------------------------------------------------
(* The two loops go on until they are done, and end. *)

\* What is left of a document has a window, ...
WindowFits ==
    start < count => \E end, to \in 1..count : EndsAt(start, end) /\ WindowEnds(start, end, to)

LEMMA InvFits == IInv => WindowFits
<1> SUFFICES ASSUME IInv, start < count
             PROVE  \E end, to \in 1..count : EndsAt(start, end) /\ WindowEnds(start, end, to)
  BY DEF WindowFits
<1>1. count \in Nat /\ start \in Nat /\ breaks \in SUBSET Nat
  BY DEF IInv, TypeOK
<1>2. Boundaries \in SUBSET (0..count) /\ count \in Boundaries
  BY <1>1 DEF Boundaries, Headings, Tokens
<1> DEFINE above == {b \in Boundaries : start < b}
<1>3. PICK end \in above : \A b \in above : end <= b
  <2>1. count \in above
    BY <1>1, <1>2
  <2>2. \A b \in Boundaries : b \in Nat
    BY <1>1 DEF Boundaries, Headings, Tokens
  <2>3. above \in SUBSET Nat
    BY <2>2
  <2> HIDE DEF above
  <2> QED
    BY <2>1, <2>3, Least
<1>4. end \in 1..count /\ EndsAt(start, end)
  BY <1>1, <1>2, <1>3 DEF EndsAt
<1> DEFINE soft == Smaller(start + Target, end)
           hard == Smaller(start + Hard, end)
           found == {b \in breaks : soft < b /\ b < hard}
<1>5. soft \in 1..count /\ hard \in Nat /\ hard <= end
  BY <1>1, <1>4 DEF Smaller, EndsAt
<1>6. \E to \in 1..count : WindowEnds(start, end, to)
  <2>1. CASE found = {}
    BY <1>5, <2>1 DEF WindowEnds
  <2>2. CASE found # {}
    <3>1. found \in SUBSET Nat /\ \A b \in found : b <= hard
      <4> HIDE DEF soft, hard
      <4>1. found \in SUBSET Nat
        BY <1>1
      <4> QED
        BY <1>1, <1>5, <4>1
    <3>2. \E to \in found : \A b \in found : b <= to
      <4> HIDE DEF found, hard
      <4> QED
        BY <1>5, <2>2, <3>1, Greatest
    <3>3. \A b \in found : b \in 1..count
      BY <1>1, <1>4, <1>5
    <3> QED
      BY <3>2, <3>3 DEF WindowEnds
  <2> QED
    BY <2>1, <2>2
<1> QED
  BY <1>4, <1>6

\* ... and every window leaves less of it.
Shortens == chunks' # chunks => start < start' /\ start' <= count

LEMMA WindowShortens == ASSUME IInv, Window PROVE Shortens
<1>1. PICK end \in 1..count, to \in 1..count :
        /\ EndsAt(start, end) /\ WindowEnds(start, end, to)
        /\ start' = IF to = end THEN end ELSE StepsBack(start, to)
  BY DEF Window
<1>2. start < count /\ count \in Nat /\ start \in Nat
  BY DEF Window, IInv, TypeOK
<1>3. start < to /\ to <= end
  BY <1>1, <1>2, WindowBounds DEF IInv
<1> QED
  BY <1>1, <1>2, <1>3 DEF Shortens, StepsBack, Larger

\* The loop over the windows ends after at most as many rounds as there are tokens, whatever
\* the overlap: each has a window to add, and each begins later (chunking.py:211-248).
THEOREM WindowsEnd == SearchSpec => []WindowFits /\ [][Shortens]_allVars
<1>1. IInv /\ [SearchNext]_allVars => [Shortens]_allVars
  BY WindowShortens DEF SearchNext, Query, Take, Answered, Shortens, allVars, vars
<1> QED
  BY <1>1, InvFits, Invariance, PTL DEF SearchSpec

\* The comparison of fractions is transitive.
LEMMA Transitive ==
    ASSUME NEW a \in Nat, NEW aa \in Nat, NEW b \in Nat, NEW bb \in Nat, NEW c \in Nat, NEW cc \in Nat,
           aa > 0, bb > 0, ~(a * bb > b * aa), c * bb > b * cc
    PROVE  ~(a * cc > c * aa)
<1>1. (a * bb) * cc <= (b * aa) * cc
  <2> DEFINE x == a * bb
             y == b * aa
  <2>1. x \in Nat /\ y \in Nat /\ x <= y
    OBVIOUS
  <2> HIDE DEF x, y
  <2>2. x * cc <= y * cc
    BY <2>1
  <2> QED
    BY <2>2 DEF x, y
<1>2. (b * cc) * aa < (c * bb) * aa
  <2> DEFINE x == b * cc
             y == c * bb
  <2>1. x \in Nat /\ y \in Nat /\ x < y
    OBVIOUS
  <2> HIDE DEF x, y
  <2>2. x * aa < y * aa
    BY <2>1, Product
  <2> QED
    BY <2>2 DEF x, y
<1>3. (b * aa) * cc = (b * cc) * aa /\ (a * bb) * cc = (a * cc) * bb /\ (c * bb) * aa = (c * aa) * bb
  OBVIOUS
<1>4. (a * cc) * bb < (c * aa) * bb
  BY <1>1, <1>2, <1>3
<1> DEFINE x == a * cc
           y == c * aa
<1>5. x \in Nat /\ y \in Nat
  OBVIOUS
<1> HIDE DEF x, y
<1>6. y < x => y * bb < x * bb
  BY <1>5, Product
<1>7. x * bb < y * bb
  BY <1>4 DEF x, y
<1>8. x * bb \in Nat /\ y * bb \in Nat
  BY <1>5
<1>9. ~(x > y)
  BY <1>5, <1>6, <1>7, <1>8
<1> QED
  BY <1>9 DEF x, y

Over(c) == Numerator(Weight(query.words, c), Weight(query.vectors, c))
Under(c) == Denominator(Weight(query.words, c), Weight(query.vectors, c))

LEMMA Score ==
    ASSUME SearchInv, query # NoQuery, NEW c \in Fused
    PROVE  Over(c) \in Nat /\ Under(c) \in Nat /\ Under(c) > 0
<1> DEFINE cw == Weight(query.words, c)
           cv == Weight(query.vectors, c)
<1>1. cw \in Nat /\ cv \in Nat /\ (cw > 0 \/ cv > 0)
  BY WeightOfRank DEF SearchInv, Fused
<1> HIDE DEF cw, cv
<1>2. Numerator(cw, cv) \in Nat /\ Denominator(cw, cv) \in Nat
  BY <1>1 DEF Numerator, Denominator
<1>3. Denominator(cw, cv) > 0
  BY <1>1 DEF Denominator
<1> QED
  BY <1>2, <1>3 DEF Over, Under, cw, cv

LEMMA OutscoresScore == \A c, d : Outscores(c, d) <=> Over(c) * Under(d) > Over(d) * Under(c)
BY DEF Outscores, Over, Under

\* Among candidates there is one that none outscores.
LEMMA BestExists ==
    ASSUME IInv, SearchInv, query # NoQuery, NEW T \in SUBSET Fused, T # {}
    PROVE  \E c \in T : \A d \in T : ~Outscores(d, c)
<1> DEFINE HasBest(X) == \E c \in X : \A d \in X : ~Outscores(d, c)
           S == {m \in Nat : \A X \in SUBSET (Fused \cap (1..m)) : X # {} => HasBest(X)}
<1>1. Len(chunks) \in Nat /\ Fused \subseteq 1..Len(chunks)
  BY DEF IInv, TypeOK, Fused, Children
<1>2. 0 \in S
  OBVIOUS
<1>3. ASSUME NEW m \in Nat, m \in S PROVE m + 1 \in S
  <2> SUFFICES ASSUME NEW X \in SUBSET (Fused \cap (1..(m + 1))), X # {} PROVE HasBest(X)
    OBVIOUS
  <2> DEFINE new == m + 1
             Y == X \ {new}
  <2>1. Y \in SUBSET (Fused \cap (1..m))
    OBVIOUS
  <2>2. Y # {} => HasBest(Y)
    BY <1>3, <2>1
  <2>3. \A d \in Fused : ~Outscores(d, d)
    BY Score, OutscoresScore
  <2>4. CASE new \notin X
    BY <2>2, <2>4
  <2>5. CASE Y = {}
    BY <2>3, <2>5
  <2>6. CASE new \in X /\ Y # {}
    <3>1. PICK c \in Y : \A d \in Y : ~Outscores(d, c)
      BY <2>2, <2>6
    <3>2. CASE Outscores(new, c)
      <4>1. ASSUME NEW d \in Y PROVE ~Outscores(d, new)
        <5>1. c \in Fused /\ d \in Fused /\ new \in Fused
          BY <2>6
        <5>2. ~(Over(d) * Under(c) > Over(c) * Under(d)) /\ Over(new) * Under(c) > Over(c) * Under(new)
          BY <3>1, <3>2, OutscoresScore
        <5>3. ~(Over(d) * Under(new) > Over(new) * Under(d))
          <6> HIDE DEF new
          <6>1. /\ Over(c) \in Nat /\ Under(c) \in Nat /\ Under(c) > 0
                /\ Over(d) \in Nat /\ Under(d) \in Nat /\ Under(d) > 0
                /\ Over(new) \in Nat /\ Under(new) \in Nat
            BY <5>1, Score
          <6> QED
            BY <5>2, <6>1, Transitive
        <5> QED
          BY <5>3, OutscoresScore
      <4>2. \A d \in X : d = new \/ d \in Y
        OBVIOUS
      <4>3. new \in Fused
        BY <2>6
      <4> QED
        BY <2>3, <2>6, <4>1, <4>2, <4>3
    <3>3. CASE ~Outscores(new, c)
      <4>1. \A d \in X : d = new \/ d \in Y
        OBVIOUS
      <4>2. c \in X
        BY <3>1
      <4> QED
        BY <3>1, <3>3, <4>1, <4>2
    <3> QED
      BY <3>2, <3>3
  <2> QED
    BY <2>4, <2>5, <2>6
<1> HIDE DEF S
<1>4. Len(chunks) \in S
  BY <1>1, <1>2, <1>3, Induction
<1> QED
  BY <1>1, <1>4 DEF S

\* The loop over the candidates is never without a best one, and takes each only once
\* (index.py:328-376): so it ends, and with every candidate looked at or the limit reached.
SomeBest == query # NoQuery /\ ~(Fused \subseteq taken) => \E c \in Fused \ taken : Better(c) = {}
TakesOne == UNCHANGED taken \/ \E c \in Fused \ taken : taken' = taken \cup {c}

THEOREM SearchEnds == SearchSpec => []SomeBest /\ [][TakesOne]_allVars
<1>1. IInv /\ SearchInv => SomeBest
  <2> SUFFICES ASSUME IInv, SearchInv, query # NoQuery, ~(Fused \subseteq taken)
               PROVE  \E c \in Fused \ taken : Better(c) = {}
    BY DEF SomeBest
  <2>1. Fused \ taken \in SUBSET Fused /\ Fused \ taken # {}
    OBVIOUS
  <2>2. PICK c \in Fused \ taken : \A d \in Fused \ taken : ~Outscores(d, c)
    BY <2>1, BestExists
  <2> QED
    BY <2>2 DEF Better
<1>2. [SearchNext]_allVars => [TakesOne]_allVars
  BY DEF SearchNext, Query, Take, Answered, TakesOne, allVars, search
<1> QED
  BY <1>1, <1>2, SearchInvariance, PTL DEF SearchSpec

===============================================================================
