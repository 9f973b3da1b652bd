---------------------------- MODULE ChunkerProofs ----------------------------
(***************************************************************************)
(* Theorems about Chunker, for sources of any size and nesting.            *)
(***************************************************************************)
EXTENDS Chunker, WellFoundedInduction, TLAPS

USE DEF Within, Apart, In

\* A nonempty set of natural numbers has a least element.
LEMMA LeastExists ==
  ASSUME NEW S \in SUBSET Nat, S # {}
  PROVE  \E n \in S : \A m \in S : n <= m
<1> DEFINE Less == {p \in Nat \X Nat : p[1] < p[2]}
<1>1. IsWellFoundedOn(Less, Nat)
  BY NatLessThanWellFounded, Zenon DEF OpToRel
<1>2. PICK n \in S : \A m \in S : ~ (<<m, n>> \in Less)
  BY <1>1, WFMin
<1>3. ASSUME NEW m \in S, m < n PROVE FALSE
  <2>1. <<m, n>> \in Less
    BY <1>3
  <2>2. QED
    BY <1>2, <2>1
<1>4. QED
  BY <1>3

\* The shape of the items of a source.
LEMMA ItemsAreSpans ==
  ASSUME IsSource(doc)
  PROVE  /\ doc.size \in Nat
         /\ \A i \in doc.items : /\ i = [lo |-> i.lo, hi |-> i.hi]
                                 /\ i.lo \in Nat /\ i.hi \in Nat
                                 /\ i.lo < i.hi /\ i.hi <= doc.size
         /\ \A i, j \in doc.items : Within(i, j) \/ Within(j, i) \/ Apart(i, j)
BY DEF IsSource

\* The head of an item ends in the item, and before each of its inner items.
LEMMA HeadEnds ==
  ASSUME IsSource(doc), NEW i \in doc.items
  PROVE  /\ HeadEnd(doc, i) \in i.lo..i.hi
         /\ \A c \in Inner(doc, i) : HeadEnd(doc, i) <= c.lo
<1> DEFINE L == {c.lo : c \in Inner(doc, i)}
<1>1. CASE Inner(doc, i) = {}
  BY <1>1, ItemsAreSpans DEF HeadEnd
<1>2. CASE Inner(doc, i) # {}
  <2>1. L \in SUBSET Nat /\ L # {}
    BY <1>2, ItemsAreSpans DEF Inner
  <2>2. \E n \in L : \A m \in L : n <= m
    BY <2>1, LeastExists
  <2>3. \E n \in L : \A c \in Inner(doc, i) : n <= c.lo
    BY <2>2
  <2>4. HeadEnd(doc, i) \in L /\ \A c \in Inner(doc, i) : HeadEnd(doc, i) <= c.lo
    BY <1>2, <2>3 DEF HeadEnd
  <2>5. QED
    BY <2>4, ItemsAreSpans DEF Inner
<1>3. QED
  BY <1>1, <1>2

\* A head lies in its item.
LEMMA HeadsInItems ==
  ASSUME IsSource(doc), NEW h \in Heads
  PROVE  \E i \in doc.items : /\ h = [lo |-> i.lo, hi |-> HeadEnd(doc, i)]
                              /\ h.lo \in Nat /\ h.hi \in Nat
                              /\ h.lo = i.lo /\ h.hi = HeadEnd(doc, i) /\ h.hi <= i.hi
<1>1. PICK i \in doc.items : h = [lo |-> i.lo, hi |-> HeadEnd(doc, i)]
  BY DEF Heads
<1>2. HeadEnd(doc, i) \in i.lo..i.hi
  BY HeadEnds
<1>3. i.lo \in Nat /\ i.hi \in Nat
  BY ItemsAreSpans
<1>4. QED
  BY <1>1, <1>2, <1>3

\* Heads and leaves do not overlap.
LEMMA HeadsApart ==
  ASSUME IsSource(doc), NEW g \in Heads, NEW h \in Heads, g # h
  PROVE  Apart(g, h)
<1>1. PICK i \in doc.items : /\ g = [lo |-> i.lo, hi |-> HeadEnd(doc, i)]
                             /\ g.lo = i.lo /\ g.hi = HeadEnd(doc, i) /\ g.hi <= i.hi
  BY HeadsInItems
<1>2. PICK j \in doc.items : /\ h = [lo |-> j.lo, hi |-> HeadEnd(doc, j)]
                             /\ h.lo = j.lo /\ h.hi = HeadEnd(doc, j) /\ h.hi <= j.hi
  BY HeadsInItems
<1>3. i # j
  BY <1>1, <1>2
<1>4. CASE Within(i, j)
  <2>1. i \in Inner(doc, j)
    BY <1>3, <1>4 DEF Inner
  <2>2. QED
    BY <1>1, <1>2, <2>1, HeadEnds
<1>5. CASE Within(j, i)
  <2>1. j \in Inner(doc, i)
    BY <1>3, <1>5 DEF Inner
  <2>2. QED
    BY <1>1, <1>2, <2>1, HeadEnds
<1>6. CASE Apart(i, j)
  <2>1. /\ i.lo \in Nat /\ i.hi \in Nat /\ j.lo \in Nat /\ j.hi \in Nat
        /\ HeadEnd(doc, i) \in Nat /\ HeadEnd(doc, j) \in Nat
    BY HeadEnds, ItemsAreSpans
  <2>2. QED
    BY <1>1, <1>2, <1>6, <2>1
<1>7. QED
  BY <1>4, <1>5, <1>6, ItemsAreSpans

\* Every item lies in one of the top level.
LEMMA InATopItem ==
  ASSUME IsSource(doc), NEW j \in doc.items
  PROVE  \E t \in TopLevel : Within(j, t)
<1> DEFINE K == {k \in doc.items : Within(j, k)}
           L == {doc.size - (k.hi - k.lo) : k \in K}
<1>1. \A k \in K : k.lo \in Nat /\ k.hi \in Nat /\ k.lo < k.hi /\ k.hi <= doc.size
  BY ItemsAreSpans
<1>2. doc.size \in Nat /\ j \in K
  BY ItemsAreSpans
<1>3. L \in SUBSET Nat /\ L # {}
  BY <1>1, <1>2
<1>4. \E n \in L : \A m \in L : n <= m
  BY <1>3, LeastExists
<1>5. PICK t \in K : \A k \in K : doc.size - (t.hi - t.lo) <= doc.size - (k.hi - k.lo)
  BY <1>4
<1>6. ASSUME NEW k \in doc.items \ {t}, Within(t, k) PROVE FALSE
  <2>1. k \in K
    BY <1>1, <1>5, <1>6, <1>2, ItemsAreSpans
  <2>2. t.hi - t.lo >= k.hi - k.lo
    BY <1>1, <1>2, <1>5, <2>1
  <2>3. k.lo = t.lo /\ k.hi = t.hi
    BY <1>1, <1>5, <1>6, <2>1, <2>2
  <2>4. k = t
    BY <2>3, <1>5, ItemsAreSpans
  <2>5. QED
    BY <2>4, <1>6
<1>7. QED
  BY <1>5, <1>6 DEF TopLevel

\* A byte of an item is in a head, unless the flattening leaves it out.
LEMMA ItemsAreCovered ==
  ASSUME IsSource(doc), NEW i \in doc.items, NEW n \in Nat, In(n, i)
  PROVE  LeftOut(doc, n) \/ \E h \in Heads : In(n, h)
<1> DEFINE K == {k \in doc.items : In(n, k)}
           L == {k.hi - k.lo : k \in K}
<1>1. \A k \in K : k.lo \in Nat /\ k.hi \in Nat /\ k.lo < k.hi
  BY ItemsAreSpans
<1>2. L \in SUBSET Nat /\ L # {}
  BY <1>1
<1>3. \E l \in L : \A m \in L : l <= m
  BY <1>2, LeastExists
<1>4. PICK k \in K : \A m \in K : k.hi - k.lo <= m.hi - m.lo
  BY <1>3
<1>5. ASSUME NEW c \in Inner(doc, k), In(n, c) PROVE FALSE
  <2>1. c \in K /\ c # k /\ Within(c, k)
    BY <1>5 DEF Inner
  <2>2. c.lo = k.lo /\ c.hi = k.hi
    BY <1>1, <1>4, <2>1
  <2>3. QED
    BY <2>1, <2>2, <1>4, ItemsAreSpans
<1>6. HeadEnd(doc, k) \in k.lo..k.hi
  BY <1>4, HeadEnds
<1>7. CASE HeadEnd(doc, k) <= n
  BY <1>4, <1>5, <1>7 DEF LeftOut
<1>8. CASE n < HeadEnd(doc, k)
  <2> DEFINE h == [lo |-> k.lo, hi |-> HeadEnd(doc, k)]
  <2>1. h \in Heads
    BY <1>1, <1>4, <1>6, <1>8 DEF Heads
  <2>2. In(n, h)
    BY <1>4, <1>8
  <2>3. QED
    BY <2>1, <2>2
<1>9. QED
  BY <1>1, <1>4, <1>6, <1>7, <1>8

-----------------------------------------------------------------------------
(* Types.                                                                  *)

\* No step of chunk_source leaves the types.
LEMMA ChunkTypeStep ==
  ASSUME ChunkTypeOK, [ChunkNext]_chunkVars
  PROVE  ChunkTypeOK'
<1> USE DEF ChunkTypeOK
<1>1. doc' = doc /\ IsSource(doc)' /\ doc.size \in Nat
  BY DEF ChunkNext, chunkVars, WholeFile, Parse, NextGap, LastGap, TakeSpan, Cut,
         EndOfSpan, Return, IsSource
<1>2. CASE WholeFile
  BY <1>1, <1>2 DEF WholeFile
<1>3. CASE Parse
  <2>1. Heads \subseteq [lo : 0..doc.size, hi : 0..doc.size]
    BY <1>1, HeadEnds, ItemsAreSpans DEF Heads
  <2>2. QED
    BY <1>1, <1>3, <2>1 DEF Parse, TopLevel
<1>4. CASE NextGap
  <2>1. PICK i \in covered : /\ spans' = spans \cup Gap(cursor, i.lo)
                             /\ cursor' = IF cursor > i.hi THEN cursor ELSE i.hi
                             /\ covered' = covered \ {i}
    BY <1>4 DEF NextGap
  <2>2. i.lo \in 0..doc.size /\ i.hi \in 0..doc.size
    BY <1>1, ItemsAreSpans
  <2>3. Gap(cursor, i.lo) \subseteq [lo : 0..doc.size, hi : 0..doc.size]
    BY <2>2 DEF Gap
  <2>4. QED
    BY <1>1, <1>4, <2>1, <2>2, <2>3 DEF NextGap
<1>5. CASE LastGap
  <2>1. Gap(cursor, TailEnd) \subseteq [lo : 0..doc.size, hi : 0..doc.size]
    BY <1>1 DEF Gap, TailEnd
  <2>2. QED
    BY <1>1, <1>5, <2>1 DEF LastGap
<1>6. CASE TakeSpan
  BY <1>1, <1>6 DEF TakeSpan
<1>7. CASE Cut
  <2>1. PartEnd \in 0..doc.size
    BY <1>1, MaxBytesAssumption DEF PartEnd
  <2>2. [lo |-> cursor, hi |-> PartEnd, part |-> part]
          \in [lo : 0..doc.size, hi : 0..doc.size, part : Nat]
    BY <2>1
  <2>3. QED
    BY <1>1, <1>7, <2>1, <2>2 DEF Cut
<1>8. CASE EndOfSpan \/ Return
  BY <1>1, <1>8 DEF EndOfSpan, Return
<1>9. CASE UNCHANGED chunkVars
  BY <1>1, <1>9 DEF chunkVars
<1>10. QED
  BY <1>2, <1>3, <1>4, <1>5, <1>6, <1>7, <1>8, <1>9 DEF ChunkNext

\* Every variable keeps its type, and the cursor stays in the file.
THEOREM TypeCorrect == ChunkSpec => []ChunkTypeOK
<1>1. ChunkInit => ChunkTypeOK
  BY SourcesAssumption DEF ChunkInit, ChunkTypeOK, IsSource
<1>2. ChunkTypeOK /\ [ChunkNext]_chunkVars => ChunkTypeOK'
  BY ChunkTypeStep
<1>3. QED
  BY <1>1, <1>2, PTL DEF ChunkSpec

-----------------------------------------------------------------------------
(* Chunks do not overlap: neither do the spans, nor a span and a chunk.    *)

Rest == [lo |-> cursor, hi |-> end]

SpansApart == \A s, t \in spans : s # t => Apart(s, t)

\* The spans of a file being flattened are heads, and gaps behind the cursor.
Flattened ==
  /\ covered \subseteq TopLevel
  /\ \A i \in TopLevel \ covered : i.hi <= cursor
  /\ \A s \in spans : s \in Heads \/ (s.hi <= cursor /\ \A i \in doc.items : Apart(s, i))

Phases ==
  /\ cpc = "parse" => spans = {} /\ chunks = {} /\ cursor = 0
  /\ cpc = "residual" => chunks = {} /\ Flattened
  /\ cpc = "cut" => /\ \A s \in spans : Apart(s, Rest)
                    /\ \A c \in chunks : Apart(c, Rest)
  /\ cpc = "done" => spans = {}

ChunkInv ==
  /\ SpansApart
  /\ \A c \in chunks, s \in spans : Apart(c, s)
  /\ ChunksDisjoint
  /\ ChunksBounded
  /\ Phases

\* The gap in front of position n is apart from every item, if the items that
\* are still to visit begin at n.
LEMMA GapsApart ==
  ASSUME ChunkTypeOK, Flattened, NEW n \in 0..doc.size,
         \A j \in covered : n <= j.lo, NEW g \in Gap(cursor, n)
  PROVE  /\ g = [lo |-> cursor, hi |-> n] /\ cursor < n
         /\ \A i \in doc.items : Apart(g, i)
         /\ \A s \in spans : Apart(g, s)
<1>1. g = [lo |-> cursor, hi |-> n] /\ cursor < n
  BY DEF Gap
<1>2. ASSUME NEW i \in doc.items PROVE Apart(g, i)
  <2>1. PICK t \in TopLevel : Within(i, t)
    BY InATopItem DEF ChunkTypeOK
  <2>2. /\ t.lo \in Nat /\ t.hi \in Nat /\ i.lo \in Nat /\ i.hi \in Nat
        /\ cursor \in Nat /\ n \in Nat
    BY ItemsAreSpans DEF TopLevel, ChunkTypeOK
  <2>3. CASE t \in covered
    BY <1>1, <2>1, <2>2, <2>3
  <2>4. CASE t \notin covered
    BY <1>1, <2>1, <2>2, <2>4 DEF Flattened
  <2>5. QED
    BY <2>3, <2>4
<1>3. ASSUME NEW s \in spans PROVE Apart(g, s)
  <2>1. CASE s \in Heads
    <3>1. PICK i \in doc.items : /\ s.lo = i.lo /\ s.hi <= i.hi
                                 /\ s.lo \in Nat /\ s.hi \in Nat
      BY <2>1, HeadsInItems DEF ChunkTypeOK
    <3>2. i.hi \in Nat /\ cursor \in Nat /\ n \in Nat
      BY ItemsAreSpans DEF ChunkTypeOK
    <3>3. QED
      BY <1>1, <1>2, <3>1, <3>2
  <2>2. CASE s.hi <= cursor
    BY <1>1, <2>2
  <2>3. QED
    BY <2>1, <2>2 DEF Flattened
<1>4. QED
  BY <1>1, <1>2, <1>3

\* No step of chunk_source makes spans and chunks overlap.
LEMMA ChunkInvStep ==
  ASSUME ChunkTypeOK, ChunkInv, [ChunkNext]_chunkVars
  PROVE  ChunkInv'
<1> USE DEF ChunkInv, SpansApart, ChunksDisjoint, ChunksBounded, Phases
<1>1. IsSource(doc) /\ doc.size \in Nat /\ cursor \in Nat /\ end \in Nat
  BY DEF ChunkTypeOK, IsSource
<1>2. CASE WholeFile
  BY <1>2 DEF WholeFile
<1>3. CASE Parse
  <2>1. Flattened'
    <3>1. doc' = doc /\ TopLevel' = TopLevel /\ Heads' = Heads
      BY <1>3 DEF Parse, Heads, TopLevel, HeadEnd, Inner
    <3>2. QED
      BY <1>3, <3>1 DEF Parse, Flattened
  <2>2. \A g, h \in Heads : g # h => Apart(g, h)
    BY <1>1, HeadsApart
  <2>3. spans' = Heads /\ chunks' = chunks /\ chunks = {} /\ cpc' = "residual"
    BY <1>3 DEF Parse
  <2>4. SpansApart'
    BY <2>2, <2>3
  <2>5. QED
    BY <2>1, <2>3, <2>4
<1>4. CASE NextGap
  <2>1. PICK i \in covered : /\ \A j \in covered : i.lo <= j.lo
                             /\ spans' = spans \cup Gap(cursor, i.lo)
                             /\ cursor' = IF cursor > i.hi THEN cursor ELSE i.hi
                             /\ covered' = covered \ {i}
    BY <1>4 DEF NextGap
  <2>2. Flattened /\ chunks = {}
    BY <1>4 DEF NextGap
  <2>3. i \in doc.items /\ i.lo \in 0..doc.size /\ i.hi \in Nat /\ i.lo < i.hi
    BY <1>1, ItemsAreSpans DEF ChunkTypeOK
  <2>4. \A g \in Gap(cursor, i.lo) : /\ g = [lo |-> cursor, hi |-> i.lo]
                                     /\ \A j \in doc.items : Apart(g, j)
                                     /\ \A s \in spans : Apart(g, s)
    BY <2>1, <2>2, <2>3, GapsApart
  <2>5. SpansApart'
    BY <2>1, <2>4
  <2>6. Flattened'
    <3>1. \A j \in TopLevel \ covered' : j.hi <= cursor'
      BY <1>1, <2>1, <2>2, <2>3, ItemsAreSpans DEF Flattened, TopLevel
    <3>2. cursor <= cursor' /\ i.lo <= cursor' /\ cursor' \in Nat
      BY <1>1, <2>1, <2>3
    <3>3. ASSUME NEW s \in spans'
          PROVE  s \in Heads \/ (s.hi <= cursor' /\ \A j \in doc.items : Apart(s, j))
      <4>1. CASE s \in spans
        <5>1. s.hi \in Nat
          BY <4>1 DEF ChunkTypeOK
        <5>2. QED
          BY <1>1, <2>2, <3>2, <4>1, <5>1 DEF Flattened
      <4>2. CASE s \in Gap(cursor, i.lo)
        BY <2>4, <3>2, <4>2
      <4>3. QED
        BY <2>1, <4>1, <4>2
    <3>4. doc' = doc /\ TopLevel' = TopLevel /\ Heads' = Heads
      BY <1>4 DEF NextGap, Heads, TopLevel, HeadEnd, Inner
    <3>5. covered' \subseteq TopLevel
      BY <2>1, <2>2 DEF Flattened
    <3>6. QED
      BY <3>1, <3>3, <3>4, <3>5 DEF Flattened
  <2>7. QED
    BY <1>4, <2>2, <2>5, <2>6 DEF NextGap
<1>5. CASE LastGap
  <2>1. Flattened /\ chunks = {}
    BY <1>5 DEF LastGap
  <2>2. \A g \in Gap(cursor, TailEnd) : /\ g = [lo |-> cursor, hi |-> doc.size]
                                        /\ \A s \in spans : Apart(g, s)
    BY <1>1, <1>5, <2>1, GapsApart DEF LastGap, TailEnd
  <2>3. SpansApart'
    BY <1>5, <2>2 DEF LastGap
  <2>4. QED
    BY <1>5, <2>1, <2>3 DEF LastGap
<1>6. CASE TakeSpan
  <2>1. PICK s \in spans : /\ spans' = spans \ {s}
                           /\ cursor' = s.lo /\ end' = s.hi
    BY <1>6 DEF TakeSpan
  <2>2. (\A t \in spans' : Apart(t, Rest')) /\ (\A c \in chunks' : Apart(c, Rest'))
    BY <1>6, <2>1 DEF TakeSpan, Rest
  <2>3. QED
    BY <1>6, <2>1, <2>2 DEF TakeSpan
<1>7. CASE Cut
  <2> DEFINE new == [lo |-> cursor, hi |-> PartEnd, part |-> part]
  <2>1. /\ PartEnd \in Nat /\ cursor < PartEnd
        /\ PartEnd <= end /\ PartEnd <= cursor + MaxBytes
    BY <1>1, <1>7, MaxBytesAssumption DEF Cut, PartEnd
  <2>2. /\ \A s \in spans : Apart(s, Rest) /\ s.lo \in Nat /\ s.hi \in Nat
        /\ \A c \in chunks : Apart(c, Rest) /\ c.lo \in Nat /\ c.hi \in Nat
    BY <1>7 DEF Cut, ChunkTypeOK
  <2>3. /\ \A s \in spans : Apart(s, new) /\ Apart(s, Rest')
        /\ \A c \in chunks : Apart(c, new) /\ Apart(c, Rest')
        /\ Apart(new, Rest')
    BY <1>1, <1>7, <2>1, <2>2 DEF Cut, Rest
  <2>4. chunks' \subseteq chunks \cup {new} /\ spans' = spans /\ cpc' = "cut"
    BY <1>7 DEF Cut
  <2>5. ChunksDisjoint' /\ \A c \in chunks', s \in spans' : Apart(c, s)
    BY <2>3, <2>4
  <2>6. ChunksBounded'
    BY <2>1, <2>4
  <2>7. Phases'
    BY <2>3, <2>4
  <2>8. QED
    BY <1>7, <2>5, <2>6, <2>7 DEF Cut
<1>8. CASE EndOfSpan
  BY <1>8 DEF EndOfSpan
<1>9. CASE Return
  BY <1>9 DEF Return
<1>10. CASE UNCHANGED chunkVars
  BY <1>10 DEF chunkVars, Flattened, Heads, TopLevel, HeadEnd, Inner, Rest
<1>11. QED
  BY <1>2, <1>3, <1>4, <1>5, <1>6, <1>7, <1>8, <1>9, <1>10 DEF ChunkNext

LEMMA ChunkInvHolds == ChunkSpec => []ChunkInv
<1>1. ChunkInit => ChunkInv
  BY DEF ChunkInit, ChunkInv, SpansApart, ChunksDisjoint, ChunksBounded, Phases
<1>2. ChunkTypeOK /\ ChunkInv /\ [ChunkNext]_chunkVars => ChunkInv'
  BY ChunkInvStep
<1>3. QED
  BY <1>1, <1>2, TypeCorrect, PTL DEF ChunkSpec

\* No byte of a source is embedded twice, however its items are nested.
THEOREM NoOverlap == ChunkSpec => []ChunksDisjoint
<1>1. ChunkInv => ChunksDisjoint
  BY DEF ChunkInv
<1>2. QED
  BY <1>1, ChunkInvHolds, PTL

\* No chunk exceeds the limit, however long the spans are.
THEOREM WithinLimit == ChunkSpec => []ChunksBounded
<1>1. ChunkInv => ChunksBounded
  BY DEF ChunkInv
<1>2. QED
  BY <1>1, ChunkInvHolds, PTL

-----------------------------------------------------------------------------
(* Nothing is lost but what the flattening leaves out.                     *)

Text == {n \in 0..doc.size : n < doc.size /\ n \notin doc.blank}

\* The spans and chunks that a byte of the text is in at last.
Kept(n) == \/ LeftOut(doc, n)
           \/ \E s \in spans : In(n, s)
           \/ \E c \in chunks : In(n, c)
           \/ cpc = "cut" /\ In(n, Rest)

\* While the gaps are collected, the text in front of the cursor is kept, and
\* every item from the beginning.
CoverInv ==
  /\ cpc = "residual" =>
       /\ covered \subseteq doc.items
       /\ \A n \in Text : (\E i \in doc.items : In(n, i)) \/ n < cursor => Kept(n)
  /\ cpc \in {"split", "cut", "done"} => \A n \in Text : Kept(n)

\* A byte of the text in front of position n is in the gap before it.
LEMMA GapsCover ==
  ASSUME NEW n \in 0..doc.size, doc.size \in Nat, cursor \in Nat,
         NEW m \in Text, cursor <= m, m < n
  PROVE  \E s \in Gap(cursor, n) : In(m, s)
<1>1. m \in cursor..n /\ m \notin doc.blank /\ cursor < n
  BY DEF Text
<1>2. Gap(cursor, n) = {[lo |-> cursor, hi |-> n]}
  BY <1>1 DEF Gap, Solid
<1>3. QED
  BY <1>1, <1>2

\* No step of chunk_source loses a byte.
LEMMA CoverStep ==
  ASSUME ChunkTypeOK, ChunkInv, CoverInv, [ChunkNext]_chunkVars
  PROVE  CoverInv'
<1> USE DEF CoverInv
<1>1. /\ IsSource(doc) /\ doc.size \in Nat /\ cursor \in Nat /\ end \in Nat
      /\ \A n \in Text : n \in Nat
  BY DEF ChunkTypeOK, IsSource, Text
<1>2. doc' = doc /\ Text' = Text /\ \A n : LeftOut(doc, n)' = LeftOut(doc, n)
  BY DEF ChunkNext, chunkVars, WholeFile, Parse, NextGap, LastGap, TakeSpan, Cut,
         EndOfSpan, Return, Text, LeftOut, HeadEnd, Inner
<1>3. CASE WholeFile
  <2>1. \A n \in Text : In(n, [lo |-> 0, hi |-> doc.size])
    BY <1>1 DEF Text
  <2>2. QED
    BY <1>2, <1>3, <2>1 DEF WholeFile, Kept
<1>4. CASE Parse
  <2>1. cursor = 0
    BY <1>4 DEF Parse, ChunkInv, Phases
  <2>2. ASSUME NEW n \in Text, (\E i \in doc.items : In(n, i)) \/ n < cursor
        PROVE  LeftOut(doc, n) \/ \E h \in Heads : In(n, h)
    <3>1. PICK i \in doc.items : In(n, i)
      BY <1>1, <2>1, <2>2
    <3>2. QED
      BY <1>1, <3>1, ItemsAreCovered
  <2>3. spans' = Heads /\ covered' = TopLevel /\ cursor' = cursor /\ cpc' = "residual"
    BY <1>4 DEF Parse
  <2>4. \A n \in Text : (\E i \in doc.items : In(n, i)) \/ n < cursor => Kept(n)'
    BY <1>2, <2>2, <2>3 DEF Kept
  <2>5. QED
    BY <1>2, <2>3, <2>4 DEF TopLevel
<1>5. CASE NextGap
  <2>1. PICK i \in covered : /\ spans' = spans \cup Gap(cursor, i.lo)
                             /\ cursor' = IF cursor > i.hi THEN cursor ELSE i.hi
                             /\ covered' = covered \ {i}
    BY <1>5 DEF NextGap
  <2>2. i \in doc.items /\ i.lo \in 0..doc.size /\ i.hi \in Nat
    BY <1>1, ItemsAreSpans DEF ChunkTypeOK
  <2>3. chunks' = chunks /\ cpc' = "residual" /\ cpc = "residual"
    BY <1>5 DEF NextGap
  <2>4. \A n : Kept(n) => Kept(n)'
    BY <1>2, <2>1, <2>3 DEF Kept
  <2>5. ASSUME NEW n \in Text, (\E j \in doc.items : In(n, j)) \/ n < cursor'
        PROVE  Kept(n)'
    <3>1. CASE (\E j \in doc.items : In(n, j)) \/ n < cursor
      BY <2>3, <2>4, <3>1
    <3>2. CASE cursor <= n /\ n < i.lo
      <4>1. \E s \in Gap(cursor, i.lo) : In(n, s)
        BY <1>1, <2>2, <3>2, GapsCover
      <4>2. QED
        BY <2>1, <4>1 DEF Kept
    <3>3. CASE cursor <= n /\ i.lo <= n /\ n < cursor'
      <4>1. In(n, i)
        BY <1>1, <2>1, <2>2, <3>3
      <4>2. QED
        BY <2>2, <2>3, <2>4, <4>1
    <3>4. QED
      BY <1>1, <2>2, <2>5, <3>1, <3>2, <3>3
  <2>6. QED
    BY <1>2, <2>1, <2>3, <2>5
<1>6. CASE LastGap
  <2>1. /\ spans' = spans \cup Gap(cursor, doc.size) /\ chunks' = chunks
        /\ cpc' = "split" /\ cpc = "residual"
    BY <1>6 DEF LastGap, TailEnd
  <2>2. ASSUME NEW n \in Text PROVE Kept(n)'
    <3>1. CASE n < cursor
      <4>1. Kept(n)
        BY <2>1, <3>1
      <4>2. QED
        BY <1>2, <2>1, <4>1 DEF Kept
    <3>2. CASE cursor <= n
      <4>1. n < doc.size
        BY DEF Text
      <4>2. \E s \in Gap(cursor, doc.size) : In(n, s)
        BY <1>1, <3>2, <4>1, GapsCover
      <4>3. QED
        BY <2>1, <4>2 DEF Kept
    <3>3. QED
      BY <1>1, <3>1, <3>2
  <2>3. QED
    BY <1>2, <2>1, <2>2
<1>7. CASE TakeSpan
  <2>1. PICK s \in spans : spans' = spans \ {s} /\ cursor' = s.lo /\ end' = s.hi
    BY <1>7 DEF TakeSpan
  <2>2. cpc = "split" /\ cpc' = "cut" /\ chunks' = chunks
    BY <1>7 DEF TakeSpan
  <2>3. \A n \in Text : Kept(n)'
    BY <1>2, <2>1, <2>2 DEF Kept, Rest
  <2>4. QED
    BY <1>2, <2>2, <2>3
<1>8. CASE Cut
  <2> DEFINE new == [lo |-> cursor, hi |-> PartEnd, part |-> part]
  <2>1. /\ cursor' = PartEnd /\ end' = end /\ spans' = spans
        /\ cpc' = "cut" /\ cpc = "cut"
    BY <1>8 DEF Cut
  <2>2. PartEnd \in Nat /\ cursor < PartEnd
    BY <1>1, <1>8, MaxBytesAssumption DEF Cut, PartEnd
  <2>3. ASSUME NEW n \in Text PROVE Kept(n)'
    <3>1. CASE cursor <= n /\ n < PartEnd
      <4>1. Solid(cursor, PartEnd)
        BY <1>1, <2>2, <3>1 DEF Solid, Text
      <4>2. new \in chunks' /\ In(n, new)
        BY <1>8, <3>1, <4>1 DEF Cut
      <4>3. QED
        BY <4>2 DEF Kept
    <3>2. CASE ~(cursor <= n /\ n < PartEnd)
      <4>1. Kept(n) /\ chunks \subseteq chunks'
        BY <1>8, <2>1 DEF Cut
      <4>2. QED
        BY <1>1, <1>2, <2>1, <2>2, <3>2, <4>1 DEF Kept, Rest
    <3>3. QED
      BY <3>1, <3>2
  <2>4. QED
    BY <1>2, <2>1, <2>3
<1>9. CASE EndOfSpan
  <2>1. \A n \in Text : ~In(n, Rest)
    BY <1>1, <1>9 DEF EndOfSpan, Rest
  <2>2. QED
    BY <1>2, <1>9, <2>1 DEF EndOfSpan, Kept
<1>10. CASE Return
  BY <1>2, <1>10 DEF Return, Kept
<1>11. CASE UNCHANGED chunkVars
  BY <1>2, <1>11 DEF chunkVars, Kept, Rest
<1>12. QED
  BY <1>3, <1>4, <1>5, <1>6, <1>7, <1>8, <1>9, <1>10, <1>11 DEF ChunkNext

LEMMA CoverInvHolds == ChunkSpec => []CoverInv
<1>1. ChunkInit => CoverInv
  BY DEF ChunkInit, CoverInv
<1>2. ChunkTypeOK /\ ChunkInv /\ CoverInv /\ [ChunkNext]_chunkVars => CoverInv'
  BY CoverStep
<1>3. QED
  BY <1>1, <1>2, TypeCorrect, ChunkInvHolds, PTL DEF ChunkSpec

\* When the chunks are complete, every byte that is not blank is in one, unless
\* it lies in the body of an item behind its first child and in no inner item.
THEOREM NothingElseLost == ChunkSpec => []ChunksCover
<1>1. ChunkInv /\ CoverInv => ChunksCover
  BY DEF ChunkInv, Phases, CoverInv, Kept, Text, ChunksCover
<1>2. QED
  BY <1>1, ChunkInvHolds, CoverInvHolds, PTL
=============================================================================
