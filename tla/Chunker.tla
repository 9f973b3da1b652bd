------------------------------- MODULE Chunker -------------------------------
(***************************************************************************)
(* How a source file is cut into the chunks that are embedded and searched *)
(* (chunk_source in rag/chunker.py): the spans of the items that           *)
(* tree-sitter found, each up to its first child, the gaps between the     *)
(* top-level items, and every span in parts of at most MaxBytes.           *)
(*                                                                         *)
(* A source is its size, the bytes that str.strip removes and the spans of *)
(* its items.  Items are nodes of a syntax tree, so their spans are nested *)
(* or apart, and begin with a token; which item is whose child follows     *)
(* from the spans.  Kinds, names and line numbers are left out.            *)
(***************************************************************************)
EXTENDS Naturals

CONSTANTS
  Sources,   \* the source files considered
  MaxBytes   \* settings.RAG_CHUNK_MAX_BYTES

Within(a, b) == b.lo <= a.lo /\ a.hi <= b.hi
Apart(a, b)  == a.hi <= b.lo \/ b.hi <= a.lo

\* What tree-sitter may find in a file.
IsSource(d) ==
  /\ d.size \in Nat
  /\ d.blank \subseteq 0..d.size
  /\ d.items \subseteq [lo : 0..d.size, hi : 0..d.size]
  /\ \A i \in d.items : i.lo < i.hi /\ i.lo \notin d.blank
  /\ \A i, j \in d.items : Within(i, j) \/ Within(j, i) \/ Apart(i, j)

ASSUME SourcesAssumption  == \A d \in Sources : IsSource(d)
ASSUME MaxBytesAssumption == MaxBytes \in Nat \ {0}

VARIABLES
  doc,      \* the source
  cpc,      \* where chunk_source is
  covered,  \* the top-level items that _residual_spans has still to visit
  cursor,   \* the cursor of _residual_spans, then of _split_oversized
  spans,    \* raw_spans, less those that have been cut
  end,      \* end_byte of the span that is being cut
  part,     \* part_index
  chunks    \* the chunks so far: file_path, lo, hi and part make the id

chunkVars == <<doc, cpc, covered, cursor, spans, end, part, chunks>>

ChunkTypeOK ==
  /\ IsSource(doc)
  /\ cpc \in {"parse", "residual", "split", "cut", "done"}
  /\ covered \subseteq doc.items
  /\ cursor \in 0..doc.size
  /\ spans \subseteq [lo : 0..doc.size, hi : 0..doc.size]
  /\ end \in 0..doc.size
  /\ part \in Nat
  /\ chunks \subseteq [lo : 0..doc.size, hi : 0..doc.size, part : Nat]

ChunkInit ==
  /\ doc \in Sources
  /\ cpc = "parse"
  /\ covered = {}
  /\ cursor = 0
  /\ spans = {}
  /\ end = 0
  /\ part = 0
  /\ chunks = {}

\* chunk_source is called on d.
Call(d) ==
  /\ doc' = d
  /\ cpc' = "parse"
  /\ covered' = {}
  /\ cursor' = 0
  /\ spans' = {}
  /\ end' = 0
  /\ part' = 0
  /\ chunks' = {}

Inner(d, i) == {c \in d.items \ {i} : Within(c, i)}
TopLevel == {i \in doc.items : \A j \in doc.items \ {i} : ~Within(i, j)}

\* Mutation of HeadEnd: the span of an item includes its children.
WholeItem(d, i) == i.hi

\* head_end: an item with children is embedded up to the first of them, since
\* they have spans of their own.  A leaf is embedded whole.
HeadEnd(d, i) == IF Inner(d, i) = {} THEN i.hi
                 ELSE CHOOSE n \in {c.lo : c \in Inner(d, i)} :
                        \A c \in Inner(d, i) : n <= c.lo

\* _flatten_structure.
Heads == {h \in {[lo |-> i.lo, hi |-> HeadEnd(doc, i)] : i \in doc.items} :
            h.lo < h.hi}

Solid(lo, hi) == \E n \in lo..hi : n < hi /\ n \notin doc.blank

\* A span of kind "module", if there is anything between lo and hi.
Gap(lo, hi) == IF lo < hi /\ Solid(lo, hi) THEN {[lo |-> lo, hi |-> hi]} ELSE {}

\* There is no grammar for the file, or the parser raises: one span.
WholeFile ==
  /\ cpc = "parse"
  /\ cpc' = "split"
  /\ spans' = {[lo |-> 0, hi |-> doc.size]}
  /\ UNCHANGED <<doc, covered, cursor, end, part, chunks>>

Parse ==
  /\ cpc = "parse"
  /\ cpc' = "residual"
  /\ spans' = Heads
  /\ covered' = TopLevel
  /\ UNCHANGED <<doc, cursor, end, part, chunks>>

\* _residual_spans: the gap before the next top-level item ...
NextGap ==
  /\ cpc = "residual"
  /\ \E i \in covered :
       /\ \A j \in covered : i.lo <= j.lo
       /\ spans' = spans \cup Gap(cursor, i.lo)
       /\ cursor' = IF cursor > i.hi THEN cursor ELSE i.hi
       /\ covered' = covered \ {i}
  /\ UNCHANGED <<doc, cpc, end, part, chunks>>

\* Mutation of TailEnd: the file is taken to end with its last item.
NoTail == cursor

TailEnd == doc.size

\* ... and the one after the last.
LastGap ==
  /\ cpc = "residual"
  /\ covered = {}
  /\ cpc' = "split"
  /\ spans' = spans \cup Gap(cursor, TailEnd)
  /\ UNCHANGED <<doc, covered, cursor, end, part, chunks>>

\* The spans are cut in the order in which they start.
TakeSpan ==
  /\ cpc = "split"
  /\ \E s \in spans :
       /\ \A t \in spans : s.lo <= t.lo
       /\ spans' = spans \ {s}
       /\ cursor' = s.lo
       /\ end' = s.hi
  /\ part' = 0
  /\ cpc' = "cut"
  /\ UNCHANGED <<doc, covered, chunks>>

\* Mutation of PartEnd: a span is not split.
SpanEnd == end

\* Mutation of PartEnd: the last part may reach beyond the span.
FullPartEnd == cursor + MaxBytes

PartEnd == IF cursor + MaxBytes < end THEN cursor + MaxBytes ELSE end

\* _split_oversized: the next part becomes a chunk unless it is blank.
Cut ==
  /\ cpc = "cut"
  /\ cursor < end
  /\ chunks' = IF Solid(cursor, PartEnd)
               THEN chunks \cup {[lo |-> cursor, hi |-> PartEnd, part |-> part]}
               ELSE chunks
  /\ cursor' = PartEnd
  /\ part' = part + 1
  /\ UNCHANGED <<doc, cpc, covered, spans, end>>

EndOfSpan ==
  /\ cpc = "cut"
  /\ cursor >= end
  /\ cpc' = "split"
  /\ UNCHANGED <<doc, covered, cursor, spans, end, part, chunks>>

Return ==
  /\ cpc = "split"
  /\ spans = {}
  /\ cpc' = "done"
  /\ UNCHANGED <<doc, covered, cursor, spans, end, part, chunks>>

ChunkNext == WholeFile \/ Parse \/ NextGap \/ LastGap \/ TakeSpan \/ Cut
             \/ EndOfSpan \/ Return

ChunkSpec == ChunkInit /\ [][ChunkNext]_chunkVars

-----------------------------------------------------------------------------
\* No byte is embedded twice: heads, leaves, gaps and parts never overlap.
ChunksDisjoint == \A c, d \in chunks : c # d => Apart(c, d)

\* No chunk is longer than the limit of the embedding.
ChunksBounded == \A c \in chunks : c.lo < c.hi /\ c.hi <= c.lo + MaxBytes

In(n, s) == s.lo <= n /\ n < s.hi

\* What _flatten_structure leaves out: the body of an item behind the start of
\* its first child, where none of its inner items is.
LeftOut(d, n) == \E i \in d.items : /\ In(n, i)
                                     /\ HeadEnd(d, i) <= n
                                     /\ \A c \in Inner(d, i) : ~In(n, c)

\* Every byte that is not blank can be found by a search, unless it lies in the
\* body of an item between or behind its children.
ChunksCover ==
  cpc = "done" =>
    \A n \in 0..doc.size :
      n < doc.size /\ n \notin doc.blank =>
        LeftOut(doc, n) \/ \E c \in chunks : In(n, c)
=============================================================================
