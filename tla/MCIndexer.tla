------------------------------ MODULE MCIndexer ------------------------------
(* Instances of Indexer for TLC.                                           *)
EXTENDS Indexer

CONSTANT Size

\* Every file of up to Size bytes with every nesting of items.
AllSources ==
  UNION {{d \in [size : {n}, blank : SUBSET (0..(n - 1)),
                 items : SUBSET {i \in [lo : 0..n, hi : 0..n] : i.lo < i.hi}] :
           IsSource(d)} : n \in 0..Size}

\* A text in one piece, one that begins with an item, and an empty file.
SomeSources ==
  {[size |-> 2, blank |-> {}, items |-> {}],
   [size |-> 2, blank |-> {}, items |-> {[lo |-> 0, hi |-> 1]}],
   [size |-> 0, blank |-> {}, items |-> {}]}
=============================================================================
