---------------------------- MODULE Storage_proofs ----------------------------
(***************************************************************************)
(* The storage keeps the chain through appends, replacements, compactions, *)
(* crashes and recoveries in any order and number, for any chain, unless   *)
(* replace_all and phase 1 of a compaction overlap (~ Overlap).            *)
(***************************************************************************)
EXTENDS Storage, FiniteSetTheorems, SequenceTheorems, TLAPS

\* The three kinds of cell, and what an index and an index file are made of.
Cell      == Record \cup {Header(e) : e \in Nat} \cup {Torn}
Entry     == [off : Nat \ {0}, flags : Flags]
Indexes   == UNION {[S -> Entry] : S \in SUBSET Height}
IndexFile == [epoch : Nat \cup {-1}, size : Nat, index : Indexes]

\* The first g cells of the file are a header and the records of the heights from 0
\* up.  This is what every file looks like that no corruption has hit: append,
\* replace_all and compaction all write the records in the order of their heights.
GoodTo(file, g) ==
    /\ g \in 1..Len(file)
    /\ \E e \in Nat : file[1] = Header(e)
    /\ \A n \in 2..g : file[n] \in Record /\ file[n].h = n - 2

\* The index and the blocks of such a file.
IndexTo(file, g)  == [h \in 0..g - 2 |-> [off |-> h + 2, flags |-> file[h + 2].flags]]
BlocksTo(file, g) == {[h |-> n - 2, id |-> file[n].id] : n \in 2..g}

\* The pruned ones among the first m records are PruneAfter below the tip of g cells.
Spares(file, m, g) == \A n \in 2..m : file[n].flags = "header" => g - n >= PruneAfter

\* If the index file ix fits the data file by its epoch, it is right about a part of it.
Fits(ix, file, g) ==
    ix.epoch = file[1].epoch => ix.size \in 1..g /\ ix.index = IndexTo(file, ix.size)

-----------------------------------------------------------------------------
(* Cells, extremes and chains *)

\* A cell is a record, a header or torn, and not two of these.
LEMMA Cells ==
  /\ \A c \in Record : /\ IsRecord(c) /\ ~ IsHeader(c) /\ c # Torn
                       /\ c.h \in Height /\ c.id \in Id /\ c.flags \in Flags
  /\ \A e : IsHeader(Header(e)) /\ ~ IsRecord(Header(e)) /\ Header(e).epoch = e
  /\ ~ IsRecord(Torn) /\ ~ IsHeader(Torn)
  /\ \A c \in Cell : IsRecord(c) <=> c \in Record
<1>1. ASSUME NEW c \in Record
      PROVE  /\ DOMAIN c = {"h", "id", "flags"}
             /\ c.h \in Height /\ c.id \in Id /\ c.flags \in Flags
  BY DEF Record
<1>2. \A e : DOMAIN Header(e) = {"epoch"} /\ Header(e).epoch = e
  BY DEF Header
<1>3. DOMAIN Torn = {"torn"}
  BY DEF Torn
<1>4. \A c \in Record : IsRecord(c) /\ ~ IsHeader(c) /\ c # Torn
  BY <1>1, <1>3 DEF IsRecord, IsHeader
<1>5. \A e : IsHeader(Header(e)) /\ ~ IsRecord(Header(e))
  BY <1>2 DEF IsRecord, IsHeader
<1>6. ~ IsRecord(Torn) /\ ~ IsHeader(Torn)
  BY <1>3 DEF IsRecord, IsHeader
<1>7. \A c \in Cell : IsRecord(c) <=> c \in Record
  BY <1>4, <1>5, <1>6 DEF Cell
<1> QED BY <1>1, <1>2, <1>4, <1>5, <1>6, <1>7

\* The extremes of a set of integers, where it has them.
LEMMA MostIs ==
  ASSUME NEW S \in SUBSET Int, NEW m \in S, \A k \in S : k <= m
  PROVE  Most(S) = m
<1> DEFINE IsMost(n) == \A k \in S : n >= k
<1>1. IsMost(m)
  OBVIOUS
<1>2. \A n \in S : IsMost(n) => n = m
  OBVIOUS
<1> HIDE DEF IsMost
<1> QED BY <1>1, <1>2 DEF Most, IsMost

LEMMA LeastIs ==
  ASSUME NEW S \in SUBSET Int, NEW m \in S, \A k \in S : m <= k
  PROVE  Least(S) = m
<1> DEFINE IsLeast(n) == \A k \in S : n <= k
<1>1. IsLeast(m)
  OBVIOUS
<1>2. \A n \in S : IsLeast(n) => n = m
  OBVIOUS
<1> HIDE DEF IsLeast
<1> QED BY <1>1, <1>2 DEF Least, IsLeast

\* Every nonempty set of naturals has a least member: otherwise each number up to one
\* of its members would be smaller than all of them.
LEMMA LeastNatural ==
  ASSUME NEW S \in SUBSET Nat, S # {}
  PROVE  \E m \in S : \A n \in S : m <= n
<1>1. SUFFICES ASSUME \A m \in S : \E n \in S : n < m PROVE FALSE
  OBVIOUS
<1>2. PICK k \in S : TRUE
  OBVIOUS
<1> DEFINE B == {m \in 0..k : \A n \in S : m <= n}
           f == [m \in B |-> m + 1]
<1>3. 0 \in B
  BY <1>2
<1>4. ASSUME NEW m \in B PROVE m + 1 \in B \ {0}
  <2> SUFFICES ASSUME NEW n \in S PROVE m < n
    BY <1>2
  <2>1. PICK j \in S : j < n
    BY <1>1
  <2> QED BY <2>1
<1>5. IsFiniteSet(B) /\ Cardinality(B) \in Nat
  BY <1>2, FS_Interval, FS_Subset, FS_CardinalityType, B \in SUBSET (0..k), 0 \in Int, k \in Int
<1>6. IsFiniteSet(B \ {0}) /\ Cardinality(B \ {0}) = Cardinality(B) - 1
  BY <1>3, <1>5, FS_RemoveElement
<1>7. f \in [B -> B \ {0}] /\ \A x, y \in B : f[x] = f[y] => x = y
  <2>1. B \in SUBSET Nat
    OBVIOUS
  <2> HIDE DEF B
  <2> QED BY <1>4, <2>1
<1> HIDE DEF B, f
<1> QED BY <1>5, <1>6, <1>7, FS_PigeonHole

\* A bounded set of naturals that is not empty has both.
LEMMA HaveExtremes ==
  ASSUME NEW S \in SUBSET Nat, S # {}, NEW bound \in Nat, \A k \in S : k <= bound
  PROVE  /\ Least(S) \in S /\ \A k \in S : Least(S) <= k
         /\ Most(S) \in S /\ \A k \in S : k <= Most(S)
<1>1. PICK m \in S : \A k \in S : m <= k
  BY LeastNatural
<1>2. Least(S) = m
  BY <1>1, LeastIs
<1> DEFINE D == {bound - k : k \in S}
<1>3. D \in SUBSET Nat /\ D # {}
  OBVIOUS
<1>4. PICK d \in D : \A k \in D : d <= k
  <2> HIDE DEF D
  <2> QED BY <1>3, LeastNatural
<1>5. PICK t \in S : d = bound - t
  BY <1>4
<1>6. \A k \in S : k <= t
  <2> SUFFICES ASSUME NEW k \in S PROVE k <= t
    OBVIOUS
  <2>1. d <= bound - k
    BY <1>4
  <2>2. k \in Nat /\ t \in Nat
    BY <1>5
  <2> QED BY <2>1, <2>2, <1>5
<1>7. Most(S) = t
  BY <1>5, <1>6, MostIs
<1> QED BY <1>1, <1>2, <1>5, <1>6, <1>7

LEMMA HeightsHaveExtremes ==
  ASSUME NEW S \in SUBSET Height, S # {}
  PROVE  /\ Least(S) \in S /\ \A k \in S : Least(S) <= k
         /\ Most(S) \in S /\ \A k \in S : k <= Most(S)
<1>1. MaxHeight \in Nat /\ S \in SUBSET Nat /\ \A k \in S : k <= MaxHeight
  BY StorageAssumption DEF Height
<1> QED BY <1>1, HaveExtremes

\* A chain has one block for each height from 0 to its tip.
LEMMA ChainShape ==
  ASSUME NEW chain \in Chains
  PROVE  /\ TipOf(chain) \in Height
         /\ chain \in SUBSET Block
         /\ {b.h : b \in chain} = 0..TipOf(chain)
         /\ \A b, c \in chain : b.h = c.h => b = c
         /\ \A h \in 0..TipOf(chain) : (CHOOSE b \in chain : b.h = h) \in chain
                                        /\ (CHOOSE b \in chain : b.h = h).h = h
<1>1. PICK f \in [Height -> Id], k \in Height : chain = {[h |-> n, id |-> f[n]] : n \in 0..k}
  BY DEF Chains
<1> DEFINE At(n) == [h |-> n, id |-> f[n]]
<1>0. /\ chain = {At(n) : n \in 0..k}
      /\ \A n : At(n).h = n /\ At(n).id = f[n]
  BY <1>1
<1> HIDE DEF At
<1>2. {b.h : b \in chain} = 0..k
  BY <1>0
<1>3. TipOf(chain) = k
  <2>1. k \in Nat /\ k <= MaxHeight
    BY StorageAssumption DEF Height
  <2> DEFINE S == {b.h : b \in chain} \cup {-1}
  <2>2. S \in SUBSET Int /\ k \in S /\ \A n \in S : n <= k
    BY <1>2, <2>1
  <2>3. Most(S) = k
    <3> HIDE DEF S
    <3> QED BY <2>2, MostIs
  <2> QED BY <2>3 DEF TipOf
<1>4. \A n \in 0..k : n \in Height
  BY StorageAssumption DEF Height
<1>5. chain \in SUBSET Block
  BY <1>1, <1>4 DEF Block
<1>6. \A b, c \in chain : b.h = c.h => b = c
  BY <1>0
<1>7. \A n \in 0..k : \E b \in chain : b.h = n
  BY <1>0
<1> QED BY <1>2, <1>3, <1>5, <1>6, <1>7

\* The heights of the blocks of a file that is good to g, and the last of them.
LEMMA HeightsOfFile ==
  ASSUME NEW file, NEW g \in Nat \ {0}
  PROVE  /\ {b.h : b \in BlocksTo(file, g)} = 0..g - 2
         /\ TipOf(BlocksTo(file, g)) = g - 2
         /\ DOMAIN IndexTo(file, g) = 0..g - 2
<1>1. {b.h : b \in BlocksTo(file, g)} = 0..g - 2
  <2>1. \A n \in 2..g : n - 2 \in 0..g - 2
    OBVIOUS
  <2>2. ASSUME NEW n \in 0..g - 2
        PROVE  \E b \in BlocksTo(file, g) : b.h = n
    <3>1. n + 2 \in 2..g /\ (n + 2) - 2 = n
      OBVIOUS
    <3>2. [h |-> (n + 2) - 2, id |-> file[n + 2].id] \in BlocksTo(file, g)
      BY <3>1 DEF BlocksTo
    <3>3. [h |-> (n + 2) - 2, id |-> file[n + 2].id].h = n
      BY <3>1
    <3> QED BY <3>2, <3>3
  <2>3. \A b \in BlocksTo(file, g) : b.h \in 0..g - 2
    BY <2>1 DEF BlocksTo
  <2> QED BY <2>2, <2>3
<1>2. TipOf(BlocksTo(file, g)) = g - 2
  <2> DEFINE S == {b.h : b \in BlocksTo(file, g)} \cup {-1}
  <2>1. S \in SUBSET Int /\ g - 2 \in S /\ \A n \in S : n <= g - 2
    BY <1>1
  <2>2. Most(S) = g - 2
    <3> HIDE DEF S
    <3> QED BY <2>1, MostIs
  <2> QED BY <2>2 DEF TipOf
<1> QED BY <1>1, <1>2 DEF IndexTo

-----------------------------------------------------------------------------
(* Recovery *)

\* The index of a file without records is the empty one.
LEMMA EmptyIndex ==
  /\ \A file : IndexTo(file, 1) = << >>
  /\ << >> \in Indexes /\ DOMAIN << >> = {}
<1>1. DOMAIN << >> = {}
  OBVIOUS
<1>2. ASSUME NEW file PROVE IndexTo(file, 1) = << >>
  <2>1. IndexTo(file, 1) = [h \in {} |-> [off |-> h + 2, flags |-> file[h + 2].flags]]
    <3>1. 0..1 - 2 = {}
      OBVIOUS
    <3> QED BY <3>1 DEF IndexTo
  <2> QED BY <2>1
<1>3. << >> \in [{} -> Entry]
  OBVIOUS
<1>4. {} \in SUBSET Height
  OBVIOUS
<1> QED BY <1>1, <1>2, <1>3, <1>4 DEF Indexes

\* The index of a good file is an index.
LEMMA GoodIndex ==
  ASSUME NEW file \in Seq(Cell), NEW g \in Nat, GoodTo(file, g)
  PROVE  /\ IndexTo(file, g) \in Indexes
         /\ \A h \in 0..g - 2 : /\ h \in Height
                                /\ h + 2 \in 2..g
                                /\ file[h + 2] \in Record /\ file[h + 2].h = h
                                /\ IndexTo(file, g)[h] = [off |-> h + 2, flags |-> file[h + 2].flags]
<1>1. \A h \in 0..g - 2 : /\ h \in Height
                          /\ h + 2 \in 2..g
                          /\ file[h + 2] \in Record /\ file[h + 2].h = h
  <2> SUFFICES ASSUME NEW h \in 0..g - 2
               PROVE  /\ h \in Height
                      /\ h + 2 \in 2..g
                      /\ file[h + 2] \in Record /\ file[h + 2].h = h
    OBVIOUS
  <2>1. h + 2 \in 2..g /\ (h + 2) - 2 = h
    OBVIOUS
  <2>2. file[h + 2] \in Record /\ file[h + 2].h = h
    BY <2>1 DEF GoodTo
  <2> QED BY <2>1, <2>2, Cells
<1>2. \A h \in 0..g - 2 : [off |-> h + 2, flags |-> file[h + 2].flags] \in Entry
  <2>1. \A h \in 0..g - 2 : file[h + 2].flags \in Flags
    BY <1>1, Cells
  <2>2. \A h \in 0..g - 2 : h + 2 \in Nat \ {0}
    OBVIOUS
  <2> QED BY <2>1, <2>2 DEF Entry
<1>3. IndexTo(file, g) \in [0..g - 2 -> Entry]
  BY <1>2 DEF IndexTo
<1>4. 0..g - 2 \in SUBSET Height
  BY <1>1
<1> QED BY <1>1, <1>3, <1>4 DEF Indexes, IndexTo

\* load() over a good file gives its blocks.
LEMMA LoadGood ==
  ASSUME NEW file \in Seq(Cell), NEW g \in Nat, GoodTo(file, g)
  PROVE  /\ \A h \in 0..g - 2 : /\ Readable(file, IndexTo(file, g)[h])
                                /\ BlockAt(file, IndexTo(file, g)[h]) = [h |-> h, id |-> file[h + 2].id]
         /\ Loaded(file, IndexTo(file, g)) = BlocksTo(file, g)
<1> DEFINE ix == IndexTo(file, g)
<1>0. g \in Nat \ {0} /\ g <= Len(file)
  BY DEF GoodTo
<1>1. ASSUME NEW h \in 0..g - 2
      PROVE  Readable(file, ix[h]) /\ BlockAt(file, ix[h]) = [h |-> h, id |-> file[h + 2].id]
  <2>1. /\ h + 2 \in 2..g /\ file[h + 2] \in Record /\ file[h + 2].h = h
        /\ ix[h] = [off |-> h + 2, flags |-> file[h + 2].flags]
    BY GoodIndex
  <2>2. ix[h].off = h + 2 /\ ix[h].flags = file[h + 2].flags
    BY <2>1
  <2>3. IsRecord(file[h + 2])
    BY <2>1, Cells
  <2>4. h + 2 <= Len(file)
    BY <1>0
  <2> HIDE DEF ix
  <2> QED BY <2>1, <2>2, <2>3, <2>4 DEF Readable, BlockAt
<1>2. DOMAIN ix = 0..g - 2
  BY <1>0, HeightsOfFile
<1>3. BlocksTo(file, g) = {[h |-> h, id |-> file[h + 2].id] : h \in 0..g - 2}
  <2>1. \A n \in 2..g : n - 2 \in 0..g - 2 /\ (n - 2) + 2 = n
    OBVIOUS
  <2>2. \A h \in 0..g - 2 : h + 2 \in 2..g /\ (h + 2) - 2 = h
    OBVIOUS
  <2> QED BY <2>1, <2>2 DEF BlocksTo
<1> HIDE DEF ix
<1>4. Loaded(file, ix) = {BlockAt(file, ix[h]) : h \in 0..g - 2}
  BY <1>1, <1>2 DEF Loaded
<1>5. {BlockAt(file, ix[h]) : h \in 0..g - 2} = {[h |-> h, id |-> file[h + 2].id] : h \in 0..g - 2}
  BY <1>1
<1> QED BY <1>1, <1>3, <1>4, <1>5 DEF ix

\* Two files with the same first g cells are good to g alike.
LEMMA SamePrefix ==
  ASSUME NEW file \in Seq(Cell), NEW copy \in Seq(Cell), NEW g \in Nat, GoodTo(file, g),
         g <= Len(copy),
         \A n \in 1..g : copy[n] = file[n]
  PROVE  /\ GoodTo(copy, g)
         /\ IndexTo(copy, g) = IndexTo(file, g)
         /\ BlocksTo(copy, g) = BlocksTo(file, g)
<1>0. g \in 1..Len(copy) /\ 1 \in 1..g /\ \A n \in 2..g : n \in 1..g
  BY DEF GoodTo
<1>1. GoodTo(copy, g)
  BY <1>0 DEF GoodTo
<1>2. \A h \in 0..g - 2 : h + 2 \in 1..g
  OBVIOUS
<1>3. IndexTo(copy, g) = IndexTo(file, g)
  BY <1>2 DEF IndexTo
<1>4. BlocksTo(copy, g) = BlocksTo(file, g)
  BY <1>0 DEF BlocksTo
<1> QED BY <1>1, <1>3, <1>4

\* _recover() over a file whose first g cells are good and whose tail is torn at most:
\* whether it adopts the index file or scans, it gives back exactly these cells.
LEMMA RecoverGood ==
  ASSUME NEW file \in Seq(Cell), NEW g \in Nat, GoodTo(file, g),
         \/ Len(file) = g
         \/ Len(file) = g + 1 /\ file[g + 1] \notin Record,
         NEW ix \in IndexFile, Fits(ix, file, g)
  PROVE  /\ HasHeader(file)
         /\ RecoveredFile(file, ix) = SubSeq(file, 1, g)
         /\ RecoveredIndex(file, ix) = IndexTo(file, g)
         /\ Loaded(RecoveredFile(file, ix), RecoveredIndex(file, ix)) = BlocksTo(file, g)
<1> DEFINE start == ScanStart(file, ix)
           base  == BaseIndex(file, ix)
<1>1. HasHeader(file) /\ g \in Nat \ {0} /\ g <= Len(file) /\ Len(file) \in Nat
  BY Cells DEF GoodTo, HasHeader
<1>2. start \in 1..g /\ base = IndexTo(file, start)
  <2>1. CASE Adopts(file, ix)
    BY <2>1 DEF Adopts, Fits, ScanStart, BaseIndex
  <2>2. CASE ~ Adopts(file, ix)
    <3>1. start = 1 /\ base = << >>
      BY <2>2 DEF ScanStart, BaseIndex
    <3> QED BY <1>1, <3>1, EmptyIndex
  <2> QED BY <2>1, <2>2
<1> HIDE DEF start, base
<1>3. LastGood(file, start) = g
  <2> DEFINE S == {n \in start..Len(file) : \A i \in start + 1..n : IsRecord(file[i])}
  <2>1. g \in S
    <3>1. \A i \in start + 1..g : file[i] \in Record
      BY <1>2 DEF GoodTo
    <3> QED BY <1>1, <1>2, <3>1, Cells
  <2>2. ASSUME NEW n \in S PROVE n <= g
    <3> SUFFICES ASSUME n > g PROVE FALSE
      BY <1>1
    <3>1. n = g + 1 /\ Len(file) = g + 1 /\ file[g + 1] \notin Record
      BY <1>1
    <3>2. IsRecord(file[g + 1])
      BY <1>1, <1>2, <3>1
    <3>3. file[g + 1] \in Cell
      BY <1>1, <3>1
    <3> QED BY <3>1, <3>2, <3>3, Cells
  <2>3. S \in SUBSET Int
    BY <1>2
  <2>4. Most(S) = g
    <3> HIDE DEF S
    <3> QED BY <2>1, <2>2, <2>3, MostIs
  <2> QED BY <2>4 DEF LastGood
<1>4. Scanned(file, start, base) = IndexTo(file, g)
  <2> DEFINE good  == start + 1..g
             found == {file[i].h : i \in good}
             last(h) == Most({j \in good : file[j].h = h})
  <2>1. \A i \in good : i \in 2..g /\ file[i].h = i - 2
    BY <1>1, <1>2 DEF GoodTo
  <2>2. found = start - 1..g - 2
    <3>1. \A i \in good : file[i].h \in start - 1..g - 2
      BY <1>1, <1>2, <2>1
    <3>2. ASSUME NEW h \in start - 1..g - 2 PROVE h \in found
      <4>1. h + 2 \in good /\ (h + 2) - 2 = h
        BY <1>1, <1>2
      <4>2. file[h + 2].h = h
        BY <2>1, <4>1
      <4> HIDE DEF good
      <4> QED BY <4>1, <4>2
    <3> HIDE DEF good
    <3> QED BY <3>1, <3>2
  <2>3. ASSUME NEW h \in found PROVE last(h) = h + 2
    <3> DEFINE J == {j \in good : file[j].h = h}
    <3>1. h \in start - 1..g - 2
      BY <2>2
    <3>2. h + 2 \in good /\ (h + 2) - 2 = h
      BY <1>1, <1>2, <3>1
    <3>3. J \in SUBSET Int /\ h + 2 \in J
      BY <1>2, <2>1, <3>2
    <3>4. \A j \in J : j <= h + 2
      BY <1>2, <2>1
    <3>5. Most(J) = h + 2
      <4> HIDE DEF J
      <4> QED BY <3>3, <3>4, MostIs
    <3> QED BY <3>5
  <2>4. DOMAIN base = 0..start - 2
    BY <1>2 DEF IndexTo
  <2>5. (0..start - 2) \cup found = 0..g - 2
    <3>1. (0..start - 2) \cup (start - 1..g - 2) = 0..g - 2
      BY <1>1, <1>2
    <3> HIDE DEF found
    <3> QED BY <2>2, <3>1
  <2>6. Scanned(file, start, base) =
          [h \in DOMAIN base \cup found |->
             IF h \in found THEN [off |-> last(h), flags |-> file[last(h)].flags] ELSE base[h]]
    BY <1>3 DEF Scanned
  <2>7. ASSUME NEW h \in 0..g - 2
        PROVE  (IF h \in found THEN [off |-> last(h), flags |-> file[last(h)].flags] ELSE base[h])
                  = [off |-> h + 2, flags |-> file[h + 2].flags]
    <3>1. CASE h \in found
      BY <2>3, <3>1
    <3>2. CASE h \notin found
      <4>1. h \in 0..start - 2
        BY <2>5, <3>2
      <4> QED BY <1>2, <3>2, <4>1 DEF IndexTo
    <3> QED BY <3>1, <3>2
  <2> HIDE DEF good, found, last
  <2> QED BY <2>4, <2>5, <2>6, <2>7 DEF IndexTo
<1>5. /\ RecoveredFile(file, ix) = SubSeq(file, 1, g)
      /\ RecoveredIndex(file, ix) = IndexTo(file, g)
  BY <1>1, <1>3, <1>4 DEF RecoveredFile, RecoveredIndex, start, base
<1>6. /\ SubSeq(file, 1, g) \in Seq(Cell) /\ Len(SubSeq(file, 1, g)) = g
      /\ \A n \in 1..g : SubSeq(file, 1, g)[n] = file[n]
  BY <1>1
<1>7. Loaded(SubSeq(file, 1, g), IndexTo(file, g)) = BlocksTo(file, g)
  <2> DEFINE cut == SubSeq(file, 1, g)
  <2>1. cut \in Seq(Cell) /\ Len(cut) = g /\ \A n \in 1..g : cut[n] = file[n]
    BY <1>6
  <2> HIDE DEF cut
  <2>0. g <= Len(cut)
    BY <2>1
  <2>2. GoodTo(cut, g) /\ IndexTo(cut, g) = IndexTo(file, g) /\ BlocksTo(cut, g) = BlocksTo(file, g)
    BY <2>0, <2>1, SamePrefix
  <2>3. Loaded(cut, IndexTo(cut, g)) = BlocksTo(cut, g)
    BY <2>1, <2>2, LoadGood
  <2> QED BY <2>2, <2>3 DEF cut
<1> QED BY <1>1, <1>5, <1>7

-----------------------------------------------------------------------------
(* Types *)

\* What the event loop and the compaction thread hold at each point.
Replacing  == [pc : {"write", "index", "data", "done"}, fd : Inode, pos : Nat \ {0},
               chain : Chains, epoch : Nat]
Opening    == [pc : {"open"}, snap : Indexes, seq : Nat]
Copying    == [pc : {"write"}, snap : Indexes, seq : Nat, epoch : Nat, fd : Inode, src : Inode,
               pos : Nat \ {0}, todo : SUBSET Height, names : SUBSET Height, index : Indexes]
CatchingUp == [pc : {"catchup"}, snap : Indexes, seq : Nat, epoch : Nat,
               pos : Nat \ {0}, index : Indexes]
Swapping   == [pc : {"data", "done"}, epoch : Nat]

\* The files and what the process knows of them.
FilesTyped ==
    /\ ino \in [Inode -> Seq(Cell)]
    /\ data \in Inode /\ tmp \in Inode \cup {0} /\ data # tmp
    /\ mem \in [index : Indexes, epoch : Nat, size : Nat, seq : Nat]
    /\ idx \in IndexFile /\ idxTmp \in IndexFile
    /\ alive \in BOOLEAN
    /\ main \in SUBSET Block

\* The two threads: the lock is held by the one that is swapping files, and while a
\* compaction copies, the event loop is not in replace_all.
ThreadsTyped ==
    /\ loop \in Replacing \cup {Idle}
    /\ comp \in Opening \cup Copying \cup CatchingUp \cup Swapping \cup {Idle}
    /\ lock = IF loop.pc # "idle" THEN "loop"
              ELSE IF comp.pc \in {"data", "done"} THEN "comp" ELSE "free"
    /\ ~ (loop.pc # "idle" /\ comp.pc \in {"write", "data", "done"})
    /\ ~ alive => loop.pc = "idle" /\ comp.pc = "idle"
    /\ loop.pc = "write" => loop.fd = tmp /\ loop.pos <= TipOf(loop.chain) + 2
    /\ comp.pc = "write" =>
          /\ comp.fd = tmp /\ comp.src = data
          /\ comp.todo \subseteq DOMAIN comp.snap
          /\ Cardinality(comp.todo) <= Cardinality(comp.names)

Counts == flips \in Nat /\ crashes \in Nat /\ rewrites \in Nat

Shape == FilesTyped /\ ThreadsTyped /\ Counts

\* The names of the points tell what is held there.
LEMMA Points ==
  /\ \A l \in Replacing : l.pc \in {"write", "index", "data", "done"}
  /\ \A c \in Opening : c.pc = "open"
  /\ \A c \in Copying : c.pc = "write"
  /\ \A c \in CatchingUp : c.pc = "catchup"
  /\ \A c \in Swapping : c.pc \in {"data", "done"}
  /\ Idle.pc = "idle"
BY DEF Replacing, Opening, Copying, CatchingUp, Swapping, Idle

\* A file that is written through a descriptor at a position stays one; at its end
\* the write appends.
LEMMA WriteAtIs ==
  ASSUME NEW file \in Seq(Cell), NEW pos \in Nat \ {0}, NEW cell \in Cell
  PROVE  /\ WriteAt(file, pos, cell) \in Seq(Cell)
         /\ pos = Len(file) + 1 =>
               /\ Len(WriteAt(file, pos, cell)) = pos
               /\ WriteAt(file, pos, cell)[pos] = cell
               /\ \A n \in 1..Len(file) : WriteAt(file, pos, cell)[n] = file[n]
<1> DEFINE len == IF pos > Len(file) THEN pos ELSE Len(file)
           at(i) == IF i = pos THEN cell ELSE IF i <= Len(file) THEN file[i] ELSE Torn
<1>1. len \in Nat /\ Torn \in Cell /\ Len(file) \in Nat
  BY DEF Cell
<1>2. \A i \in 1..len : at(i) \in Cell
  BY <1>1
<1>3. WriteAt(file, pos, cell) = [i \in 1..len |-> at(i)]
  BY DEF WriteAt
<1> HIDE DEF at
<1>4. [i \in 1..len |-> at(i)] \in [1..len -> Cell]
  BY <1>2
<1>5. WriteAt(file, pos, cell) \in Seq(Cell) /\ Len(WriteAt(file, pos, cell)) = len
  <2> HIDE DEF len
  <2> QED BY <1>1, <1>3, <1>4
<1>6. ASSUME pos = Len(file) + 1
      PROVE  /\ len = pos
             /\ WriteAt(file, pos, cell)[pos] = cell
             /\ \A n \in 1..Len(file) : WriteAt(file, pos, cell)[n] = file[n]
  <2>1. len = pos
    BY <1>1, <1>6
  <2>2. pos \in 1..len /\ \A n \in 1..Len(file) : n \in 1..len /\ n # pos
    BY <1>1, <1>6
  <2> HIDE DEF len
  <2> QED BY <1>3, <2>1, <2>2 DEF at
<1> QED BY <1>5, <1>6

\* The tmp file is another one than the data file, and opening it empties it.
LEMMA OpenTmpIs ==
  ASSUME FilesTyped, loop.pc # "write", comp.pc # "write", NEW fd \in Inode, OpenTmp(fd)
  PROVE  /\ fd # data /\ tmp' = fd
         /\ ino' = [ino EXCEPT ![fd] = << >>]
         /\ ino' \in [Inode -> Seq(Cell)]
         /\ ino'[data] = ino[data] /\ ino'[fd] = << >>
<1>1. fd # data
  <2>1. CASE tmp # 0
    BY <2>1 DEF OpenTmp, FilesTyped
  <2>2. CASE tmp = 0
    <3>1. InUse = {data, 0}
      BY <2>2 DEF InUse
    <3> DEFINE S == Inode \ {data, 0}
    <3>2. S \in SUBSET Nat /\ S # {} /\ \A k \in S : k <= 3
      <4>1. 1 \in Inode /\ 2 \in Inode /\ \A k \in Inode : k \in Nat /\ k <= 3
        BY DEF Inode
      <4>2. S # {}
        <5>1. CASE data = 1
          BY <4>1, <5>1
        <5>2. CASE data # 1
          BY <4>1, <5>2
        <5> QED BY <5>1, <5>2
      <4> QED BY <4>1, <4>2
    <3>3. Least(S) \in S
      <4> HIDE DEF S
      <4> QED BY <3>2, HaveExtremes
    <3>4. fd = Least(S)
      BY <2>2, <3>1 DEF OpenTmp
    <3> QED BY <3>3, <3>4
  <2> QED BY <2>1, <2>2
<1>2. << >> \in Seq(Cell)
  OBVIOUS
<1> QED BY <1>1, <1>2 DEF OpenTmp, FilesTyped

\* _recover() gives back a file and an index, whatever is on the disk.
LEMMA RecoveredTypes ==
  ASSUME NEW file \in Seq(Cell), NEW ix \in IndexFile
  PROVE  /\ RecoveredFile(file, ix) \in Seq(Cell)
         /\ Len(RecoveredFile(file, ix)) >= 1
         /\ \E e \in Nat : RecoveredFile(file, ix)[1] = Header(e)
         /\ RecoveredIndex(file, ix) \in Indexes
<1>0. Header(0) \in Cell
  BY DEF Cell
<1>1. CASE ~ HasHeader(file)
  <2>1. RecoveredFile(file, ix) = <<Header(0)>> /\ RecoveredIndex(file, ix) = << >>
    BY <1>1 DEF RecoveredFile, RecoveredIndex
  <2>2. <<Header(0)>> \in Seq(Cell) /\ Len(<<Header(0)>>) = 1 /\ <<Header(0)>>[1] = Header(0)
    BY <1>0
  <2> QED BY <2>1, <2>2, EmptyIndex
<1>2. CASE HasHeader(file)
  <2> DEFINE start == ScanStart(file, ix)
             base  == BaseIndex(file, ix)
             last  == LastGood(file, start)
  <2>1. Len(file) \in Nat /\ Len(file) >= 1 /\ file[1] \in Cell /\ IsHeader(file[1])
    BY <1>2 DEF HasHeader
  <2>2. \E e \in Nat : file[1] = Header(e)
    BY <2>1, Cells DEF Cell
  <2>3. start \in 1..Len(file) /\ base \in Indexes
    BY <2>1, EmptyIndex DEF ScanStart, BaseIndex, Adopts, IndexFile
  <2> HIDE DEF start, base
  <2>4. last \in start..Len(file) /\ \A i \in start + 1..last : IsRecord(file[i])
    <3> DEFINE S == {n \in start..Len(file) : \A i \in start + 1..n : IsRecord(file[i])}
    <3>1. S \in SUBSET Nat /\ start \in S /\ \A k \in S : k <= Len(file)
      BY <2>1, <2>3
    <3>2. Most(S) \in S
      <4> HIDE DEF S
      <4> QED BY <2>1, <3>1, HaveExtremes
    <3> QED BY <3>2 DEF LastGood
  <2> HIDE DEF last
  <2>5. \A i \in start + 1..last : file[i] \in Record /\ i \in Nat \ {0} /\ i <= Len(file)
    <3> SUFFICES ASSUME NEW i \in start + 1..last
                 PROVE  file[i] \in Record /\ i \in Nat \ {0} /\ i <= Len(file)
      OBVIOUS
    <3>1. i \in 1..Len(file)
      BY <2>1, <2>3, <2>4
    <3>2. file[i] \in Cell /\ IsRecord(file[i])
      BY <2>4, <3>1
    <3> QED BY <2>1, <3>1, <3>2, Cells
  <2>6. Scanned(file, start, base) \in Indexes
    <3> DEFINE good  == start + 1..last
               found == {file[i].h : i \in good}
               at(h) == Most({j \in good : file[j].h = h})
               entry(h) == IF h \in found THEN [off |-> at(h), flags |-> file[at(h)].flags]
                                          ELSE base[h]
    <3>1. Scanned(file, start, base) = [h \in DOMAIN base \cup found |-> entry(h)]
      BY DEF Scanned, last
    <3>2. found \in SUBSET Height
      BY <2>5, Cells
    <3>3. PICK D \in SUBSET Height : base \in [D -> Entry]
      BY <2>3 DEF Indexes
    <3>4. ASSUME NEW h \in found PROVE at(h) \in good
      <4> DEFINE J == {j \in good : file[j].h = h}
      <4>1. J \in SUBSET Nat /\ J # {} /\ \A j \in J : j <= Len(file)
        BY <2>1, <2>3, <2>5
      <4>2. Most(J) \in J
        <5> HIDE DEF J
        <5> QED BY <2>1, <4>1, HaveExtremes
      <4> QED BY <4>2
    <3>5. \A h \in DOMAIN base \cup found : entry(h) \in Entry
      <4>1. ASSUME NEW h \in found PROVE entry(h) \in Entry
        <5>1. at(h) \in good /\ file[at(h)] \in Record /\ at(h) \in Nat \ {0}
          BY <2>5, <3>4, <4>1
        <5>2. file[at(h)].flags \in Flags
          BY <5>1, Cells
        <5>3. entry(h) = [off |-> at(h), flags |-> file[at(h)].flags]
          BY <4>1
        <5> HIDE DEF at, entry
        <5> QED BY <5>1, <5>2, <5>3 DEF Entry
      <4>2. ASSUME NEW h \in DOMAIN base, h \notin found PROVE entry(h) \in Entry
        BY <3>3, <4>2
      <4> QED BY <4>1, <4>2
    <3> HIDE DEF entry, found
    <3>6. [h \in DOMAIN base \cup found |-> entry(h)] \in [DOMAIN base \cup found -> Entry]
      BY <3>5
    <3>7. DOMAIN base \cup found \in SUBSET Height
      BY <3>2, <3>3
    <3> QED BY <3>1, <3>6, <3>7 DEF Indexes
  <2>7. /\ RecoveredFile(file, ix) = SubSeq(file, 1, last)
        /\ RecoveredIndex(file, ix) = Scanned(file, start, base)
    BY <1>2 DEF RecoveredFile, RecoveredIndex, last, start, base
  <2>8. /\ SubSeq(file, 1, last) \in Seq(Cell) /\ Len(SubSeq(file, 1, last)) = last
        /\ SubSeq(file, 1, last)[1] = file[1]
    <3>1. last \in 1..Len(file)
      BY <2>1, <2>3, <2>4
    <3> QED BY <2>1, <3>1
  <2>9. last >= 1
    BY <2>3, <2>4
  <2> QED BY <2>2, <2>6, <2>7, <2>8, <2>9
<1> QED BY <1>1, <1>2

\* What load() gives are blocks.
LEMMA LoadedBlocks ==
  ASSUME NEW file \in Seq(Cell), NEW ix \in Indexes
  PROVE  Loaded(file, ix) \in SUBSET Block
<1> SUFFICES ASSUME NEW h \in DOMAIN ix, Readable(file, ix[h])
             PROVE  BlockAt(file, ix[h]) \in Block
  BY DEF Loaded
<1>1. ix[h].off \in Nat \ {0}
  <2>1. PICK D \in SUBSET Height : ix \in [D -> Entry]
    BY DEF Indexes
  <2>2. ix[h] \in Entry
    BY <2>1
  <2> QED BY <2>2 DEF Entry
<1>2. ix[h].off \in 1..Len(file) /\ IsRecord(file[ix[h].off])
  BY <1>1 DEF Readable
<1>3. file[ix[h].off] \in Record
  <2>1. file[ix[h].off] \in Cell
    BY <1>2
  <2> QED BY <1>2, <2>1, Cells
<1> QED BY <1>3, Cells DEF BlockAt, Block

\* The ranks of the members of a set of heights are 1, 2, ... up to their number.
LEMMA Ranks ==
  ASSUME NEW S \in SUBSET Height
  PROVE  /\ IsFiniteSet(S) /\ Cardinality(S) \in Nat
         /\ \A h \in S : Cardinality({k \in S : k <= h}) \in Nat \ {0}
         /\ \A i \in 1..Cardinality(S) : \E h \in S : Cardinality({k \in S : k <= h}) = i
<1> DEFINE UpTo(h) == {k \in S : k <= h}
<1>0. MaxHeight \in Nat /\ S \in SUBSET Nat
  BY StorageAssumption DEF Height
<1>1. IsFiniteSet(S) /\ Cardinality(S) \in Nat
  <2>1. IsFiniteSet(Height)
    BY <1>0, FS_Interval DEF Height
  <2> QED BY <2>1, FS_Subset, FS_CardinalityType
<1>2. \A h : UpTo(h) \in SUBSET S /\ IsFiniteSet(UpTo(h)) /\ Cardinality(UpTo(h)) \in Nat
  BY <1>1, FS_Subset, FS_CardinalityType
<1>3. ASSUME NEW h \in S PROVE Cardinality(UpTo(h)) \in Nat \ {0}
  <2>1. h \in UpTo(h)
    BY <1>0
  <2> HIDE DEF UpTo
  <2> QED BY <1>2, <2>1, FS_EmptySet
<1>4. ASSUME NEW i \in 1..Cardinality(S)
      PROVE  \E h \in S : Cardinality(UpTo(h)) = i
  <2> DEFINE R == {h \in S : Cardinality(UpTo(h)) >= i}
  <2>1. R # {}
    <3>1. S # {}
      BY <1>1, FS_EmptySet
    <3>2. Most(S) \in S /\ UpTo(Most(S)) = S
      BY <3>1, HeightsHaveExtremes
    <3> HIDE DEF UpTo
    <3>3. Cardinality(S) >= i
      BY <1>1
    <3> QED BY <3>2, <3>3
  <2>2. R \in SUBSET Height
    OBVIOUS
  <2> DEFINE h == Least(R)
  <2>3. h \in R /\ \A k \in R : h <= k
    <3> HIDE DEF R
    <3> QED BY <2>1, <2>2, HeightsHaveExtremes
  <2> HIDE DEF h
  <2>4. h \in S /\ Cardinality(UpTo(h)) >= i
    BY <2>3
  <2>5. ASSUME Cardinality(UpTo(h)) # i PROVE FALSE
    <3> DEFINE P == UpTo(h) \ {h}
    <3>1. h \in UpTo(h)
      BY <1>0, <2>4
    <3>2. IsFiniteSet(P) /\ Cardinality(P) = Cardinality(UpTo(h)) - 1
      <4> HIDE DEF UpTo
      <4> QED BY <1>2, <3>1, FS_RemoveElement
    <3>3. Cardinality(P) >= i
      <4> HIDE DEF P, UpTo
      <4> QED BY <1>1, <1>2, <2>4, <2>5, <3>2
    <3>4. P # {}
      <4> HIDE DEF P
      <4> QED BY <3>3, FS_EmptySet
    <3>5. P \in SUBSET Height
      OBVIOUS
    <3>6. Most(P) \in P /\ \A k \in P : k <= Most(P)
      <4> HIDE DEF P
      <4> QED BY <3>4, <3>5, HeightsHaveExtremes
    <3>7. Most(P) \in S /\ Most(P) < h /\ Most(P) \in Nat /\ h \in Nat
      <4>1. \A k \in P : k \in S /\ k <= h /\ k # h
        OBVIOUS
      <4> HIDE DEF P
      <4>2. Most(P) \in S /\ Most(P) <= h /\ Most(P) # h
        BY <3>6, <4>1
      <4>3. Most(P) \in Nat /\ h \in Nat
        BY <1>0, <2>4, <4>2
      <4> QED BY <4>2, <4>3
    <3>8. UpTo(Most(P)) = P
      <4>1. ASSUME NEW k \in S, k <= Most(P) PROVE k \in P
        BY <1>0, <3>7, <4>1
      <4>2. \A k \in P : k \in S /\ k <= Most(P)
        BY <3>6
      <4> QED BY <4>1, <4>2
    <3>9. Most(P) \in R
      <4> HIDE DEF P, UpTo
      <4> QED BY <3>3, <3>7, <3>8
    <3> HIDE DEF P
    <3> QED BY <2>3, <3>7, <3>9
  <2> HIDE DEF UpTo
  <2> QED BY <2>4, <2>5
<1> QED BY <1>1, <1>3, <1>4

\* A member of Indexes, and an index with one entry more.
LEMMA Indices ==
  /\ \A ix \in Indexes : /\ DOMAIN ix \in SUBSET Height
                         /\ \A h \in DOMAIN ix : /\ ix[h] \in Entry
                                                 /\ ix[h].off \in Nat \ {0} /\ ix[h].flags \in Flags
  /\ \A D \in SUBSET Height : \A f \in [D -> Entry] : f \in Indexes
<1>1. \A e \in Entry : e.off \in Nat \ {0} /\ e.flags \in Flags
  BY DEF Entry
<1> QED BY <1>1 DEF Indexes

\* Phase 2 of a compaction appends records to the tmp file and to the index.
LEMMA CatchUpTypes ==
  ASSUME Shape, comp \in CatchingUp, CompactCatchUp
  PROVE  /\ ino' \in [Inode -> Seq(Cell)]
         /\ idxTmp' \in IndexFile
<1> DEFINE added == AddedSince
           file  == ino[data]
           upTo(h) == Cardinality({k \in added : k <= h})
           off(h) == comp.pos - 1 + upTo(h)
           at(i) == CHOOSE h \in added : off(h) = comp.pos - 1 + i
           tail  == [i \in 1..Cardinality(added) |-> file[mem.index[at(i)].off]]
           entry(h) == IF h \in added THEN [off |-> off(h), flags |-> mem.index[h].flags]
                                      ELSE comp.index[h]
<1>1. /\ added \in SUBSET Height /\ added \in SUBSET DOMAIN mem.index
      /\ DOMAIN comp.index \in SUBSET Height
      /\ mem.index \in Indexes /\ comp.index \in Indexes
      /\ comp.pos \in Nat \ {0} /\ comp.epoch \in Nat
      /\ file \in Seq(Cell) /\ tmp \in Inode \cup {0} /\ ino \in [Inode -> Seq(Cell)]
  BY Indices DEF AddedSince, Shape, FilesTyped, CatchingUp
<1>2. /\ \A h \in added : Readable(file, mem.index[h])
      /\ ino' = [ino EXCEPT ![tmp] = @ \o tail]
      /\ idxTmp' = [epoch |-> comp.epoch, size |-> comp.pos - 1 + Cardinality(added),
                    index |-> [h \in DOMAIN comp.index \cup added |-> entry(h)]]
  BY DEF CompactCatchUp
<1> HIDE DEF added, file
<1>3. /\ Cardinality(added) \in Nat
      /\ \A h \in added : upTo(h) \in Nat \ {0}
      /\ \A i \in 1..Cardinality(added) : \E h \in added : upTo(h) = i
  BY <1>1, Ranks
<1> HIDE DEF upTo
<1>4. ASSUME NEW i \in 1..Cardinality(added) PROVE file[mem.index[at(i)].off] \in Cell
  <2>1. PICK h \in added : upTo(h) = i
    BY <1>3
  <2>2. off(h) = comp.pos - 1 + i
    BY <2>1
  <2>3. at(i) \in added
    <3> HIDE DEF off
    <3> QED BY <2>2
  <2> HIDE DEF at
  <2>4. /\ mem.index[at(i)].off \in Nat \ {0}
        /\ mem.index[at(i)].off <= Len(file)
    BY <1>1, <1>2, <2>3, Indices DEF Readable
  <2>5. mem.index[at(i)].off \in 1..Len(file)
    BY <1>1, <2>4
  <2> QED BY <1>1, <2>5
<1>5. tail \in Seq(Cell)
  <2> HIDE DEF at
  <2> QED BY <1>3, <1>4
<1> HIDE DEF tail
<1>6. ino' \in [Inode -> Seq(Cell)]
  <2>1. CASE tmp \in Inode
    <3>1. ino[tmp] \o tail \in Seq(Cell)
      BY <1>1, <1>5, <2>1
    <3> QED BY <1>1, <1>2, <2>1, <3>1
  <2>2. CASE tmp \notin Inode
    BY <1>1, <1>2, <2>2
  <2> QED BY <2>1, <2>2
<1>7. [h \in DOMAIN comp.index \cup added |-> entry(h)] \in Indexes
  <2>1. ASSUME NEW h \in added PROVE entry(h) \in Entry
    <3>1. off(h) \in Nat \ {0}
      BY <1>1, <1>3
    <3>2. mem.index[h].flags \in Flags
      BY <1>1, Indices
    <3> HIDE DEF off
    <3> QED BY <2>1, <3>1, <3>2 DEF Entry
  <2>2. ASSUME NEW h \in DOMAIN comp.index, h \notin added PROVE entry(h) \in Entry
    BY <1>1, <2>2, Indices
  <2> HIDE DEF entry
  <2>3. [h \in DOMAIN comp.index \cup added |-> entry(h)] \in [DOMAIN comp.index \cup added -> Entry]
    BY <2>1, <2>2
  <2>4. DOMAIN comp.index \cup added \in SUBSET Height
    BY <1>1
  <2> QED BY <2>3, <2>4, Indices
<1>8. comp.pos - 1 + Cardinality(added) \in Nat
  BY <1>1, <1>3
<1> HIDE DEF entry
<1> QED BY <1>1, <1>2, <1>6, <1>7, <1>8 DEF IndexFile

\* The first start has the types.
LEMMA InitShape == Init => Shape
<1> SUFFICES ASSUME Init PROVE Shape
  OBVIOUS
<1>1. Header(0) \in Cell /\ << >> \in Seq(Cell)
  BY DEF Cell
<1>2. <<Header(0)>> \in Seq(Cell)
  BY <1>1
<1>3. ino \in [Inode -> Seq(Cell)]
  BY <1>1, <1>2 DEF Init, Inode
<1>4. NoIndex \in IndexFile
  BY EmptyIndex DEF NoIndex, IndexFile
<1>5. mem \in [index : Indexes, epoch : Nat, size : Nat, seq : Nat]
  BY EmptyIndex DEF Init
<1>6. FilesTyped
  BY <1>3, <1>4, <1>5 DEF Init, FilesTyped, Inode
<1>7. ThreadsTyped
  BY DEF Init, ThreadsTyped, Idle
<1>8. Counts
  BY DEF Init, Counts
<1> QED BY <1>6, <1>7, <1>8 DEF Shape

\* Every step of the event loop keeps the types.
LEMMA LoopShape ==
  ASSUME ~ Overlap, Shape,
         \/ \E b \in Block : AppendBlock(b) \/ AppendDies(b)
         \/ \E chain \in Chains : ReplaceOpen(chain)
         \/ ReplaceWrite \/ ReplaceIndex \/ ReplaceData \/ ReplaceDone
  PROVE  Shape'
<1>0. /\ ino \in [Inode -> Seq(Cell)]
      /\ data \in Inode /\ tmp \in Inode \cup {0} /\ data # tmp
      /\ mem \in [index : Indexes, epoch : Nat, size : Nat, seq : Nat]
      /\ idx \in IndexFile /\ idxTmp \in IndexFile
      /\ alive \in BOOLEAN
      /\ main \in SUBSET Block
      /\ flips \in Nat /\ crashes \in Nat /\ rewrites \in Nat
      /\ mem.index \in Indexes /\ mem.epoch \in Nat /\ mem.size \in Nat /\ mem.seq \in Nat
  BY DEF Shape, FilesTyped, Counts
<1>1. ASSUME NEW b \in Block, AppendBlock(b) PROVE Shape'
  <2> DEFINE r == [h |-> b.h, id |-> b.id, flags |-> "full"]
  <2>1. r \in Cell /\ b.h \in Height
    BY DEF Cell, Record, Block, Flags
  <2>2. ino' \in [Inode -> Seq(Cell)]
    <3>1. ino' = [ino EXCEPT ![data] = Append(@, r)]
      BY <1>1 DEF AppendBlock
    <3> HIDE DEF r
    <3>2. Append(ino[data], r) \in Seq(Cell)
      BY <1>0, <2>1
    <3> QED BY <1>0, <3>1, <3>2
  <2>3. mem' \in [index : Indexes, epoch : Nat, size : Nat, seq : Nat]
    <3> DEFINE D == DOMAIN mem.index \cup {b.h}
               entry(h) == IF h = b.h THEN [off |-> mem.size + 1, flags |-> "full"] ELSE mem.index[h]
    <3>1. mem' = [mem EXCEPT !.index = [h \in D |-> entry(h)], !.size = mem.size + 1]
      BY <1>1 DEF AppendBlock
    <3>2. [off |-> mem.size + 1, flags |-> "full"] \in Entry
      BY <1>0 DEF Entry, Flags
    <3>3. D \in SUBSET Height /\ \A h \in D : entry(h) \in Entry
      BY <1>0, <2>1, <3>2, Indices
    <3> HIDE DEF D, entry
    <3>4. [h \in D |-> entry(h)] \in [D -> Entry]
      BY <3>3
    <3> DEFINE f == [h \in D |-> entry(h)]
    <3>5. f \in Indexes
      BY <3>3, <3>4, Indices
    <3>6. mem' = [mem EXCEPT !.index = f, !.size = mem.size + 1]
      BY <3>1
    <3> HIDE DEF f
    <3>7. mem' = [index |-> f, epoch |-> mem.epoch, size |-> mem.size + 1, seq |-> mem.seq]
      BY <1>0, <3>6
    <3>8. mem.size + 1 \in Nat
      BY <1>0
    <3> QED BY <1>0, <3>5, <3>7, <3>8
  <2>4. /\ UNCHANGED <<data, tmp, idx, idxTmp, lock, loop, comp, alive, rewrites, crashes, flips>>
        /\ main' \in SUBSET Block
    BY <1>0, <1>1 DEF AppendBlock
  <2>5. FilesTyped'
    BY <1>0, <2>2, <2>3, <2>4 DEF FilesTyped
  <2>6. ThreadsTyped'
    BY <2>4 DEF Shape, ThreadsTyped
  <2> QED BY <1>0, <2>4, <2>5, <2>6 DEF Shape, Counts
<1>2. ASSUME NEW b \in Block, AppendDies(b) PROVE Shape'
  <2> DEFINE r == [h |-> b.h, id |-> b.id, flags |-> "full"]
  <2>1. r \in Cell /\ Torn \in Cell
    BY DEF Cell, Record, Block, Flags
  <2>2. ino' \in [Inode -> Seq(Cell)] /\ main' \in SUBSET Block
    <3>1. \/ ino' = [ino EXCEPT ![data] = Append(@, r)]
          \/ ino' = [ino EXCEPT ![data] = Append(@, Torn)]
      BY <1>2 DEF AppendDies
    <3>2. main' \in SUBSET Block
      BY <1>0, <1>2 DEF AppendDies
    <3> HIDE DEF r
    <3>3. Append(ino[data], r) \in Seq(Cell) /\ Append(ino[data], Torn) \in Seq(Cell)
      BY <1>0, <2>1
    <3> QED BY <1>0, <3>1, <3>2, <3>3
  <2>3. /\ UNCHANGED <<data, tmp, idx, idxTmp, mem, rewrites, flips>>
        /\ alive' = FALSE /\ crashes' = crashes + 1
        /\ lock' = "free" /\ loop' = Idle /\ comp' = Idle
    BY <1>2 DEF AppendDies
  <2>4. FilesTyped'
    BY <1>0, <2>2, <2>3 DEF FilesTyped
  <2>5. ThreadsTyped'
    BY <2>3, Points DEF ThreadsTyped
  <2> QED BY <1>0, <2>3, <2>4, <2>5 DEF Shape, Counts
<1>3. ASSUME NEW chain \in Chains, ReplaceOpen(chain) PROVE Shape'
  <2>1. /\ loop.pc = "idle" /\ lock = "free" /\ alive /\ comp.pc # "write"
        /\ comp.pc \notin {"data", "done"}
    BY <1>3 DEF ReplaceOpen, Shape, ThreadsTyped
  <2>2. PICK fd \in Inode :
           /\ OpenTmp(fd)
           /\ loop' = [pc |-> "write", fd |-> fd, pos |-> 1, chain |-> chain, epoch |-> NextEpoch]
    BY <1>3 DEF ReplaceOpen
  <2>3. /\ fd # data /\ tmp' = fd /\ ino' \in [Inode -> Seq(Cell)]
    BY <2>1, <2>2, OpenTmpIs DEF Shape
  <2>4. loop' \in Replacing /\ loop'.pc = "write" /\ loop'.fd = fd
    <3>1. NextEpoch \in Nat
      BY <1>0 DEF NextEpoch
    <3> QED BY <2>2, <3>1 DEF Replacing
  <2>5. /\ lock' = "loop" /\ rewrites' = rewrites + 1
        /\ UNCHANGED <<data, idx, idxTmp, mem, comp, alive, main, crashes, flips>>
    BY <1>3 DEF ReplaceOpen
  <2>6. FilesTyped'
    BY <1>0, <2>3, <2>5 DEF FilesTyped
  <2>7. loop'.pos <= TipOf(loop'.chain) + 2
    <3>1. loop'.pos = 1 /\ loop'.chain = chain
      BY <2>2
    <3>2. TipOf(chain) \in Nat
      BY <1>3, ChainShape, StorageAssumption DEF Height
    <3> QED BY <3>1, <3>2
  <2>8. ThreadsTyped'
    BY <2>1, <2>3, <2>4, <2>5, <2>7 DEF Shape, ThreadsTyped
  <2> QED BY <1>0, <2>5, <2>6, <2>8 DEF Shape, Counts
<1>4. ASSUME ReplaceWrite \/ ReplaceIndex \/ ReplaceData \/ ReplaceDone PROVE Shape'
  <2>0. /\ loop.pc # "idle" /\ alive /\ lock = "loop"
        /\ comp.pc \notin {"write", "data", "done"}
        /\ comp \in Opening \cup Copying \cup CatchingUp \cup Swapping \cup {Idle}
        /\ loop \in Replacing
    BY <1>4 DEF ReplaceWrite, ReplaceIndex, ReplaceData, ReplaceDone, Shape, ThreadsTyped, Idle
  <2>1. /\ loop.fd \in Inode /\ loop.pos \in Nat \ {0} /\ loop.chain \in Chains /\ loop.epoch \in Nat
        /\ loop.pc = "write" => loop.fd = tmp /\ loop.pos <= TipOf(loop.chain) + 2
    BY <2>0 DEF Replacing, Shape, ThreadsTyped
  <2> DEFINE T == TipOf(loop.chain)
  <2>2. /\ T \in Nat /\ loop.chain \in SUBSET Block
        /\ {b.h : b \in loop.chain} = 0..T
        /\ \A h \in 0..T : h \in Height
        /\ \A h \in 0..T : (CHOOSE b \in loop.chain : b.h = h) \in loop.chain
    BY <2>1, ChainShape, StorageAssumption DEF Height
  <2> HIDE DEF T
  <2>3. CASE ReplaceWrite
    <3> DEFINE h == loop.pos - 2
               blk == CHOOSE b \in loop.chain : b.h = h
               cell == IF loop.pos = 1 THEN Header(loop.epoch)
                       ELSE [h |-> h, flags |-> "full", id |-> blk.id]
    <3>1. /\ loop.pc = "write"
          /\ ino' = [ino EXCEPT ![loop.fd] = WriteAt(@, loop.pos, cell)]
          /\ loop' = [loop EXCEPT !.pos = @ + 1,
                                  !.pc = IF loop.pos = T + 2 THEN "index" ELSE "write"]
          /\ UNCHANGED <<data, tmp, idx, idxTmp, mem, lock, comp, alive, main, rewrites, crashes, flips>>
      BY <2>3 DEF ReplaceWrite, T
    <3>2. cell \in Cell
      <4>1. CASE loop.pos = 1
        BY <2>1, <4>1 DEF Cell
      <4>2. CASE loop.pos # 1
        <5>1. h \in 0..T
          BY <2>1, <2>2, <3>1, <4>2 DEF T
        <5>2. blk \in Block /\ h \in Height
          BY <2>2, <5>1
        <5>3. cell \in Record
          <6> HIDE DEF blk, h
          <6> QED BY <4>2, <5>2 DEF Record, Block, Flags
        <5> QED BY <5>3 DEF Cell
      <4> QED BY <4>1, <4>2
    <3> HIDE DEF cell
    <3>3. ino' \in [Inode -> Seq(Cell)]
      <4>1. WriteAt(ino[loop.fd], loop.pos, cell) \in Seq(Cell)
        BY <1>0, <2>1, <3>2, WriteAtIs
      <4> QED BY <1>0, <2>1, <3>1, <4>1
    <3>4. /\ loop' \in Replacing /\ loop'.pc \in {"write", "index"}
          /\ loop'.fd = loop.fd /\ loop'.chain = loop.chain
          /\ loop'.pc = "write" => loop'.pos <= T + 2
      <4>1. loop' = [pc |-> IF loop.pos = T + 2 THEN "index" ELSE "write", fd |-> loop.fd,
                     pos |-> loop.pos + 1, chain |-> loop.chain, epoch |-> loop.epoch]
        BY <2>0, <3>1 DEF Replacing
      <4>2. loop.pos + 1 \in Nat \ {0} /\ (loop.pos # T + 2 => loop.pos + 1 <= T + 2)
        BY <2>1, <2>2, <3>1 DEF T
      <4>3. loop' \in Replacing
        BY <2>1, <4>1, <4>2 DEF Replacing
      <4> QED BY <4>1, <4>2, <4>3
    <3>5. FilesTyped'
      BY <1>0, <3>1, <3>3 DEF FilesTyped
    <3>6. ThreadsTyped'
      BY <2>0, <2>1, <3>1, <3>4 DEF ThreadsTyped, T
    <3> QED BY <1>0, <3>1, <3>5, <3>6 DEF Shape, Counts
  <2>4. CASE ReplaceIndex
    <3> DEFINE new == NewIndexOf(loop.chain)
    <3>1. /\ idxTmp' = [epoch |-> loop.epoch, size |-> T + 2, index |-> new]
          /\ loop' = [loop EXCEPT !.pc = "data"]
          /\ UNCHANGED <<ino, data, tmp, idx, mem, lock, comp, alive, main, rewrites, crashes, flips>>
      BY <2>4 DEF ReplaceIndex, T
    <3>2. new \in Indexes
      <4>1. new = [k \in 0..T |-> [off |-> k + 2, flags |-> "full"]]
        BY <2>2 DEF NewIndexOf
      <4>2. \A k \in 0..T : [off |-> k + 2, flags |-> "full"] \in Entry
        <5>1. \A k \in 0..T : k + 2 \in Nat \ {0}
          BY <2>2
        <5> QED BY <5>1 DEF Entry, Flags
      <4>3. new \in [0..T -> Entry]
        BY <4>1, <4>2
      <4> HIDE DEF new
      <4> QED BY <2>2, <4>3, Indices
    <3> HIDE DEF new
    <3>3. idxTmp' \in IndexFile
      BY <2>1, <2>2, <3>1, <3>2 DEF IndexFile
    <3>4. loop' \in Replacing /\ loop'.pc = "data"
      BY <2>0, <3>1 DEF Replacing
    <3>5. FilesTyped'
      BY <1>0, <3>1, <3>3 DEF FilesTyped
    <3>6. ThreadsTyped'
      BY <2>0, <3>1, <3>4 DEF ThreadsTyped
    <3> QED BY <1>0, <3>1, <3>5, <3>6 DEF Shape, Counts
  <2>5. CASE ReplaceData
    <3>1. /\ tmp # 0 /\ data' = tmp /\ tmp' = 0
          /\ loop' = [loop EXCEPT !.pc = "done"]
          /\ UNCHANGED <<ino, idx, idxTmp, mem, lock, comp, alive, main, rewrites, crashes, flips>>
      BY <2>5 DEF ReplaceData
    <3>2. loop' \in Replacing /\ loop'.pc = "done"
      BY <2>0, <3>1 DEF Replacing
    <3>3. FilesTyped'
      BY <1>0, <3>1 DEF FilesTyped, Inode
    <3>4. ThreadsTyped'
      BY <2>0, <3>1, <3>2 DEF ThreadsTyped
    <3> QED BY <1>0, <3>1, <3>3, <3>4 DEF Shape, Counts
  <2>6. CASE ReplaceDone
    <3>1. /\ idx' = idxTmp /\ idxTmp' = NoIndex
          /\ mem' = [index |-> idxTmp.index, epoch |-> loop.epoch, size |-> idxTmp.size,
                     seq |-> mem.seq + 1]
          /\ main' = loop.chain
          /\ lock' = "free" /\ loop' = Idle
          /\ UNCHANGED <<ino, data, tmp, comp, alive, rewrites, crashes, flips>>
      BY <2>6 DEF ReplaceDone
    <3>2. idxTmp' \in IndexFile
      BY <3>1, EmptyIndex DEF NoIndex, IndexFile
    <3>3. mem' \in [index : Indexes, epoch : Nat, size : Nat, seq : Nat]
      BY <1>0, <2>1, <3>1 DEF IndexFile
    <3>4. FilesTyped'
      BY <1>0, <2>2, <3>1, <3>2, <3>3 DEF FilesTyped
    <3>5. ThreadsTyped'
      BY <2>0, <3>1, Points DEF ThreadsTyped
    <3> QED BY <1>0, <3>1, <3>4, <3>5 DEF Shape, Counts
  <2> QED BY <1>4, <2>3, <2>4, <2>5, <2>6
<1> QED BY <1>1, <1>2, <1>3, <1>4

\* Every step of the compaction thread keeps the types.
LEMMA CompactionShape ==
  ASSUME ~ Overlap, Shape,
         \/ CompactSnapshot \/ CompactOpen \/ CompactHeader \/ CompactCopy \/ CompactWritten
         \/ CompactAbort \/ CompactFails \/ CompactCatchUp \/ CompactData \/ CompactDone
  PROVE  Shape'
<1>0. /\ ino \in [Inode -> Seq(Cell)]
      /\ data \in Inode /\ tmp \in Inode \cup {0} /\ data # tmp
      /\ mem \in [index : Indexes, epoch : Nat, size : Nat, seq : Nat]
      /\ idx \in IndexFile /\ idxTmp \in IndexFile
      /\ alive \in BOOLEAN
      /\ main \in SUBSET Block
      /\ flips \in Nat /\ crashes \in Nat /\ rewrites \in Nat
      /\ mem.index \in Indexes /\ mem.epoch \in Nat /\ mem.size \in Nat /\ mem.seq \in Nat
      /\ loop \in Replacing \cup {Idle}
  BY DEF Shape, FilesTyped, ThreadsTyped, Counts
<1>1. CASE CompactSnapshot
  <2>1. /\ comp' = [pc |-> "open", snap |-> mem.index, seq |-> mem.seq]
        /\ rewrites' = rewrites + 1 /\ alive
        /\ comp.pc = "idle" /\ lock = "free"
        /\ UNCHANGED <<ino, data, tmp, idx, idxTmp, mem, lock, loop, alive, main, crashes, flips>>
    BY <1>1 DEF CompactSnapshot, files
  <2>2. comp' \in Opening /\ comp'.pc = "open"
    BY <1>0, <2>1 DEF Opening
  <2>3. FilesTyped' /\ Counts'
    BY <1>0, <2>1 DEF FilesTyped, Counts
  <2>4. ThreadsTyped'
    BY <2>1, <2>2 DEF Shape, ThreadsTyped
  <2> QED BY <2>3, <2>4 DEF Shape
<1>2. CASE CompactOpen
  <2>1. /\ alive /\ comp.pc = "open" /\ loop.pc = "idle"
        /\ UNCHANGED <<data, idx, idxTmp, mem, lock, loop, alive, main, rewrites, crashes, flips>>
    BY <1>2 DEF CompactOpen
  <2>2. comp \in Opening
    BY <2>1, Points DEF Shape, ThreadsTyped
  <2>3. PICK fd \in Inode :
           /\ OpenTmp(fd)
           /\ comp' = [pc |-> "write", snap |-> comp.snap, seq |-> comp.seq,
                       epoch |-> NextEpoch, fd |-> fd, src |-> data, pos |-> 1,
                       todo |-> DOMAIN comp.snap, names |-> DOMAIN comp.snap, index |-> << >>]
    BY <1>2 DEF CompactOpen
  <2>4. fd # data /\ tmp' = fd /\ ino' \in [Inode -> Seq(Cell)]
    BY <2>1, <2>3, OpenTmpIs DEF Shape
  <2>5. /\ NextEpoch \in Nat /\ comp.snap \in Indexes /\ comp.seq \in Nat
        /\ DOMAIN comp.snap \in SUBSET Height
    BY <1>0, <2>2, Indices DEF NextEpoch, Opening
  <2>6. /\ comp' \in Copying /\ comp'.pc = "write" /\ comp'.fd = tmp' /\ comp'.src = data'
        /\ comp'.todo = DOMAIN comp'.snap /\ comp'.names = comp'.todo
    BY <1>0, <2>1, <2>3, <2>4, <2>5, EmptyIndex DEF Copying
  <2>7. Cardinality(comp'.todo) <= Cardinality(comp'.names)
    <3>1. Cardinality(DOMAIN comp.snap) \in Nat
      BY <2>5, Ranks
    <3> QED BY <2>3, <3>1
  <2>8. FilesTyped' /\ Counts'
    BY <1>0, <2>1, <2>3, <2>4 DEF FilesTyped, Counts
  <2>9. ThreadsTyped'
    BY <2>1, <2>6, <2>7 DEF Shape, ThreadsTyped
  <2> QED BY <2>8, <2>9 DEF Shape
<1>3. CASE CompactHeader \/ CompactCopy \/ CompactWritten
  <2>1. /\ alive /\ comp.pc = "write"
        /\ UNCHANGED <<data, tmp, idx, idxTmp, mem, lock, loop, alive, main, rewrites, crashes, flips>>
    BY <1>3 DEF CompactHeader, CompactCopy, CompactWritten, files
  <2>2. /\ comp \in Copying /\ comp.fd = tmp /\ comp.src = data
        /\ comp.todo \subseteq DOMAIN comp.snap
        /\ Cardinality(comp.todo) <= Cardinality(comp.names)
        /\ loop.pc = "idle"
    BY <2>1, Points DEF Shape, ThreadsTyped, Idle
  <2>3. /\ comp.snap \in Indexes /\ comp.seq \in Nat /\ comp.epoch \in Nat
        /\ comp.fd \in Inode /\ comp.src \in Inode /\ comp.pos \in Nat \ {0}
        /\ comp.todo \in SUBSET Height /\ comp.names \in SUBSET Height /\ comp.index \in Indexes
    BY <2>2 DEF Copying
  <2>4. ASSUME ino' \in [Inode -> Seq(Cell)], comp' \in Copying, comp'.fd = comp.fd,
               comp'.src = comp.src, comp'.todo \subseteq DOMAIN comp'.snap,
               Cardinality(comp'.todo) <= Cardinality(comp'.names)
        PROVE  Shape'
    <3>1. FilesTyped' /\ Counts'
      BY <1>0, <2>1, <2>4 DEF FilesTyped, Counts
    <3>2. ThreadsTyped'
      BY <2>1, <2>2, <2>4, Points DEF Shape, ThreadsTyped
    <3> QED BY <3>1, <3>2 DEF Shape
  <2>5. CASE CompactHeader
    <3>1. /\ ino' = [ino EXCEPT ![comp.fd] = WriteAt(@, 1, Header(comp.epoch))]
          /\ comp' = [comp EXCEPT !.pos = 2]
      BY <2>5 DEF CompactHeader
    <3>2. Header(comp.epoch) \in Cell
      BY <2>3 DEF Cell
    <3>3. WriteAt(ino[comp.fd], 1, Header(comp.epoch)) \in Seq(Cell)
      BY <1>0, <2>3, <3>2, WriteAtIs
    <3>4. ino' \in [Inode -> Seq(Cell)]
      BY <1>0, <3>1, <3>3
    <3>5. comp' \in Copying /\ comp'.fd = comp.fd /\ comp'.src = comp.src
          /\ comp'.todo = comp.todo /\ comp'.names = comp.names /\ comp'.snap = comp.snap
      BY <2>2, <3>1 DEF Copying
    <3> QED BY <2>2, <2>4, <3>4, <3>5
  <2>6. CASE CompactCopy
    <3> DEFINE h    == Least(comp.todo)
               name == Least(comp.names)
               e    == comp.snap[h]
               src  == ino[comp.src]
               flags == PrunedFlags(h, e)
               cell == [h |-> src[e.off].h, id |-> src[e.off].id, flags |-> flags]
    <3>1. /\ IsFiniteSet(comp.todo) /\ IsFiniteSet(comp.names)
          /\ Cardinality(comp.todo) \in Nat /\ Cardinality(comp.names) \in Nat
          /\ comp.todo # {}
      BY <2>3, <2>6, Ranks DEF CompactCopy
    <3>2. comp.names # {}
      BY <2>2, <3>1, FS_EmptySet
    <3>3. h \in comp.todo /\ name \in comp.names
      BY <2>3, <3>1, <3>2, HeightsHaveExtremes
    <3>4. e \in Entry /\ e.off \in Nat \ {0} /\ e.flags \in Flags
      BY <2>2, <2>3, <3>3, Indices
    <3>5. /\ Cardinality(comp.todo \ {h}) = Cardinality(comp.todo) - 1
          /\ Cardinality(comp.names \ {name}) = Cardinality(comp.names) - 1
      <4> HIDE DEF h, name
      <4> QED BY <3>1, <3>3, FS_RemoveElement
    <3>6. \/ /\ Readable(src, e)
             /\ ino' = [ino EXCEPT ![comp.fd] = WriteAt(@, comp.pos, cell)]
             /\ comp' = [comp EXCEPT
                  !.pos = @ + 1, !.todo = @ \ {h}, !.names = @ \ {name},
                  !.index = [k \in DOMAIN @ \cup {name} |->
                      IF k = name THEN [off |-> comp.pos, flags |-> flags] ELSE @[k]]]
          \/ /\ comp' = [comp EXCEPT !.todo = comp.todo \ {h}]
             /\ UNCHANGED ino
      BY <2>6 DEF CompactCopy, SkipUnreadable
    <3>7. flags \in Flags
      <4> HIDE DEF h, e
      <4> QED BY <3>4 DEF PrunedFlags, Flags
    <3>8. ASSUME Readable(src, e) PROVE cell \in Cell
      <4>1. src \in Seq(Cell)
        BY <1>0, <2>3
      <4>2. e.off \in 1..Len(src) /\ IsRecord(src[e.off])
        <5> HIDE DEF src, e
        <5> QED BY <3>4, <3>8, <4>1 DEF Readable
      <4>3. src[e.off] \in Record
        <5> HIDE DEF src, e
        <5> QED BY <4>1, <4>2, Cells
      <4>4. src[e.off].h \in Height /\ src[e.off].id \in Id
        BY <4>3, Cells
      <4> HIDE DEF src, e, flags, h
      <4> QED BY <3>7, <4>4 DEF Cell, Record
    <3>9. [off |-> comp.pos, flags |-> flags] \in Entry
      <4> HIDE DEF flags
      <4> QED BY <2>3, <3>7 DEF Entry
    <3>10. comp = [pc |-> "write", snap |-> comp.snap, seq |-> comp.seq, epoch |-> comp.epoch,
                   fd |-> comp.fd, src |-> comp.src, pos |-> comp.pos, todo |-> comp.todo,
                   names |-> comp.names, index |-> comp.index]
      BY <2>2 DEF Copying
    <3> HIDE DEF h, name, e, flags, cell, src
    <3>11. CASE /\ Readable(src, e)
                /\ ino' = [ino EXCEPT ![comp.fd] = WriteAt(@, comp.pos, cell)]
                /\ comp' = [comp EXCEPT
                     !.pos = @ + 1, !.todo = @ \ {h}, !.names = @ \ {name},
                     !.index = [k \in DOMAIN @ \cup {name} |->
                         IF k = name THEN [off |-> comp.pos, flags |-> flags] ELSE @[k]]]
      <4> DEFINE D == DOMAIN comp.index \cup {name}
                 entry(k) == IF k = name THEN [off |-> comp.pos, flags |-> flags]
                                         ELSE comp.index[k]
                 new == [k \in D |-> entry(k)]
      <4>1. WriteAt(ino[comp.fd], comp.pos, cell) \in Seq(Cell)
        BY <1>0, <2>3, <3>8, <3>11, WriteAtIs
      <4>2. ino' \in [Inode -> Seq(Cell)]
        BY <1>0, <3>11, <4>1
      <4>3. D \in SUBSET Height /\ \A k \in D : entry(k) \in Entry
        BY <2>3, <3>3, <3>9, Indices
      <4>4. new \in Indexes
        <5> HIDE DEF D, entry
        <5>1. new \in [D -> Entry]
          BY <4>3
        <5> QED BY <4>3, <5>1, Indices
      <4>5. comp' = [comp EXCEPT !.pos = @ + 1, !.todo = @ \ {h}, !.names = @ \ {name},
                                 !.index = new]
        BY <3>11
      <4> HIDE DEF new
      <4>6. comp' = [pc |-> "write", snap |-> comp.snap, seq |-> comp.seq, epoch |-> comp.epoch,
                     fd |-> comp.fd, src |-> comp.src, pos |-> comp.pos + 1,
                     todo |-> comp.todo \ {h}, names |-> comp.names \ {name}, index |-> new]
        BY <2>2, <4>5 DEF Copying
      <4>7. comp.pos + 1 \in Nat \ {0}
        BY <2>3
      <4>8. comp' \in Copying
        BY <2>3, <4>4, <4>6, <4>7 DEF Copying
      <4>9. /\ comp'.fd = comp.fd /\ comp'.src = comp.src /\ comp'.snap = comp.snap
            /\ comp'.todo = comp.todo \ {h} /\ comp'.names = comp.names \ {name}
        BY <4>6
      <4>10. Cardinality(comp'.todo) <= Cardinality(comp'.names)
        BY <2>2, <3>1, <3>5, <4>9
      <4> QED BY <2>2, <2>4, <4>2, <4>8, <4>9, <4>10
    <3>12. CASE comp' = [comp EXCEPT !.todo = comp.todo \ {h}] /\ UNCHANGED ino
      <4>1. comp' = [pc |-> "write", snap |-> comp.snap, seq |-> comp.seq, epoch |-> comp.epoch,
                     fd |-> comp.fd, src |-> comp.src, pos |-> comp.pos, todo |-> comp.todo \ {h},
                     names |-> comp.names, index |-> comp.index]
        BY <3>10, <3>12
      <4>2. comp' \in Copying
        BY <2>3, <4>1 DEF Copying
      <4>3. /\ comp'.fd = comp.fd /\ comp'.src = comp.src /\ comp'.snap = comp.snap
            /\ comp'.todo = comp.todo \ {h} /\ comp'.names = comp.names
        BY <4>1
      <4>4. Cardinality(comp'.todo) <= Cardinality(comp'.names)
        BY <2>2, <3>1, <3>5, <4>3
      <4>5. ino' \in [Inode -> Seq(Cell)]
        BY <1>0, <3>12
      <4> QED BY <2>2, <2>4, <4>2, <4>3, <4>4, <4>5
    <3> QED BY <3>6, <3>11, <3>12
  <2>7. CASE CompactWritten
    <3>1. /\ comp' = [pc |-> "catchup", snap |-> comp.snap, seq |-> comp.seq, epoch |-> comp.epoch,
                      pos |-> comp.pos, index |-> comp.index]
          /\ UNCHANGED ino
      BY <2>7 DEF CompactWritten, files
    <3>2. comp' \in CatchingUp /\ comp'.pc = "catchup"
      BY <2>3, <3>1 DEF CatchingUp
    <3>3. FilesTyped' /\ Counts'
      BY <1>0, <2>1, <3>1 DEF FilesTyped, Counts
    <3>4. ThreadsTyped'
      BY <2>1, <2>2, <3>2 DEF Shape, ThreadsTyped
    <3> QED BY <3>3, <3>4 DEF Shape
  <2> QED BY <1>3, <2>5, <2>6, <2>7
<1>4. CASE CompactAbort \/ CompactFails
  <2>1. /\ alive /\ comp.pc = "catchup" /\ lock = "free"
        /\ comp' = Idle /\ tmp' \in {0, tmp}
        /\ UNCHANGED <<ino, data, idx, idxTmp, mem, lock, loop, alive, main, rewrites, crashes, flips>>
    BY <1>4 DEF CompactAbort, CompactFails, files
  <2>2. loop.pc = "idle"
    BY <2>1 DEF Shape, ThreadsTyped
  <2>3. FilesTyped' /\ Counts'
    BY <1>0, <2>1 DEF FilesTyped, Counts, Inode
  <2>4. ThreadsTyped'
    BY <2>1, <2>2, Points DEF Shape, ThreadsTyped
  <2> QED BY <2>3, <2>4 DEF Shape
<1>5. CASE CompactCatchUp
  <2>1. /\ alive /\ comp.pc = "catchup" /\ lock = "free"
        /\ lock' = "comp"
        /\ comp' = [pc |-> "data", epoch |-> comp.epoch]
        /\ UNCHANGED <<data, tmp, idx, mem, loop, alive, main, rewrites, crashes, flips>>
    BY <1>5 DEF CompactCatchUp
  <2>2. comp \in CatchingUp /\ loop.pc = "idle"
    BY <2>1, Points DEF Shape, ThreadsTyped
  <2>3. ino' \in [Inode -> Seq(Cell)] /\ idxTmp' \in IndexFile
    BY <1>5, <2>2, CatchUpTypes
  <2>4. comp' \in Swapping /\ comp'.pc = "data"
    BY <2>1, <2>2 DEF Swapping, CatchingUp
  <2>5. FilesTyped' /\ Counts'
    BY <1>0, <2>1, <2>3 DEF FilesTyped, Counts
  <2>6. ThreadsTyped'
    BY <2>1, <2>2, <2>4 DEF Shape, ThreadsTyped
  <2> QED BY <2>5, <2>6 DEF Shape
<1>6. CASE CompactData \/ CompactDone
  <2>1. /\ alive /\ comp.pc \in {"data", "done"}
        /\ UNCHANGED <<ino, loop, alive, main, rewrites, crashes, flips>>
    BY <1>6 DEF CompactData, CompactDone
  <2>2. comp \in Swapping /\ loop.pc = "idle" /\ lock = "comp" /\ comp.epoch \in Nat
    BY <2>1, Points DEF Shape, ThreadsTyped, Swapping
  <2>3. CASE CompactData
    <3>1. /\ tmp # 0 /\ data' = tmp /\ tmp' = 0
          /\ comp' = [comp EXCEPT !.pc = "done"]
          /\ UNCHANGED <<idx, idxTmp, mem, lock>>
      BY <2>3 DEF CompactData
    <3>2. comp' \in Swapping /\ comp'.pc = "done"
      BY <2>2, <3>1 DEF Swapping
    <3>3. FilesTyped' /\ Counts'
      BY <1>0, <2>1, <3>1 DEF FilesTyped, Counts, Inode
    <3>4. ThreadsTyped'
      BY <2>1, <2>2, <3>1, <3>2 DEF Shape, ThreadsTyped
    <3> QED BY <3>3, <3>4 DEF Shape
  <2>4. CASE CompactDone
    <3>1. /\ idx' = idxTmp /\ idxTmp' = NoIndex
          /\ mem' = [mem EXCEPT !.index = idxTmp.index, !.epoch = comp.epoch, !.size = idxTmp.size]
          /\ lock' = "free" /\ comp' = Idle
          /\ UNCHANGED <<data, tmp>>
      BY <2>4 DEF CompactDone
    <3>2. idxTmp' \in IndexFile
      BY <3>1, EmptyIndex DEF NoIndex, IndexFile
    <3>3. mem' \in [index : Indexes, epoch : Nat, size : Nat, seq : Nat]
      <4>1. mem' = [index |-> idxTmp.index, epoch |-> comp.epoch, size |-> idxTmp.size,
                    seq |-> mem.seq]
        BY <1>0, <3>1
      <4> QED BY <1>0, <2>2, <4>1 DEF IndexFile
    <3>4. FilesTyped' /\ Counts'
      BY <1>0, <2>1, <3>1, <3>2, <3>3 DEF FilesTyped, Counts
    <3>5. ThreadsTyped'
      BY <2>1, <2>2, <3>1, Points DEF Shape, ThreadsTyped
    <3> QED BY <3>4, <3>5 DEF Shape
  <2> QED BY <1>6, <2>3, <2>4
<1> QED BY <1>1, <1>2, <1>3, <1>4, <1>5, <1>6

\* The end of the process, the next start and the corruption of a record keep the types.
LEMMA RestartShape ==
  ASSUME Shape,
         \/ Crash \/ Close \/ Recover \/ Exhausted \/ UNCHANGED vars
         \/ \E n \in 2..MaxHeight + 2 : BitFlip(n)
  PROVE  Shape'
<1>0. /\ ino \in [Inode -> Seq(Cell)]
      /\ data \in Inode /\ tmp \in Inode \cup {0} /\ data # tmp
      /\ mem \in [index : Indexes, epoch : Nat, size : Nat, seq : Nat]
      /\ idx \in IndexFile /\ idxTmp \in IndexFile
      /\ alive \in BOOLEAN
      /\ main \in SUBSET Block
      /\ flips \in Nat /\ crashes \in Nat /\ rewrites \in Nat
      /\ mem.index \in Indexes /\ mem.epoch \in Nat /\ mem.size \in Nat
      /\ loop \in Replacing \cup {Idle}
  BY DEF Shape, FilesTyped, ThreadsTyped, Counts
<1>1. CASE Crash
  <2>1. /\ main' = IF loop.pc = "done" THEN loop.chain ELSE main
        /\ alive' = FALSE /\ crashes' = crashes + 1
        /\ lock' = "free" /\ loop' = Idle /\ comp' = Idle
        /\ UNCHANGED <<ino, data, tmp, idx, idxTmp, mem, rewrites, flips>>
    BY <1>1 DEF Crash, Stored, files
  <2>2. main' \in SUBSET Block
    <3>1. CASE loop.pc = "done"
      <4>1. loop.chain \in Chains
        BY <1>0, <3>1 DEF Replacing, Idle
      <4> QED BY <2>1, <3>1, <4>1, ChainShape
    <3>2. CASE loop.pc # "done"
      BY <1>0, <2>1, <3>2
    <3> QED BY <3>1, <3>2
  <2>3. FilesTyped'
    BY <1>0, <2>1, <2>2 DEF FilesTyped
  <2>4. ThreadsTyped'
    BY <2>1, Points DEF ThreadsTyped
  <2>5. Counts'
    BY <1>0, <2>1 DEF Counts
  <2> QED BY <2>3, <2>4, <2>5 DEF Shape
<1>2. CASE Close
  <2>1. /\ loop.pc = "idle" /\ lock = "free"
        /\ idx' = [epoch |-> mem.epoch, size |-> mem.size, index |-> mem.index]
        /\ alive' = FALSE /\ crashes' = crashes + 1 /\ comp' = Idle
        /\ UNCHANGED <<ino, data, tmp, idxTmp, mem, lock, loop, main, rewrites, flips>>
    BY <1>2 DEF Close
  <2>2. idx' \in IndexFile
    BY <1>0, <2>1 DEF IndexFile
  <2>3. FilesTyped'
    BY <1>0, <2>1, <2>2 DEF FilesTyped
  <2>4. ThreadsTyped'
    BY <2>1, Points DEF Shape, ThreadsTyped
  <2>5. Counts'
    BY <1>0, <2>1 DEF Counts
  <2> QED BY <2>3, <2>4, <2>5 DEF Shape
<1>3. CASE Recover
  <2> DEFINE file  == ino[data]
             good  == RecoveredFile(file, idx)
             index == RecoveredIndex(file, idx)
  <2>1. /\ ~ alive
        /\ ino' = [i \in Inode |-> IF i = data THEN good ELSE << >>]
        /\ mem' = [index |-> index, epoch |-> good[1].epoch, size |-> Len(good), seq |-> 0]
        /\ idx' = IF HasHeader(file) /\ ~ Adopts(file, idx)
                  THEN [epoch |-> good[1].epoch, size |-> Len(good), index |-> index]
                  ELSE idx
        /\ tmp' = 0 /\ idxTmp' = NoIndex /\ alive' = TRUE
        /\ main' = Loaded(good, index)
        /\ UNCHANGED <<data, lock, loop, comp, rewrites, crashes, flips>>
    BY <1>3 DEF Recover, Recoverable
  <2>2. file \in Seq(Cell)
    BY <1>0
  <2>3. /\ good \in Seq(Cell) /\ Len(good) >= 1
        /\ \E e \in Nat : good[1] = Header(e)
        /\ index \in Indexes
    BY <1>0, <2>2, RecoveredTypes
  <2>4. good[1].epoch \in Nat /\ Len(good) \in Nat
    BY <2>3, Cells
  <2> HIDE DEF file, good, index
  <2>5. ino' \in [Inode -> Seq(Cell)]
    BY <2>1, <2>3
  <2>6. /\ mem' \in [index : Indexes, epoch : Nat, size : Nat, seq : Nat]
        /\ idx' \in IndexFile /\ idxTmp' \in IndexFile
    BY <1>0, <2>1, <2>3, <2>4, EmptyIndex DEF IndexFile, NoIndex
  <2>7. FilesTyped' /\ Counts'
    <3>1. main' \in SUBSET Block
      BY <2>1, <2>3, LoadedBlocks
    <3> QED BY <1>0, <2>1, <2>5, <2>6, <3>1 DEF FilesTyped, Counts, Inode
  <2>8. ThreadsTyped'
    <3>1. loop.pc = "idle" /\ comp.pc = "idle"
      BY <2>1 DEF Shape, ThreadsTyped
    <3> QED BY <2>1, <3>1 DEF Shape, ThreadsTyped
  <2> QED BY <2>7, <2>8 DEF Shape
<1>4. ASSUME NEW n \in 2..MaxHeight + 2, BitFlip(n) PROVE Shape'
  <2>1. /\ n <= Len(ino[data])
        /\ ino' = [ino EXCEPT ![data][n] = Torn]
        /\ flips' = flips + 1
        /\ UNCHANGED <<data, tmp, idx, idxTmp, mem, lock, loop, comp, alive, main, rewrites, crashes>>
    BY <1>4 DEF BitFlip
  <2>2. ino' \in [Inode -> Seq(Cell)]
    <3>1. ino' = [ino EXCEPT ![data] = [ino[data] EXCEPT ![n] = Torn]]
      BY <2>1
    <3>2. Torn \in Cell /\ ino[data] \in Seq(Cell) /\ n \in 1..Len(ino[data])
      BY <1>0, <2>1, StorageAssumption DEF Cell
    <3>3. [ino[data] EXCEPT ![n] = Torn] \in Seq(Cell)
      BY <3>2
    <3> QED BY <1>0, <3>1, <3>3
  <2>3. FilesTyped' /\ Counts'
    BY <1>0, <2>1, <2>2 DEF FilesTyped, Counts
  <2>4. ThreadsTyped'
    BY <2>1 DEF Shape, ThreadsTyped
  <2> QED BY <2>3, <2>4 DEF Shape
<1>5. CASE Exhausted \/ UNCHANGED vars
  BY <1>5 DEF Exhausted, vars, files, Shape, FilesTyped, ThreadsTyped, Counts
<1> QED BY <1>1, <1>2, <1>3, <1>4, <1>5

\* What a step may be, by the thread that takes it.
LEMMA StepsAre ==
  [Next]_vars =>
    \/ \/ \E b \in Block : AppendBlock(b) \/ AppendDies(b)
       \/ \E chain \in Chains : ReplaceOpen(chain)
       \/ ReplaceWrite \/ ReplaceIndex \/ ReplaceData \/ ReplaceDone
    \/ \/ CompactSnapshot \/ CompactOpen \/ CompactHeader \/ CompactCopy \/ CompactWritten
       \/ CompactAbort \/ CompactFails \/ CompactCatchUp \/ CompactData \/ CompactDone
    \/ \/ Crash \/ Close \/ Recover \/ Exhausted \/ UNCHANGED vars
       \/ \E n \in 2..MaxHeight + 2 : BitFlip(n)
BY DEF Next

\* The files, the memory and the two threads are of the kinds above in every state:
\* the lock has one holder, the thread that is swapping files, and no read of
\* the recovery, of a replacement or of a compaction leaves the file it is made for.
THEOREM ShapeInvariant == ~ Overlap /\ Spec => []Shape
<1> SUFFICES ASSUME ~ Overlap PROVE Spec => []Shape
  OBVIOUS
<1>1. Shape /\ [Next]_vars => Shape'
  BY StepsAre, LoopShape, CompactionShape, RestartShape
<1> QED BY <1>1, InitShape, PTL DEF Spec

\* Files of cells, a data file and another tmp file, blocks for a history.
THEOREM StorageTypes == ~ Overlap /\ Spec => []TypeOK
<1>1. Shape => TypeOK
  <2> SUFFICES ASSUME Shape PROVE TypeOK
    OBVIOUS
  <2>1. ASSUME NEW i \in Inode, NEW n \in 1..Len(ino[i])
        PROVE  IsRecord(ino[i][n]) \/ IsHeader(ino[i][n]) \/ ino[i][n] = Torn
    <3>1. ino[i][n] \in Cell
      BY DEF Shape, FilesTyped
    <3> QED BY <3>1, Cells DEF Cell
  <2>2. lock \in {"free", "loop", "comp"}
    BY DEF Shape, ThreadsTyped
  <2> QED BY <2>1, <2>2 DEF Shape, FilesTyped, TypeOK
<1> QED BY <1>1, ShapeInvariant, PTL

-----------------------------------------------------------------------------
(* As long as no record was corrupted *)

\* The data file: g cells with the records in the order of their heights and, if the
\* process died while it appended, a torn one after them.  What was pruned is deep
\* enough, and the index file is of an earlier epoch or fits.
DataKept(g) ==
    LET file == ino[data] IN
    /\ GoodTo(file, g)
    /\ Len(file) = g \/ (~ alive /\ Len(file) = g + 1 /\ file[g + 1] \notin Record)
    /\ Spares(file, g, g)
    /\ BlocksTo(file, g) = Stored
    /\ Fits(idx, file, g)
    /\ idx.epoch <= file[1].epoch

\* The index in memory is that of the data file, unless a rename has just changed it.
MemRight(g) ==
    alive /\ loop.pc # "done" /\ comp.pc # "done" =>
        /\ mem.epoch = ino[data][1].epoch
        /\ mem.size = g
        /\ mem.index = IndexTo(ino[data], g)

\* The first m cells of the file that replace_all writes.
Written(file, m) ==
    /\ Len(file) = m
    /\ m >= 1 => file[1] = Header(loop.epoch)
    /\ \A n \in 2..m : /\ file[n] \in Record /\ file[n].h = n - 2 /\ file[n].flags = "full"
                       /\ [h |-> n - 2, id |-> file[n].id] \in loop.chain

\* replace_all: what is written is in the tmp file, under the next epoch; after the
\* rename it is the data file, and the index file is of an earlier epoch.
LoopKept(g) ==
    /\ loop.pc # "idle" => loop.epoch = mem.epoch + 1
    /\ loop.pc = "write" => Written(ino[tmp], loop.pos - 1)
    /\ loop.pc \in {"index", "data"} => tmp # 0 /\ Written(ino[tmp], TipOf(loop.chain) + 2)
    /\ loop.pc \in {"data", "done"} =>
          idxTmp = [epoch |-> loop.epoch, size |-> TipOf(loop.chain) + 2,
                    index |-> NewIndexOf(loop.chain)]
    /\ loop.pc = "done" =>
          /\ ino[data][1].epoch = loop.epoch /\ idx.epoch < loop.epoch
          /\ \A n \in 2..g : ino[data][n].flags = "full"

\* The first m cells of the copy that a compaction makes of a data file of g cells.
Copied(file, m, g) ==
    /\ Len(file) = m
    /\ m >= 1 => file[1] = Header(comp.epoch)
    /\ \A n \in 2..m : /\ file[n] \in Record /\ file[n].h = n - 2
                       /\ file[n].id = ino[data][n].id
    /\ Spares(file, m, g)

\* A compaction that will not give up: its snapshot was taken of the data file when
\* that had k cells, and the tmp file holds the copies of the first comp.pos - 1.
Current == comp.pc \in {"open", "write", "catchup"} /\ comp.seq = mem.seq /\ loop.pc = "idle"
Snapped(k, g) ==
    /\ k \in 2..g
    /\ comp.snap = IndexTo(ino[data], k)
    /\ comp.pc \in {"write", "catchup"} =>
          /\ tmp # 0
          /\ comp.epoch = mem.epoch + 1
          /\ comp.pos \in 1..k + 1
          /\ Copied(ino[tmp], comp.pos - 1, g)
          /\ comp.index = IndexTo(ino[tmp], comp.pos - 1)
    /\ comp.pc = "write" => /\ comp.todo = {h \in 0..k - 2 : h >= comp.pos - 2}
                            /\ comp.names = comp.todo
    /\ comp.pc = "catchup" => comp.pos = k + 1

\* A compaction: no snapshot is of the future, and when the files are swapped the copy
\* and its index are complete.
CompKept(g) ==
    /\ comp.pc \in {"open", "write", "catchup"} => comp.seq <= mem.seq
    /\ Current => \E k \in Nat : Snapped(k, g)
    /\ comp.pc = "data" =>
          /\ tmp # 0 /\ comp.epoch = mem.epoch + 1
          /\ Copied(ino[tmp], g, g)
          /\ idxTmp = [epoch |-> comp.epoch, size |-> g, index |-> IndexTo(ino[tmp], g)]
    /\ comp.pc = "done" =>
          /\ ino[data][1].epoch = comp.epoch /\ idx.epoch < comp.epoch
          /\ idxTmp = [epoch |-> comp.epoch, size |-> g, index |-> IndexTo(ino[data], g)]

KeptTo(g) == DataKept(g) /\ MemRight(g) /\ LoopKept(g) /\ CompKept(g)
Kept == flips = 0 => \E g \in Nat : KeptTo(g)

\* The index of the first k cells depends on nothing else.
LEMMA SameIndex ==
  ASSUME NEW file, NEW copy, NEW k \in Nat, \A n \in 1..k : copy[n].flags = file[n].flags
  PROVE  IndexTo(copy, k) = IndexTo(file, k)
<1>1. \A h \in 0..k - 2 : h + 2 \in 1..k
  OBVIOUS
<1>2. \A h \in 0..k - 2 : copy[h + 2].flags = file[h + 2].flags
  BY <1>1
<1> QED BY <1>2 DEF IndexTo

\* A record more at the end of a data file.
LEMMA GoodLonger ==
  ASSUME NEW file \in Seq(Cell), NEW g \in Nat, GoodTo(file, g), Len(file) = g,
         NEW r \in Record, r.h = g - 1
  PROVE  /\ Append(file, r) \in Seq(Cell) /\ Len(Append(file, r)) = g + 1
         /\ \A n \in 1..g : Append(file, r)[n] = file[n]
         /\ Append(file, r)[g + 1] = r
         /\ GoodTo(Append(file, r), g + 1)
         /\ IndexTo(Append(file, r), g + 1) =
              [h \in 0..g - 1 |-> IF h = g - 1 THEN [off |-> g + 1, flags |-> r.flags]
                                               ELSE IndexTo(file, g)[h]]
         /\ BlocksTo(Append(file, r), g + 1) = BlocksTo(file, g) \cup {[h |-> g - 1, id |-> r.id]}
<1> DEFINE new == Append(file, r)
<1>1. r \in Cell
  BY DEF Cell
<1>2. /\ new \in Seq(Cell) /\ Len(new) = g + 1
      /\ \A n \in 1..g : new[n] = file[n]
      /\ new[g + 1] = r
  BY <1>1
<1> HIDE DEF new
<1>3. /\ g \in Nat \ {0} /\ \A n \in 2..g : n \in 1..g
      /\ \E e \in Nat : file[1] = Header(e)
      /\ \A n \in 2..g : file[n] \in Record /\ file[n].h = n - 2
  BY DEF GoodTo
<1>4. GoodTo(new, g + 1)
  <2>1. ASSUME NEW n \in 2..g + 1 PROVE new[n] \in Record /\ new[n].h = n - 2
    <3>1. CASE n = g + 1
      BY <1>2, <1>3, <3>1
    <3>2. CASE n # g + 1
      <4>1. n \in 2..g
        BY <1>3, <3>2
      <4> QED BY <1>2, <1>3, <4>1
    <3> QED BY <3>1, <3>2
  <2>2. g + 1 \in 1..Len(new) /\ 1 \in 1..g
    BY <1>2, <1>3
  <2>3. \E e \in Nat : new[1] = Header(e)
    BY <1>2, <1>3, <2>2
  <2> QED BY <2>1, <2>2, <2>3 DEF GoodTo
<1>5. IndexTo(new, g + 1) =
        [h \in 0..g - 1 |-> IF h = g - 1 THEN [off |-> g + 1, flags |-> r.flags]
                                         ELSE IndexTo(file, g)[h]]
  <2>1. IndexTo(new, g + 1) = [h \in 0..g - 1 |-> [off |-> h + 2, flags |-> new[h + 2].flags]]
    BY DEF IndexTo
  <2>2. ASSUME NEW h \in 0..g - 1, h # g - 1
        PROVE  [off |-> h + 2, flags |-> new[h + 2].flags] = IndexTo(file, g)[h]
    <3>1. h \in 0..g - 2 /\ h + 2 \in 1..g
      BY <1>3, <2>2
    <3>2. new[h + 2] = file[h + 2]
      BY <1>2, <3>1
    <3> QED BY <3>1, <3>2 DEF IndexTo
  <2>3. ASSUME NEW h \in 0..g - 1, h = g - 1
        PROVE  [off |-> h + 2, flags |-> new[h + 2].flags] = [off |-> g + 1, flags |-> r.flags]
    <3>1. h + 2 = g + 1
      BY <1>3, <2>3
    <3> QED BY <1>2, <3>1
  <2> QED BY <2>1, <2>2, <2>3
<1>6. BlocksTo(new, g + 1) = BlocksTo(file, g) \cup {[h |-> g - 1, id |-> r.id]}
  <2>1. \A n \in 2..g : n \in 2..g + 1 /\ [h |-> n - 2, id |-> new[n].id] = [h |-> n - 2, id |-> file[n].id]
    BY <1>2, <1>3
  <2>2. /\ g + 1 \in 2..g + 1 /\ (g + 1) - 2 = g - 1
        /\ \A n \in 2..g + 1 : n \in 2..g \/ n = g + 1
    BY <1>3
  <2>3. BlocksTo(new, g + 1) = {[h |-> n - 2, id |-> new[n].id] : n \in 2..g + 1}
    BY DEF BlocksTo
  <2>4. BlocksTo(file, g) = {[h |-> n - 2, id |-> file[n].id] : n \in 2..g}
    BY DEF BlocksTo
  <2>5. [h |-> (g + 1) - 2, id |-> new[g + 1].id] = [h |-> g - 1, id |-> r.id]
    BY <1>2, <2>2
  <2>6. ASSUME NEW x \in BlocksTo(new, g + 1)
        PROVE  x \in BlocksTo(file, g) \cup {[h |-> g - 1, id |-> r.id]}
    <3>1. PICK n \in 2..g + 1 : x = [h |-> n - 2, id |-> new[n].id]
      BY <2>3
    <3>2. CASE n \in 2..g
      BY <2>1, <2>4, <3>1, <3>2
    <3>3. CASE n = g + 1
      BY <2>5, <3>1, <3>3
    <3> QED BY <2>2, <3>2, <3>3
  <2>7. ASSUME NEW x \in BlocksTo(file, g) PROVE x \in BlocksTo(new, g + 1)
    <3>1. PICK n \in 2..g : x = [h |-> n - 2, id |-> file[n].id]
      BY <2>4
    <3>2. n \in 2..g + 1 /\ x = [h |-> n - 2, id |-> new[n].id]
      BY <2>1, <3>1
    <3> QED BY <2>3, <3>2
  <2>8. [h |-> g - 1, id |-> r.id] \in BlocksTo(new, g + 1)
    BY <2>2, <2>3, <2>5
  <2> QED BY <2>6, <2>7, <2>8
<1> QED BY <1>2, <1>4, <1>5, <1>6 DEF new

\* The data file and the index of a process that is not swapping files are kept by a
\* step that does not touch them.
LEMMA DataFrame ==
  ASSUME NEW g \in Nat, DataKept(g), MemRight(g), ino'[data] = ino[data],
         UNCHANGED <<data, idx, mem, alive, main>>,
         loop.pc # "done", loop'.pc # "done", comp.pc # "done", comp'.pc # "done"
  PROVE  DataKept(g)' /\ MemRight(g)'
<1>1. DataKept(g)'
  BY DEF DataKept, Stored
<1>2. MemRight(g)'
  BY DEF MemRight
<1> QED BY <1>1, <1>2

\* The first start.
LEMMA InitKept == Init => Kept
<1> SUFFICES ASSUME Init PROVE KeptTo(1)
  BY DEF Kept
<1>1. /\ ino[data] = <<Header(0)>> /\ loop = Idle /\ comp = Idle /\ main = {}
      /\ idx = NoIndex /\ mem = [index |-> << >>, epoch |-> 0, size |-> 1, seq |-> 0]
  BY DEF Init, Inode
<1>2. /\ Len(<<Header(0)>>) = 1 /\ <<Header(0)>>[1] = Header(0)
      /\ 2..1 = {} /\ Header(0).epoch = 0 /\ Idle.pc = "idle"
  BY Cells, Points
<1>3. GoodTo(<<Header(0)>>, 1)
  BY <1>2 DEF GoodTo
<1>4. BlocksTo(<<Header(0)>>, 1) = {} /\ Spares(<<Header(0)>>, 1, 1)
  BY <1>2 DEF BlocksTo, Spares
<1>5. DataKept(1)
  BY <1>1, <1>2, <1>3, <1>4 DEF DataKept, Stored, Fits, NoIndex
<1>6. MemRight(1)
  BY <1>1, <1>2, EmptyIndex DEF MemRight
<1>7. LoopKept(1) /\ CompKept(1)
  BY <1>1, <1>2 DEF LoopKept, CompKept, Current
<1> QED BY <1>5, <1>6, <1>7 DEF KeptTo

\* Between the calls of the event loop the data file holds main, and g is by two more
\* than the height of its tip.
LEMMA Between ==
  ASSUME Shape, lock = "free", NEW g \in Nat, DataKept(g)
  PROVE  /\ loop.pc = "idle" /\ comp.pc \notin {"data", "done"}
         /\ g \in Nat \ {0}
         /\ GoodTo(ino[data], g) /\ ino[data] \in Seq(Cell)
         /\ BlocksTo(ino[data], g) = main
         /\ {b.h : b \in main} = 0..g - 2 /\ TipOf(main) = g - 2
         /\ alive => Len(ino[data]) = g
<1>1. loop.pc = "idle" /\ comp.pc \notin {"data", "done"}
  BY DEF Shape, ThreadsTyped
<1>2. GoodTo(ino[data], g) /\ g \in Nat \ {0} /\ ino[data] \in Seq(Cell)
  BY DEF DataKept, GoodTo, Shape, FilesTyped
<1>3. BlocksTo(ino[data], g) = main
  BY <1>1 DEF DataKept, Stored
<1>4. {b.h : b \in main} = 0..g - 2 /\ TipOf(main) = g - 2
  BY <1>2, <1>3, HeightsOfFile
<1> QED BY <1>1, <1>2, <1>3, <1>4 DEF DataKept

\* What a step that only makes the data file longer does to a compaction.
LEMMA LongerUnderCopy ==
  ASSUME Shape, NEW g \in Nat, DataKept(g), CompKept(g), comp.pc \notin {"data", "done"},
         \A n \in 1..g : ino'[data][n] = ino[data][n],
         \A i \in Inode \ {data} : ino'[i] = ino[i],
         UNCHANGED <<data, tmp, loop, comp>>, mem'.seq = mem.seq, mem'.epoch = mem.epoch
  PROVE  CompKept(g + 1)'
<1>1. comp'.pc \in {"open", "write", "catchup"} => comp'.seq <= mem'.seq
  BY DEF CompKept
<1>2. ASSUME Current PROVE \E k \in Nat : Snapped(k, g + 1)'
  <2>1. PICK k \in Nat : Snapped(k, g)
    BY <1>2 DEF CompKept
  <2>2. k \in 2..g /\ k \in 2..g + 1 /\ \A n \in 1..k : n \in 1..g
    BY <2>1 DEF Snapped
  <2>3. IndexTo(ino'[data], k) = IndexTo(ino[data], k)
    <3>1. \A n \in 1..k : ino'[data][n].flags = ino[data][n].flags
      BY <2>2
    <3> QED BY <3>1, SameIndex
  <2>4. ASSUME comp.pc \in {"write", "catchup"}
        PROVE  ino'[tmp] = ino[tmp] /\ Copied(ino[tmp], comp.pos - 1, g + 1)'
    <3>1. tmp # 0 /\ comp.pos \in 1..k + 1 /\ Copied(ino[tmp], comp.pos - 1, g)
      BY <2>1, <2>4 DEF Snapped
    <3>2. tmp \in Inode \ {data}
      BY <3>1 DEF Shape, FilesTyped
    <3>3. ino'[tmp] = ino[tmp]
      BY <3>2
    <3> DEFINE m == comp.pos - 1
    <3>4. m \in Nat /\ m <= k
      BY <3>1, <2>2
    <3>5. \A n \in 2..m : n \in 1..g /\ n \in 1..k
      BY <2>2, <3>4
    <3>6. \A n \in 2..m : g - n >= PruneAfter => g + 1 - n >= PruneAfter
      BY StorageAssumption
    <3> HIDE DEF m
    <3>7. Copied(ino[tmp], m, g)
      BY <3>1 DEF m
    <3>8. /\ Len(ino[tmp]) = m
          /\ m >= 1 => ino[tmp][1] = Header(comp.epoch)
          /\ \A n \in 2..m : /\ ino[tmp][n] \in Record /\ ino[tmp][n].h = n - 2
                             /\ ino[tmp][n].id = ino'[data][n].id
          /\ Spares(ino[tmp], m, g + 1)
      BY <3>5, <3>6, <3>7 DEF Copied, Spares
    <3> QED BY <3>3, <3>8 DEF m, Copied
  <2> QED BY <2>1, <2>2, <2>3, <2>4 DEF Snapped
<1>3. Current' <=> Current
  BY DEF Current
<1> QED BY <1>1, <1>2, <1>3 DEF CompKept

\* append, whether it returns or the process dies at its end.
LEMMA AppendKept ==
  ASSUME Shape, NEW g \in Nat, KeptTo(g), NEW b \in Block, AppendBlock(b) \/ AppendDies(b)
  PROVE  KeptTo(g)' \/ KeptTo(g + 1)'
<1> DEFINE file == ino[data]
           r == [h |-> b.h, id |-> b.id, flags |-> "full"]
<1>1. /\ alive /\ lock = "free"
      /\ b.h = TipOf(main) + 1
      /\ UNCHANGED <<data, tmp, idx, idxTmp>>
  BY DEF AppendBlock, AppendDies
<1>2. DataKept(g) /\ MemRight(g) /\ LoopKept(g) /\ CompKept(g)
  BY DEF KeptTo
<1>3. /\ loop.pc = "idle" /\ comp.pc \notin {"data", "done"}
      /\ g \in Nat \ {0} /\ GoodTo(file, g) /\ file \in Seq(Cell) /\ Len(file) = g
      /\ BlocksTo(file, g) = main
      /\ TipOf(main) = g - 2
  BY <1>1, <1>2, Between
<1>4. b.h = g - 1
  BY <1>1, <1>3
<1>5. r \in Record /\ r.h = g - 1 /\ r.id = b.id /\ r.flags = "full" /\ b = [h |-> g - 1, id |-> b.id]
  BY <1>4 DEF Record, Block, Flags
<1>6. data \in Inode /\ ino \in [Inode -> Seq(Cell)]
  BY DEF Shape, FilesTyped
<1> HIDE DEF r
<1> DEFINE new == Append(file, r)
<1>7. /\ new \in Seq(Cell) /\ Len(new) = g + 1
      /\ \A n \in 1..g : new[n] = file[n]
      /\ new[g + 1] = r
      /\ GoodTo(new, g + 1)
      /\ IndexTo(new, g + 1) =
           [h \in 0..g - 1 |-> IF h = g - 1 THEN [off |-> g + 1, flags |-> r.flags]
                                            ELSE IndexTo(file, g)[h]]
      /\ BlocksTo(new, g + 1) = BlocksTo(file, g) \cup {[h |-> g - 1, id |-> r.id]}
  BY <1>3, <1>5, GoodLonger
<1> HIDE DEF new
<1>8. ASSUME ino'[data] = new, main' = main \cup {b}, loop'.pc = "idle"
      PROVE  DataKept(g + 1)'
  <2>1. Spares(new, g + 1, g + 1)
    <3>1. ASSUME NEW n \in 2..g + 1, new[n].flags = "header" PROVE (g + 1) - n >= PruneAfter
      <4>1. n # g + 1
        BY <1>5, <1>7, <3>1
      <4>2. n \in 2..g /\ n \in 1..g
        BY <1>3, <4>1
      <4>3. file[n].flags = "header"
        BY <1>7, <3>1, <4>2
      <4>4. g - n >= PruneAfter
        BY <1>2, <4>2, <4>3 DEF DataKept, Spares
      <4> QED BY <1>3, <4>2, <4>4, StorageAssumption
    <3> QED BY <3>1 DEF Spares
  <2>2. new[1] = file[1]
    BY <1>3, <1>7
  <2>3. Fits(idx, new, g + 1)
    <3>1. ASSUME idx.epoch = new[1].epoch
          PROVE  idx.size \in 1..g + 1 /\ idx.index = IndexTo(new, idx.size)
      <4>1. idx.size \in 1..g /\ idx.index = IndexTo(file, idx.size)
        BY <1>2, <2>2, <3>1 DEF DataKept, Fits
      <4>2. \A n \in 1..idx.size : new[n].flags = file[n].flags
        BY <1>7, <4>1
      <4>3. IndexTo(new, idx.size) = IndexTo(file, idx.size)
        BY <4>1, <4>2, SameIndex
      <4> QED BY <4>1, <4>3
    <3> QED BY <3>1 DEF Fits
  <2>4. BlocksTo(new, g + 1) = Stored'
    BY <1>3, <1>5, <1>7, <1>8 DEF Stored
  <2>5. idx.epoch <= new[1].epoch
    BY <1>2, <2>2 DEF DataKept
  <2> QED BY <1>1, <1>7, <1>8, <2>1, <2>3, <2>4, <2>5 DEF DataKept
<1>9. CASE AppendBlock(b)
  <2>1. /\ ino' = [ino EXCEPT ![data] = new]
        /\ mem' = [mem EXCEPT
             !.index = [h \in DOMAIN mem.index \cup {b.h} |->
                          IF h = b.h THEN [off |-> mem.size + 1, flags |-> "full"] ELSE mem.index[h]],
             !.size = mem.size + 1]
        /\ main' = main \cup {b}
        /\ UNCHANGED <<lock, loop, comp, alive>>
    BY <1>9 DEF AppendBlock, new, r
  <2>2. ino'[data] = new /\ \A i \in Inode \ {data} : ino'[i] = ino[i]
    BY <1>6, <2>1
  <2>3. mem \in [index : Indexes, epoch : Nat, size : Nat, seq : Nat]
    BY DEF Shape, FilesTyped
  <2>4. mem.epoch = file[1].epoch /\ mem.size = g /\ mem.index = IndexTo(file, g)
    BY <1>1, <1>2, <1>3 DEF MemRight
  <2>5. /\ mem'.epoch = mem.epoch /\ mem'.seq = mem.seq /\ mem'.size = g + 1
        /\ mem'.index = [h \in DOMAIN mem.index \cup {b.h} |->
              IF h = b.h THEN [off |-> mem.size + 1, flags |-> "full"] ELSE mem.index[h]]
    BY <2>1, <2>3, <2>4
  <2>6. mem'.index = IndexTo(new, g + 1)
    <3>1. DOMAIN mem.index \cup {b.h} = 0..g - 1
      <4>1. DOMAIN mem.index = 0..g - 2
        BY <1>3, <2>4, HeightsOfFile
      <4> QED BY <1>3, <1>4, <4>1
    <3>2. mem'.index = [h \in 0..g - 1 |->
             IF h = b.h THEN [off |-> mem.size + 1, flags |-> "full"] ELSE mem.index[h]]
      BY <2>5, <3>1
    <3>3. mem'.index = [h \in 0..g - 1 |->
             IF h = g - 1 THEN [off |-> g + 1, flags |-> r.flags] ELSE IndexTo(file, g)[h]]
      BY <1>4, <1>5, <2>4, <3>2
    <3> QED BY <1>7, <3>3
  <2>7. DataKept(g + 1)'
    BY <1>3, <1>8, <2>1, <2>2
  <2>8. MemRight(g + 1)'
    <3>1. new[1] = file[1]
      BY <1>3, <1>7
    <3> QED BY <1>1, <2>2, <2>4, <2>5, <2>6, <3>1 DEF MemRight
  <2>9. LoopKept(g + 1)'
    BY <1>3, <2>1 DEF LoopKept
  <2>10. \A n \in 1..g : ino'[data][n] = ino[data][n]
    BY <1>7, <2>2
  <2>11. CompKept(g + 1)'
    BY <1>1, <1>2, <1>3, <2>1, <2>2, <2>5, <2>10, LongerUnderCopy
  <2> QED BY <2>7, <2>8, <2>9, <2>11 DEF KeptTo
<1>10. CASE AppendDies(b)
  <2>1. /\ alive' = FALSE /\ loop' = Idle /\ comp' = Idle
        /\ \/ ino' = [ino EXCEPT ![data] = Append(@, Torn)] /\ main' = main
           \/ ino' = [ino EXCEPT ![data] = new] /\ main' = main \cup {b}
    BY <1>10 DEF AppendDies, new, r
  <2>2. loop'.pc = "idle" /\ comp'.pc = "idle" /\ ~ alive'
    BY <2>1, Points
  <2>3. \A k \in Nat : MemRight(k)' /\ LoopKept(k)' /\ CompKept(k)'
    BY <2>2 DEF MemRight, LoopKept, CompKept, Current
  <2>4. CASE ino' = [ino EXCEPT ![data] = new] /\ main' = main \cup {b}
    <3>1. ino'[data] = new
      BY <1>6, <2>4
    <3> QED BY <1>8, <2>2, <2>3, <2>4, <3>1 DEF KeptTo
  <2>5. CASE ino' = [ino EXCEPT ![data] = Append(@, Torn)] /\ main' = main
    <3> DEFINE torn == Append(file, Torn)
    <3>1. ino'[data] = torn
      BY <1>6, <2>5
    <3>2. Torn \in Cell /\ Torn \notin Record
      BY Cells DEF Cell
    <3>3. /\ torn \in Seq(Cell) /\ Len(torn) = g + 1 /\ torn[g + 1] = Torn
          /\ \A n \in 1..g : torn[n] = file[n]
      BY <1>3, <3>2
    <3> HIDE DEF torn
    <3>4. g <= Len(torn)
      BY <3>3
    <3>5. /\ GoodTo(torn, g) /\ IndexTo(torn, g) = IndexTo(file, g)
          /\ BlocksTo(torn, g) = BlocksTo(file, g)
      BY <1>3, <3>3, <3>4, SamePrefix
    <3>6. torn[1] = file[1] /\ \A n \in 2..g : n \in 1..g
      BY <1>3, <3>3
    <3>7. Spares(torn, g, g)
      BY <1>2, <3>3, <3>6 DEF DataKept, Spares
    <3>8. Fits(idx, torn, g)
      <4>1. ASSUME idx.epoch = torn[1].epoch
            PROVE  idx.size \in 1..g /\ idx.index = IndexTo(torn, idx.size)
        <5>1. idx.size \in 1..g /\ idx.index = IndexTo(file, idx.size)
          BY <1>2, <3>6, <4>1 DEF DataKept, Fits
        <5>2. \A n \in 1..idx.size : torn[n].flags = file[n].flags
          BY <3>3, <5>1
        <5>3. IndexTo(torn, idx.size) = IndexTo(file, idx.size)
          BY <5>1, <5>2, SameIndex
        <5> QED BY <5>1, <5>3
      <4> QED BY <4>1 DEF Fits
    <3>9. BlocksTo(torn, g) = Stored'
      BY <1>3, <2>2, <2>5, <3>5 DEF Stored
    <3>10. idx.epoch <= torn[1].epoch
      BY <1>2, <3>6 DEF DataKept
    <3>11. DataKept(g)'
      BY <1>1, <2>2, <3>1, <3>2, <3>3, <3>5, <3>7, <3>8, <3>9, <3>10 DEF DataKept
    <3> QED BY <2>3, <3>11 DEF KeptTo
  <2> QED BY <2>1, <2>4, <2>5
<1> QED BY <1>9, <1>10

\* A file that replace_all has written to its end is a data file of the new chain.
LEMMA WrittenIsGood ==
  ASSUME NEW file \in Seq(Cell), loop \in Replacing, Written(file, TipOf(loop.chain) + 2)
  PROVE  /\ TipOf(loop.chain) + 2 \in Nat \ {0}
         /\ GoodTo(file, TipOf(loop.chain) + 2)
         /\ Len(file) = TipOf(loop.chain) + 2
         /\ file[1] = Header(loop.epoch) /\ file[1].epoch = loop.epoch
         /\ Spares(file, TipOf(loop.chain) + 2, TipOf(loop.chain) + 2)
         /\ BlocksTo(file, TipOf(loop.chain) + 2) = loop.chain
         /\ \A n \in 2..TipOf(loop.chain) + 2 : file[n].flags = "full"
<1> DEFINE g == TipOf(loop.chain) + 2
<1>1. /\ loop.chain \in Chains /\ loop.epoch \in Nat
      /\ TipOf(loop.chain) \in Nat
      /\ loop.chain \in SUBSET Block
      /\ {b.h : b \in loop.chain} = 0..TipOf(loop.chain)
      /\ \A b, c \in loop.chain : b.h = c.h => b = c
  <2>1. loop.chain \in Chains /\ loop.epoch \in Nat
    BY DEF Replacing
  <2> QED BY <2>1, ChainShape, StorageAssumption DEF Height
<1>2. g \in Nat /\ g >= 2 /\ 1 \in 1..g
  BY <1>1
<1> HIDE DEF g
<1>3. /\ Len(file) = g /\ file[1] = Header(loop.epoch)
      /\ \A n \in 2..g : /\ file[n] \in Record /\ file[n].h = n - 2 /\ file[n].flags = "full"
                         /\ [h |-> n - 2, id |-> file[n].id] \in loop.chain
  BY <1>2 DEF Written, g
<1>4. GoodTo(file, g)
  <2>1. g \in 1..Len(file)
    BY <1>2, <1>3
  <2> QED BY <1>1, <1>3, <2>1 DEF GoodTo
<1>5. Spares(file, g, g)
  BY <1>3 DEF Spares
<1>6. BlocksTo(file, g) = loop.chain
  <2>1. BlocksTo(file, g) \subseteq loop.chain
    BY <1>3 DEF BlocksTo
  <2>2. ASSUME NEW b \in loop.chain PROVE b \in BlocksTo(file, g)
    <3>1. b.h \in 0..TipOf(loop.chain)
      BY <1>1
    <3>2. b.h + 2 \in 2..g /\ (b.h + 2) - 2 = b.h
      BY <1>1, <3>1 DEF g
    <3> DEFINE c == [h |-> (b.h + 2) - 2, id |-> file[b.h + 2].id]
    <3>3. c \in loop.chain
      BY <1>3, <3>2
    <3>4. c.h = b.h
      BY <3>2
    <3>5. c \in BlocksTo(file, g)
      BY <3>2 DEF BlocksTo
    <3> HIDE DEF c
    <3> QED BY <1>1, <3>3, <3>4, <3>5
  <2> QED BY <2>1, <2>2
<1>7. file[1].epoch = loop.epoch
  BY <1>3, Cells
<1>8. g \in Nat \ {0}
  BY <1>2
<1> QED BY <1>3, <1>4, <1>5, <1>6, <1>7, <1>8 DEF g

\* replace_all writes one cell more.
LEMMA ReplaceWrites ==
  ASSUME Shape, ReplaceWrite, Written(ino[tmp], loop.pos - 1)
  PROVE  /\ loop.pc = "write" /\ tmp # 0 /\ ino'[data] = ino[data] /\ comp.pc # "done"
         /\ UNCHANGED <<data, tmp, idx, idxTmp, mem, lock, comp, alive, main, flips>>
         /\ loop'.chain = loop.chain /\ loop'.epoch = loop.epoch
         /\ loop'.pc \in {"write", "index"}
         /\ loop'.pc = "write" => Written(ino[tmp], loop.pos - 1)'
         /\ loop'.pc = "index" => Written(ino[tmp], TipOf(loop.chain) + 2)'
<1> DEFINE T   == TipOf(loop.chain)
           h   == loop.pos - 2
           blk == CHOOSE b \in loop.chain : b.h = h
           cell == IF loop.pos = 1 THEN Header(loop.epoch)
                   ELSE [h |-> h, flags |-> "full", id |-> blk.id]
           new == WriteAt(ino[loop.fd], loop.pos, cell)
<1>1. /\ loop.pc = "write"
      /\ ino' = [ino EXCEPT ![loop.fd] = new]
      /\ loop' = [loop EXCEPT !.pos = @ + 1,
                              !.pc = IF loop.pos = T + 2 THEN "index" ELSE "write"]
      /\ UNCHANGED <<data, tmp, idx, idxTmp, mem, lock, comp, alive, main, flips>>
  BY DEF ReplaceWrite
<1>2. /\ loop \in Replacing /\ loop.fd = tmp /\ loop.pos <= T + 2
      /\ comp.pc # "done"
  BY <1>1, Points DEF Shape, ThreadsTyped, Idle
<1>3. /\ loop.fd \in Inode /\ loop.pos \in Nat \ {0} /\ loop.chain \in Chains /\ loop.epoch \in Nat
  BY <1>2 DEF Replacing
<1>4. /\ T \in Nat /\ loop.chain \in SUBSET Block
      /\ \A n \in 0..T : /\ (CHOOSE b \in loop.chain : b.h = n) \in loop.chain
                         /\ (CHOOSE b \in loop.chain : b.h = n).h = n
                         /\ n \in Height
  BY <1>3, ChainShape, StorageAssumption DEF Height
<1>5. loop.pos # 1 => /\ blk \in loop.chain /\ blk = [h |-> h, id |-> blk.id]
                      /\ h \in Height /\ blk.id \in Id
  <2>1. loop.pos # 1 => h \in 0..T
    BY <1>2, <1>3, <1>4
  <2>2. \A b \in Block : b = [h |-> b.h, id |-> b.id] /\ b.id \in Id
    BY DEF Block
  <2> HIDE DEF h
  <2> QED BY <1>4, <2>1, <2>2
<1>6. /\ loop.pos = 1 => cell = Header(loop.epoch)
      /\ loop.pos # 1 => /\ cell \in Record /\ cell.h = h /\ cell.flags = "full"
                         /\ [h |-> h, id |-> cell.id] \in loop.chain
  <2>1. ASSUME loop.pos # 1
        PROVE  /\ cell \in Record /\ cell.h = h /\ cell.flags = "full"
               /\ [h |-> h, id |-> cell.id] \in loop.chain
    <3> HIDE DEF h, blk
    <3>1. cell = [h |-> h, flags |-> "full", id |-> blk.id]
      BY <2>1
    <3> QED BY <1>5, <2>1, <3>1 DEF Record, Flags
  <2> QED BY <2>1
<1>7. cell \in Cell
  BY <1>3, <1>6 DEF Cell
<1> HIDE DEF cell, blk, T
<1>8. Written(ino[tmp], loop.pos - 1)
  OBVIOUS
<1> DEFINE file == ino[tmp]
<1>9. /\ file \in Seq(Cell) /\ Len(file) = loop.pos - 1 /\ tmp \in Inode /\ tmp # 0
      /\ new = WriteAt(file, loop.pos, cell)
  BY <1>2, <1>3, <1>8 DEF Written, Inode, Shape, FilesTyped
<1>10. /\ Len(new) = loop.pos /\ new[loop.pos] = cell
       /\ \A n \in 1..loop.pos - 1 : new[n] = file[n]
  <2> HIDE DEF file
  <2>1. loop.pos = Len(file) + 1
    BY <1>3, <1>9
  <2>2. /\ Len(WriteAt(file, loop.pos, cell)) = loop.pos
        /\ WriteAt(file, loop.pos, cell)[loop.pos] = cell
        /\ \A n \in 1..Len(file) : WriteAt(file, loop.pos, cell)[n] = file[n]
    BY <1>3, <1>7, <1>9, <2>1, WriteAtIs
  <2> HIDE DEF new
  <2> QED BY <1>9, <2>2
<1> HIDE DEF new
<1>11. /\ ino'[tmp] = new /\ ino'[data] = ino[data]
  BY <1>1, <1>2, <1>9 DEF Shape, FilesTyped
<1>12. /\ loop' = [pc |-> IF loop.pos = T + 2 THEN "index" ELSE "write", fd |-> loop.fd,
                   pos |-> loop.pos + 1, chain |-> loop.chain, epoch |-> loop.epoch]
  BY <1>1, <1>2 DEF Replacing
<1>13. /\ loop'.pos - 1 = loop.pos /\ loop'.chain = loop.chain /\ loop'.epoch = loop.epoch
       /\ loop'.pc \in {"write", "index"} /\ (loop'.pc = "index" => loop.pos = T + 2)
  BY <1>3, <1>12
<1>14. Written(ino[tmp], loop.pos)'
       <=> /\ Len(new) = loop'.pos
           /\ loop'.pos >= 1 => new[1] = Header(loop.epoch)
           /\ \A n \in 2..loop'.pos :
                 /\ new[n] \in Record /\ new[n].h = n - 2 /\ new[n].flags = "full"
                 /\ [h |-> n - 2, id |-> new[n].id] \in loop.chain
  BY <1>1, <1>11, <1>13 DEF Written
<1>15. /\ Len(new) = loop.pos
       /\ new[1] = Header(loop.epoch)
       /\ \A n \in 2..loop.pos :
             /\ new[n] \in Record /\ new[n].h = n - 2 /\ new[n].flags = "full"
             /\ [h |-> n - 2, id |-> new[n].id] \in loop.chain
  <2>1. new[1] = Header(loop.epoch)
    <3>1. CASE loop.pos = 1
      BY <1>6, <1>10, <3>1
    <3>2. CASE loop.pos # 1
      <4>1. 1 \in 1..loop.pos - 1 /\ loop.pos - 1 >= 1
        BY <1>3, <3>2
      <4> QED BY <1>8, <1>10, <4>1 DEF Written
    <3> QED BY <3>1, <3>2
  <2>2. ASSUME NEW n \in 2..loop.pos
        PROVE  /\ new[n] \in Record /\ new[n].h = n - 2 /\ new[n].flags = "full"
               /\ [h |-> n - 2, id |-> new[n].id] \in loop.chain
    <3>1. CASE n = loop.pos
      <4>1. loop.pos # 1 /\ h = n - 2
        BY <1>3, <2>2, <3>1
      <4> QED BY <1>6, <1>10, <3>1, <4>1
    <3>2. CASE n # loop.pos
      <4>1. n \in 1..loop.pos - 1 /\ n \in 2..loop.pos - 1
        BY <1>3, <3>2
      <4> QED BY <1>8, <1>10, <4>1 DEF Written
    <3> QED BY <3>1, <3>2
  <2> QED BY <1>10, <2>1, <2>2
<1>16. loop'.pc = "write" => Written(ino[tmp], loop.pos - 1)'
  BY <1>1, <1>11, <1>13, <1>15 DEF Written
<1>17. loop'.pc = "index" => Written(ino[tmp], TipOf(loop.chain) + 2)'
  BY <1>1, <1>11, <1>13, <1>15 DEF Written, T
<1> QED BY <1>1, <1>2, <1>9, <1>11, <1>13, <1>16, <1>17

\* Every step of replace_all.
LEMMA ReplaceKept ==
  ASSUME ~ Overlap, Shape, Shape', NEW g \in Nat, KeptTo(g),
         \/ \E chain \in Chains : ReplaceOpen(chain)
         \/ ReplaceWrite \/ ReplaceIndex \/ ReplaceData \/ ReplaceDone
  PROVE  \E k \in Nat : KeptTo(k)'
<1>1. DataKept(g) /\ MemRight(g) /\ LoopKept(g) /\ CompKept(g)
  BY DEF KeptTo
<1>2. /\ ino \in [Inode -> Seq(Cell)] /\ data \in Inode /\ tmp \in Inode \cup {0} /\ data # tmp
      /\ mem.epoch \in Nat /\ mem.seq \in Nat
      /\ mem \in [index : Indexes, epoch : Nat, size : Nat, seq : Nat]
      /\ idx \in IndexFile /\ idx.epoch \in Int
  <2>1. FilesTyped
    BY DEF Shape
  <2>2. mem \in [index : Indexes, epoch : Nat, size : Nat, seq : Nat] /\ idx \in IndexFile
    BY ONLY <2>1 DEF FilesTyped
  <2>3. mem.epoch \in Nat /\ mem.seq \in Nat
    BY ONLY <2>2
  <2>4. idx.epoch \in Int
    BY ONLY <2>2 DEF IndexFile
  <2> QED BY ONLY <2>1, <2>2, <2>3, <2>4 DEF FilesTyped
\* While replace_all runs, the compaction cannot have the snapshot of this chain.
<1>3. ASSUME UNCHANGED comp, loop'.pc # "idle", mem'.seq = mem.seq, NEW k \in Nat
      PROVE  CompKept(k)' /\ comp.pc \notin {"write", "data", "done"}
  <2>1. comp'.pc \notin {"write", "data", "done"}
    BY <1>3 DEF Shape, ThreadsTyped
  <2>2. comp.pc \in {"open", "write", "catchup"} => comp.seq <= mem.seq
    BY <1>1 DEF CompKept
  <2> QED BY <1>3, <2>1, <2>2 DEF CompKept, Current
<1>4. ASSUME NEW chain \in Chains, ReplaceOpen(chain) PROVE KeptTo(g)'
  <2>1. /\ loop.pc = "idle" /\ lock = "free" /\ alive /\ comp.pc # "write"
        /\ comp.pc \notin {"data", "done"}
        /\ UNCHANGED <<data, idx, idxTmp, mem, comp, alive, main>>
    BY <1>4 DEF ReplaceOpen, Shape, ThreadsTyped
  <2>2. PICK fd \in Inode :
           /\ OpenTmp(fd)
           /\ loop' = [pc |-> "write", fd |-> fd, pos |-> 1, chain |-> chain, epoch |-> NextEpoch]
    BY <1>4 DEF ReplaceOpen
  <2>3. /\ fd # data /\ tmp' = fd
        /\ ino'[data] = ino[data] /\ ino'[fd] = << >>
    BY <2>1, <2>2, OpenTmpIs DEF Shape
  <2>4. /\ loop'.pc = "write" /\ loop'.pos = 1 /\ loop'.epoch = mem.epoch + 1
    BY <2>2 DEF NextEpoch
  <2>5. DataKept(g)' /\ MemRight(g)'
    BY <1>1, <2>1, <2>3, <2>4, DataFrame
  <2>6. LoopKept(g)'
    <3>1. Written(ino[tmp], loop.pos - 1)'
      <4>1. ino'[tmp'] = << >> /\ loop'.pos - 1 = 0 /\ Len(<< >>) = 0
        BY <2>3, <2>4
      <4> QED BY <4>1 DEF Written
    <3> QED BY <2>1, <2>4, <3>1 DEF LoopKept
  <2>7. CompKept(g)'
    BY <1>3, <2>1, <2>4
  <2> QED BY <2>5, <2>6, <2>7 DEF KeptTo
<1>5. CASE ReplaceWrite
  <2>1. loop.pc = "write"
    BY <1>5 DEF ReplaceWrite
  <2>2. Written(ino[tmp], loop.pos - 1) /\ loop.epoch = mem.epoch + 1
    BY <1>1, <2>1 DEF LoopKept
  <2>3. /\ tmp # 0 /\ ino'[data] = ino[data] /\ comp.pc # "done"
        /\ UNCHANGED <<data, tmp, idx, idxTmp, mem, lock, comp, alive, main>>
        /\ loop'.chain = loop.chain /\ loop'.epoch = loop.epoch
        /\ loop'.pc \in {"write", "index"}
        /\ loop'.pc = "write" => Written(ino[tmp], loop.pos - 1)'
        /\ loop'.pc = "index" => Written(ino[tmp], TipOf(loop.chain) + 2)'
    BY <1>5, <2>2, ReplaceWrites
  <2>4. LoopKept(g)'
    BY <2>2, <2>3 DEF LoopKept
  <2>5. DataKept(g)' /\ MemRight(g)'
    BY <1>1, <2>1, <2>3, DataFrame
  <2>6. CompKept(g)'
    BY <1>3, <2>3
  <2> QED BY <2>4, <2>5, <2>6 DEF KeptTo
<1>6. CASE ReplaceIndex
  <2>1. /\ loop.pc = "index"
        /\ idxTmp' = [epoch |-> loop.epoch, size |-> TipOf(loop.chain) + 2,
                      index |-> NewIndexOf(loop.chain)]
        /\ loop' = [loop EXCEPT !.pc = "data"]
        /\ UNCHANGED <<ino, data, tmp, idx, mem, lock, comp, alive, main>>
    BY <1>6 DEF ReplaceIndex
  <2>2. loop \in Replacing /\ comp.pc # "done"
    BY <2>1, Points DEF Shape, ThreadsTyped, Idle
  <2>3. loop'.pc = "data" /\ loop'.epoch = loop.epoch /\ loop'.chain = loop.chain
    BY <2>1, <2>2 DEF Replacing
  <2>4. DataKept(g)' /\ MemRight(g)'
    BY <1>1, <2>1, <2>2, <2>3, DataFrame
  <2>5. LoopKept(g)'
    BY <1>1, <2>1, <2>3 DEF LoopKept, Written
  <2>6. CompKept(g)'
    BY <1>3, <2>1, <2>3
  <2> QED BY <2>4, <2>5, <2>6 DEF KeptTo
<1>7. CASE ReplaceData
  <2> DEFINE file == ino[tmp]
  <2>0. PICK k : k = TipOf(loop.chain) + 2
    OBVIOUS
  <2>1. /\ loop.pc = "data" /\ tmp # 0 /\ data' = tmp /\ tmp' = 0
        /\ loop' = [loop EXCEPT !.pc = "done"] /\ alive
        /\ UNCHANGED <<ino, idx, idxTmp, mem, lock, comp, alive, main>>
    BY <1>7 DEF ReplaceData
  <2>2. loop \in Replacing /\ loop.epoch \in Nat /\ comp.pc # "done"
    BY <2>1, Points DEF Shape, ThreadsTyped, Idle, Replacing
  <2>3. loop'.pc = "done" /\ loop'.epoch = loop.epoch /\ loop'.chain = loop.chain
    BY <2>1, <2>2 DEF Replacing
  <2>4. /\ Written(file, k) /\ loop.epoch = mem.epoch + 1
        /\ idxTmp = [epoch |-> loop.epoch, size |-> k, index |-> NewIndexOf(loop.chain)]
    BY <1>1, <2>0, <2>1 DEF LoopKept
  <2>5. file \in Seq(Cell)
    BY <1>2, <2>1
  <2>6. /\ k \in Nat \ {0} /\ GoodTo(file, k) /\ Len(file) = k
        /\ file[1].epoch = loop.epoch
        /\ Spares(file, k, k) /\ BlocksTo(file, k) = loop.chain
        /\ \A n \in 2..k : file[n].flags = "full"
    <3> HIDE DEF file
    <3> QED BY <2>0, <2>2, <2>4, <2>5, WrittenIsGood
  <2>7. idx.epoch < loop.epoch
    <3>1. idx.epoch <= mem.epoch
      BY <1>1, <2>1, <2>2 DEF DataKept, MemRight
    <3> QED BY <1>2, <2>4, <3>1
  <2>8. ino'[data'] = file
    BY <2>1
  <2> HIDE DEF file
  <2>9. DataKept(k)'
    <3>1. Fits(idx, file, k) /\ idx.epoch <= file[1].epoch
      BY <1>2, <2>2, <2>6, <2>7 DEF Fits
    <3> QED BY <2>1, <2>3, <2>6, <2>8, <3>1 DEF DataKept, Stored
  <2>10. MemRight(k)'
    BY <2>3 DEF MemRight
  <2>11. LoopKept(k)'
    BY <2>0, <2>1, <2>3, <2>4, <2>6, <2>7, <2>8 DEF LoopKept
  <2>12. CompKept(k)'
    BY <1>3, <2>1, <2>3, <2>6
  <2> QED BY <2>6, <2>9, <2>10, <2>11, <2>12 DEF KeptTo
<1>8. CASE ReplaceDone
  <2> DEFINE file == ino[data]
  <2>1. /\ loop.pc = "done" /\ alive
        /\ idx' = idxTmp /\ idxTmp' = NoIndex
        /\ mem' = [index |-> idxTmp.index, epoch |-> loop.epoch, size |-> idxTmp.size,
                   seq |-> mem.seq + 1]
        /\ main' = loop.chain
        /\ loop' = Idle
        /\ UNCHANGED <<ino, data, tmp, comp, alive>>
    BY <1>8 DEF ReplaceDone
  <2>2. /\ loop \in Replacing /\ loop.chain \in Chains /\ loop.epoch \in Nat
        /\ comp.pc \notin {"write", "data", "done"}
    BY <2>1, Points DEF Shape, ThreadsTyped, Idle, Replacing
  <2>3. loop'.pc = "idle"
    BY <2>1, Points
  <2>4. /\ file[1].epoch = loop.epoch
        /\ \A n \in 2..g : file[n].flags = "full"
        /\ idxTmp = [epoch |-> loop.epoch, size |-> TipOf(loop.chain) + 2,
                     index |-> NewIndexOf(loop.chain)]
    BY <1>1, <2>1 DEF LoopKept
  <2>5. /\ GoodTo(file, g) /\ Len(file) = g /\ Spares(file, g, g)
        /\ BlocksTo(file, g) = loop.chain
        /\ g \in Nat \ {0}
    BY <1>1, <2>1 DEF DataKept, Stored, GoodTo
  <2> HIDE DEF file
  <2>6. {b.h : b \in loop.chain} = 0..g - 2 /\ TipOf(loop.chain) = g - 2
    BY <2>5, HeightsOfFile
  <2>7. NewIndexOf(loop.chain) = IndexTo(file, g)
    <3>1. NewIndexOf(loop.chain) = [h \in 0..g - 2 |-> [off |-> h + 2, flags |-> "full"]]
      BY <2>6 DEF NewIndexOf
    <3>2. \A h \in 0..g - 2 : h + 2 \in 2..g
      BY <2>5
    <3>3. \A h \in 0..g - 2 : file[h + 2].flags = "full"
      BY <2>4, <3>2
    <3> QED BY <3>1, <3>3 DEF IndexTo
  <2>8. TipOf(loop.chain) + 2 = g
    BY <2>5, <2>6
  <2>9. /\ idxTmp.epoch = file[1].epoch /\ idxTmp.size = g /\ idxTmp.index = IndexTo(file, g)
    BY <2>4, <2>7, <2>8
  <2>10. ino'[data'] = file
    BY <2>1 DEF file
  <2>11. DataKept(g)'
    <3>1. Fits(idxTmp, file, g)
      BY <2>5, <2>9 DEF Fits
    <3>2. idxTmp.epoch <= file[1].epoch
      BY <2>2, <2>4, <2>9
    <3> QED BY <2>1, <2>3, <2>5, <2>10, <3>1, <3>2 DEF DataKept, Stored
  <2>12. MemRight(g)'
    BY <2>1, <2>4, <2>9, <2>10 DEF MemRight
  <2>13. LoopKept(g)'
    BY <2>3 DEF LoopKept
  <2>14. CompKept(g)'
    <3>1. comp.pc \in {"open", "write", "catchup"} => comp.seq <= mem.seq
      BY <1>1 DEF CompKept
    <3>2. comp.pc \in {"open", "catchup"} => comp.seq \in Nat
      BY Points DEF Shape, ThreadsTyped, Opening, CatchingUp, Copying, Swapping, Idle
    <3>3. comp.pc \in {"open", "write", "catchup"} => comp.seq <= mem.seq + 1 /\ comp.seq # mem.seq + 1
      BY <1>2, <2>2, <3>1, <3>2
    <3>4. mem'.seq = mem.seq + 1
      BY <2>1
    <3> QED BY <2>1, <2>2, <3>3, <3>4 DEF CompKept, Current
  <2> QED BY <2>11, <2>12, <2>13, <2>14 DEF KeptTo
<1> QED BY <1>4, <1>5, <1>6, <1>7, <1>8

\* What a step of the compaction thread has to keep, when it swaps no files.
LEMMA CompactionFrame ==
  ASSUME NEW g \in Nat, KeptTo(g), loop.pc = "idle", comp.pc # "done", comp'.pc # "done",
         ino'[data] = ino[data], UNCHANGED <<data, idx, mem, loop, alive, main>>,
         CompKept(g)'
  PROVE  KeptTo(g)'
<1>1. DataKept(g) /\ MemRight(g)
  BY DEF KeptTo
<1>2. DataKept(g)' /\ MemRight(g)'
  BY <1>1, DataFrame
<1>3. LoopKept(g)'
  BY DEF LoopKept
<1> QED BY <1>2, <1>3 DEF KeptTo

\* The snapshot and the opening of the tmp file.
LEMMA SnapshotKept ==
  ASSUME ~ Overlap, Shape, NEW g \in Nat, KeptTo(g), CompactSnapshot \/ CompactOpen
  PROVE  KeptTo(g)'
<1>1. DataKept(g) /\ MemRight(g) /\ LoopKept(g) /\ CompKept(g)
  BY DEF KeptTo
<1>2. CASE CompactSnapshot
  <2>1. /\ alive /\ comp.pc = "idle" /\ lock = "free" /\ DOMAIN mem.index # {}
        /\ comp' = [pc |-> "open", snap |-> mem.index, seq |-> mem.seq]
        /\ UNCHANGED <<ino, data, tmp, idx, idxTmp, mem, lock, loop, alive, main>>
    BY <1>2 DEF CompactSnapshot, files
  <2>2. loop.pc = "idle" /\ mem.seq \in Nat
    BY <2>1 DEF Shape, ThreadsTyped, FilesTyped
  <2>3. mem.index = IndexTo(ino[data], g)
    BY <1>1, <2>1, <2>2 DEF MemRight
  <2>4. g \in 2..g
    <3>1. DOMAIN mem.index = 0..g - 2 /\ g \in Nat \ {0}
      BY <1>1, <2>1, <2>3, Between, HeightsOfFile
    <3> QED BY <2>1, <3>1
  <2>5. Snapped(g, g)'
    BY <2>1, <2>3, <2>4 DEF Snapped
  <2>6. CompKept(g)'
    BY <2>1, <2>2, <2>5 DEF CompKept
  <2>7. comp'.pc # "done" /\ comp.pc # "done" /\ ino'[data] = ino[data]
    BY <2>1
  <2> QED BY <2>1, <2>2, <2>6, <2>7, CompactionFrame
<1>3. CASE CompactOpen
  <2>1. /\ alive /\ comp.pc = "open" /\ loop.pc = "idle"
        /\ UNCHANGED <<data, idx, idxTmp, mem, lock, loop, alive, main>>
    BY <1>3 DEF CompactOpen
  <2>2. PICK fd \in Inode :
           /\ OpenTmp(fd)
           /\ comp' = [pc |-> "write", snap |-> comp.snap, seq |-> comp.seq,
                       epoch |-> NextEpoch, fd |-> fd, src |-> data, pos |-> 1,
                       todo |-> DOMAIN comp.snap, names |-> DOMAIN comp.snap, index |-> << >>]
    BY <1>3 DEF CompactOpen
  <2>3. /\ fd # data /\ tmp' = fd
        /\ ino'[data] = ino[data] /\ ino'[fd] = << >>
    BY <2>1, <2>2, OpenTmpIs DEF Shape
  <2>4. /\ comp'.pc = "write" /\ comp'.snap = comp.snap /\ comp'.seq = comp.seq
        /\ comp'.epoch = mem.epoch + 1 /\ comp'.pos = 1
        /\ comp'.todo = DOMAIN comp.snap /\ comp'.names = comp'.todo /\ comp'.index = << >>
    BY <2>2 DEF NextEpoch
  <2>5. ASSUME Current' PROVE \E k \in Nat : Snapped(k, g)'
    <3>1. Current
      BY <2>1, <2>4, <2>5 DEF Current
    <3>2. PICK k \in Nat : Snapped(k, g)
      BY <1>1, <3>1 DEF CompKept
    <3>3. k \in 2..g /\ comp.snap = IndexTo(ino[data], k)
      BY <3>2 DEF Snapped
    <3>4. comp'.todo = {h \in 0..k - 2 : h >= comp'.pos - 2}
      <4>1. DOMAIN IndexTo(ino[data], k) = 0..k - 2
        BY <3>3, HeightsOfFile
      <4>2. \A h \in 0..k - 2 : h >= 1 - 2
        BY <3>3
      <4> QED BY <2>4, <3>3, <4>1, <4>2
    <3>5. Copied(ino[tmp], comp.pos - 1, g)'
      <4>1. ino'[tmp'] = << >> /\ comp'.pos - 1 = 0 /\ Len(<< >>) = 0
        BY <2>3, <2>4
      <4> QED BY <4>1 DEF Copied, Spares
    <3>6. IndexTo(ino'[tmp'], comp'.pos - 1) = << >>
      <4>1. comp'.pos - 1 = 0 /\ 0..0 - 2 = {}
        BY <2>4
      <4> QED BY <4>1 DEF IndexTo
    <3>7. comp'.pos \in 1..k + 1
      BY <2>4, <3>3
    <3>8. tmp' # 0
      BY <2>3 DEF Inode
    <3>9. Snapped(k, g)'
      BY <2>1, <2>3, <2>4, <3>3, <3>4, <3>5, <3>6, <3>7, <3>8 DEF Snapped
    <3> QED BY <3>9
  <2>6. CompKept(g)'
    <3>1. comp.seq <= mem.seq
      BY <1>1, <2>1 DEF CompKept
    <3> QED BY <2>1, <2>4, <2>5, <3>1 DEF CompKept
  <2> QED BY <2>1, <2>3, <2>4, <2>6, CompactionFrame
<1> QED BY <1>2, <1>3

\* A copying compaction whose snapshot is of another chain may write what it likes
\* to the tmp file; one that is current has the copies of the first records.
LEMMA CopyKept ==
  ASSUME Shape, Shape', NEW g \in Nat, KeptTo(g), CompactHeader \/ CompactCopy \/ CompactWritten
  PROVE  KeptTo(g)'
<1>1. DataKept(g) /\ MemRight(g) /\ LoopKept(g) /\ CompKept(g)
  BY DEF KeptTo
<1>2. /\ ino \in [Inode -> Seq(Cell)] /\ data \in Inode /\ tmp \in Inode \cup {0} /\ data # tmp
      /\ mem.seq \in Nat
  BY DEF Shape, FilesTyped
<1>3. /\ alive /\ comp.pc = "write" /\ comp \in Copying
      /\ loop.pc = "idle" /\ comp.fd = tmp /\ comp.src = data
      /\ UNCHANGED <<data, tmp, idx, idxTmp, mem, lock, loop, alive, main>>
  BY Points DEF CompactHeader, CompactCopy, CompactWritten, files, Shape, ThreadsTyped, Idle
<1>4. /\ tmp \in Inode /\ comp.pos \in Nat \ {0} /\ comp.epoch \in Nat /\ comp.index \in Indexes
  BY <1>3 DEF Copying
<1>5. GoodTo(ino[data], g) /\ ino[data] \in Seq(Cell) /\ Len(ino[data]) = g /\ Spares(ino[data], g, g)
  BY <1>1, <1>2, <1>3 DEF DataKept
<1>6. comp.seq <= mem.seq
  BY <1>1, <1>3 DEF CompKept
<1>7. ASSUME ino'[data] = ino[data], comp'.pc \in {"write", "catchup"}, comp'.seq = comp.seq,
             Current => \E k \in Nat : Snapped(k, g)'
      PROVE  KeptTo(g)'
  <2>1. Current' => Current
    BY <1>3, <1>7 DEF Current
  <2>2. CompKept(g)'
    BY <1>3, <1>6, <1>7, <2>1 DEF CompKept
  <2> QED BY <1>3, <1>7, <2>2, CompactionFrame
<1>8. ASSUME NEW k \in Nat, Snapped(k, g)
      PROVE  /\ k \in 2..g /\ comp.snap = IndexTo(ino[data], k)
             /\ comp.epoch = mem.epoch + 1
             /\ comp.pos \in 1..k + 1
             /\ Copied(ino[tmp], comp.pos - 1, g)
             /\ comp.index = IndexTo(ino[tmp], comp.pos - 1)
             /\ comp.todo = {h \in 0..k - 2 : h >= comp.pos - 2}
             /\ comp.names = comp.todo
  BY <1>3, <1>8 DEF Snapped
<1>9. CASE CompactHeader
  <2>1. /\ comp.pos = 1
        /\ ino' = [ino EXCEPT ![tmp] = WriteAt(@, 1, Header(comp.epoch))]
        /\ comp' = [comp EXCEPT !.pos = 2]
    BY <1>3, <1>9 DEF CompactHeader
  <2>2. /\ ino'[data] = ino[data] /\ ino'[tmp] = WriteAt(ino[tmp], 1, Header(comp.epoch))
    BY <1>2, <1>4, <2>1
  <2>3. /\ comp'.pc = "write" /\ comp'.seq = comp.seq /\ comp'.snap = comp.snap
        /\ comp'.epoch = comp.epoch /\ comp'.pos = 2 /\ comp'.index = comp.index
        /\ comp'.todo = comp.todo /\ comp'.names = comp.names
    BY <1>3, <2>1 DEF Copying
  <2>4. ASSUME NEW k \in Nat, Snapped(k, g) PROVE Snapped(k, g)'
    <3>1. /\ k \in 2..g /\ comp.snap = IndexTo(ino[data], k)
          /\ comp.epoch = mem.epoch + 1
          /\ Copied(ino[tmp], 0, g)
          /\ comp.index = IndexTo(ino[tmp], 0)
          /\ comp.todo = {h \in 0..k - 2 : h >= 1 - 2}
          /\ comp.names = comp.todo
      BY <1>8, <2>1, <2>4
    <3> DEFINE new == WriteAt(ino[tmp], 1, Header(comp.epoch))
    <3>2. Len(new) = 1 /\ new[1] = Header(comp.epoch)
      <4>1. Len(ino[tmp]) = 0 /\ ino[tmp] \in Seq(Cell) /\ Header(comp.epoch) \in Cell
        BY <1>2, <1>4, <3>1 DEF Copied, Cell
      <4>2. comp.pos = Len(ino[tmp]) + 1
        BY <2>1, <4>1
      <4>3. /\ Len(WriteAt(ino[tmp], comp.pos, Header(comp.epoch))) = comp.pos
            /\ WriteAt(ino[tmp], comp.pos, Header(comp.epoch))[comp.pos] = Header(comp.epoch)
        <5> DEFINE file == ino[tmp]
                   cell == Header(comp.epoch)
        <5>1. file \in Seq(Cell) /\ cell \in Cell /\ comp.pos = Len(file) + 1
          BY <4>1, <4>2
        <5> HIDE DEF file, cell
        <5>2. /\ Len(WriteAt(file, comp.pos, cell)) = comp.pos
              /\ WriteAt(file, comp.pos, cell)[comp.pos] = cell
          BY <1>4, <5>1, WriteAtIs
        <5> QED BY <5>2 DEF file, cell
      <4> QED BY <2>1, <4>3
    <3> HIDE DEF new
    <3>3. ino'[tmp] = new
      BY <2>2 DEF new
    <3>4. 2 - 1 = 1 /\ 2..1 = {} /\ 2 \in 1..k + 1 /\ 0..1 - 2 = {} /\ 0..0 - 2 = {}
      BY <3>1
    <3>5. Copied(ino[tmp], comp.pos - 1, g)'
      BY <1>3, <2>3, <3>2, <3>3, <3>4 DEF Copied, Spares
    <3>6. comp'.index = IndexTo(ino'[tmp'], comp'.pos - 1)
      BY <2>3, <3>1, <3>4 DEF IndexTo
    <3>7. comp'.todo = {h \in 0..k - 2 : h >= comp'.pos - 2}
      <4>1. \A h \in 0..k - 2 : h >= 1 - 2 /\ h >= 2 - 2
        BY <3>1
      <4> QED BY <2>3, <3>1, <4>1
    <3>8. tmp' # 0 /\ comp'.epoch = mem'.epoch + 1 /\ comp'.pos \in 1..k + 1
      BY <1>3, <1>4, <2>3, <3>1, <3>4 DEF Inode
    <3> QED BY <1>3, <2>2, <2>3, <3>1, <3>5, <3>6, <3>7, <3>8 DEF Snapped
  <2>5. Current => \E k \in Nat : Snapped(k, g)'
    BY <1>1, <2>4 DEF CompKept
  <2> QED BY <1>7, <2>2, <2>3, <2>5
<1>10. CASE CompactWritten
  <2>1. /\ comp.pos > 1 /\ comp.todo = {}
        /\ comp' = [pc |-> "catchup", snap |-> comp.snap, seq |-> comp.seq, epoch |-> comp.epoch,
                    pos |-> comp.pos, index |-> comp.index]
        /\ UNCHANGED ino
    BY <1>10 DEF CompactWritten, files
  <2>2. ASSUME NEW k \in Nat, Snapped(k, g) PROVE Snapped(k, g)'
    <3>1. /\ comp.pos \in 1..k + 1 /\ k \in 2..g
          /\ comp.todo = {h \in 0..k - 2 : h >= comp.pos - 2}
      BY <1>8, <2>2
    <3>2. comp.pos = k + 1
      <4>1. ASSUME comp.pos # k + 1 PROVE FALSE
        <5>1. comp.pos - 2 \in 0..k - 2 /\ comp.pos - 2 >= comp.pos - 2
          BY <1>4, <2>1, <3>1, <4>1
        <5> QED BY <2>1, <3>1, <5>1
      <4> QED BY <4>1
    <3>3. Copied(ino[tmp], comp.pos - 1, g) => Copied(ino[tmp], comp.pos - 1, g)'
      BY <1>3, <2>1 DEF Copied
    <3> QED BY <1>3, <2>1, <2>2, <3>2, <3>3 DEF Snapped
  <2>3. Current => \E k \in Nat : Snapped(k, g)'
    BY <1>1, <2>2 DEF CompKept
  <2> QED BY <1>7, <2>1, <2>3
<1>11. CASE CompactCopy
  <2> DEFINE h    == Least(comp.todo)
             name == Least(comp.names)
             e    == comp.snap[h]
             src  == ino[data]
             flags == PrunedFlags(h, e)
             cell == [h |-> src[e.off].h, id |-> src[e.off].id, flags |-> flags]
             put  == [x \in DOMAIN comp.index \cup {name} |->
                        IF x = name THEN [off |-> comp.pos, flags |-> flags] ELSE comp.index[x]]
  <2>1. /\ comp.pos > 1 /\ comp.todo # {}
        /\ IF Readable(src, e)
           THEN /\ ino' = [ino EXCEPT ![tmp] = WriteAt(@, comp.pos, cell)]
                /\ comp' = [comp EXCEPT !.pos = @ + 1, !.todo = @ \ {h}, !.names = @ \ {name},
                                        !.index = put]
           ELSE comp' = [comp EXCEPT !.todo = comp.todo \ {h}] /\ UNCHANGED ino
    BY <1>3, <1>11 DEF CompactCopy, SkipUnreadable
  <2> HIDE DEF h, name, e, src, flags, cell, put
  <2>2. /\ ino'[data] = ino[data]
        /\ comp'.pc = "write" /\ comp'.seq = comp.seq /\ comp'.snap = comp.snap
        /\ comp'.epoch = comp.epoch
    BY <1>2, <1>3, <2>1 DEF Copying
  <2>3. ASSUME NEW k \in Nat, Snapped(k, g) PROVE Snapped(k, g)'
    <3>1. /\ k \in 2..g /\ comp.snap = IndexTo(src, k)
          /\ comp.epoch = mem.epoch + 1
          /\ comp.pos \in 1..k + 1
          /\ Copied(ino[tmp], comp.pos - 1, g)
          /\ comp.index = IndexTo(ino[tmp], comp.pos - 1)
          /\ comp.todo = {n \in 0..k - 2 : n >= comp.pos - 2}
          /\ comp.names = comp.todo
      BY <1>8, <2>3 DEF src
    \* The records come in the order of their heights.
    <3>2. comp.pos - 2 \in comp.todo /\ comp.pos <= k
      <4>1. PICK n \in 0..k - 2 : n >= comp.pos - 2
        BY <2>1, <3>1
      <4>2. comp.pos - 2 \in 0..k - 2 /\ comp.pos - 2 >= comp.pos - 2 /\ comp.pos <= k
        BY <1>4, <2>1, <3>1, <4>1
      <4> QED BY <3>1, <4>2
    <3>3. h = comp.pos - 2 /\ name = h
      <4>1. comp.todo \in SUBSET Int /\ \A n \in comp.todo : comp.pos - 2 <= n
        BY <1>4, <3>1
      <4>2. Least(comp.todo) = comp.pos - 2
        BY <3>2, <4>1, LeastIs
      <4> QED BY <3>1, <4>2 DEF h, name
    <3>4. /\ comp.pos \in 2..g /\ comp.pos \in 2..k /\ h + 2 = comp.pos /\ h \in 0..k - 2
          /\ h \in 0..g - 2
      BY <1>4, <2>1, <3>1, <3>2, <3>3
    <3>5. /\ e = [off |-> comp.pos, flags |-> src[comp.pos].flags]
          /\ src[comp.pos] \in Record /\ src[comp.pos].h = h
          /\ e.off = comp.pos /\ e.flags = src[comp.pos].flags
      <4>1. e = [off |-> h + 2, flags |-> src[h + 2].flags]
        BY <3>1, <3>4 DEF e, IndexTo
      <4>2. src[comp.pos] \in Record /\ src[comp.pos].h = comp.pos - 2
        BY <1>5, <3>4 DEF GoodTo, src
      <4> QED BY <3>3, <3>4, <4>1, <4>2
    <3>6. Readable(src, e)
      <4>1. comp.pos <= Len(src) /\ IsRecord(src[comp.pos])
        BY <1>5, <3>4, <3>5, Cells DEF src
      <4> QED BY <3>5, <4>1 DEF Readable
    <3>7. cell = [h |-> h, id |-> src[comp.pos].id, flags |-> flags]
      BY <3>5 DEF cell
    <3>8. flags \in Flags /\ (flags = "header" => g - comp.pos >= PruneAfter)
      <4>1. Most(DOMAIN comp.snap) = k - 2
        <5>1. DOMAIN comp.snap = 0..k - 2
          BY <3>1, HeightsOfFile
        <5>2. k - 2 \in 0..k - 2 /\ 0..k - 2 \in SUBSET Int /\ \A n \in 0..k - 2 : n <= k - 2
          BY <3>1
        <5> QED BY <5>1, <5>2, MostIs
      <4>2. flags = IF k - 2 - h >= PruneAfter THEN "header" ELSE src[comp.pos].flags
        BY <3>5, <4>1 DEF flags, PrunedFlags
      <4>3. src[comp.pos].flags = "header" => g - comp.pos >= PruneAfter
        BY <1>5, <3>4 DEF Spares, src
      <4>4. k - 2 - h >= PruneAfter => g - comp.pos >= PruneAfter
        BY <3>1, <3>4, StorageAssumption
      <4>5. src[comp.pos].flags \in Flags
        BY <3>5, Cells
      <4> QED BY <4>2, <4>3, <4>4, <4>5 DEF Flags
    <3>9. /\ cell \in Record /\ cell.h = h /\ cell.id = src[comp.pos].id /\ cell.flags = flags
      <4>1. src[comp.pos].h \in Height /\ src[comp.pos].id \in Id
        BY <3>5, Cells
      <4> QED BY <3>5, <3>7, <3>8, <4>1 DEF Record
    <3> DEFINE file == ino[tmp]
               new  == WriteAt(file, comp.pos, cell)
    <3>10. file \in Seq(Cell) /\ Len(file) = comp.pos - 1 /\ cell \in Cell
      BY <1>2, <1>4, <3>1, <3>9 DEF Copied, Cell
    <3>11. /\ Len(new) = comp.pos /\ new[comp.pos] = cell
           /\ \A n \in 1..comp.pos - 1 : new[n] = file[n]
      <4> HIDE DEF file
      <4>1. comp.pos = Len(file) + 1
        BY <1>4, <3>10
      <4>2. /\ Len(WriteAt(file, comp.pos, cell)) = comp.pos
            /\ WriteAt(file, comp.pos, cell)[comp.pos] = cell
            /\ \A n \in 1..Len(file) : WriteAt(file, comp.pos, cell)[n] = file[n]
        BY <1>4, <3>10, <4>1, WriteAtIs
      <4> QED BY <3>10, <4>2
    <3>12. /\ ino' = [ino EXCEPT ![tmp] = new]
           /\ comp' = [comp EXCEPT !.pos = @ + 1, !.todo = @ \ {h}, !.names = @ \ {name},
                                   !.index = put]
      BY <2>1, <3>6
    <3> HIDE DEF new
    <3>13. ino'[tmp] = new
      BY <1>2, <1>4, <3>12
    <3>14. /\ comp'.pos = comp.pos + 1 /\ comp'.pos - 1 = comp.pos
           /\ comp'.todo = comp.todo \ {h} /\ comp'.names = comp.names \ {name}
           /\ comp'.index = put
      <4>1. comp'.pos = comp.pos + 1
        BY <1>3, <3>12 DEF Copying
      <4>2. /\ comp'.todo = comp.todo \ {h} /\ comp'.names = comp.names \ {name}
            /\ comp'.index = put
        BY <1>3, <3>12 DEF Copying
      <4> QED BY <1>4, <4>1, <4>2
    <3>15. /\ \A n \in 2..comp.pos : /\ new[n] \in Record /\ new[n].h = n - 2
                                     /\ new[n].id = src[n].id
                                     /\ new[n].flags = "header" => g - n >= PruneAfter
           /\ new[1] = Header(comp.epoch)
      <4>1. ASSUME NEW n \in 2..comp.pos
            PROVE  /\ new[n] \in Record /\ new[n].h = n - 2 /\ new[n].id = src[n].id
                   /\ new[n].flags = "header" => g - n >= PruneAfter
        <5>1. CASE n = comp.pos
          BY <3>3, <3>8, <3>9, <3>11, <5>1
        <5>2. CASE n # comp.pos
          <6>1. n \in 2..comp.pos - 1 /\ n \in 1..comp.pos - 1
            BY <1>4, <5>2
          <6> QED BY <3>1, <3>11, <6>1 DEF Copied, Spares, src
        <5> QED BY <5>1, <5>2
      <4>2. 1 \in 1..comp.pos - 1 /\ comp.pos - 1 >= 1
        BY <3>4
      <4>3. new[1] = Header(comp.epoch)
        BY <3>1, <3>11, <4>2 DEF Copied
      <4> QED BY <4>1, <4>3
    <3>16. Copied(ino[tmp], comp.pos - 1, g)'
      <4>1. /\ Len(new) = comp.pos /\ Spares(new, comp.pos, g)
        BY <3>11, <3>15 DEF Spares
      <4>2. \A n \in 2..comp.pos : /\ new[n] \in Record /\ new[n].h = n - 2
                                   /\ new[n].id = ino'[data][n].id
        BY <2>2, <3>15 DEF src
      <4> QED BY <1>3, <2>2, <3>13, <3>14, <3>15, <4>1, <4>2 DEF Copied
    <3>17. put = IndexTo(new, comp.pos)
      <4>1. DOMAIN comp.index = 0..comp.pos - 3
        BY <3>1, <3>4, HeightsOfFile
      <4>2. 0..comp.pos - 3 \cup {name} = 0..comp.pos - 2
        BY <3>3, <3>4
      <4>3. put = [x \in 0..comp.pos - 2 |->
               IF x = name THEN [off |-> comp.pos, flags |-> flags] ELSE comp.index[x]]
        BY <4>1, <4>2 DEF put
      <4>4. ASSUME NEW x \in 0..comp.pos - 2
            PROVE  (IF x = name THEN [off |-> comp.pos, flags |-> flags] ELSE comp.index[x])
                   = [off |-> x + 2, flags |-> new[x + 2].flags]
        <5>1. CASE x = name
          <6>1. x + 2 = comp.pos
            BY <3>3, <3>4, <5>1
          <6> QED BY <3>9, <3>11, <5>1, <6>1
        <5>2. CASE x # name
          <6>1. x \in 0..(comp.pos - 1) - 2 /\ x + 2 \in 1..comp.pos - 1
            BY <3>3, <3>4, <5>2
          <6>2. comp.index[x] = [off |-> x + 2, flags |-> file[x + 2].flags]
            BY <3>1, <6>1 DEF IndexTo
          <6> QED BY <3>11, <5>2, <6>1, <6>2
        <5> QED BY <5>1, <5>2
      <4> QED BY <4>3, <4>4 DEF IndexTo
    <3>18. comp'.index = IndexTo(ino'[tmp'], comp'.pos - 1)
      BY <1>3, <3>13, <3>14, <3>17
    <3>19. comp'.todo = {n \in 0..k - 2 : n >= comp'.pos - 2} /\ comp'.names = comp'.todo
      <4>1. \A n \in 0..k - 2 : (n >= comp.pos - 2 /\ n # h) <=> n >= (comp.pos + 1) - 2
        BY <3>3, <3>4
      <4>2. comp.todo \ {h} = {n \in 0..k - 2 : n >= (comp.pos + 1) - 2}
        BY <3>1, <4>1
      <4> QED BY <3>1, <3>3, <3>14, <4>2
    <3>20. tmp' # 0 /\ comp'.epoch = mem'.epoch + 1 /\ comp'.pos \in 1..k + 1
      BY <1>3, <1>4, <2>2, <3>1, <3>4, <3>14 DEF Inode
    <3> QED BY <1>3, <2>2, <3>1, <3>16, <3>18, <3>19, <3>20 DEF Snapped, src
  <2>4. Current => \E k \in Nat : Snapped(k, g)'
    BY <1>1, <2>3 DEF CompKept
  <2> QED BY <1>7, <2>2, <2>4
<1> QED BY <1>9, <1>10, <1>11

\* Phase 2 appends the records from the snapshot's tip to the data file's, each under the
\* offset that its height has in every file.
LEMMA CatchUpKept ==
  ASSUME Shape, NEW g \in Nat, KeptTo(g), CompactCatchUp
  PROVE  KeptTo(g)'
<1> DEFINE src == ino[data]
           upTo(h) == Cardinality({n \in AddedSince : n <= h})
           off(h) == comp.pos - 1 + upTo(h)
           at(i) == CHOOSE h \in AddedSince : off(h) = comp.pos - 1 + i
           tail  == [i \in 1..Cardinality(AddedSince) |-> src[mem.index[at(i)].off]]
           all   == [h \in DOMAIN comp.index \cup AddedSince |->
                       IF h \in AddedSince THEN [off |-> off(h), flags |-> mem.index[h].flags]
                       ELSE comp.index[h]]
<1>1. DataKept(g) /\ MemRight(g) /\ LoopKept(g) /\ CompKept(g)
  BY DEF KeptTo
<1>2. /\ ino \in [Inode -> Seq(Cell)] /\ data \in Inode /\ tmp \in Inode \cup {0} /\ data # tmp
      /\ mem.seq \in Nat
  BY DEF Shape, FilesTyped
<1>3. /\ alive /\ comp.pc = "catchup" /\ lock = "free" /\ comp.seq = mem.seq
      /\ ino' = [ino EXCEPT ![tmp] = @ \o tail]
      /\ idxTmp' = [epoch |-> comp.epoch, size |-> comp.pos - 1 + Cardinality(AddedSince),
                    index |-> all]
      /\ comp' = [pc |-> "data", epoch |-> comp.epoch]
      /\ UNCHANGED <<data, tmp, idx, mem, loop, alive, main>>
  BY DEF CompactCatchUp, Rewritten
<1>4. /\ loop.pc = "idle" /\ g \in Nat \ {0} /\ GoodTo(src, g) /\ src \in Seq(Cell) /\ Len(src) = g
      /\ Spares(src, g, g)
      /\ mem.index = IndexTo(src, g)
  <2>1. /\ loop.pc = "idle" /\ g \in Nat \ {0} /\ GoodTo(src, g) /\ src \in Seq(Cell) /\ Len(src) = g
    BY <1>1, <1>3, Between
  <2> QED BY <1>1, <1>3, <2>1 DEF DataKept, MemRight
<1>5. PICK k \in Nat : Snapped(k, g)
  BY <1>1, <1>3, <1>4 DEF CompKept, Current
<1>6. /\ k \in 2..g /\ comp.snap = IndexTo(src, k)
      /\ tmp # 0 /\ comp.epoch = mem.epoch + 1
      /\ comp.pos = k + 1 /\ comp.pos - 1 = k
      /\ Copied(ino[tmp], k, g)
      /\ comp.index = IndexTo(ino[tmp], k)
  <2>1. comp.pos = k + 1 /\ k \in Nat
    BY <1>3, <1>5 DEF Snapped
  <2>2. comp.pos - 1 = k
    BY <2>1
  <2> QED BY <1>3, <1>5, <2>1, <2>2 DEF Snapped
<1> HIDE DEF src, tail, all
<1>7. AddedSince = k - 1..g - 2
  <2>1. DOMAIN mem.index = 0..g - 2 /\ DOMAIN comp.snap = 0..k - 2
    BY <1>4, <1>6, HeightsOfFile
  <2>2. (0..g - 2) \ (0..k - 2) = k - 1..g - 2
    BY <1>4, <1>6
  <2> QED BY <2>1, <2>2 DEF AddedSince
<1>8. /\ Cardinality(AddedSince) = g - k
      /\ \A h \in AddedSince : upTo(h) = h - k + 2
  <2>1. Cardinality(k - 1..g - 2) = g - k
    <3>1. k - 1 \in Int /\ g - 2 \in Int
      BY <1>4, <1>6
    <3>2. Cardinality(k - 1..g - 2) = IF k - 1 > g - 2 THEN 0 ELSE (g - 2) - (k - 1) + 1
      BY <3>1, FS_Interval
    <3> QED BY <1>4, <1>6, <3>2
  <2>2. ASSUME NEW h \in AddedSince PROVE upTo(h) = h - k + 2
    <3>1. h \in Int /\ h >= k - 1 /\ h <= g - 2 /\ k - 1 \in Int
      BY <1>4, <1>6, <1>7
    <3>2. {n \in AddedSince : n <= h} = k - 1..h
      BY <1>4, <1>6, <1>7, <3>1
    <3>3. Cardinality(k - 1..h) = IF k - 1 > h THEN 0 ELSE h - (k - 1) + 1
      BY <3>1, FS_Interval
    <3>4. ~ (k - 1 > h) /\ h - (k - 1) + 1 = h - k + 2
      BY <1>6, <3>1
    <3> QED BY <3>2, <3>3, <3>4
  <2> QED BY <1>7, <2>1, <2>2
<1> HIDE DEF upTo
<1>9. ASSUME NEW i \in 1..g - k
      PROVE  /\ mem.index[at(i)].off = k + i
             /\ k + i \in 2..g
  <2>1. /\ k + i - 2 \in AddedSince /\ k + i \in 2..g /\ i \in Int
        /\ k + i - 2 \in 0..g - 2
    BY <1>4, <1>6, <1>7
  <2>2. off(k + i - 2) = comp.pos - 1 + i
    <3>1. upTo(k + i - 2) = (k + i - 2) - k + 2
      BY <1>8, <2>1
    <3> QED BY <1>6, <2>1, <3>1
  <2>3. at(i) \in AddedSince /\ off(at(i)) = comp.pos - 1 + i
    <3> HIDE DEF off
    <3> QED BY <2>1, <2>2
  <2> HIDE DEF at
  <2>4. at(i) = k + i - 2
    <3>1. upTo(at(i)) = at(i) - k + 2 /\ at(i) \in Int
      BY <1>4, <1>6, <1>7, <1>8, <2>3
    <3>2. k + (at(i) - k + 2) = k + i
      BY <1>6, <2>3, <3>1
    <3> QED BY <1>6, <2>1, <3>1, <3>2
  <2>5. mem.index[at(i)].off = (k + i - 2) + 2
    BY <1>4, <2>1, <2>4 DEF IndexTo
  <2> QED BY <1>6, <2>1, <2>5
<1>10. /\ Len(tail) = g - k /\ tail \in Seq(Cell)
       /\ \A i \in 1..g - k : tail[i] = src[k + i]
  <2>1. tail = [i \in 1..g - k |-> src[mem.index[at(i)].off]]
    BY <1>8 DEF tail
  <2> HIDE DEF at
  <2>2. \A i \in 1..g - k : src[mem.index[at(i)].off] = src[k + i] /\ src[k + i] \in Cell
    <3>1. \A n \in 2..g : src[n] \in Cell
      BY <1>4
    <3> QED BY <1>9, <3>1
  <2>3. g - k \in Nat
    BY <1>4, <1>6
  <2>4. tail = [i \in 1..g - k |-> src[k + i]]
    BY <2>1, <2>2
  <2> DEFINE rec(i) == src[k + i]
  <2>5. \A i \in 1..g - k : rec(i) \in Cell
    BY <2>2
  <2>6. tail = [i \in 1..g - k |-> rec(i)]
    BY <2>4
  <2> HIDE DEF rec
  <2>7. tail \in Seq(Cell) /\ Len(tail) = g - k /\ \A i \in 1..g - k : tail[i] = rec(i)
    BY <2>3, <2>5, <2>6
  <2> QED BY <2>7 DEF rec
<1> DEFINE new == ino[tmp] \o tail
<1>11. /\ ino[tmp] \in Seq(Cell) /\ Len(ino[tmp]) = k /\ tmp \in Inode
  BY <1>2, <1>6 DEF Copied
<1>12. /\ Len(new) = g
       /\ \A n \in 1..k : new[n] = ino[tmp][n]
       /\ \A n \in k + 1..g : new[n] = src[n]
  <2>1. Len(new) = k + (g - k)
    BY <1>10, <1>11
  <2>2. \A n \in 1..k : new[n] = ino[tmp][n]
    BY <1>6, <1>10, <1>11
  <2>3. \A n \in k + 1..g : new[n] = tail[n - k]
    BY <1>6, <1>10, <1>11
  <2>4. \A n \in k + 1..g : n - k \in 1..g - k /\ k + (n - k) = n
    BY <1>4, <1>6
  <2>5. \A n \in k + 1..g : tail[n - k] = src[n]
    BY <1>10, <2>4
  <2>6. k + (g - k) = g
    BY <1>4, <1>6
  <2> HIDE DEF new
  <2> QED BY <2>1, <2>2, <2>3, <2>5, <2>6
<1> HIDE DEF new
<1>13. ino'[tmp] = new /\ ino'[data] = src
  BY <1>2, <1>3, <1>11 DEF new, src
<1>14. /\ new[1] = Header(comp.epoch)
       /\ \A n \in 2..g : /\ new[n] \in Record /\ new[n].h = n - 2 /\ new[n].id = src[n].id
                          /\ new[n].flags = "header" => g - n >= PruneAfter
  <2>1. 1 \in 1..k /\ k >= 1
    BY <1>6
  <2>2. new[1] = Header(comp.epoch)
    BY <1>6, <1>12, <2>1 DEF Copied
  <2>3. ASSUME NEW n \in 2..g
        PROVE  /\ new[n] \in Record /\ new[n].h = n - 2 /\ new[n].id = src[n].id
               /\ new[n].flags = "header" => g - n >= PruneAfter
    <3>1. CASE n \in 2..k
      <4>1. n \in 1..k
        BY <1>6, <3>1
      <4> QED BY <1>6, <1>12, <3>1, <4>1 DEF Copied, Spares, src
    <3>2. CASE n \notin 2..k
      <4>1. n \in k + 1..g
        BY <1>6, <3>2
      <4> QED BY <1>4, <1>12, <4>1 DEF GoodTo, Spares
    <3> QED BY <3>1, <3>2
  <2> QED BY <2>2, <2>3
<1>15. Copied(ino[tmp], g, g)'
  <2>1. comp'.epoch = comp.epoch
    BY <1>3
  <2>2. Spares(new, g, g)
    BY <1>14 DEF Spares
  <2>3. \A n \in 2..g : /\ new[n] \in Record /\ new[n].h = n - 2
                        /\ new[n].id = ino'[data][n].id
    BY <1>13, <1>14
  <2>4. ino'[tmp'] = new /\ data' = data
    BY <1>3, <1>13
  <2> QED BY <1>12, <1>14, <2>1, <2>2, <2>3, <2>4 DEF Copied
<1>16. all = IndexTo(new, g)
  <2>1. DOMAIN comp.index = 0..k - 2
    BY <1>6, HeightsOfFile
  <2>2. (0..k - 2) \cup AddedSince = 0..g - 2
    BY <1>4, <1>6, <1>7
  <2>3. all = [h \in 0..g - 2 |->
             IF h \in AddedSince THEN [off |-> off(h), flags |-> mem.index[h].flags]
             ELSE comp.index[h]]
    BY <2>1, <2>2 DEF all
  <2>4. ASSUME NEW h \in 0..g - 2
        PROVE  (IF h \in AddedSince THEN [off |-> off(h), flags |-> mem.index[h].flags]
                ELSE comp.index[h]) = [off |-> h + 2, flags |-> new[h + 2].flags]
    <3>1. CASE h \in AddedSince
      <4>1. off(h) = h + 2
        <5>1. upTo(h) = h - k + 2 /\ h \in Int
          BY <1>8, <3>1
        <5> QED BY <1>6, <5>1
      <4>2. h + 2 \in k + 1..g
        BY <1>4, <1>6, <1>7, <3>1
      <4>3. mem.index[h].flags = src[h + 2].flags
        BY <1>4 DEF IndexTo
      <4> HIDE DEF off
      <4> QED BY <1>12, <3>1, <4>1, <4>2, <4>3
    <3>2. CASE h \notin AddedSince
      <4>1. h \in 0..k - 2 /\ h + 2 \in 1..k
        BY <1>4, <1>6, <1>7, <3>2
      <4>2. comp.index[h] = [off |-> h + 2, flags |-> ino[tmp][h + 2].flags]
        BY <1>6, <4>1 DEF IndexTo
      <4> HIDE DEF off
      <4> QED BY <1>12, <3>2, <4>1, <4>2
    <3> QED BY <3>1, <3>2
  <2> HIDE DEF off
  <2> QED BY <2>3, <2>4 DEF IndexTo
<1>17. idxTmp' = [epoch |-> comp.epoch, size |-> g, index |-> IndexTo(new, g)]
  <2>1. comp.pos - 1 + Cardinality(AddedSince) = g
    BY <1>4, <1>6, <1>8
  <2> QED BY <1>3, <1>16, <2>1
<1>18. comp'.pc = "data" /\ comp'.epoch = comp.epoch
  BY <1>3
<1>19. CompKept(g)'
  BY <1>3, <1>6, <1>13, <1>15, <1>17, <1>18 DEF CompKept, Current
<1>20. comp.pc # "done" /\ comp'.pc # "done" /\ ino'[data] = ino[data]
  BY <1>3, <1>13, <1>18 DEF src
<1> QED BY <1>3, <1>4, <1>19, <1>20, CompactionFrame

\* The end of a compaction: it gives up, or it swaps the files.
LEMMA SwapKept ==
  ASSUME Shape, NEW g \in Nat, KeptTo(g),
         CompactAbort \/ CompactFails \/ CompactData \/ CompactDone
  PROVE  KeptTo(g)'
<1>1. DataKept(g) /\ MemRight(g) /\ LoopKept(g) /\ CompKept(g)
  BY DEF KeptTo
<1>2. /\ ino \in [Inode -> Seq(Cell)] /\ data \in Inode /\ tmp \in Inode \cup {0} /\ data # tmp
      /\ mem.epoch \in Nat /\ idx.epoch \in Int
      /\ mem \in [index : Indexes, epoch : Nat, size : Nat, seq : Nat]
  BY DEF Shape, FilesTyped, IndexFile
<1>3. CASE CompactAbort \/ CompactFails
  <2>1. /\ comp.pc = "catchup" /\ lock = "free" /\ comp' = Idle
        /\ UNCHANGED <<ino, data, idx, mem, loop, alive, main>>
    BY <1>3 DEF CompactAbort, CompactFails, files
  <2>2. loop.pc = "idle" /\ comp'.pc = "idle"
    BY <2>1, Points DEF Shape, ThreadsTyped
  <2>3. CompKept(g)'
    BY <2>2 DEF CompKept, Current
  <2> QED BY <2>1, <2>2, <2>3, CompactionFrame
<1>4. CASE CompactData
  <2> DEFINE old  == ino[data]
             file == ino[tmp]
  <2>1. /\ alive /\ comp.pc = "data" /\ tmp # 0 /\ data' = tmp /\ tmp' = 0
        /\ comp' = [comp EXCEPT !.pc = "done"]
        /\ UNCHANGED <<ino, idx, idxTmp, mem, lock, loop, alive, main>>
    BY <1>4 DEF CompactData
  <2>2. loop.pc = "idle" /\ comp \in Swapping /\ comp.epoch \in Nat
    BY <2>1, Points DEF Shape, ThreadsTyped, Swapping
  <2>3. comp'.pc = "done" /\ comp'.epoch = comp.epoch
    BY <2>1, <2>2 DEF Swapping
  <2>4. /\ comp.epoch = mem.epoch + 1 /\ Copied(file, g, g)
        /\ idxTmp = [epoch |-> comp.epoch, size |-> g, index |-> IndexTo(file, g)]
    BY <1>1, <2>1 DEF CompKept
  <2>5. /\ GoodTo(old, g) /\ BlocksTo(old, g) = main
        /\ idx.epoch <= mem.epoch
    BY <1>1, <2>1, <2>2 DEF DataKept, MemRight, Stored
  <2>6. /\ Len(file) = g /\ g \in Nat \ {0} /\ file[1] = Header(comp.epoch)
        /\ \A n \in 2..g : /\ file[n] \in Record /\ file[n].h = n - 2 /\ file[n].id = old[n].id
        /\ Spares(file, g, g)
    <3>1. g \in Nat \ {0} /\ g >= 1
      BY <2>5 DEF GoodTo
    <3> QED BY <2>4, <3>1 DEF Copied
  <2>7. GoodTo(file, g)
    <3>1. g \in 1..Len(file)
      BY <2>6
    <3> QED BY <2>2, <2>6, <3>1 DEF GoodTo
  <2>8. BlocksTo(file, g) = BlocksTo(old, g)
    BY <2>6 DEF BlocksTo
  <2>9. file[1].epoch = comp.epoch /\ idx.epoch < comp.epoch
    BY <1>2, <2>4, <2>5, <2>6, Cells
  <2>10. ino'[data'] = file
    BY <2>1
  <2> HIDE DEF file, old
  <2>11. DataKept(g)'
    <3>1. Fits(idx, file, g) /\ idx.epoch <= file[1].epoch
      BY <1>2, <2>2, <2>9 DEF Fits
    <3> QED BY <2>1, <2>2, <2>5, <2>6, <2>7, <2>8, <2>10, <3>1 DEF DataKept, Stored
  <2>12. MemRight(g)' /\ LoopKept(g)'
    BY <2>1, <2>2, <2>3 DEF MemRight, LoopKept
  <2>13. CompKept(g)'
    BY <2>1, <2>3, <2>4, <2>9, <2>10 DEF CompKept, Current
  <2> QED BY <2>11, <2>12, <2>13 DEF KeptTo
<1>5. CASE CompactDone
  <2> DEFINE file == ino[data]
  <2>1. /\ alive /\ comp.pc = "done"
        /\ idx' = idxTmp
        /\ mem' = [mem EXCEPT !.index = idxTmp.index, !.epoch = comp.epoch, !.size = idxTmp.size]
        /\ comp' = Idle
        /\ UNCHANGED <<ino, data, tmp, loop, alive, main>>
    BY <1>5 DEF CompactDone
  <2>2. loop.pc = "idle" /\ comp'.pc = "idle" /\ comp.epoch \in Nat
    BY <2>1, Points DEF Shape, ThreadsTyped, Swapping
  <2>3. /\ file[1].epoch = comp.epoch
        /\ idxTmp = [epoch |-> comp.epoch, size |-> g, index |-> IndexTo(file, g)]
    BY <1>1, <2>1 DEF CompKept
  <2>4. /\ idx'.epoch = comp.epoch /\ idx'.size = g /\ idx'.index = IndexTo(file, g)
        /\ mem'.epoch = comp.epoch /\ mem'.size = g /\ mem'.index = IndexTo(file, g)
    BY <1>2, <2>1, <2>3
  <2>5. /\ GoodTo(file, g) /\ Len(file) = g /\ Spares(file, g, g) /\ BlocksTo(file, g) = main
        /\ g \in 1..g
    BY <1>1, <2>1, <2>2 DEF DataKept, Stored, GoodTo
  <2>6. ino'[data'] = file
    BY <2>1
  <2> HIDE DEF file
  <2>7. DataKept(g)'
    <3>1. Fits(idx', file, g)
      BY <2>4, <2>5 DEF Fits
    <3>2. idx'.epoch <= file[1].epoch
      BY <2>2, <2>3, <2>4
    <3> QED BY <2>1, <2>2, <2>5, <2>6, <3>1, <3>2 DEF DataKept, Stored
  <2>8. MemRight(g)' /\ LoopKept(g)' /\ CompKept(g)'
    BY <2>1, <2>2, <2>3, <2>4, <2>6 DEF MemRight, LoopKept, CompKept, Current
  <2> QED BY <2>7, <2>8 DEF KeptTo
<1> QED BY <1>3, <1>4, <1>5

\* The end of the process and the next start.
LEMMA RestartKept ==
  ASSUME Shape, NEW g \in Nat, KeptTo(g),
         Crash \/ Close \/ Recover \/ Exhausted \/ UNCHANGED vars
  PROVE  KeptTo(g)'
<1>1. DataKept(g) /\ MemRight(g) /\ LoopKept(g) /\ CompKept(g)
  BY DEF KeptTo
<1>2. /\ ino \in [Inode -> Seq(Cell)] /\ data \in Inode /\ idx \in IndexFile
      /\ mem.epoch \in Nat /\ idx.epoch \in Int
  BY DEF Shape, FilesTyped, IndexFile
<1>3. ASSUME ~ alive', loop'.pc = "idle", comp'.pc = "idle"
      PROVE  MemRight(g)' /\ LoopKept(g)' /\ CompKept(g)'
  BY <1>3 DEF MemRight, LoopKept, CompKept, Current
<1>4. CASE Crash
  <2>1. /\ alive /\ alive' = FALSE
        /\ main' = IF loop.pc = "done" THEN loop.chain ELSE main
        /\ loop' = Idle /\ comp' = Idle
        /\ UNCHANGED <<ino, data, tmp, idx, idxTmp, mem>>
    BY <1>4 DEF Crash, Stored, files
  <2>2. loop'.pc = "idle" /\ comp'.pc = "idle" /\ ~ alive'
    BY <2>1, Points
  <2>3. Stored' = Stored
    BY <2>1, <2>2 DEF Stored
  <2>4. DataKept(g)'
    BY <1>1, <2>1, <2>3 DEF DataKept
  <2> QED BY <1>3, <2>2, <2>4 DEF KeptTo
<1>5. CASE Close
  <2>1. /\ alive /\ lock = "free" /\ loop.pc = "idle" /\ alive' = FALSE
        /\ idx' = [epoch |-> mem.epoch, size |-> mem.size, index |-> mem.index]
        /\ comp' = Idle
        /\ UNCHANGED <<ino, data, tmp, idxTmp, mem, loop, main>>
    BY <1>5 DEF Close
  <2>2. loop'.pc = "idle" /\ comp'.pc = "idle" /\ ~ alive' /\ comp.pc # "done"
    BY <2>1, Points DEF Shape, ThreadsTyped
  <2>3. /\ mem.epoch = ino[data][1].epoch /\ mem.size = g /\ mem.index = IndexTo(ino[data], g)
        /\ g \in 1..g
    BY <1>1, <2>1, <2>2 DEF MemRight, DataKept, GoodTo
  <2>4. /\ idx'.epoch = ino[data][1].epoch /\ idx'.size = g /\ idx'.index = IndexTo(ino[data], g)
    BY <2>1, <2>3
  <2>5. Fits(idx', ino[data], g) /\ idx'.epoch <= ino[data][1].epoch
    BY <1>2, <2>3, <2>4 DEF Fits
  <2>6. Stored' = Stored
    BY <2>1 DEF Stored
  <2>7. DataKept(g)'
    BY <1>1, <2>1, <2>5, <2>6 DEF DataKept
  <2> QED BY <1>3, <2>2, <2>7 DEF KeptTo
<1>6. CASE Recover
  <2> DEFINE file  == ino[data]
             good  == SubSeq(file, 1, g)
             index == IndexTo(file, g)
  <2>1. file \in Seq(Cell) /\ loop.pc = "idle" /\ comp.pc = "idle"
    BY <1>2, <1>6 DEF Recover, Shape, ThreadsTyped
  <2>2. /\ GoodTo(file, g) /\ g \in 1..Len(file)
        /\ Len(file) = g \/ (Len(file) = g + 1 /\ file[g + 1] \notin Record)
        /\ Spares(file, g, g) /\ BlocksTo(file, g) = main
        /\ Fits(idx, file, g)
        /\ idx.epoch <= file[1].epoch
    BY <1>1, <2>1 DEF DataKept, GoodTo, Stored
  <2> HIDE DEF file
  <2>3. /\ HasHeader(file)
        /\ RecoveredFile(file, idx) = good
        /\ RecoveredIndex(file, idx) = index
        /\ Loaded(RecoveredFile(file, idx), RecoveredIndex(file, idx)) = main
    BY <1>2, <2>1, <2>2, RecoverGood
  <2>4. /\ ino' = [i \in Inode |-> IF i = data THEN good ELSE << >>]
        /\ mem' = [index |-> index, epoch |-> good[1].epoch, size |-> Len(good), seq |-> 0]
        /\ idx' = IF ~ Adopts(file, idx)
                  THEN [epoch |-> good[1].epoch, size |-> Len(good), index |-> index]
                  ELSE idx
        /\ main' = main
        /\ UNCHANGED <<data, lock, loop, comp>>
    BY <1>6, <2>3 DEF Recover, Recoverable, file
  <2>5. /\ good \in Seq(Cell) /\ Len(good) = g
        /\ \A n \in 1..g : good[n] = file[n]
    <3>1. g \in 1..Len(file)
      BY <2>2
    <3> QED BY <2>1, <3>1
  <2> HIDE DEF good
  <2>6. GoodTo(good, g) /\ IndexTo(good, g) = index /\ BlocksTo(good, g) = main
    <3>1. g <= Len(good)
      BY <2>5
    <3> QED BY <2>1, <2>2, <2>5, <3>1, SamePrefix
  <2>7. Spares(good, g, g) /\ good[1] = file[1] /\ g \in 1..g
    <3>1. 1 \in 1..g /\ \A n \in 2..g : n \in 1..g
      BY <2>2
    <3> QED BY <2>2, <2>5, <3>1 DEF Spares
  <2> HIDE DEF index
  <2>8. Fits(idx', good, g) /\ idx'.epoch <= good[1].epoch
    <3>1. CASE Adopts(file, idx)
      <4>1. idx' = idx
        BY <2>4, <3>1
      <4>2. idx.size \in 1..g /\ idx.index = IndexTo(file, idx.size)
        BY <2>2, <3>1 DEF Fits, Adopts
      <4>3. \A n \in 1..idx.size : good[n].flags = file[n].flags
        BY <2>5, <4>2
      <4>4. IndexTo(good, idx.size) = IndexTo(file, idx.size)
        BY <4>2, <4>3, SameIndex
      <4> QED BY <2>2, <2>7, <4>1, <4>2, <4>4 DEF Fits
    <3>2. CASE ~ Adopts(file, idx)
      <4>1. idx'.epoch = good[1].epoch /\ idx'.size = g /\ idx'.index = IndexTo(good, g)
        BY <2>4, <2>5, <2>6, <3>2
      <4>2. good[1].epoch \in Nat
        BY <2>6, Cells DEF GoodTo
      <4> QED BY <2>7, <4>1, <4>2 DEF Fits
    <3> QED BY <3>1, <3>2
  <2>9. ino'[data'] = good
    BY <1>2, <2>4
  <2>10. DataKept(g)'
    BY <2>1, <2>4, <2>5, <2>6, <2>7, <2>8, <2>9 DEF DataKept, Stored
  <2>11. MemRight(g)'
    BY <2>4, <2>5, <2>6, <2>9 DEF MemRight
  <2>12. LoopKept(g)' /\ CompKept(g)'
    BY <2>1, <2>4 DEF LoopKept, CompKept, Current
  <2> QED BY <2>10, <2>11, <2>12 DEF KeptTo
<1>7. CASE Exhausted \/ UNCHANGED vars
  <2>1. UNCHANGED <<ino, data, tmp, idx, idxTmp, mem, loop, comp, alive, main>>
    BY <1>7 DEF Exhausted, vars, files
  <2>2. DataKept(g)' /\ MemRight(g)'
    BY <1>1, <2>1 DEF DataKept, MemRight, Stored
  <2>3. LoopKept(g)'
    BY <1>1, <2>1 DEF LoopKept, Written
  <2>4. CompKept(g)'
    <3>1. \A k \in Nat : Snapped(k, g)' <=> Snapped(k, g)
      BY <2>1 DEF Snapped, Copied
    <3>2. Current' <=> Current
      BY <2>1 DEF Current
    <3>3. Copied(ino[tmp], g, g)' <=> Copied(ino[tmp], g, g)
      BY <2>1 DEF Copied
    <3> QED BY <1>1, <2>1, <3>1, <3>2, <3>3 DEF CompKept
  <2> QED BY <2>2, <2>3, <2>4 DEF KeptTo
<1> QED BY <1>4, <1>5, <1>6, <1>7

\* No step takes the corruption of a record back, and only BitFlip corrupts one.
LEMMA FlipsOnlyGrow ==
  ASSUME Shape, [Next]_vars, flips' = 0
  PROVE  flips = 0 /\ ~ \E n \in 2..MaxHeight + 2 : BitFlip(n)
<1>1. flips \in Nat
  BY DEF Shape, Counts
<1>2. ~ \E n \in 2..MaxHeight + 2 : BitFlip(n)
  BY <1>1 DEF BitFlip
<1>3. flips' = flips
  BY <1>2, StepsAre DEF AppendBlock, AppendDies, ReplaceOpen, ReplaceWrite, ReplaceIndex,
     ReplaceData, ReplaceDone, CompactSnapshot, CompactOpen, CompactHeader, CompactCopy,
     CompactWritten, CompactAbort, CompactFails, CompactCatchUp, CompactData, CompactDone,
     Crash, Close, Recover, Exhausted, vars
<1> QED BY <1>2, <1>3

\* The inductive invariant: as long as nothing was corrupted, the data file holds the
\* chain, and the index file, the memory and both threads fit it.
THEOREM KeptInvariant == ~ Overlap /\ Spec => []Kept
<1> SUFFICES ASSUME ~ Overlap PROVE Spec => []Kept
  OBVIOUS
<1>1. ASSUME Shape, Shape', Kept, [Next]_vars PROVE Kept'
  <2> SUFFICES ASSUME flips' = 0 PROVE \E k \in Nat : KeptTo(k)'
    BY DEF Kept
  <2>1. flips = 0 /\ ~ \E n \in 2..MaxHeight + 2 : BitFlip(n)
    BY <1>1, FlipsOnlyGrow
  <2>2. PICK g \in Nat : KeptTo(g)
    BY <1>1, <2>1 DEF Kept
  <2>3. ASSUME KeptTo(g)' PROVE \E k \in Nat : KeptTo(k)'
    BY <2>3
  <2>4. ASSUME KeptTo(g + 1)' PROVE \E k \in Nat : KeptTo(k)'
    BY <2>4
  <2>5. ASSUME NEW b \in Block, AppendBlock(b) \/ AppendDies(b) PROVE \E k \in Nat : KeptTo(k)'
    BY <1>1, <2>2, <2>3, <2>4, <2>5, AppendKept
  <2>6. CASE \/ \E chain \in Chains : ReplaceOpen(chain)
             \/ ReplaceWrite \/ ReplaceIndex \/ ReplaceData \/ ReplaceDone
    BY <1>1, <2>2, <2>6, ReplaceKept
  <2>7. CASE CompactSnapshot \/ CompactOpen
    BY <1>1, <2>2, <2>3, <2>7, SnapshotKept
  <2>8. CASE CompactHeader \/ CompactCopy \/ CompactWritten
    BY <1>1, <2>2, <2>3, <2>8, CopyKept
  <2>9. CASE CompactCatchUp
    BY <1>1, <2>2, <2>3, <2>9, CatchUpKept
  <2>10. CASE CompactAbort \/ CompactFails \/ CompactData \/ CompactDone
    BY <1>1, <2>2, <2>3, <2>10, SwapKept
  <2>11. CASE Crash \/ Close \/ Recover \/ Exhausted \/ UNCHANGED vars
    BY <1>1, <2>2, <2>3, <2>11, RestartKept
  <2> QED BY <1>1, <2>1, <2>5, <2>6, <2>7, <2>8, <2>9, <2>10, <2>11, StepsAre
<1>2. Spec => []Shape
  BY ShapeInvariant
<1>3. Shape /\ Shape' /\ Kept /\ [Next]_vars => Kept'
  BY <1>1
<1> QED BY <1>2, <1>3, InitKept, PTL DEF Spec

-----------------------------------------------------------------------------
(* What the storage promises *)

\* What a start would load is the chain that the data file holds.
LEMMA StoredIsRecoverable == Shape /\ Kept /\ flips = 0 => Recoverable = Stored
<1> SUFFICES ASSUME Shape, Kept, flips = 0 PROVE Recoverable = Stored
  OBVIOUS
<1>1. PICK g \in Nat : KeptTo(g)
  BY DEF Kept
<1>2. /\ GoodTo(ino[data], g)
      /\ Len(ino[data]) = g \/ (Len(ino[data]) = g + 1 /\ ino[data][g + 1] \notin Record)
      /\ Fits(idx, ino[data], g)
      /\ BlocksTo(ino[data], g) = Stored
  BY <1>1 DEF KeptTo, DataKept
<1>3. ino[data] \in Seq(Cell) /\ idx \in IndexFile
  BY DEF Shape, FilesTyped
<1> QED BY <1>2, <1>3, RecoverGood DEF Recoverable

\* A crash now would lose nothing that a call returned for, and leave no part of a
\* call that did not return: recovery finds the chain before or after it, for any
\* number of appends, replacements, compactions and crashes.
THEOREM CrashesKeepTheChain == ~ Overlap /\ Spec => []CrashKeepsTheChain
<1>1. Shape /\ Kept => CrashKeepsTheChain
  BY StoredIsRecoverable DEF CrashKeepsTheChain, Stored
<1> QED BY <1>1, ShapeInvariant, KeptInvariant, PTL

\* Between two calls the running process reads every block of its chain back at its
\* height, whatever the compaction thread is doing.
THEOREM ReadsKeepSeeingTheChain == ~ Overlap /\ Spec => []ReadsSeeTheChain
<1>1. ASSUME Shape, Kept PROVE ReadsSeeTheChain
  <2> SUFFICES ASSUME flips = 0, alive, lock = "free"
               PROVE  /\ DOMAIN mem.index = {b.h : b \in main}
                      /\ \A b \in main : /\ Readable(ino[data], mem.index[b.h])
                                          /\ BlockAt(ino[data], mem.index[b.h]) = b
    BY DEF ReadsSeeTheChain
  <2>1. PICK g \in Nat : KeptTo(g)
    BY <1>1 DEF Kept
  <2>2. DataKept(g) /\ MemRight(g)
    BY <2>1 DEF KeptTo
  <2>3. /\ loop.pc = "idle" /\ comp.pc \notin {"data", "done"}
        /\ g \in Nat \ {0}
        /\ GoodTo(ino[data], g) /\ ino[data] \in Seq(Cell)
        /\ BlocksTo(ino[data], g) = main
        /\ {b.h : b \in main} = 0..g - 2
    BY <1>1, <2>2, Between
  <2>4. mem.index = IndexTo(ino[data], g)
    BY <2>2, <2>3 DEF MemRight
  <2>5. DOMAIN mem.index = {b.h : b \in main}
    BY <2>3, <2>4, HeightsOfFile
  <2>6. ASSUME NEW b \in main
        PROVE  /\ Readable(ino[data], mem.index[b.h])
               /\ BlockAt(ino[data], mem.index[b.h]) = b
    <3>1. PICK n \in 2..g : b = [h |-> n - 2, id |-> ino[data][n].id]
      BY <2>3 DEF BlocksTo
    <3>2. b.h = n - 2 /\ n - 2 \in 0..g - 2 /\ (n - 2) + 2 = n
      BY <2>3, <3>1
    <3>3. /\ Readable(ino[data], IndexTo(ino[data], g)[b.h])
          /\ BlockAt(ino[data], IndexTo(ino[data], g)[b.h]) = [h |-> b.h, id |-> ino[data][b.h + 2].id]
      BY <2>3, <3>2, LoadGood
    <3>4. [h |-> b.h, id |-> ino[data][b.h + 2].id] = b
      BY <3>1, <3>2
    <3> QED BY <2>4, <3>3, <3>4
  <2> QED BY <2>5, <2>6
<1>2. Shape /\ Kept => ReadsSeeTheChain
  BY <1>1
<1> QED BY <1>2, ShapeInvariant, KeptInvariant, PTL

\* What is stored without its transactions is PruneAfter or more below the tip, over any
\* number of compactions, replacements and recoveries.
THEOREM RecentBodiesStay == ~ Overlap /\ Spec => []RecentBodiesAreKept
<1>1. ASSUME Shape, Kept PROVE RecentBodiesAreKept
  <2> SUFFICES ASSUME flips = 0, alive, lock = "free",
                      NEW h \in DOMAIN mem.index, mem.index[h].flags = "header"
               PROVE  TipOf(main) - h >= PruneAfter
    BY DEF RecentBodiesAreKept
  <2>1. PICK g \in Nat : KeptTo(g)
    BY <1>1 DEF Kept
  <2>2. DataKept(g) /\ MemRight(g)
    BY <2>1 DEF KeptTo
  <2>3. /\ loop.pc = "idle" /\ comp.pc \notin {"data", "done"}
        /\ g \in Nat \ {0}
        /\ TipOf(main) = g - 2
        /\ Spares(ino[data], g, g)
    BY <1>1, <2>2, Between DEF DataKept
  <2>4. mem.index = IndexTo(ino[data], g)
    BY <2>2, <2>3 DEF MemRight
  <2>5. h \in 0..g - 2 /\ h + 2 \in 2..g
    <3>1. h \in 0..g - 2
      BY <2>3, <2>4, HeightsOfFile
    <3> QED BY <2>3, <3>1
  <2>6. ino[data][h + 2].flags = "header"
    BY <2>4, <2>5 DEF IndexTo
  <2>7. g - (h + 2) >= PruneAfter
    BY <2>3, <2>5, <2>6 DEF Spares
  <2> QED BY <2>3, <2>5, <2>7
<1>2. Shape /\ Kept => RecentBodiesAreKept
  BY <1>1
<1> QED BY <1>2, ShapeInvariant, KeptInvariant, PTL

\* If recovery would adopt the index file now, each of its entries is the place of the
\* record of that height: an index never describes a data file of another epoch.
THEOREM AdoptedIndexStaysRight == ~ Overlap /\ Spec => []AdoptedIndexIsRight
<1>1. ASSUME Shape, Kept PROVE AdoptedIndexIsRight
  <2> SUFFICES ASSUME flips = 0, Adopts(ino[data], idx), NEW h \in DOMAIN idx.index
               PROVE  /\ Readable(ino[data], idx.index[h])
                      /\ BlockAt(ino[data], idx.index[h]).h = h
    BY DEF AdoptedIndexIsRight
  <2>1. PICK g \in Nat : KeptTo(g)
    BY <1>1 DEF Kept
  <2>2. /\ GoodTo(ino[data], g)
        /\ Fits(idx, ino[data], g)
        /\ ino[data] \in Seq(Cell)
    BY <1>1, <2>1 DEF KeptTo, DataKept, Shape, FilesTyped
  <2>3. idx.size \in 1..g /\ idx.index = IndexTo(ino[data], idx.size)
    BY <2>2 DEF Fits, Adopts
  <2>4. h \in 0..idx.size - 2 /\ h \in 0..g - 2
    <3>1. idx.size \in Nat \ {0} /\ idx.size <= g
      BY <2>3
    <3>2. h \in 0..idx.size - 2
      BY <2>3, <3>1, HeightsOfFile
    <3> QED BY <3>1, <3>2
  <2>5. idx.index[h] = IndexTo(ino[data], g)[h]
    BY <2>3, <2>4 DEF IndexTo
  <2>6. /\ Readable(ino[data], IndexTo(ino[data], g)[h])
        /\ BlockAt(ino[data], IndexTo(ino[data], g)[h]) = [h |-> h, id |-> ino[data][h + 2].id]
    BY <2>2, <2>4, LoadGood
  <2> QED BY <2>5, <2>6
<1>2. Shape /\ Kept => AdoptedIndexIsRight
  BY <1>1
<1> QED BY <1>2, ShapeInvariant, KeptInvariant, PTL

-----------------------------------------------------------------------------
(* The storage is a ChainStore *)

\* The steps of a ChainStore, in terms of the chain that the data file holds.
Appends == /\ Asked = {} /\ Asked' = {}
           /\ \E b \in Stored' : {c.h : c \in Stored} = 0..b.h - 1 /\ Stored' = Stored \cup {b}
Asks    == /\ Asked = {} /\ Stored' = Stored
           /\ \E chain \in Asked' :
                 {c.h : c \in Stored} \subseteq {c.h : c \in chain} /\ Asked' = {chain}
Takes   == Stored' \in Asked /\ Asked' = {}
Dies    == Asked' = {} /\ Stored' = Stored
Keeps   == Asked' = Asked /\ Stored' = Stored

\* Appending puts the block on the tip, or dies before it or after it.
LEMMA AppendAppends ==
  ASSUME Shape, NEW g \in Nat, DataKept(g), NEW b \in Block, AppendBlock(b) \/ AppendDies(b)
  PROVE  Appends \/ Dies
<1>1. lock = "free" /\ b.h = TipOf(main) + 1
  BY DEF AppendBlock, AppendDies
<1>2. /\ loop.pc = "idle" /\ g \in Nat
      /\ {c.h : c \in main} = 0..g - 2 /\ TipOf(main) = g - 2
  BY <1>1, Between
<1>3. {c.h : c \in main} = 0..b.h - 1
  <2>1. b.h - 1 = g - 2
    BY <1>1, <1>2
  <2> QED BY <1>2, <2>1
<1>4. loop'.pc = "idle" /\ (main' = main \cup {b} \/ main' = main)
  BY <1>2 DEF AppendBlock, AppendDies, Idle
<1>5. Asked = {} /\ Asked' = {} /\ Stored = main /\ Stored' = main'
  BY <1>2, <1>4 DEF Asked, Stored
<1> QED BY <1>3, <1>4, <1>5 DEF Appends, Dies

\* replace_all asks for its chain when it takes the lock, and has it at the rename.
LEMMA ReplaceAsks ==
  ASSUME Shape, NEW g \in Nat, DataKept(g),
         \/ \E chain \in Chains : ReplaceOpen(chain)
         \/ ReplaceWrite \/ ReplaceIndex \/ ReplaceData \/ ReplaceDone
  PROVE  Asks \/ Takes \/ Dies \/ Keeps
<1>1. ASSUME NEW chain \in Chains, ReplaceOpen(chain) PROVE Asks
  <2>1. lock = "free" /\ TipOf(chain) >= TipOf(main) /\ main' = main
    BY <1>1 DEF ReplaceOpen
  <2>2. loop'.pc = "write" /\ loop'.chain = chain
    BY <1>1 DEF ReplaceOpen
  <2>3. loop.pc = "idle" /\ {c.h : c \in main} = 0..g - 2 /\ TipOf(main) = g - 2
    BY <2>1, Between
  <2>4. {c.h : c \in chain} = 0..TipOf(chain) /\ TipOf(chain) \in Nat
    BY <1>1, ChainShape DEF Height
  <2>5. 0..g - 2 \subseteq 0..TipOf(chain)
    BY <2>1, <2>3, <2>4
  <2>6. {c.h : c \in main} \subseteq {c.h : c \in chain}
    BY <2>3, <2>4, <2>5
  <2>7. Asked = {} /\ Asked' = {chain} /\ Stored = main /\ Stored' = main
    BY <2>1, <2>2, <2>3 DEF Asked, Stored
  <2> QED BY <2>6, <2>7 DEF Asks
<1>2. loop \in Replacing \cup {Idle}
  BY DEF Shape, ThreadsTyped
<1>3. CASE ReplaceWrite \/ ReplaceIndex
  <2>1. /\ loop.pc \in {"write", "index"} /\ loop'.pc \in {"write", "index", "data"}
        /\ loop'.chain = loop.chain /\ main' = main
    BY <1>2, <1>3, Points DEF ReplaceWrite, ReplaceIndex, Replacing, Idle
  <2> QED BY <2>1 DEF Keeps, Asked, Stored
<1>4. CASE ReplaceData
  <2>1. loop.pc = "data" /\ loop'.pc = "done" /\ loop'.chain = loop.chain
    BY <1>2, <1>4, Points DEF ReplaceData, Replacing, Idle
  <2> QED BY <2>1 DEF Takes, Asked, Stored
<1>5. CASE ReplaceDone
  <2>1. loop.pc = "done" /\ loop'.pc = "idle" /\ main' = loop.chain
    BY <1>5 DEF ReplaceDone, Idle
  <2> QED BY <2>1 DEF Dies, Asked, Stored
<1> QED BY <1>1, <1>3, <1>4, <1>5

\* A crash, a close or a recovery forgets what was asked for and changes nothing else.
LEMMA RestartDies ==
  ASSUME Shape, Recoverable = Stored, Crash \/ Close \/ Recover
  PROVE  Dies
<1>1. CASE Crash
  <2>1. loop'.pc = "idle" /\ main' = Stored
    BY <1>1 DEF Crash, Idle, Stored
  <2> QED BY <2>1 DEF Dies, Asked, Stored
<1>2. CASE Close
  BY <1>2 DEF Close, Dies, Asked, Stored
<1>3. CASE Recover
  <2>1. loop.pc = "idle" /\ loop' = loop /\ main' = Recoverable
    BY <1>3 DEF Recover, Shape, ThreadsTyped
  <2> QED BY <2>1 DEF Dies, Asked, Stored
<1> QED BY <1>1, <1>2, <1>3

\* Append, replace_all, compaction, crash, close and recovery, each in its steps, are
\* together an implementation of ChainStore, as long as the medium keeps the files.
THEOREM StorageIsChainStore == ~ Overlap /\ Spec => IsChainStore
<1> SUFFICES ASSUME ~ Overlap PROVE Spec => IsChainStore
  OBVIOUS
<1>1. ASSUME Init PROVE CS!Init
  <2>1. flips = 0 /\ loop = Idle /\ main = {} /\ Idle.pc = "idle"
    BY <1>1 DEF Init, Idle
  <2>2. Recoverable = {}
    BY <1>1, <2>1, InitShape, InitKept, StoredIsRecoverable DEF Stored
  <2> QED BY <2>1, <2>2 DEF CS!Init, Asked
<1>2. ASSUME Shape, Kept, [Next]_vars, flips' = 0, Recoverable = Stored, Recoverable' = Stored'
      PROVE  CS!Next \/ UNCHANGED <<Recoverable, Asked>>
  <2>1. flips = 0 /\ ~ \E n \in 2..MaxHeight + 2 : BitFlip(n)
    BY <1>2, FlipsOnlyGrow
  <2>2. PICK g \in Nat : DataKept(g)
    BY <1>2, <2>1 DEF Kept, KeptTo
  <2>3. ASSUME NEW b \in Block, AppendBlock(b) \/ AppendDies(b) PROVE Appends \/ Dies
    BY <1>2, <2>2, <2>3, AppendAppends
  <2>4. CASE \/ \E chain \in Chains : ReplaceOpen(chain)
             \/ ReplaceWrite \/ ReplaceIndex \/ ReplaceData \/ ReplaceDone
    <3>1. Asks \/ Takes \/ Dies \/ Keeps
      BY <1>2, <2>2, <2>4, ReplaceAsks
    <3> QED BY <1>2, <3>1 DEF Asks, Takes, Dies, Keeps, CS!Next, CS!Ask, CS!TakeEffect, CS!Die,
                              CS!Heights
  <2>5. CASE Crash \/ Close \/ Recover
    <3>1. Dies
      BY <1>2, <2>5, RestartDies
    <3> QED BY <1>2, <3>1 DEF Dies, CS!Next, CS!Die
  <2>6. CASE \/ CompactSnapshot \/ CompactOpen \/ CompactHeader \/ CompactCopy
             \/ CompactWritten \/ CompactAbort \/ CompactFails \/ CompactCatchUp
             \/ CompactData \/ CompactDone \/ Exhausted \/ UNCHANGED vars
    <3>1. loop' = loop /\ main' = main
      BY <2>6 DEF CompactSnapshot, CompactOpen, CompactHeader, CompactCopy, CompactWritten,
         CompactAbort, CompactFails, CompactCatchUp, CompactData, CompactDone, Exhausted, vars
    <3> QED BY <1>2, <3>1 DEF Asked, Stored
  <2>7. Appends \/ Dies => CS!Next
    BY <1>2 DEF Appends, Dies, CS!Next, CS!Append, CS!Die, CS!Heights
  <2> QED BY <1>2, <2>1, <2>3, <2>4, <2>5, <2>6, <2>7, StepsAre
<1>3. Shape /\ Kept /\ Shape' /\ Kept' /\ [Next]_vars
        => [flips' > 0 \/ SameFiles \/ CS!Next]_<<Recoverable, Asked>>
  <2> SUFFICES ASSUME Shape, Kept, Shape', Kept', [Next]_vars, ~ (flips' > 0)
               PROVE  CS!Next \/ UNCHANGED <<Recoverable, Asked>>
    OBVIOUS
  <2>1. flips' = 0
    <3>1. flips' \in Nat
      BY DEF Shape, Counts
    <3> QED BY <3>1
  <2>2. flips = 0
    BY <2>1, FlipsOnlyGrow
  <2>3. (Shape /\ Kept /\ flips = 0 => Recoverable = Stored)'
    BY StoredIsRecoverable, PTL
  <2> QED BY <1>2, <2>1, <2>2, <2>3, StoredIsRecoverable
<1> QED BY <1>1, <1>3, ShapeInvariant, KeptInvariant, PTL DEF Spec, IsChainStore

-----------------------------------------------------------------------------
(***************************************************************************)
(* When the medium corrupts records.  The heights are then no longer those *)
(* of the offsets: recovery skips torn cells, and a compaction that skips  *)
(* a record enters the ones after it under smaller names.  What stays is   *)
(* that every file holds blocks of the chain in their order, that each     *)
(* index leads to all of its file's, and that one set of heights, no       *)
(* larger than the number of corruptions, tells all that it misses of the  *)
(* chain that the last start gave and the calls since made.                *)
(***************************************************************************)

\* The block of a record; the records of a file, and their blocks.
At(cell)   == [h |-> cell.h, id |-> cell.id]
Live(file) == {n \in 1..Len(file) : IsRecord(file[n])}
Held(file) == {At(file[n]) : n \in Live(file)}

\* A header and records in the order of their heights, with unreadable cells between them.
Rising(file)  == \A m, n \in Live(file) : m < n => file[m].h < file[n].h
Ordered(file) == Len(file) >= 1 /\ IsHeader(file[1]) /\ Rising(file)

\* The entries of an index that lead to a record, the blocks they lead to and the others.
LiveOf(ix, S, file)   == {k \in S : IsRecord(file[ix[k].off])}
BlocksOf(ix, S, file) == {At(file[ix[k].off]) : k \in LiveOf(ix, S, file)}
Dead(ix, file) == {k \in DOMAIN ix : ~ IsRecord(file[ix[k].off])}

\* The index leads to every record of the first g cells, in their order.  A compaction
\* that skips a record moves the ones after it to smaller names.
Lists(ix, file, g) ==
    /\ \A k \in DOMAIN ix : ix[k].off \in 2..g
    /\ \A k \in LiveOf(ix, DOMAIN ix, file) :
          ix[k].flags = file[ix[k].off].flags /\ k <= file[ix[k].off].h
    /\ \A n \in 2..g : IsRecord(file[n]) => \E k \in DOMAIN ix : ix[k].off = n
    /\ \A k, l \in LiveOf(ix, DOMAIN ix, file) : k < l => ix[k].off < ix[l].off

\* The heights of the blocks of S that are not in T, and the names of an index above S.
Gone(S, T)   == {b.h : b \in S \ T}
Above(ix, S) == {k \in DOMAIN ix : k > TipOf(S)}
Few(S, n)    == Cardinality(S) <= n

\* The index leads to all of the chain but for n blocks.  A name above the tip is counted
\* as a loss, because a compaction may drop the block that is appended under it.
Serves(ix, file, chain, n) ==
    /\ Lists(ix, file, Len(file))
    /\ Few(Dead(ix, file), n)
    /\ Few(Gone(chain, Held(file)) \cup Above(ix, chain), n)

\* What the index file may say of a data file: it is of an earlier epoch, or it lists a
\* part of the file but for n entries.
Describes(ix, file, n) ==
    /\ ix.epoch <= file[1].epoch
    /\ ix.epoch = file[1].epoch =>
          ix.size \in 1..Len(file) /\ Lists(ix.index, file, ix.size) /\ Few(Dead(ix.index, file), n)

\* The data file has only blocks of the chain, and the index file describes it.
DataLocal ==
    LET file == ino[data] IN
    /\ Ordered(file)
    /\ Held(file) \subseteq Stored
    /\ \A b, c \in Stored : b.h = c.h => b = c
    /\ Describes(idx, file, flips)

\* The index in memory serves the chain; after a rename, the one that was written does.
Renamed == loop.pc = "done" \/ comp.pc = "done"
MemLocal ==
    LET file == ino[data] IN
    /\ alive /\ ~ Renamed =>
          /\ mem.epoch = file[1].epoch /\ mem.size = Len(file)
          /\ Serves(mem.index, file, Stored, flips)
    /\ Renamed =>
          /\ idxTmp.epoch = file[1].epoch /\ idxTmp.size = Len(file)
          /\ idx.epoch < file[1].epoch
          /\ Serves(idxTmp.index, file, Stored, flips)

\* replace_all
LoopLocal ==
    /\ loop.pc # "idle" => loop.epoch = mem.epoch + 1
    /\ loop.pc = "write" => Written(ino[tmp], loop.pos - 1)
    /\ loop.pc \in {"index", "data"} => tmp # 0 /\ Written(ino[tmp], TipOf(loop.chain) + 2)
    /\ loop.pc = "data" =>
          idxTmp = [epoch |-> loop.epoch, size |-> TipOf(loop.chain) + 2,
                    index |-> NewIndexOf(loop.chain)]
    /\ loop.pc = "done" => loop.epoch = ino[data][1].epoch

\* A file under construction: m cells, all of them written well.
Fresh(file, m, epoch) ==
    /\ Len(file) = m
    /\ m >= 1 => file[1] = Header(epoch)
    /\ \A n \in 2..m : file[n] \in Record
    /\ Rising(file)
    /\ Held(file) \subseteq main

\* What the compaction will have saved at its end: what it has copied, what it has still to
\* copy, and what was appended since.
ToCopy == IF comp.pc = "open" THEN DOMAIN comp.snap
          ELSE IF comp.pc = "write" THEN comp.todo ELSE {}
Saved == (IF comp.pc = "open" THEN {} ELSE Held(ino[tmp]))
            \cup BlocksOf(comp.snap, ToCopy, ino[data])
            \cup BlocksOf(mem.index, AddedSince, ino[data])

\* A compaction whose snapshot was taken when the data file had g cells.
SnapLocal(g) ==
    LET file == ino[data] IN
    /\ Lists(comp.snap, file, g)
    /\ DOMAIN comp.snap \subseteq DOMAIN mem.index
    /\ \A k \in AddedSince :
          mem.index[k].off > g /\ (IsRecord(file[mem.index[k].off]) => file[mem.index[k].off].h = k)
    /\ Few(Gone(main, Saved) \cup Above(comp.snap, main), flips)
CopyLocal(g) ==
    LET file == ino[data] copy == ino[tmp] IN
    comp.pc \in {"write", "catchup"} =>
          /\ tmp # 0 /\ comp.epoch = mem.epoch + 1
          /\ Fresh(copy, comp.pos - 1, comp.epoch)
          /\ Lists(comp.index, copy, comp.pos - 1)
          /\ DOMAIN comp.index \subseteq DOMAIN comp.snap
          /\ \A n \in Live(copy) :
                /\ \A k \in LiveOf(comp.snap, ToCopy, file) : copy[n].h < file[comp.snap[k].off].h
                /\ \A k \in LiveOf(mem.index, AddedSince, file) : copy[n].h < k
          /\ comp.pc = "write" =>
                /\ comp.todo \subseteq comp.names /\ comp.names \subseteq DOMAIN comp.snap
                /\ \A a \in DOMAIN comp.index, k \in comp.names : a < k
          /\ comp.pc = "catchup" => comp.pos > 1

CompLocal ==
    /\ comp.pc \in {"open", "write", "catchup"} => comp.seq <= mem.seq
    /\ Current => \E g \in 1..Len(ino[data]) : SnapLocal(g) /\ CopyLocal(g)
    /\ comp.pc = "data" =>
          /\ tmp # 0 /\ comp.epoch = mem.epoch + 1
          /\ Len(ino[tmp]) >= 1 /\ Fresh(ino[tmp], Len(ino[tmp]), comp.epoch)
          /\ idxTmp.epoch = comp.epoch /\ idxTmp.size = Len(ino[tmp])
          /\ Lists(idxTmp.index, ino[tmp], Len(ino[tmp]))
          /\ Few(Gone(main, Held(ino[tmp])), flips)
    /\ comp.pc = "done" => comp.epoch = ino[data][1].epoch

Local == DataLocal /\ MemLocal /\ LoopLocal /\ CompLocal

-----------------------------------------------------------------------------
\* Sets of heights with at most n members.
LEMMA FewLess ==
  ASSUME NEW S, NEW T \in SUBSET Height, S \subseteq T, NEW n \in Nat, Few(T, n)
  PROVE  Few(S, n)
<1>1. IsFiniteSet(T) /\ Cardinality(T) \in Nat
  BY Ranks
<1>2. Cardinality(S) <= Cardinality(T) /\ Cardinality(S) \in Nat
  BY <1>1, FS_Subset, FS_CardinalityType
<1> QED BY <1>1, <1>2 DEF Few

\* One more member is one more.
LEMMA FewMore ==
  ASSUME NEW S, NEW T \in SUBSET Height, NEW x, S \subseteq T \cup {x}, NEW n \in Nat, Few(T, n)
  PROVE  Few(S, n + 1)
<1>1. IsFiniteSet(T) /\ Cardinality(T) \in Nat
  BY Ranks
<1> DEFINE U == T \cup {x}
<1>2. IsFiniteSet(U) /\ (Cardinality(U) = Cardinality(T) \/ Cardinality(U) = Cardinality(T) + 1)
  BY <1>1, FS_AddElement
<1> HIDE DEF U
<1>3. Cardinality(S) <= Cardinality(U) /\ Cardinality(S) \in Nat
  <2>1. S \in SUBSET U
    BY DEF U
  <2> QED BY <1>2, <2>1, FS_Subset, FS_CardinalityType
<1> QED BY <1>1, <1>2, <1>3 DEF Few

\* There are no fewer than none.
LEMMA FewNone == \A n \in Nat : Few({}, n)
BY FS_EmptySet DEF Few

\* The tip of a set of blocks, and its only value that fits.
LEMMA TipIs ==
  ASSUME NEW S \in SUBSET Block
  PROVE  /\ TipOf(S) \in Height \cup {-1}
         /\ \A b \in S : b.h \in Height /\ b.h <= TipOf(S)
         /\ \A b \in S : (\A c \in S : c.h <= b.h) => TipOf(S) = b.h
<1> DEFINE hs == {b.h : b \in S}
<1>1. hs \in SUBSET Height /\ \A b \in S : b.h \in Height
  BY DEF Block
<1>2. MaxHeight \in Nat /\ \A k \in Height : k \in Nat /\ k > -1
  BY StorageAssumption DEF Height
<1>3. hs \cup {-1} \in SUBSET Int /\ TipOf(S) = Most(hs \cup {-1})
  BY <1>1, <1>2 DEF TipOf
<1>4. \A b \in S : b.h \in hs
  OBVIOUS
<1>5. ASSUME NEW b \in S, \A c \in S : c.h <= b.h PROVE TipOf(S) = b.h
  <2>1. b.h \in hs \cup {-1} /\ \A k \in hs \cup {-1} : k <= b.h
    BY <1>1, <1>2, <1>5
  <2> HIDE DEF hs
  <2> QED BY <1>3, <2>1, MostIs
<1>6. \A c \in hs : \E b \in S : b.h = c
  OBVIOUS
<1> HIDE DEF hs
<1>7. CASE S = {}
  <2>1. hs \cup {-1} = {-1}
    BY <1>6, <1>7
  <2>2. Most({-1}) = -1
    BY MostIs
  <2> QED BY <1>3, <1>7, <2>1, <2>2
<1>8. CASE S # {}
  <2>1. hs # {}
    BY <1>4, <1>8
  <2>2. Most(hs) \in hs /\ \A k \in hs : k <= Most(hs)
    BY <1>1, <2>1, HeightsHaveExtremes
  <2>3. PICK b \in S : b.h = Most(hs)
    BY <1>6, <2>2
  <2>4. \A c \in S : c.h <= b.h
    BY <1>4, <2>2, <2>3
  <2> QED BY <1>1, <1>5, <2>3, <2>4
<1> QED BY <1>5, <1>7, <1>8

\* What is above a tip, and what is gone, are sets of heights.
LEMMA Losses ==
  ASSUME NEW S \in SUBSET Block, NEW T, NEW ix \in Indexes, NEW file
  PROVE  /\ Gone(S, T) \in SUBSET Height
         /\ Above(ix, S) \in SUBSET Height
         /\ Dead(ix, file) \in SUBSET Height
BY Indices DEF Gone, Above, Dead, Block

\* Fewer blocks, or more in the file, and less is gone.
LEMMA GoneLess ==
  ASSUME NEW S, NEW T, NEW U, T \subseteq U
  PROVE  Gone(S, U) \subseteq Gone(S, T)
BY DEF Gone

\* A cell that is a record has a block.
LEMMA LiveCells ==
  ASSUME NEW file \in Seq(Cell)
  PROVE  /\ Len(file) \in Nat
         /\ \A n \in Live(file) : /\ n \in 1..Len(file) /\ n \in Nat /\ IsRecord(file[n])
                                  /\ file[n] \in Record /\ file[n].h \in Height
                                  /\ file[n].h \in Nat
                                  /\ At(file[n]) \in Block /\ At(file[n]).h = file[n].h
                                  /\ At(file[n]) \in Held(file)
<1>1. \A k \in Height : k \in Nat
  BY StorageAssumption DEF Height
<1>2. ASSUME NEW n \in Live(file)
      PROVE  n \in 1..Len(file) /\ file[n] \in Record /\ IsRecord(file[n])
  BY Cells DEF Live
<1>3. \A r \in Record : At(r) \in Block /\ At(r).h = r.h
  BY Cells DEF At, Block
<1> QED BY <1>1, <1>2, <1>3, Cells DEF Held

\* The entries of an index that lists a file.
LEMMA Listed ==
  ASSUME NEW file \in Seq(Cell), NEW ix \in Indexes, NEW g \in Nat, g <= Len(file), Lists(ix, file, g)
  PROVE  /\ \A k \in DOMAIN ix : /\ k \in Height /\ k \in Nat
                                 /\ ix[k].off \in 2..g /\ ix[k].off \in 1..Len(file)
         /\ \A k \in LiveOf(ix, DOMAIN ix, file) :
               /\ k \in DOMAIN ix /\ ix[k].off \in Live(file)
               /\ ix[k].flags = file[ix[k].off].flags /\ k <= file[ix[k].off].h
<1>1. \A k \in DOMAIN ix : k \in Height /\ k \in Nat
  BY Indices, StorageAssumption DEF Height
<1>2. ASSUME NEW k \in DOMAIN ix PROVE ix[k].off \in 2..g /\ ix[k].off \in 1..Len(file)
  <2>1. ix[k].off \in 2..g
    BY DEF Lists
  <2> QED BY <2>1
<1> QED BY <1>1, <1>2 DEF Lists, LiveOf, Live

\* load() with an index that lists a whole file gives all of its blocks.
LEMMA LoadsAll ==
  ASSUME NEW file \in Seq(Cell), Ordered(file), NEW ix \in Indexes, Lists(ix, file, Len(file))
  PROVE  /\ Loaded(file, ix) = Held(file)
         /\ BlocksOf(ix, DOMAIN ix, file) = Held(file)
<1>1. /\ \A k \in DOMAIN ix : ix[k].off \in 1..Len(file)
      /\ \A k \in LiveOf(ix, DOMAIN ix, file) :
            k \in DOMAIN ix /\ ix[k].off \in Live(file) /\ ix[k].flags = file[ix[k].off].flags
  BY Listed
<1>2. {k \in DOMAIN ix : Readable(file, ix[k])} = LiveOf(ix, DOMAIN ix, file)
  BY <1>1 DEF Readable, LiveOf
<1>3. \A e : BlockAt(file, e) = At(file[e.off])
  BY DEF BlockAt, At
<1>4. Loaded(file, ix) = BlocksOf(ix, DOMAIN ix, file)
  BY <1>2, <1>3 DEF Loaded, BlocksOf
<1>5. BlocksOf(ix, DOMAIN ix, file) \subseteq Held(file)
  BY <1>1 DEF BlocksOf, Held
<1>6. ASSUME NEW n \in Live(file) PROVE At(file[n]) \in BlocksOf(ix, DOMAIN ix, file)
  <2>1. n \in 1..Len(file) /\ IsRecord(file[n])
    BY DEF Live
  <2>2. n # 1
    <3>1. ~ IsRecord(file[1])
      <4>1. 1 \in 1..Len(file) /\ IsHeader(file[1])
        BY DEF Ordered
      <4> QED BY <4>1, Cells
    <3> QED BY <2>1, <3>1
  <2>3. n \in 2..Len(file)
    BY <2>1, <2>2
  <2>4. PICK k \in DOMAIN ix : ix[k].off = n
    BY <2>1, <2>3 DEF Lists
  <2> QED BY <2>1, <2>4 DEF BlocksOf, LiveOf
<1> QED BY <1>4, <1>5, <1>6 DEF Held

\* The names above the tip lead to nothing.
LEMMA AboveIsDead ==
  ASSUME NEW file \in Seq(Cell), NEW ix \in Indexes, NEW g \in Nat, g <= Len(file),
         Lists(ix, file, g), NEW chain \in SUBSET Block, Held(file) \subseteq chain
  PROVE  Above(ix, chain) \subseteq Dead(ix, file)
<1> SUFFICES ASSUME NEW k \in DOMAIN ix, k > TipOf(chain), IsRecord(file[ix[k].off]) PROVE FALSE
  BY DEF Above, Dead
<1>1. k \in Nat /\ ix[k].off \in Live(file) /\ k <= file[ix[k].off].h
  BY Listed DEF LiveOf
<1>2. At(file[ix[k].off]) \in chain /\ At(file[ix[k].off]).h = file[ix[k].off].h
      /\ file[ix[k].off].h \in Nat
  BY <1>1, LiveCells
<1>3. file[ix[k].off].h <= TipOf(chain)
  BY <1>2, TipIs
<1>4. TipOf(chain) \in Int
  BY TipIs, StorageAssumption DEF Height
<1> QED BY <1>1, <1>2, <1>3, <1>4

\* An index depends on the cells that it lists only.
LEMMA SameListing ==
  ASSUME NEW file \in Seq(Cell), NEW new \in Seq(Cell), NEW g \in Nat, g <= Len(file), g <= Len(new),
         \A n \in 1..g : new[n] = file[n],
         NEW ix \in Indexes, Lists(ix, file, g)
  PROVE  /\ Lists(ix, new, g) /\ Dead(ix, new) = Dead(ix, file)
         /\ \A S \in SUBSET DOMAIN ix : /\ LiveOf(ix, S, new) = LiveOf(ix, S, file)
                                        /\ BlocksOf(ix, S, new) = BlocksOf(ix, S, file)
<1>1. \A k \in DOMAIN ix : ix[k].off \in 2..g
  BY DEF Lists
<1>2. \A n \in 2..g : new[n] = file[n]
  OBVIOUS
<1>3. \A k \in DOMAIN ix : new[ix[k].off] = file[ix[k].off]
  BY <1>1, <1>2
<1>4. \A S \in SUBSET DOMAIN ix : LiveOf(ix, S, new) = LiveOf(ix, S, file)
  BY <1>3 DEF LiveOf
<1>5. \A S \in SUBSET DOMAIN ix : BlocksOf(ix, S, new) = BlocksOf(ix, S, file)
  BY <1>3, <1>4 DEF BlocksOf, LiveOf
<1>6. Dead(ix, new) = Dead(ix, file)
  BY <1>3 DEF Dead
<1>7. Lists(ix, new, g)
  <2>1. LiveOf(ix, DOMAIN ix, new) = LiveOf(ix, DOMAIN ix, file)
    BY <1>4
  <2>2. \A k \in LiveOf(ix, DOMAIN ix, file) :
           ix[k].flags = new[ix[k].off].flags /\ k <= new[ix[k].off].h
    BY <1>3 DEF Lists, LiveOf
  <2> QED BY <1>1, <1>2, <2>1, <2>2 DEF Lists
<1> QED BY <1>4, <1>5, <1>6, <1>7

\* From ix, an index of the first g cells of file, more is made for l cells of new: these
\* are g of file and records, each under a name that is above the names of those
\* before it and at most its height.
Grown(ix, file, g, more, new, l, name) ==
    /\ g <= Len(file) /\ g <= l /\ l <= Len(new)
    /\ \A n \in 1..g : new[n] = file[n]
    /\ \A n \in g + 1..l : /\ new[n] \in Record /\ n >= 2
                           /\ name[n] \in DOMAIN more /\ name[n] <= new[n].h
                           /\ more[name[n]] = [off |-> n, flags |-> new[n].flags]
    /\ \A m, n \in g + 1..l : m < n => name[m] < name[n]
    /\ \A k \in LiveOf(ix, DOMAIN ix, file) : \A n \in g + 1..l : k < name[n]
    /\ \A k \in DOMAIN more :
          (k \in DOMAIN ix /\ more[k] = ix[k]) \/ (\E n \in g + 1..l : k = name[n])
    /\ \A k \in LiveOf(ix, DOMAIN ix, file) : k \in DOMAIN more /\ more[k] = ix[k]

\* Then it lists them, and it has no dead entries but those of ix.
LEMMA ListsMore ==
  ASSUME NEW file \in Seq(Cell), NEW new \in Seq(Cell), NEW g \in Nat, NEW l \in Nat,
         NEW ix \in Indexes, Lists(ix, file, g), NEW more \in Indexes, NEW name,
         Grown(ix, file, g, more, new, l, name)
  PROVE  Lists(more, new, l) /\ Dead(more, new) \subseteq Dead(ix, file)
<1>0. /\ g <= Len(file) /\ g <= l /\ l <= Len(new)
      /\ \A n \in 1..g : new[n] = file[n]
      /\ \A n \in g + 1..l : /\ new[n] \in Record /\ n >= 2
                             /\ name[n] \in DOMAIN more /\ name[n] <= new[n].h
                             /\ more[name[n]] = [off |-> n, flags |-> new[n].flags]
      /\ \A m, n \in g + 1..l : m < n => name[m] < name[n]
      /\ \A k \in LiveOf(ix, DOMAIN ix, file) : \A n \in g + 1..l : k < name[n]
      /\ \A k \in DOMAIN more :
            (k \in DOMAIN ix /\ more[k] = ix[k]) \/ (\E n \in g + 1..l : k = name[n])
      /\ \A k \in LiveOf(ix, DOMAIN ix, file) : k \in DOMAIN more /\ more[k] = ix[k]
  BY DEF Grown
<1> DEFINE Put(k) == \E n \in g + 1..l : k = name[n]
<1>1. ASSUME NEW n \in g + 1..l
      PROVE  /\ IsRecord(new[n]) /\ n \in 2..l
             /\ name[n] \in DOMAIN more /\ name[n] <= new[n].h
             /\ more[name[n]].off = n /\ more[name[n]].flags = new[n].flags
  <2>1. /\ new[n] \in Record /\ n >= 2 /\ n \in g + 1..l
        /\ name[n] \in DOMAIN more /\ name[n] <= new[n].h
        /\ more[name[n]] = [off |-> n, flags |-> new[n].flags]
    BY <1>0
  <2>2. n \in 2..l
    BY <2>1
  <2>3. more[name[n]].off = n /\ more[name[n]].flags = new[n].flags
    BY <2>1
  <2> QED BY <2>1, <2>2, <2>3, Cells
<1>2. /\ \A k \in DOMAIN ix : ix[k].off \in 2..g /\ ix[k].off \in 1..g /\ ix[k].off \in 2..l
      /\ \A n \in 2..g : new[n] = file[n]
      /\ \A k \in DOMAIN ix : k \in Nat
      /\ \A k \in DOMAIN more : k \in Nat
  <2>1. \A k \in DOMAIN ix : ix[k].off \in 2..g
    BY DEF Lists
  <2>2. \A n \in 2..g : n \in 1..g /\ n \in 2..l
    BY <1>0
  <2> QED BY <1>0, <2>1, <2>2, Indices, StorageAssumption DEF Height
<1>3. \A k \in DOMAIN ix : new[ix[k].off] = file[ix[k].off]
  BY <1>0, <1>2
<1>4. ASSUME NEW k \in DOMAIN more, ~ Put(k) PROVE k \in DOMAIN ix /\ more[k] = ix[k]
  BY <1>0, <1>4
\* The entries that lead to a record are those of the old index and the new ones.
<1>5. ASSUME NEW k \in LiveOf(more, DOMAIN more, new)
      PROVE  \/ k \in LiveOf(ix, DOMAIN ix, file) /\ more[k] = ix[k] /\ ~ Put(k)
             \/ Put(k)
  <2> SUFFICES ASSUME ~ Put(k) PROVE k \in LiveOf(ix, DOMAIN ix, file) /\ more[k] = ix[k]
    OBVIOUS
  <2>1. k \in DOMAIN more /\ IsRecord(new[more[k].off])
    BY DEF LiveOf
  <2>2. k \in DOMAIN ix /\ more[k] = ix[k]
    BY <1>4, <2>1
  <2>3. IsRecord(file[ix[k].off])
    BY <1>3, <2>1, <2>2
  <2> QED BY <2>2, <2>3 DEF LiveOf
<1>6. \A k \in LiveOf(ix, DOMAIN ix, file) :
         /\ k \in DOMAIN more /\ more[k] = ix[k] /\ k \in DOMAIN ix /\ IsRecord(file[ix[k].off])
         /\ ix[k].flags = new[ix[k].off].flags /\ k <= new[ix[k].off].h
  BY <1>0, <1>3 DEF LiveOf, Lists
<1>7. \A k \in DOMAIN more : more[k].off \in 2..l
  BY <1>0, <1>1, <1>2
<1>8. \A k \in LiveOf(more, DOMAIN more, new) :
         more[k].flags = new[more[k].off].flags /\ k <= new[more[k].off].h
  BY <1>1, <1>5, <1>6
<1>9. ASSUME NEW n \in 2..l, IsRecord(new[n]) PROVE \E k \in DOMAIN more : more[k].off = n
  <2>1. CASE n \in g + 1..l
    BY <1>1, <2>1
  <2>2. CASE n \notin g + 1..l
    <3>1. n \in 2..g
      BY <1>0, <2>2
    <3>2. IsRecord(file[n])
      BY <1>2, <1>9, <3>1
    <3>3. PICK k \in DOMAIN ix : ix[k].off = n
      BY <3>1, <3>2 DEF Lists
    <3>4. k \in LiveOf(ix, DOMAIN ix, file)
      BY <3>2, <3>3 DEF LiveOf
    <3> QED BY <1>6, <3>3, <3>4
  <2> QED BY <2>1, <2>2
<1>10. ASSUME NEW j \in LiveOf(more, DOMAIN more, new), NEW k \in LiveOf(more, DOMAIN more, new), j < k
       PROVE  more[j].off < more[k].off
  <2>0. j \in Nat /\ k \in Nat
    BY <1>2 DEF LiveOf
  <2>1. CASE Put(j) /\ Put(k)
    <3>1. PICK m \in g + 1..l : j = name[m]
      BY <2>1
    <3>2. PICK n \in g + 1..l : k = name[n]
      BY <2>1
    <3>3. ASSUME ~ m < n PROVE FALSE
      <4>1. CASE m = n
        BY <1>10, <2>0, <3>1, <3>2, <4>1
      <4>2. CASE n < m
        <5>1. k < j
          BY <1>0, <3>1, <3>2, <4>2
        <5> QED BY <1>10, <2>0, <5>1
      <4> QED BY <3>3, <4>1, <4>2
    <3> QED BY <1>1, <3>1, <3>2, <3>3
  <2>2. CASE ~ Put(j) /\ Put(k)
    <3>1. more[j].off \in 1..g
      BY <1>2, <1>5, <1>6, <2>2
    <3>2. PICK n \in g + 1..l : k = name[n]
      BY <2>2
    <3> QED BY <1>1, <3>1, <3>2
  <2>3. CASE Put(j) /\ ~ Put(k)
    <3>1. k \in LiveOf(ix, DOMAIN ix, file)
      BY <1>5, <2>3
    <3>2. PICK n \in g + 1..l : j = name[n]
      BY <2>3
    <3>3. k < j
      BY <1>0, <3>1, <3>2
    <3> QED BY <1>10, <2>0, <3>3
  <2>4. CASE ~ Put(j) /\ ~ Put(k)
    BY <1>5, <1>10, <2>4 DEF Lists
  <2> QED BY <2>1, <2>2, <2>3, <2>4
<1>11. Lists(more, new, l)
  BY <1>7, <1>8, <1>9, <1>10 DEF Lists
<1>12. ASSUME NEW k \in Dead(more, new) PROVE k \in Dead(ix, file)
  <2>1. k \in DOMAIN more /\ ~ IsRecord(new[more[k].off])
    BY DEF Dead
  <2>2. ~ Put(k)
    BY <1>1, <2>1
  <2> QED BY <1>3, <1>4, <2>1, <2>2 DEF Dead
<1> QED BY <1>11, <1>12

\* One cell more in a file.
LEMMA OneMore ==
  ASSUME NEW file \in Seq(Cell), NEW new \in Seq(Cell), Len(new) = Len(file) + 1,
         \A n \in 1..Len(file) : new[n] = file[n],
         IsRecord(new[Len(new)]) => \A n \in Live(file) : file[n].h < new[Len(new)].h
  PROVE  /\ Live(new) = Live(file) \cup (IF IsRecord(new[Len(new)]) THEN {Len(new)} ELSE {})
         /\ Held(new) = Held(file) \cup (IF IsRecord(new[Len(new)]) THEN {At(new[Len(new)])} ELSE {})
         /\ Rising(file) => Rising(new)
<1>1. /\ Len(file) \in Nat /\ Len(new) \in 1..Len(new)
      /\ \A n \in 1..Len(new) : n \in 1..Len(file) \/ n = Len(new)
      /\ \A n \in 1..Len(file) : n \in 1..Len(new) /\ n < Len(new)
  OBVIOUS
<1>2. Live(new) = Live(file) \cup (IF IsRecord(new[Len(new)]) THEN {Len(new)} ELSE {})
  BY <1>1 DEF Live
<1>3. \A n \in Live(file) : n \in 1..Len(file) /\ n < Len(new) /\ new[n] = file[n]
  BY <1>1 DEF Live
<1>4. Held(new) = Held(file) \cup (IF IsRecord(new[Len(new)]) THEN {At(new[Len(new)])} ELSE {})
  <2>1. CASE IsRecord(new[Len(new)])
    <3>1. Live(new) = Live(file) \cup {Len(new)}
      BY <1>2, <2>1
    <3> QED BY <1>3, <2>1, <3>1 DEF Held
  <2>2. CASE ~ IsRecord(new[Len(new)])
    <3>1. Live(new) = Live(file)
      BY <1>2, <2>2
    <3> QED BY <1>3, <2>2, <3>1 DEF Held
  <2> QED BY <2>1, <2>2
<1>5. ASSUME Rising(file), NEW m \in Live(new), NEW n \in Live(new), m < n
      PROVE  new[m].h < new[n].h
  <2>1. m \in Live(file)
    <3>1. ASSUME m = Len(new) PROVE FALSE
      <4>1. n \in 1..Len(new)
        BY DEF Live
      <4> QED BY <1>1, <1>5, <3>1, <4>1
    <3> QED BY <1>2, <3>1
  <2>2. CASE n \in Live(file)
    BY <1>3, <1>5, <2>1, <2>2 DEF Rising
  <2>3. CASE n \notin Live(file)
    <3>1. n = Len(new) /\ IsRecord(new[Len(new)])
      BY <1>2, <2>3
    <3> QED BY <1>3, <2>1, <3>1
  <2> QED BY <2>2, <2>3
<1> QED BY <1>2, <1>4, <1>5 DEF Rising

\* The first cells of a file.
LEMMA FirstCells ==
  ASSUME NEW file \in Seq(Cell), NEW new \in Seq(Cell), Len(new) <= Len(file),
         \A n \in 1..Len(new) : new[n] = file[n]
  PROVE  /\ Live(new) \subseteq Live(file) /\ Held(new) \subseteq Held(file)
         /\ Rising(file) => Rising(new)
<1>1. \A n \in Live(new) : n \in Live(file) /\ new[n] = file[n]
  BY DEF Live
<1> QED BY <1>1 DEF Held, Rising

\* new is file with a corrupted record.
Corrupts(file, n, new) ==
    /\ Len(new) = Len(file) /\ new[n] = Torn
    /\ \A m \in 1..Len(file) : m # n => new[m] = file[m]

\* Nothing else is lost.
LEMMA Flipped ==
  ASSUME NEW file \in Seq(Cell), Ordered(file), NEW n \in 1..Len(file), IsRecord(file[n]),
         NEW new \in Seq(Cell), Corrupts(file, n, new)
  PROVE  /\ new[1] = file[1] /\ Ordered(new)
         /\ Held(new) \subseteq Held(file) /\ Held(file) \subseteq Held(new) \cup {At(file[n])}
<1>1. Torn \in Cell /\ ~ IsRecord(Torn)
  BY Cells DEF Cell
<1>2. /\ new \in Seq(Cell) /\ Len(new) = Len(file) /\ new[n] = Torn
      /\ \A m \in 1..Len(file) : m # n => new[m] = file[m]
  BY DEF Corrupts
<1>3. 1 \in 1..Len(file) /\ n # 1
  <2>1. 1 \in 1..Len(file) /\ IsHeader(file[1])
    BY DEF Ordered
  <2>2. ~ IsRecord(file[1])
    BY <2>1, Cells
  <2> QED BY <2>1, <2>2
<1>4. new[1] = file[1]
  BY <1>2, <1>3
<1>5. Live(new) = Live(file) \ {n} /\ \A m \in Live(new) : new[m] = file[m]
  BY <1>1, <1>2 DEF Live
<1>6. Rising(new)
  BY <1>5 DEF Ordered, Rising
<1>7. Held(new) \subseteq Held(file) /\ Held(file) \subseteq Held(new) \cup {At(file[n])}
  <2>1. \A m \in Live(file) : m = n \/ m \in Live(new)
    BY <1>5
  <2> QED BY <1>5, <2>1 DEF Held
<1> QED BY <1>2, <1>4, <1>6, <1>7 DEF Ordered

\* ... costs an index the one entry that leads to it.
LEMMA FlippedEntry ==
  ASSUME NEW file \in Seq(Cell), NEW n \in 1..Len(file), IsRecord(file[n]),
         NEW new \in Seq(Cell), Corrupts(file, n, new),
         NEW ix \in Indexes, NEW g \in Nat, g <= Len(file), Lists(ix, file, g)
  PROVE  /\ Lists(ix, new, g)
         /\ \E x : Dead(ix, new) \subseteq Dead(ix, file) \cup {x}
         /\ \A S \in SUBSET DOMAIN ix :
               /\ LiveOf(ix, S, new) \subseteq LiveOf(ix, S, file)
               /\ \A k \in LiveOf(ix, S, new) : new[ix[k].off] = file[ix[k].off]
               /\ BlocksOf(ix, S, file) \subseteq BlocksOf(ix, S, new) \cup {At(file[n])}
<1>1. ~ IsRecord(Torn)
  BY Cells
<1>2. \A k \in DOMAIN ix : k \in Nat /\ ix[k].off \in 2..g /\ ix[k].off \in 1..Len(file)
  BY Listed
<1>3. \A k \in DOMAIN ix : IF ix[k].off = n THEN ~ IsRecord(new[ix[k].off])
                           ELSE new[ix[k].off] = file[ix[k].off]
  BY <1>1, <1>2 DEF Corrupts
<1>4. \A S \in SUBSET DOMAIN ix :
         /\ LiveOf(ix, S, new) \subseteq LiveOf(ix, S, file)
         /\ \A k \in LiveOf(ix, S, new) : new[ix[k].off] = file[ix[k].off]
         /\ \A k \in LiveOf(ix, S, file) : ix[k].off = n \/ k \in LiveOf(ix, S, new)
  BY <1>3 DEF LiveOf
<1>5. ASSUME NEW S \in SUBSET DOMAIN ix
      PROVE  BlocksOf(ix, S, file) \subseteq BlocksOf(ix, S, new) \cup {At(file[n])}
  BY <1>4 DEF BlocksOf
<1>6. Lists(ix, new, g)
  <2>1. ASSUME NEW m \in 2..g, IsRecord(new[m]) PROVE \E k \in DOMAIN ix : ix[k].off = m
    <3>1. m \in 1..Len(file) /\ m # n
      BY <1>1, <2>1 DEF Corrupts
    <3>2. IsRecord(file[m])
      BY <2>1, <3>1 DEF Corrupts
    <3> QED BY <2>1, <3>2 DEF Lists
  <2>2. LiveOf(ix, DOMAIN ix, new) \subseteq LiveOf(ix, DOMAIN ix, file)
        /\ \A k \in LiveOf(ix, DOMAIN ix, new) : new[ix[k].off] = file[ix[k].off]
    BY <1>4
  <2> QED BY <2>1, <2>2 DEF Lists
<1>7. \E x : Dead(ix, new) \subseteq Dead(ix, file) \cup {x}
  <2>1. \A j, k \in DOMAIN ix : ix[j].off = n /\ ix[k].off = n => j = k
    <3> SUFFICES ASSUME NEW j \in DOMAIN ix, NEW k \in DOMAIN ix, ix[j].off = n, ix[k].off = n
                 PROVE  j = k
      OBVIOUS
    <3>1. j \in LiveOf(ix, DOMAIN ix, file) /\ k \in LiveOf(ix, DOMAIN ix, file)
      BY DEF LiveOf
    <3>2. ~ j < k /\ ~ k < j
      BY <3>1 DEF Lists
    <3> QED BY <1>2, <3>2
  <2>2. \A k \in Dead(ix, new) : k \in Dead(ix, file) \/ (k \in DOMAIN ix /\ ix[k].off = n)
    BY <1>3 DEF Dead
  <2>3. CASE \E k \in DOMAIN ix : ix[k].off = n
    <3>1. PICK k \in DOMAIN ix : ix[k].off = n
      BY <2>3
    <3>2. Dead(ix, new) \subseteq Dead(ix, file) \cup {k}
      BY <2>1, <2>2, <3>1
    <3> QED BY <3>2
  <2>4. CASE ~ \E k \in DOMAIN ix : ix[k].off = n
    <3>1. Dead(ix, new) \subseteq Dead(ix, file) \cup {0}
      BY <2>2, <2>4
    <3> QED BY <3>1
  <2> QED BY <2>3, <2>4
<1> QED BY <1>4, <1>5, <1>6, <1>7

\* _recover() over a data file with unreadable records: it keeps the cells up to the first
\* unreadable one that the index file does not know of, and the index lists them all.
LEMMA Recovers ==
  ASSUME NEW file \in Seq(Cell), Ordered(file), NEW ix \in IndexFile, NEW n \in Nat,
         Describes(ix, file, n)
  PROVE  /\ HasHeader(file)
         /\ RecoveredFile(file, ix) \in Seq(Cell) /\ RecoveredIndex(file, ix) \in Indexes
         /\ Len(RecoveredFile(file, ix)) \in 1..Len(file)
         /\ \A i \in 1..Len(RecoveredFile(file, ix)) : RecoveredFile(file, ix)[i] = file[i]
         /\ Lists(RecoveredIndex(file, ix), RecoveredFile(file, ix), Len(RecoveredFile(file, ix)))
         /\ Few(Dead(RecoveredIndex(file, ix), RecoveredFile(file, ix)), n)
         /\ Adopts(file, ix) => ix.size <= Len(RecoveredFile(file, ix))
<1> DEFINE start == ScanStart(file, ix)
           base  == BaseIndex(file, ix)
           last  == LastGood(file, start)
           good  == SubSeq(file, 1, last)
           index == Scanned(file, start, base)
<1>1. /\ HasHeader(file) /\ Len(file) \in Nat /\ Len(file) >= 1 /\ 1 \in 1..Len(file)
      /\ ix.index \in Indexes /\ ix.size \in Nat /\ ix.epoch \in Nat \cup {-1}
  BY DEF Ordered, HasHeader, IndexFile
<1>2. start \in 1..Len(file) /\ base \in Indexes /\ Lists(base, file, start) /\ Few(Dead(base, file), n)
  <2>1. CASE Adopts(file, ix)
    BY <1>1, <2>1 DEF Adopts, ScanStart, BaseIndex, Describes
  <2>2. CASE ~ Adopts(file, ix)
    <3>1. start = 1 /\ base = << >>
      BY <2>2 DEF ScanStart, BaseIndex
    <3>2. << >> \in Indexes /\ DOMAIN << >> = {} /\ 2..1 = {}
      BY EmptyIndex
    <3>3. Lists(<< >>, file, 1) /\ Dead(<< >>, file) = {}
      BY <3>2 DEF Lists, Dead, LiveOf
    <3> HIDE DEF start, base
    <3> QED BY <1>1, <3>1, <3>2, <3>3, FewNone
  <2> QED BY <2>1, <2>2
<1>3. Adopts(file, ix) => start = ix.size
  BY DEF ScanStart
<1>4. RecoveredFile(file, ix) = good /\ RecoveredIndex(file, ix) = index
  BY <1>1 DEF RecoveredFile, RecoveredIndex
<1>5. good \in Seq(Cell) /\ index \in Indexes
  BY <1>4, RecoveredTypes
<1> HIDE DEF start, base
<1>6. last \in start..Len(file) /\ \A i \in start + 1..last : IsRecord(file[i])
  <2> DEFINE S == {m \in start..Len(file) : \A i \in start + 1..m : IsRecord(file[i])}
  <2>1. S \in SUBSET Nat /\ start \in S /\ \A k \in S : k <= Len(file)
    BY <1>1, <1>2
  <2>2. Most(S) \in S
    <3> HIDE DEF S
    <3> QED BY <1>1, <2>1, HaveExtremes
  <2> QED BY <2>2 DEF LastGood
<1> DEFINE run   == start + 1..last
           found == {file[i].h : i \in run}
           at(h) == Most({j \in run : file[j].h = h})
<1>7. index = [h \in DOMAIN base \cup found |->
                 IF h \in found THEN [off |-> at(h), flags |-> file[at(h)].flags] ELSE base[h]]
  BY DEF Scanned
<1> HIDE DEF index, last
<1>8. last \in Nat /\ last \in 1..Len(file) /\ start \in Nat /\ start <= last /\ start <= Len(file)
  BY <1>1, <1>2, <1>6
<1>9. /\ Len(good) = last /\ \A i \in 1..last : good[i] = file[i]
  BY <1>1, <1>8
<1> HIDE DEF good
<1>10. ASSUME NEW i \in run
       PROVE  /\ i \in Live(file) /\ i \in Nat /\ i >= 2 /\ i > start /\ i \in 1..last
              /\ file[i] \in Record /\ file[i].h \in Nat /\ good[i] = file[i]
  <2>1. i \in 1..Len(file) /\ i \in Nat /\ i >= 2 /\ i > start /\ i \in 1..last
    BY <1>1, <1>2, <1>8
  <2>2. i \in Live(file)
    BY <1>6, <2>1 DEF Live
  <2> QED BY <1>9, <2>1, <2>2, LiveCells
<1>11. \A i, j \in run : i < j => file[i].h < file[j].h
  BY <1>10 DEF Ordered, Rising
<1>12. ASSUME NEW i \in run PROVE at(file[i].h) = i
  <2> DEFINE J == {j \in run : file[j].h = file[i].h}
  <2>1. \A j \in J : j <= i
    <3> SUFFICES ASSUME NEW j \in run, file[j].h = file[i].h, i < j PROVE FALSE
      BY <1>10
    <3>1. file[i].h < file[j].h
      BY <1>11
    <3> QED BY <1>10, <3>1
  <2>2. J \in SUBSET Int /\ i \in J
    BY <1>10
  <2>3. Most(J) = i
    <3> HIDE DEF J
    <3> QED BY <2>1, <2>2, MostIs
  <2> QED BY <2>3
<1> HIDE DEF at
<1>13. \A i \in run : file[i].h \in found
  OBVIOUS
<1>14. \A h \in found : \E i \in run : h = file[i].h
  OBVIOUS
<1> DEFINE name == [i \in run |-> file[i].h]
<1>15. \A i \in run : name[i] = file[i].h
  OBVIOUS
<1> HIDE DEF found, name
<1>16. \A i \in run : file[i].h \in DOMAIN index
                      /\ index[file[i].h] = [off |-> i, flags |-> file[i].flags]
  BY <1>7, <1>12, <1>13
<1>17. ASSUME NEW k \in LiveOf(base, DOMAIN base, file), NEW i \in run PROVE k < file[i].h
  <2>1. k \in DOMAIN base /\ k \in Nat /\ base[k].off \in Live(file) /\ k <= file[base[k].off].h
    BY <1>2, <1>8, Listed DEF LiveOf
  <2>2. base[k].off \in 2..start
    BY <1>2, <2>1 DEF Lists
  <2>3. base[k].off < i
    BY <1>8, <1>10, <2>2
  <2>4. file[base[k].off].h < file[i].h
    BY <1>10, <2>1, <2>3 DEF Ordered, Rising
  <2> QED BY <1>10, <2>1, <2>4, LiveCells
<1>18. ASSUME NEW k \in LiveOf(base, DOMAIN base, file) PROVE k \in DOMAIN index /\ index[k] = base[k]
  <2>1. k \in DOMAIN base /\ k \in Nat
    BY <1>2, <1>8, Listed DEF LiveOf
  <2>2. k \notin found
    <3> SUFFICES ASSUME k \in found PROVE FALSE
      OBVIOUS
    <3>1. PICK i \in run : k = file[i].h
      BY <1>14
    <3>2. k < file[i].h
      BY <1>17
    <3> QED BY <2>1, <3>1, <3>2
  <2> QED BY <1>7, <2>1, <2>2
<1>19. ASSUME NEW k \in DOMAIN index
       PROVE  (k \in DOMAIN base /\ index[k] = base[k]) \/ (\E i \in run : k = name[i])
  <2>1. CASE k \in found
    BY <1>14, <1>15, <2>1
  <2>2. CASE k \notin found
    BY <1>7, <2>2
  <2> QED BY <2>1, <2>2
<1>20. \A i \in run : /\ good[i] \in Record /\ i >= 2
                      /\ name[i] \in DOMAIN index /\ name[i] <= good[i].h
                      /\ index[name[i]] = [off |-> i, flags |-> good[i].flags]
  BY <1>10, <1>15, <1>16
<1>21. /\ \A i, j \in run : i < j => name[i] < name[j]
       /\ \A k \in LiveOf(base, DOMAIN base, file) : \A i \in run : k < name[i]
  BY <1>11, <1>15, <1>17
<1>22. last <= Len(good) /\ \A i \in 1..start : good[i] = file[i]
  BY <1>8, <1>9
<1>23. Lists(index, good, last) /\ Dead(index, good) \subseteq Dead(base, file)
  <2>1. Grown(base, file, start, index, good, last, name)
    BY <1>8, <1>18, <1>19, <1>20, <1>21, <1>22 DEF Grown
  <2> QED BY <1>2, <1>5, <1>8, <2>1, ListsMore
<1>24. Few(Dead(index, good), n)
  <2>1. Dead(base, file) \in SUBSET Height
    BY <1>2, Indices DEF Dead
  <2> QED BY <1>2, <1>23, <2>1, FewLess
<1> QED BY <1>1, <1>3, <1>4, <1>5, <1>8, <1>9, <1>23, <1>24

\* A file that serves a chain: no index but a good one leads to all that the file holds.
LEMMA ServesAll ==
  ASSUME NEW file \in Seq(Cell), NEW ix \in Indexes, NEW n \in Nat, NEW chain \in SUBSET Block,
         Held(file) \subseteq chain, Lists(ix, file, Len(file)), Few(Dead(ix, file), n),
         chain \subseteq Held(file)
  PROVE  Serves(ix, file, chain, n)
<1>1. Gone(chain, Held(file)) = {}
  BY DEF Gone
<1>2. Above(ix, chain) \subseteq Dead(ix, file)
  BY AboveIsDead, LiveCells
<1>3. Dead(ix, file) \in SUBSET Height
  BY Indices DEF Dead
<1>4. Few(Above(ix, chain), n)
  BY <1>2, <1>3, FewLess
<1>5. Gone(chain, Held(file)) \cup Above(ix, chain) = Above(ix, chain)
  BY <1>1
<1> QED BY <1>4, <1>5 DEF Serves

\* What an index that serves a chain says of its file.
LEMMA ServesFew ==
  ASSUME NEW file, NEW ix \in Indexes, NEW chain \in SUBSET Block, NEW n \in Nat,
         Serves(ix, file, chain, n)
  PROVE  Few(Gone(chain, Held(file)), n)
<1> DEFINE G == Gone(chain, Held(file))
           A == Above(ix, chain)
<1>1. G \in SUBSET Height /\ A \in SUBSET Height
  BY Losses
<1>2. Few(G \cup A, n)
  BY DEF Serves
<1> HIDE DEF G, A
<1>3. Few(G, n)
  BY <1>1, <1>2, FewLess
<1> QED BY <1>3 DEF G

\* What the types say of the files, the indexes and the threads.
LEMMA Known ==
  ASSUME Shape
  PROVE  /\ ino \in [Inode -> Seq(Cell)] /\ data \in Inode /\ tmp \in Inode \cup {0} /\ data # tmp
         /\ ino[data] \in Seq(Cell) /\ Len(ino[data]) \in Nat
         /\ tmp # 0 => tmp \in Inode /\ ino[tmp] \in Seq(Cell) /\ Len(ino[tmp]) \in Nat
         /\ mem \in [index : Indexes, epoch : Nat, size : Nat, seq : Nat]
         /\ mem.index \in Indexes /\ mem.epoch \in Nat /\ mem.size \in Nat /\ mem.seq \in Nat
         /\ idx \in IndexFile /\ idx.index \in Indexes /\ idx.epoch \in Int /\ idx.size \in Nat
         /\ idxTmp \in IndexFile /\ idxTmp.index \in Indexes /\ idxTmp.epoch \in Int
         /\ flips \in Nat /\ main \in SUBSET Block /\ Stored \in SUBSET Block
         /\ lock = "free" => loop.pc = "idle" /\ comp.pc \notin {"data", "done"}
         /\ comp.pc \in {"open", "write", "catchup"} => comp.snap \in Indexes /\ comp.seq \in Nat
         /\ comp.pc \in {"write", "catchup"} =>
               comp.index \in Indexes /\ comp.epoch \in Nat /\ comp.pos \in Nat \ {0}
         /\ comp.pc = "write" => comp.todo \subseteq DOMAIN comp.snap
<1>1. /\ ino \in [Inode -> Seq(Cell)] /\ data \in Inode /\ tmp \in Inode \cup {0} /\ data # tmp
      /\ mem \in [index : Indexes, epoch : Nat, size : Nat, seq : Nat]
      /\ idx \in IndexFile /\ idxTmp \in IndexFile
      /\ flips \in Nat /\ main \in SUBSET Block
  BY DEF Shape, FilesTyped, Counts
<1>2. ino[data] \in Seq(Cell) /\ (tmp # 0 => tmp \in Inode /\ ino[tmp] \in Seq(Cell))
  BY <1>1
<1>3. /\ mem.index \in Indexes /\ mem.epoch \in Nat /\ mem.size \in Nat /\ mem.seq \in Nat
      /\ idx.index \in Indexes /\ idx.epoch \in Int /\ idx.size \in Nat
      /\ idxTmp.index \in Indexes /\ idxTmp.epoch \in Int
  BY <1>1 DEF IndexFile
<1>4. Stored \in SUBSET Block
  <2>1. CASE loop.pc = "done"
    <3>1. loop \in Replacing
      BY <2>1, Points DEF Shape, ThreadsTyped
    <3>2. loop.chain \in SUBSET Block
      BY <3>1, ChainShape DEF Replacing
    <3> QED BY <2>1, <3>2 DEF Stored
  <2>2. CASE loop.pc # "done"
    BY <1>1, <2>2 DEF Stored
  <2> QED BY <2>1, <2>2
<1>5. comp \in Opening \cup Copying \cup CatchingUp \cup Swapping \cup {Idle}
  BY DEF Shape, ThreadsTyped
<1>6. /\ comp.pc = "open" => comp \in Opening
      /\ comp.pc = "write" => comp \in Copying
      /\ comp.pc = "catchup" => comp \in CatchingUp
  BY <1>5, Points
<1>7. /\ comp.pc \in {"open", "write", "catchup"} => comp.snap \in Indexes /\ comp.seq \in Nat
      /\ comp.pc \in {"write", "catchup"} =>
            comp.index \in Indexes /\ comp.epoch \in Nat /\ comp.pos \in Nat \ {0}
  BY <1>6 DEF Opening, Copying, CatchingUp
<1>8. /\ lock = "free" => loop.pc = "idle" /\ comp.pc \notin {"data", "done"}
      /\ comp.pc = "write" => comp.todo \subseteq DOMAIN comp.snap
  BY DEF Shape, ThreadsTyped
<1> QED BY <1>1, <1>2, <1>3, <1>4, <1>7, <1>8

\* A data file that grows is described as before.
LEMMA DescribesLonger ==
  ASSUME NEW file \in Seq(Cell), NEW new \in Seq(Cell), Len(file) >= 1, Len(file) <= Len(new),
         \A n \in 1..Len(file) : new[n] = file[n],
         NEW ix \in IndexFile, NEW n \in Nat, Describes(ix, file, n)
  PROVE  Describes(ix, new, n)
<1>1. Len(file) \in Nat /\ Len(new) \in Nat /\ 1 \in 1..Len(file) /\ ix.index \in Indexes
  BY DEF IndexFile
<1>2. new[1] = file[1]
  BY <1>1
<1>3. ASSUME ix.epoch = file[1].epoch
      PROVE  ix.size \in 1..Len(new) /\ Lists(ix.index, new, ix.size) /\ Few(Dead(ix.index, new), n)
  <2>1. ix.size \in 1..Len(file) /\ Lists(ix.index, file, ix.size) /\ Few(Dead(ix.index, file), n)
    BY <1>3 DEF Describes
  <2>2. /\ ix.size \in Nat /\ ix.size <= Len(file) /\ ix.size <= Len(new) /\ ix.size \in 1..Len(new)
        /\ \A i \in 1..ix.size : new[i] = file[i]
    BY <1>1, <2>1
  <2>3. Lists(ix.index, new, ix.size) /\ Dead(ix.index, new) = Dead(ix.index, file)
    BY <1>1, <2>1, <2>2, SameListing
  <2> QED BY <2>1, <2>2, <2>3
<1> QED BY <1>2, <1>3 DEF Describes

\* The data file is kept by a step that changes none of what is said of it.
LEMMA LocalFrame ==
  ASSUME DataLocal, MemLocal, ino'[data] = ino[data],
         UNCHANGED <<data, idx, mem, alive, main, flips>>, ~ Renamed, ~ Renamed'
  PROVE  DataLocal' /\ MemLocal'
<1>1. Stored' = Stored
  BY DEF Stored, Renamed
<1>2. DataLocal'
  BY <1>1 DEF DataLocal
<1>3. MemLocal'
  BY <1>1 DEF MemLocal
<1> QED BY <1>2, <1>3

\* append: what a compaction saves. If the name of the new block is one of the snapshot's
\* then the block is not carried over, but it had been counted.
LEMMA AppendUnderCopy ==
  ASSUME Shape, DataLocal, MemLocal, NEW b \in Block, AppendBlock(b), Current,
         ino'[data] \in Seq(Cell), Len(ino'[data]) = Len(ino[data]) + 1,
         \A n \in 1..Len(ino[data]) : ino'[data][n] = ino[data][n],
         ino'[data][Len(ino[data]) + 1] = [h |-> b.h, id |-> b.id, flags |-> "full"],
         \A i \in Inode \ {data} : ino'[i] = ino[i],
         NEW g \in 1..Len(ino[data]), SnapLocal(g), CopyLocal(g)
  PROVE  SnapLocal(g)' /\ CopyLocal(g)'
<1> DEFINE file  == ino[data]
           r     == [h |-> b.h, id |-> b.id, flags |-> "full"]
           snap  == comp.snap
           ix    == mem.index
           added == AddedSince
<1>0. PICK new, ix2 : new = ino'[data] /\ ix2 = mem'.index
  OBVIOUS
<1>1. /\ alive /\ lock = "free" /\ b.h = TipOf(main) + 1 /\ main' = main \cup {b}
      /\ UNCHANGED <<data, tmp, comp, flips>>
      /\ mem' = [mem EXCEPT
             !.index = [h \in DOMAIN mem.index \cup {b.h} |->
                          IF h = b.h THEN [off |-> mem.size + 1, flags |-> "full"] ELSE mem.index[h]],
             !.size = mem.size + 1]
  BY DEF AppendBlock
<1>2. /\ file \in Seq(Cell) /\ ix \in Indexes /\ snap \in Indexes /\ flips \in Nat
      /\ main \in SUBSET Block /\ loop.pc = "idle" /\ comp.pc \notin {"data", "done"}
      /\ mem \in [index : Indexes, epoch : Nat, size : Nat, seq : Nat]
      /\ comp.pc \in {"open", "write", "catchup"} /\ Len(file) \in Nat
  BY <1>1, Known DEF Current
<1>3. /\ mem.size = Len(file) /\ Lists(ix, file, Len(file)) /\ Stored = main /\ Ordered(file)
      /\ Held(file) \subseteq main
  BY <1>1, <1>2 DEF MemLocal, DataLocal, Renamed, Serves, Stored
<1>4. /\ ix2 = [h \in DOMAIN ix \cup {b.h} |->
                  IF h = b.h THEN [off |-> Len(file) + 1, flags |-> "full"] ELSE ix[h]]
      /\ mem'.epoch = mem.epoch
  BY <1>0, <1>1, <1>2, <1>3
<1>5. /\ b.h \in Height /\ b.h \in Nat /\ b \in main' /\ main' \in SUBSET Block
      /\ TipOf(main) \in Height \cup {-1} /\ TipOf(main) \in Int
      /\ \A c \in main : c.h \in Height /\ c.h \in Nat /\ c.h < b.h
      /\ TipOf(main') = b.h
  <2>1. /\ \A k \in Height : k \in Nat
        /\ b.h \in Height /\ main' \in SUBSET Block /\ b \in main'
    BY <1>1, <1>2, StorageAssumption DEF Block, Height
  <2>2. TipOf(main) \in Height \cup {-1} /\ \A c \in main : c.h \in Height /\ c.h <= TipOf(main)
    BY <1>2, TipIs
  <2>3. TipOf(main) \in Int /\ \A c \in main : c.h < b.h
    BY <1>1, <2>1, <2>2
  <2>4. \A c \in main' : c.h <= b.h
    BY <1>1, <2>1, <2>2, <2>3
  <2>5. TipOf(main') = b.h
    BY <2>1, <2>4, TipIs
  <2> QED BY <2>1, <2>2, <2>3, <2>5
<1>6. /\ new \in Seq(Cell) /\ Len(new) = Len(file) + 1 /\ Len(file) + 1 \in 1..Len(new)
      /\ \A n \in 1..Len(file) : new[n] = file[n]
      /\ new[Len(file) + 1] = r /\ IsRecord(r) /\ r.h = b.h /\ At(r) = b
  <2>1. r \in Record /\ r.h = b.h /\ r.id = b.id /\ b = [h |-> b.h, id |-> b.id]
    BY DEF Record, Block, Flags
  <2> HIDE DEF r
  <2> QED BY <1>0, <1>2, <2>1, Cells DEF At, r
<1> HIDE DEF file, r, snap, ix
\* A live entry is not of the name of the new block.
<1>7. /\ \A k \in DOMAIN ix : k \in Nat /\ ix[k].off \in 1..Len(file)
      /\ \A k \in LiveOf(ix, DOMAIN ix, file) : k < b.h
  <2>1. \A k \in DOMAIN ix : k \in Nat /\ ix[k].off \in 1..Len(file)
    BY <1>2, <1>3, Listed
  <2>2. ASSUME NEW k \in LiveOf(ix, DOMAIN ix, file) PROVE k < b.h
    <3>1. k \in Nat /\ ix[k].off \in Live(file) /\ k <= file[ix[k].off].h
      BY <1>2, <1>3, <2>1, Listed
    <3>2. At(file[ix[k].off]) \in main /\ At(file[ix[k].off]).h = file[ix[k].off].h
          /\ file[ix[k].off].h \in Nat
      BY <1>2, <1>3, <3>1, LiveCells
    <3>3. file[ix[k].off].h < b.h
      BY <1>5, <3>2
    <3> QED BY <1>5, <3>1, <3>2, <3>3
  <2> QED BY <2>1, <2>2
<1>8. /\ \A k \in DOMAIN ix : k # b.h => k \in DOMAIN ix2 /\ ix2[k] = ix[k]
                                 /\ new[ix2[k].off] = file[ix[k].off]
      /\ b.h \in DOMAIN ix2 /\ ix2[b.h].off = Len(file) + 1 /\ new[ix2[b.h].off] = r
      /\ DOMAIN ix2 = DOMAIN ix \cup {b.h}
  BY <1>4, <1>6, <1>7
<1>9. /\ Lists(snap, file, g) /\ DOMAIN snap \subseteq DOMAIN ix
      /\ \A k \in added : ix[k].off > g /\ (IsRecord(file[ix[k].off]) => file[ix[k].off].h = k)
      /\ Few(Gone(main, Saved) \cup Above(snap, main), flips)
      /\ added = DOMAIN ix \ DOMAIN snap
  BY DEF SnapLocal, AddedSince, file, snap, ix
<1>10. g \in Nat /\ g <= Len(file) /\ g <= Len(new) /\ \A n \in 1..g : new[n] = file[n]
  BY <1>2, <1>6 DEF file
<1>11. /\ Lists(snap, new, g)
       /\ \A S \in SUBSET DOMAIN snap : /\ LiveOf(snap, S, new) = LiveOf(snap, S, file)
                                        /\ BlocksOf(snap, S, new) = BlocksOf(snap, S, file)
  <2>1. /\ file \in Seq(Cell) /\ new \in Seq(Cell) /\ snap \in Indexes /\ Lists(snap, file, g)
        /\ g \in Nat /\ g <= Len(file) /\ g <= Len(new) /\ \A n \in 1..g : new[n] = file[n]
    BY <1>2, <1>6, <1>9, <1>10
  <2> QED BY ONLY <2>1, SameListing
<1> DEFINE more == DOMAIN ix2 \ DOMAIN snap
<1>12. AddedSince' = more
  BY <1>0, <1>1 DEF AddedSince, snap
<1>13. \A k \in more : k # b.h => k \in added
  BY <1>8, <1>9
<1>14. ASSUME NEW k \in more
       PROVE  ix2[k].off > g /\ (IsRecord(new[ix2[k].off]) => new[ix2[k].off].h = k)
  <2>1. CASE k = b.h
    BY <1>2, <1>6, <1>8, <1>10, <2>1
  <2>2. CASE k # b.h
    BY <1>8, <1>9, <1>13, <2>2
  <2> QED BY <2>1, <2>2
<1>15. \A k \in LiveOf(ix, added, file) :
          k \in LiveOf(ix2, more, new) /\ new[ix2[k].off] = file[ix[k].off]
  <2> SUFFICES ASSUME NEW k \in LiveOf(ix, added, file)
               PROVE  k \in LiveOf(ix2, more, new) /\ new[ix2[k].off] = file[ix[k].off]
    OBVIOUS
  <2>1. k \in added /\ k \in DOMAIN ix /\ IsRecord(file[ix[k].off]) /\ k \in LiveOf(ix, DOMAIN ix, file)
    BY <1>9 DEF LiveOf
  <2>2. k # b.h
    BY <1>5, <1>7, <2>1
  <2> QED BY <1>8, <1>9, <2>1, <2>2 DEF LiveOf
<1>16. BlocksOf(ix, added, file) \subseteq BlocksOf(ix2, more, new)
  BY <1>15 DEF BlocksOf
<1>17. b.h \notin DOMAIN snap => b \in BlocksOf(ix2, more, new)
  BY <1>6, <1>8 DEF BlocksOf, LiveOf
<1>18. ToCopy \in SUBSET DOMAIN snap /\ ToCopy' = ToCopy
  BY <1>1, Known DEF ToCopy, snap
<1>19. comp.pc # "open" /\ tmp # 0 => ino'[tmp] = ino[tmp]
  BY Known
<1>20. comp.pc # "open" => tmp # 0
  BY <1>2 DEF CopyLocal
<1>21. Saved' = (IF comp.pc = "open" THEN {} ELSE Held(ino[tmp]))
                \cup BlocksOf(snap, ToCopy, file) \cup BlocksOf(ix2, more, new)
  <2>1. Saved' = (IF comp.pc = "open" THEN {} ELSE Held(ino'[tmp]))
                \cup BlocksOf(snap, ToCopy, new) \cup BlocksOf(ix2, more, new)
    BY <1>0, <1>1, <1>12, <1>18 DEF Saved, snap
  <2> HIDE DEF more
  <2> QED BY <1>11, <1>18, <1>19, <1>20, <2>1
<1>22. Saved \subseteq Saved' /\ (b.h \notin DOMAIN snap => b \in Saved')
  <2>1. Saved = (IF comp.pc = "open" THEN {} ELSE Held(ino[tmp]))
                \cup BlocksOf(snap, ToCopy, file) \cup BlocksOf(ix, added, file)
    BY DEF Saved, file, ix, snap
  <2> HIDE DEF more, added
  <2> QED BY <1>16, <1>17, <1>21, <2>1
<1>23. Gone(main', Saved') \cup Above(snap, main')
         \subseteq Gone(main, Saved) \cup Above(snap, main)
  <2>1. ASSUME NEW k \in Above(snap, main') PROVE k \in Above(snap, main)
    <3>1. k \in DOMAIN snap /\ k > b.h /\ k \in Nat
      BY <1>5, <1>7, <1>9 DEF Above
    <3> QED BY <1>1, <1>5, <3>1 DEF Above
  <2>2. ASSUME NEW c \in main' \ Saved' PROVE c.h \in Gone(main, Saved) \cup Above(snap, main)
    <3>1. CASE c \in main
      BY <1>22, <2>2, <3>1 DEF Gone
    <3>2. CASE c \notin main
      <4>1. c = b /\ b.h \in DOMAIN snap
        BY <1>1, <1>22, <2>2, <3>2
      <4>2. b.h > TipOf(main)
        BY <1>1, <1>5
      <4> QED BY <4>1, <4>2 DEF Above
    <3> QED BY <3>1, <3>2
  <2> QED BY <2>1, <2>2 DEF Gone
<1>24. Few(Gone(main', Saved') \cup Above(snap, main'), flips)
  <2>1. Gone(main, Saved) \cup Above(snap, main) \in SUBSET Height
    BY <1>2, Losses
  <2> QED BY <1>2, <1>9, <1>23, <2>1, FewLess
<1>25. SnapLocal(g)'
  <2>1. DOMAIN snap \subseteq DOMAIN ix2
    BY <1>8, <1>9
  <2> HIDE DEF more
  <2> QED BY <1>0, <1>1, <1>11, <1>12, <1>14, <1>24, <2>1 DEF SnapLocal, snap
<1>26. CopyLocal(g)'
  <2> SUFFICES ASSUME comp.pc \in {"write", "catchup"} PROVE CopyLocal(g)'
    BY <1>1 DEF CopyLocal
  <2>1. /\ tmp # 0 /\ comp.epoch = mem.epoch + 1
        /\ Fresh(ino[tmp], comp.pos - 1, comp.epoch)
        /\ \A n \in Live(ino[tmp]) :
              /\ \A k \in LiveOf(snap, ToCopy, file) : ino[tmp][n].h < file[snap[k].off].h
              /\ \A k \in LiveOf(ix, added, file) : ino[tmp][n].h < k
    BY DEF CopyLocal, file, ix, snap
  <2>2. ino'[tmp] = ino[tmp] /\ ino[tmp] \in Seq(Cell)
    BY <1>19, <2>1, Known
  <2>3. Fresh(ino[tmp], comp.pos - 1, comp.epoch)'
    <3>1. Held(ino[tmp]) \subseteq main'
      BY <1>1, <2>1 DEF Fresh
    <3> QED BY <1>1, <2>1, <2>2, <3>1 DEF Fresh
  <2>4. ASSUME NEW n \in Live(ino[tmp]), NEW k \in LiveOf(ix2, more, new) PROVE ino[tmp][n].h < k
    <3>1. CASE k = b.h
      <4>1. At(ino[tmp][n]) \in main /\ At(ino[tmp][n]).h = ino[tmp][n].h
        BY <2>1, <2>2, LiveCells DEF Fresh
      <4> QED BY <1>5, <3>1, <4>1
    <3>2. CASE k # b.h
      <4>1. k \in added /\ k \in DOMAIN ix /\ IsRecord(new[ix2[k].off])
        BY <1>9, <1>13, <3>2 DEF LiveOf
      <4>2. k \in LiveOf(ix, added, file)
        BY <1>8, <3>2, <4>1 DEF LiveOf
      <4> QED BY <2>1, <4>2
    <3> QED BY <3>1, <3>2
  <2>5. ASSUME NEW n \in Live(ino[tmp]), NEW k \in LiveOf(snap, ToCopy, new)
        PROVE  ino[tmp][n].h < new[snap[k].off].h
    <3>1. k \in LiveOf(snap, ToCopy, file) /\ k \in DOMAIN snap
      BY <1>11, <1>18 DEF LiveOf
    <3>2. snap[k].off \in 1..g
      <4>1. snap[k].off \in 2..g
        BY <1>9, <3>1 DEF Lists
      <4> QED BY <4>1
    <3> QED BY <1>10, <2>1, <3>1, <3>2
  <2> HIDE DEF more
  <2> QED BY <1>0, <1>1, <1>4, <1>12, <1>18, <2>1, <2>2, <2>3, <2>4, <2>5 DEF CopyLocal, snap
<1> QED BY <1>25, <1>26

\* append, whether it returns or the process dies at its end.
LEMMA AppendLocal ==
  ASSUME Shape, Shape', Local, NEW b \in Block, AppendBlock(b) \/ AppendDies(b)
  PROVE  Local'
<1> DEFINE file  == ino[data]
           r     == [h |-> b.h, id |-> b.id, flags |-> "full"]
           ix    == mem.index
<1>0. DataLocal /\ MemLocal /\ LoopLocal /\ CompLocal
  BY DEF Local
<1>1. /\ alive /\ lock = "free" /\ b.h = TipOf(main) + 1
      /\ UNCHANGED <<data, tmp, idx, idxTmp, flips>>
  BY DEF AppendBlock, AppendDies
<1>2. /\ file \in Seq(Cell) /\ ix \in Indexes /\ flips \in Nat /\ idx \in IndexFile
      /\ main \in SUBSET Block /\ loop.pc = "idle" /\ comp.pc \notin {"data", "done"}
      /\ mem \in [index : Indexes, epoch : Nat, size : Nat, seq : Nat]
      /\ Len(file) \in Nat /\ data \in Inode /\ ino \in [Inode -> Seq(Cell)]
  BY <1>1, Known
<1>3. /\ mem.epoch = file[1].epoch /\ mem.size = Len(file)
      /\ Serves(ix, file, main, flips) /\ Lists(ix, file, Len(file))
      /\ Few(Dead(ix, file), flips)
      /\ Few(Gone(main, Held(file)) \cup Above(ix, main), flips)
      /\ Stored = main /\ Ordered(file) /\ Describes(idx, file, flips)
      /\ Held(file) \subseteq main
      /\ \A c, d \in main : c.h = d.h => c = d
  BY <1>0, <1>1, <1>2 DEF MemLocal, DataLocal, Renamed, Serves, Stored
<1>5. /\ b.h \in Height /\ b.h \in Nat
      /\ TipOf(main) \in Int
      /\ \A c \in main : c.h \in Nat /\ c.h < b.h
      /\ TipOf(main \cup {b}) = b.h
  <2>1. /\ \A k \in Height : k \in Nat
        /\ b.h \in Height /\ main \cup {b} \in SUBSET Block
    BY <1>2, StorageAssumption DEF Block, Height
  <2>2. TipOf(main) \in Height \cup {-1} /\ \A c \in main : c.h \in Height /\ c.h <= TipOf(main)
    BY <1>2, TipIs
  <2>3. TipOf(main) \in Int /\ \A c \in main : c.h < b.h
    BY <1>1, <2>1, <2>2
  <2>4. b \in main \cup {b} /\ \A c \in main \cup {b} : c.h <= b.h
    BY <2>1, <2>2, <2>3
  <2>5. TipOf(main \cup {b}) = b.h
    BY <2>1, <2>4, TipIs
  <2> QED BY <2>1, <2>2, <2>3, <2>5
<1>6. /\ r \in Record /\ r \in Cell /\ IsRecord(r) /\ r.h = b.h /\ r.flags = "full" /\ At(r) = b
      /\ Torn \in Cell /\ ~ IsRecord(Torn)
  <2>1. r \in Record /\ r.h = b.h /\ r.id = b.id /\ r.flags = "full" /\ b = [h |-> b.h, id |-> b.id]
    BY DEF Record, Block, Flags
  <2> HIDE DEF r
  <2> QED BY <2>1, Cells DEF At, Cell
<1> HIDE DEF file, r, ix
<1>7. \A n \in Live(file) : file[n].h < b.h
  <2>1. \A n \in Live(file) : At(file[n]) \in main /\ At(file[n]).h = file[n].h
    BY <1>2, <1>3, LiveCells
  <2> QED BY <1>5, <2>1
\* A live entry is not of the name of the new block.
<1>8. /\ \A k \in DOMAIN ix : k \in Nat /\ ix[k].off \in 1..Len(file)
      /\ \A k \in LiveOf(ix, DOMAIN ix, file) : k \in DOMAIN ix /\ k < b.h
  <2>1. \A k \in DOMAIN ix : k \in Nat /\ ix[k].off \in 1..Len(file)
    BY <1>2, <1>3, Listed
  <2>2. ASSUME NEW k \in LiveOf(ix, DOMAIN ix, file) PROVE k \in DOMAIN ix /\ k < b.h
    <3>1. k \in DOMAIN ix /\ k \in Nat /\ ix[k].off \in Live(file) /\ k <= file[ix[k].off].h
      BY <1>2, <1>3, <2>1, Listed
    <3>2. file[ix[k].off].h \in Nat /\ file[ix[k].off].h < b.h
      BY <1>2, <1>7, <3>1, LiveCells
    <3> QED BY <1>5, <3>1, <3>2
  <2> QED BY <2>1, <2>2
\* The data file with one cell more, and the history with or without the block.
<1>9. ASSUME NEW c \in {r, Torn}, NEW new, new = Append(file, c)
      PROVE  /\ new \in Seq(Cell) /\ Len(new) = Len(file) + 1 /\ new[Len(file) + 1] = c
             /\ \A n \in 1..Len(file) : new[n] = file[n]
             /\ Ordered(new) /\ new[1] = file[1] /\ Describes(idx, new, flips)
             /\ Held(new) = Held(file) \cup (IF c = r THEN {b} ELSE {})
  <2>1. c \in Cell /\ (IsRecord(c) <=> c = r)
    BY <1>6
  <2>2. /\ new \in Seq(Cell) /\ Len(new) = Len(file) + 1 /\ new[Len(file) + 1] = c
        /\ \A n \in 1..Len(file) : new[n] = file[n]
    BY <1>2, <1>9, <2>1
  <2>3. Len(file) >= 1 /\ IsHeader(file[1]) /\ Rising(file)
    BY <1>3 DEF Ordered
  <2>4. new[1] = file[1] /\ Len(new) >= 1 /\ Len(file) <= Len(new)
    BY <1>2, <2>2, <2>3
  <2>5. IsRecord(new[Len(new)]) => \A n \in Live(file) : file[n].h < new[Len(new)].h
    BY <1>6, <1>7, <2>1, <2>2
  <2>6. /\ Held(new) = Held(file) \cup (IF IsRecord(new[Len(new)]) THEN {At(new[Len(new)])} ELSE {})
        /\ Rising(new)
    BY <1>2, <2>2, <2>3, <2>5, OneMore
  <2>7. Held(new) = Held(file) \cup (IF c = r THEN {b} ELSE {})
    BY <1>6, <2>1, <2>2, <2>6
  <2>8. Describes(idx, new, flips)
    BY <1>2, <1>3, <2>2, <2>3, <2>4, DescribesLonger
  <2> QED BY <2>2, <2>3, <2>4, <2>6, <2>7, <2>8 DEF Ordered
<1>10. \A c, d \in main \cup {b} : c.h = d.h => c = d
  BY <1>3, <1>5
<1>11. CASE AppendBlock(b)
  <2>0. PICK new, ix2 : new = ino'[data] /\ ix2 = mem'.index
    OBVIOUS
  <2>1. /\ ino' = [ino EXCEPT ![data] = Append(@, r)]
        /\ mem' = [mem EXCEPT
             !.index = [h \in DOMAIN mem.index \cup {b.h} |->
                          IF h = b.h THEN [off |-> mem.size + 1, flags |-> "full"] ELSE mem.index[h]],
             !.size = mem.size + 1]
        /\ main' = main \cup {b}
        /\ UNCHANGED <<loop, comp, alive>>
    BY <1>11 DEF AppendBlock, r
  <2>2. /\ new = Append(file, r)
        /\ \A i \in Inode \ {data} : ino'[i] = ino[i]
    BY <1>2, <2>0, <2>1 DEF file
  <2>3. /\ ix2 = [h \in DOMAIN ix \cup {b.h} |->
                  IF h = b.h THEN [off |-> Len(file) + 1, flags |-> "full"] ELSE ix[h]]
        /\ mem'.epoch = mem.epoch /\ mem'.seq = mem.seq /\ mem'.size = Len(file) + 1
    BY <1>2, <1>3, <2>0, <2>1 DEF ix
  <2>4. /\ new \in Seq(Cell) /\ Len(new) = Len(file) + 1 /\ new[Len(file) + 1] = r
        /\ \A n \in 1..Len(file) : new[n] = file[n]
        /\ Ordered(new) /\ new[1] = file[1] /\ Describes(idx, new, flips)
        /\ Held(new) = Held(file) \cup {b}
    BY <1>9, <2>2
  <2>5. Stored' = main \cup {b} /\ loop'.pc = "idle" /\ comp'.pc = comp.pc
    BY <1>2, <2>1 DEF Stored
  <2>6. DataLocal'
    <3>1. Held(new) \subseteq main \cup {b}
      BY <1>3, <2>4
    <3> QED BY <1>1, <1>10, <2>0, <2>4, <2>5, <3>1 DEF DataLocal
  <2>7. ix2 \in Indexes
    BY <2>0, Known DEF Shape, FilesTyped
  <2>8. Lists(ix2, new, Len(file) + 1) /\ Dead(ix2, new) \subseteq Dead(ix, file)
    <3> DEFINE g == Len(file)
               name == [n \in g + 1..g + 1 |-> b.h]
    <3>1. \A n \in g + 1..g + 1 : n = g + 1 /\ name[n] = b.h
      BY <1>2
    <3>2. g \in Nat /\ g + 1 \in Nat /\ g <= Len(file) /\ g <= g + 1 /\ g + 1 <= Len(new) /\ g + 1 >= 2
          /\ g + 1 \in g + 1..g + 1
      BY <1>2, <1>3, <2>4 DEF Ordered
    <3>3. new[g + 1] \in Record /\ new[g + 1].h = b.h /\ new[g + 1].flags = "full"
          /\ b.h \in DOMAIN ix2 /\ ix2[b.h] = [off |-> g + 1, flags |-> "full"] /\ b.h <= b.h
      BY <1>5, <1>6, <2>3, <2>4
    <3>4. \A k \in DOMAIN ix : k # b.h => k \in DOMAIN ix2 /\ ix2[k] = ix[k]
      BY <2>3
    <3>5. \A k \in DOMAIN ix2 : k # b.h => k \in DOMAIN ix /\ ix2[k] = ix[k]
      BY <2>3
    <3>6. \A n \in 1..g : new[n] = file[n]
      BY <2>4
    <3> HIDE DEF name, g
    <3>7. \A m, n \in g + 1..g + 1 : ~ m < n
      BY <3>1, <3>2
    <3>8. \A k \in LiveOf(ix, DOMAIN ix, file) : k # b.h
      BY <1>5, <1>8
    <3>9. Grown(ix, file, g, ix2, new, g + 1, name)
      <4>1. \A n \in g + 1..g + 1 : /\ new[n] \in Record /\ n >= 2
                                    /\ name[n] \in DOMAIN ix2 /\ name[n] <= new[n].h
                                    /\ ix2[name[n]] = [off |-> n, flags |-> new[n].flags]
        BY <3>1, <3>2, <3>3
      <4>2. \A k \in LiveOf(ix, DOMAIN ix, file) : \A n \in g + 1..g + 1 : k < name[n]
        BY <1>8, <3>1
      <4>3. \A k \in DOMAIN ix2 :
               (k \in DOMAIN ix /\ ix2[k] = ix[k]) \/ (\E n \in g + 1..g + 1 : k = name[n])
        BY <3>1, <3>2, <3>5
      <4>4. \A k \in LiveOf(ix, DOMAIN ix, file) : k \in DOMAIN ix2 /\ ix2[k] = ix[k]
        BY <1>8, <3>4, <3>8
      <4> QED BY <3>2, <3>6, <3>7, <4>1, <4>2, <4>3, <4>4 DEF Grown
    <3>10. Lists(ix2, new, g + 1) /\ Dead(ix2, new) \subseteq Dead(ix, file)
      <4>1. g \in Nat /\ g + 1 \in Nat /\ Lists(ix, file, g) /\ file \in Seq(Cell) /\ new \in Seq(Cell)
        BY <1>2, <1>3, <2>4, <3>2 DEF g
      <4> QED BY <1>2, <2>7, <3>9, <4>1, ListsMore
    <3> QED BY <3>10 DEF g
  <2>9. Gone(main \cup {b}, Held(new)) \cup Above(ix2, main \cup {b})
           \subseteq Gone(main, Held(file)) \cup Above(ix, main)
    <3>1. Gone(main \cup {b}, Held(new)) \subseteq Gone(main, Held(file))
      BY <2>4 DEF Gone
    <3>2. ASSUME NEW k \in Above(ix2, main \cup {b}) PROVE k \in Above(ix, main)
      <4>1. k \in DOMAIN ix2 /\ k > b.h
        BY <1>5 DEF Above
      <4>2. k \in DOMAIN ix /\ k \in Nat
        BY <1>5, <1>8, <2>3, <4>1
      <4>3. k > TipOf(main)
        BY <1>1, <1>5, <4>1, <4>2
      <4> QED BY <4>2, <4>3 DEF Above
    <3> QED BY <3>1, <3>2
  <2>10. Serves(ix2, new, main \cup {b}, flips)
    <3>1. /\ Gone(main, Held(file)) \cup Above(ix, main) \in SUBSET Height
          /\ Dead(ix, file) \in SUBSET Height
      BY <1>2, Losses
    <3>2. Few(Dead(ix2, new), flips)
      BY <1>2, <1>3, <2>8, <3>1, FewLess
    <3>3. Few(Gone(main \cup {b}, Held(new)) \cup Above(ix2, main \cup {b}), flips)
      BY <1>2, <1>3, <2>9, <3>1, FewLess
    <3> QED BY <2>4, <2>8, <3>2, <3>3 DEF Serves
  <2>11. MemLocal'
    <3>1. ~ Renamed'
      BY <1>2, <2>5 DEF Renamed
    <3> QED BY <1>1, <1>3, <2>0, <2>3, <2>4, <2>5, <2>10, <3>1 DEF MemLocal
  <2>12. LoopLocal'
    BY <2>5 DEF LoopLocal
  <2>13. CompLocal'
    <3>1. comp'.pc \in {"open", "write", "catchup"} => comp'.seq <= mem'.seq
      BY <1>0, <2>1, <2>3 DEF CompLocal
    <3>2. ASSUME Current' PROVE \E g \in 1..Len(ino'[data]) : SnapLocal(g)' /\ CopyLocal(g)'
      <4>1. Current
        BY <2>1, <2>3, <3>2 DEF Current
      <4>2. PICK g \in 1..Len(file) : SnapLocal(g) /\ CopyLocal(g)
        BY <1>0, <4>1 DEF CompLocal, file
      <4>3. SnapLocal(g)' /\ CopyLocal(g)'
        BY <1>0, <1>11, <2>0, <2>2, <2>4, <4>1, <4>2, AppendUnderCopy DEF file, r
      <4>4. g \in 1..Len(new)
        BY <1>2, <2>4
      <4> QED BY <2>0, <4>3, <4>4
    <3> QED BY <1>1, <1>2, <2>5, <3>1, <3>2 DEF CompLocal
  <2> QED BY <2>6, <2>11, <2>12, <2>13 DEF Local
<1>12. CASE AppendDies(b)
  <2>0. PICK new : new = ino'[data]
    OBVIOUS
  <2>1. /\ alive' = FALSE /\ loop' = Idle /\ comp' = Idle
        /\ \/ ino' = [ino EXCEPT ![data] = Append(@, Torn)] /\ main' = main
           \/ ino' = [ino EXCEPT ![data] = Append(@, r)] /\ main' = main \cup {b}
    BY <1>12 DEF AppendDies, r
  <2>2. loop'.pc = "idle" /\ comp'.pc = "idle" /\ ~ alive' /\ ~ Renamed' /\ Stored' = main'
    BY <2>1, Points DEF Renamed, Stored
  <2>3. MemLocal' /\ LoopLocal' /\ CompLocal'
    BY <2>2 DEF MemLocal, LoopLocal, CompLocal, Current
  <2>4. \/ new = Append(file, Torn) /\ main' = main
        \/ new = Append(file, r) /\ main' = main \cup {b}
    BY <1>2, <2>0, <2>1 DEF file
  <2>5. Ordered(new) /\ Describes(idx, new, flips) /\ Held(new) \subseteq main'
    <3>1. CASE new = Append(file, Torn) /\ main' = main
      <4>1. Ordered(new) /\ Describes(idx, new, flips) /\ Held(new) = Held(file)
        BY <1>6, <1>9, <3>1
      <4> QED BY <1>3, <3>1, <4>1
    <3>2. CASE new = Append(file, r) /\ main' = main \cup {b}
      <4>1. Ordered(new) /\ Describes(idx, new, flips) /\ Held(new) = Held(file) \cup {b}
        BY <1>9, <3>2
      <4> QED BY <1>3, <3>2, <4>1
    <3> QED BY <2>4, <3>1, <3>2
  <2>6. \A c, d \in main' : c.h = d.h => c = d
    BY <1>3, <1>10, <2>4
  <2>7. DataLocal'
    BY <1>1, <2>0, <2>2, <2>5, <2>6 DEF DataLocal
  <2> QED BY <2>3, <2>7 DEF Local
<1> QED BY <1>11, <1>12

\* A file with a record for each height is ordered, and its index leads to all of them.
LEMMA GoodServes ==
  ASSUME NEW file \in Seq(Cell), GoodTo(file, Len(file))
  PROVE  /\ Ordered(file) /\ Held(file) = BlocksTo(file, Len(file))
         /\ Lists(IndexTo(file, Len(file)), file, Len(file))
         /\ Dead(IndexTo(file, Len(file)), file) = {}
<1> DEFINE g  == Len(file)
           ix == IndexTo(file, g)
<1>1. /\ g \in Nat /\ g >= 1 /\ IsHeader(file[1])
      /\ \A n \in 2..g : file[n] \in Record /\ file[n].h = n - 2 /\ IsRecord(file[n])
  BY Cells DEF GoodTo
<1>2. /\ \A h \in 0..g - 2 : /\ h + 2 \in 2..g
                             /\ ix[h] = [off |-> h + 2, flags |-> file[h + 2].flags]
      /\ DOMAIN ix = 0..g - 2
  <2>1. g \in Nat /\ g \in Nat \ {0}
    BY <1>1
  <2> HIDE DEF g
  <2>2. GoodTo(file, g)
    BY DEF g
  <2> QED BY <2>1, <2>2, GoodIndex, HeightsOfFile
<1>3. 1 \in 1..g /\ ~ IsRecord(file[1]) /\ \A n \in 1..g : n = 1 \/ n \in 2..g
  <2>1. 1 \in 1..g /\ \A n \in 1..g : n = 1 \/ n \in 2..g
    BY <1>1
  <2>2. file[1] \in Cell
    BY <2>1
  <2> QED BY <1>1, <2>1, <2>2, Cells
<1> HIDE DEF g, ix
<1>4. Live(file) = 2..g
  <2>1. \A n \in 2..g : n \in 1..g
    BY <1>1
  <2> QED BY <1>1, <1>3, <2>1 DEF Live, g
<1>5. Rising(file)
  BY <1>1, <1>4 DEF Rising
<1>6. Held(file) = BlocksTo(file, g)
  BY <1>1, <1>4 DEF Held, BlocksTo, At
<1>7. \A k \in DOMAIN ix : /\ ix[k].off = k + 2 /\ ix[k].off \in 2..g
                           /\ ix[k].flags = file[ix[k].off].flags
                           /\ file[ix[k].off].h = k /\ k \in Nat /\ IsRecord(file[ix[k].off])
  <2> SUFFICES ASSUME NEW k \in DOMAIN ix
               PROVE  /\ ix[k].off = k + 2 /\ ix[k].off \in 2..g
                      /\ ix[k].flags = file[ix[k].off].flags
                      /\ file[ix[k].off].h = k /\ k \in Nat /\ IsRecord(file[ix[k].off])
    OBVIOUS
  <2>1. k \in Nat /\ k + 2 \in 2..g /\ ix[k] = [off |-> k + 2, flags |-> file[k + 2].flags]
    BY <1>2
  <2>2. ix[k].off = k + 2 /\ ix[k].flags = file[k + 2].flags
    BY <2>1
  <2>3. file[k + 2].h = k
    BY <1>1, <2>1
  <2> QED BY <1>1, <2>1, <2>2, <2>3
<1>8. Dead(ix, file) = {}
  BY <1>7 DEF Dead
<1>9. Lists(ix, file, g)
  <2>1. ASSUME NEW n \in 2..g PROVE \E k \in DOMAIN ix : ix[k].off = n
    <3>1. n - 2 \in 0..g - 2 /\ (n - 2) + 2 = n
      BY <1>1
    <3> QED BY <1>2, <1>7, <3>1
  <2>2. \A k, l \in DOMAIN ix : k < l => ix[k].off < ix[l].off
    BY <1>7
  <2>3. \A k \in DOMAIN ix : ix[k].flags = file[ix[k].off].flags /\ k <= file[ix[k].off].h
    BY <1>7
  <2> QED BY <1>7, <2>1, <2>2, <2>3 DEF Lists, LiveOf
<1> QED BY <1>1, <1>5, <1>6, <1>8, <1>9 DEF Ordered, g, ix

\* What replace_all has written serves the new chain.
LEMMA WrittenServes ==
  ASSUME NEW file \in Seq(Cell), loop \in Replacing, Written(file, TipOf(loop.chain) + 2),
         NewIndexOf(loop.chain) \in Indexes, NEW n \in Nat
  PROVE  /\ Ordered(file) /\ Held(file) = loop.chain /\ Len(file) = TipOf(loop.chain) + 2
         /\ file[1].epoch = loop.epoch
         /\ \A b, c \in loop.chain : b.h = c.h => b = c
         /\ Serves(NewIndexOf(loop.chain), file, loop.chain, n)
<1> DEFINE g == TipOf(loop.chain) + 2
<1>1. loop.chain \in SUBSET Block /\ \A b, c \in loop.chain : b.h = c.h => b = c
  BY ChainShape DEF Replacing
<1>2. /\ g \in Nat \ {0} /\ GoodTo(file, g) /\ Len(file) = g
      /\ file[1].epoch = loop.epoch
      /\ BlocksTo(file, g) = loop.chain
      /\ \A i \in 2..g : file[i].flags = "full"
  BY WrittenIsGood
<1> HIDE DEF g
<1>3. {b.h : b \in loop.chain} = 0..g - 2
  BY <1>2, HeightsOfFile
<1>4. NewIndexOf(loop.chain) = IndexTo(file, g)
  <2>1. NewIndexOf(loop.chain) = [h \in 0..g - 2 |-> [off |-> h + 2, flags |-> "full"]]
    BY <1>3 DEF NewIndexOf
  <2>2. \A h \in 0..g - 2 : h + 2 \in 2..g
    BY <1>2
  <2>3. \A h \in 0..g - 2 : file[h + 2].flags = "full"
    BY <1>2, <2>2
  <2> QED BY <2>1, <2>3 DEF IndexTo
<1>5. /\ Ordered(file) /\ Held(file) = loop.chain
      /\ Lists(NewIndexOf(loop.chain), file, Len(file))
      /\ Dead(NewIndexOf(loop.chain), file) = {}
  BY <1>2, <1>4, GoodServes
<1>6. Few(Dead(NewIndexOf(loop.chain), file), n)
  BY <1>5, FewNone
<1>7. Serves(NewIndexOf(loop.chain), file, loop.chain, n)
  <2>1. Held(file) \subseteq loop.chain /\ loop.chain \subseteq Held(file)
    BY <1>5
  <2> QED BY <1>1, <1>5, <1>6, <2>1, ServesAll
<1> QED BY <1>1, <1>2, <1>5, <1>7 DEF g

\* Every step of replace_all.
LEMMA ReplaceLocal ==
  ASSUME ~ Overlap, Shape, Shape', Local,
         \/ \E chain \in Chains : ReplaceOpen(chain)
         \/ ReplaceWrite \/ ReplaceIndex \/ ReplaceData \/ ReplaceDone
  PROVE  Local'
<1>1. DataLocal /\ MemLocal /\ LoopLocal /\ CompLocal
  BY DEF Local
<1>2. /\ ino \in [Inode -> Seq(Cell)] /\ data \in Inode /\ data # tmp
      /\ mem.epoch \in Nat /\ mem.seq \in Nat /\ idx.epoch \in Int /\ flips \in Nat
      /\ mem \in [index : Indexes, epoch : Nat, size : Nat, seq : Nat]
      /\ ino[data] \in Seq(Cell)
  BY Known
\* While replace_all runs, the compaction cannot have the snapshot of this chain.
<1>3. ASSUME UNCHANGED comp, loop'.pc # "idle", mem'.seq = mem.seq
      PROVE  CompLocal' /\ comp.pc \notin {"write", "data", "done"}
  <2>1. comp'.pc \notin {"write", "data", "done"}
    BY <1>3 DEF Shape, ThreadsTyped
  <2>2. comp.pc \in {"open", "write", "catchup"} => comp.seq <= mem.seq
    BY <1>1 DEF CompLocal
  <2> QED BY <1>3, <2>1, <2>2 DEF CompLocal, Current
<1>4. ASSUME NEW chain \in Chains, ReplaceOpen(chain) PROVE Local'
  <2>1. /\ loop.pc = "idle" /\ lock = "free" /\ comp.pc \notin {"write", "data", "done"}
        /\ UNCHANGED <<data, idx, idxTmp, mem, comp, alive, main, flips>>
    BY <1>4 DEF ReplaceOpen, Shape, ThreadsTyped
  <2>2. PICK fd \in Inode :
           /\ OpenTmp(fd)
           /\ loop' = [pc |-> "write", fd |-> fd, pos |-> 1, chain |-> chain, epoch |-> NextEpoch]
    BY <1>4 DEF ReplaceOpen
  <2>3. /\ fd # data /\ tmp' = fd
        /\ ino'[data] = ino[data] /\ ino'[fd] = << >>
    BY <2>1, <2>2, OpenTmpIs DEF Shape
  <2>4. loop'.pc = "write" /\ loop'.pos = 1 /\ loop'.epoch = mem.epoch + 1
    BY <2>2 DEF NextEpoch
  <2>5. DataLocal' /\ MemLocal'
    BY <1>1, <2>1, <2>3, <2>4, LocalFrame DEF Renamed
  <2>6. LoopLocal'
    <3>1. Written(ino[tmp], loop.pos - 1)'
      <4>1. ino'[tmp'] = << >> /\ loop'.pos - 1 = 0 /\ Len(<< >>) = 0
        BY <2>3, <2>4
      <4> QED BY <4>1 DEF Written
    <3> QED BY <2>1, <2>4, <3>1 DEF LoopLocal
  <2>7. CompLocal'
    BY <1>3, <2>1, <2>4
  <2> QED BY <2>5, <2>6, <2>7 DEF Local
<1>5. CASE ReplaceWrite
  <2>1. loop.pc = "write"
    BY <1>5 DEF ReplaceWrite
  <2>2. Written(ino[tmp], loop.pos - 1) /\ loop.epoch = mem.epoch + 1
    BY <1>1, <2>1 DEF LoopLocal
  <2>3. /\ tmp # 0 /\ ino'[data] = ino[data] /\ comp.pc # "done"
        /\ UNCHANGED <<data, tmp, idx, idxTmp, mem, lock, comp, alive, main, flips>>
        /\ loop'.chain = loop.chain /\ loop'.epoch = loop.epoch
        /\ loop'.pc \in {"write", "index"}
        /\ loop'.pc = "write" => Written(ino[tmp], loop.pos - 1)'
        /\ loop'.pc = "index" => Written(ino[tmp], TipOf(loop.chain) + 2)'
    BY <1>5, <2>2, ReplaceWrites
  <2>4. LoopLocal'
    BY <2>2, <2>3 DEF LoopLocal
  <2>5. DataLocal' /\ MemLocal'
    BY <1>1, <2>1, <2>3, LocalFrame DEF Renamed
  <2>6. CompLocal'
    BY <1>3, <2>3
  <2> QED BY <2>4, <2>5, <2>6 DEF Local
<1>6. CASE ReplaceIndex
  <2>1. /\ loop.pc = "index"
        /\ idxTmp' = [epoch |-> loop.epoch, size |-> TipOf(loop.chain) + 2,
                      index |-> NewIndexOf(loop.chain)]
        /\ loop' = [loop EXCEPT !.pc = "data"]
        /\ UNCHANGED <<ino, data, tmp, idx, mem, lock, comp, alive, main, flips>>
    BY <1>6 DEF ReplaceIndex
  <2>2. loop \in Replacing /\ comp.pc # "done"
    BY <2>1, Points DEF Shape, ThreadsTyped, Idle
  <2>3. loop'.pc = "data" /\ loop'.epoch = loop.epoch /\ loop'.chain = loop.chain
    BY <2>1, <2>2 DEF Replacing
  <2>4. DataLocal' /\ MemLocal'
    BY <1>1, <2>1, <2>2, <2>3, LocalFrame DEF Renamed
  <2>5. LoopLocal'
    BY <1>1, <2>1, <2>3 DEF LoopLocal, Written
  <2>6. CompLocal'
    BY <1>3, <2>1, <2>3
  <2> QED BY <2>4, <2>5, <2>6 DEF Local
<1>7. CASE ReplaceData
  <2>0. PICK file : file = ino[tmp]
    OBVIOUS
  <2>1. /\ loop.pc = "data" /\ tmp # 0 /\ data' = tmp /\ tmp' = 0
        /\ loop' = [loop EXCEPT !.pc = "done"] /\ alive
        /\ UNCHANGED <<ino, idx, idxTmp, mem, lock, comp, alive, main, flips>>
    BY <1>7 DEF ReplaceData
  <2>2. loop \in Replacing /\ loop.epoch \in Nat /\ comp.pc # "done"
    BY <2>1, Points DEF Shape, ThreadsTyped, Idle, Replacing
  <2>3. loop'.pc = "done" /\ loop'.epoch = loop.epoch /\ loop'.chain = loop.chain
    BY <2>1, <2>2 DEF Replacing
  <2>4. /\ Written(file, TipOf(loop.chain) + 2) /\ loop.epoch = mem.epoch + 1
        /\ idxTmp = [epoch |-> loop.epoch, size |-> TipOf(loop.chain) + 2,
                     index |-> NewIndexOf(loop.chain)]
    BY <1>1, <2>0, <2>1 DEF LoopLocal
  <2>5. /\ file \in Seq(Cell) /\ NewIndexOf(loop.chain) \in Indexes
        /\ idxTmp.epoch = loop.epoch /\ idxTmp.size = TipOf(loop.chain) + 2
        /\ idxTmp.index = NewIndexOf(loop.chain)
    BY <2>0, <2>1, <2>4, Known
  <2>6. /\ Ordered(file) /\ Held(file) = loop.chain /\ Len(file) = TipOf(loop.chain) + 2
        /\ file[1].epoch = loop.epoch
        /\ \A b, c \in loop.chain : b.h = c.h => b = c
        /\ Serves(NewIndexOf(loop.chain), file, loop.chain, flips)
    BY <1>2, <2>2, <2>4, <2>5, WrittenServes
  <2>7. idx.epoch < loop.epoch
    <3>1. idx.epoch <= mem.epoch
      BY <1>1, <2>1, <2>2 DEF DataLocal, MemLocal, Describes, Renamed
    <3> QED BY <1>2, <2>4, <3>1
  <2>8. ino'[data'] = file /\ Stored' = loop.chain
    BY <2>0, <2>1, <2>3 DEF Stored
  <2>9. DataLocal'
    <3>1. Describes(idx, file, flips)
      BY <1>2, <2>2, <2>6, <2>7 DEF Describes
    <3> QED BY <2>1, <2>6, <2>8, <3>1 DEF DataLocal
  <2>10. MemLocal'
    <3>1. Renamed'
      BY <2>3 DEF Renamed
    <3> QED BY <2>1, <2>5, <2>6, <2>7, <2>8, <3>1 DEF MemLocal
  <2>11. LoopLocal'
    BY <2>1, <2>3, <2>4, <2>6, <2>8 DEF LoopLocal
  <2>12. CompLocal'
    BY <1>3, <2>1, <2>3
  <2> QED BY <2>9, <2>10, <2>11, <2>12 DEF Local
<1>8. CASE ReplaceDone
  <2>0. PICK file : file = ino[data]
    OBVIOUS
  <2>1. /\ loop.pc = "done" /\ alive
        /\ idx' = idxTmp /\ idxTmp' = NoIndex
        /\ mem' = [index |-> idxTmp.index, epoch |-> loop.epoch, size |-> idxTmp.size,
                   seq |-> mem.seq + 1]
        /\ main' = loop.chain
        /\ loop' = Idle
        /\ UNCHANGED <<ino, data, tmp, comp, alive, flips>>
    BY <1>8 DEF ReplaceDone
  <2>2. /\ comp.pc \notin {"write", "data", "done"} /\ loop'.pc = "idle"
    BY <2>1, Points DEF Shape, ThreadsTyped, Idle, Replacing
  <2>3. /\ loop.epoch = file[1].epoch
        /\ idxTmp.epoch = file[1].epoch /\ idxTmp.size = Len(file)
        /\ Serves(idxTmp.index, file, loop.chain, flips)
        /\ Ordered(file) /\ Held(file) \subseteq loop.chain
        /\ \A b, c \in loop.chain : b.h = c.h => b = c
    BY <1>1, <2>0, <2>1 DEF LoopLocal, MemLocal, DataLocal, Renamed, Stored
  <2>4. /\ mem'.index = idxTmp.index /\ mem'.epoch = loop.epoch /\ mem'.size = idxTmp.size
        /\ mem'.seq = mem.seq + 1
        /\ ino'[data'] = file /\ Stored' = loop.chain
    BY <2>0, <2>1, <2>2 DEF Stored
  <2>5. DataLocal'
    <3>1. Len(file) \in 1..Len(file)
      BY <1>2, <2>0, <2>3 DEF Ordered
    <3>2. Describes(idxTmp, file, flips)
      <4>1. idxTmp.epoch <= file[1].epoch
        BY <2>3, Known
      <4> QED BY <2>3, <3>1, <4>1 DEF Describes, Serves
    <3> QED BY <2>1, <2>3, <2>4, <3>2 DEF DataLocal
  <2>6. MemLocal'
    <3>1. ~ Renamed'
      BY <2>1, <2>2 DEF Renamed
    <3> QED BY <2>1, <2>3, <2>4, <3>1 DEF MemLocal
  <2>7. LoopLocal'
    BY <2>2 DEF LoopLocal
  <2>8. CompLocal'
    <3>1. comp.pc \in {"open", "write", "catchup"} => comp.seq <= mem.seq /\ comp.seq \in Nat
      BY <1>1, Known DEF CompLocal
    <3>2. comp.pc \in {"open", "write", "catchup"} => comp.seq <= mem.seq + 1 /\ comp.seq # mem.seq + 1
      BY <1>2, <3>1
    <3> QED BY <2>1, <2>2, <2>4, <3>2 DEF CompLocal, Current
  <2> QED BY <2>5, <2>6, <2>7, <2>8 DEF Local
<1> QED BY <1>4, <1>5, <1>6, <1>7, <1>8

\* What a step of the compaction thread has to keep, when it swaps no files.
LEMMA CompactionLocal ==
  ASSUME Local, loop.pc = "idle", comp.pc # "done", comp'.pc # "done",
         ino'[data] = ino[data], UNCHANGED <<data, idx, mem, loop, alive, main, flips>>,
         CompLocal'
  PROVE  Local'
<1>1. DataLocal' /\ MemLocal'
  BY LocalFrame DEF Local, Renamed
<1>2. LoopLocal'
  BY DEF LoopLocal
<1> QED BY <1>1, <1>2 DEF Local

\* A file without cells, and the index of it.
LEMMA EmptyCopy ==
  /\ Live(<< >>) = {} /\ Held(<< >>) = {} /\ Rising(<< >>)
  /\ Lists(<< >>, << >>, 0)
  /\ \A e : Fresh(<< >>, 0, e)
<1>1. Len(<< >>) = 0 /\ 1..0 = {} /\ 2..0 = {} /\ DOMAIN << >> = {}
  OBVIOUS
<1>2. Live(<< >>) = {}
  BY <1>1 DEF Live
<1>3. Held(<< >>) = {} /\ Rising(<< >>)
  BY <1>2 DEF Held, Rising
<1>4. Lists(<< >>, << >>, 0)
  BY <1>1 DEF Lists, LiveOf
<1>5. \A e : Fresh(<< >>, 0, e)
  BY <1>1, <1>3 DEF Fresh
<1> QED BY <1>2, <1>3, <1>4, <1>5

\* The snapshot and the opening of the tmp file.
LEMMA SnapshotLocal ==
  ASSUME ~ Overlap, Shape, Local, CompactSnapshot \/ CompactOpen
  PROVE  Local'
<1>1. DataLocal /\ MemLocal /\ CompLocal
  BY DEF Local
<1>2. CASE CompactSnapshot
  <2>0. PICK file, ix : file = ino[data] /\ ix = mem.index
    OBVIOUS
  <2>1. /\ alive /\ comp.pc = "idle" /\ lock = "free"
        /\ comp' = [pc |-> "open", snap |-> ix, seq |-> mem.seq]
        /\ UNCHANGED <<ino, data, tmp, idx, idxTmp, mem, lock, loop, alive, main, flips>>
    BY <1>2, <2>0 DEF CompactSnapshot, files
  <2>2. loop.pc = "idle" /\ mem.seq \in Nat /\ file \in Seq(Cell) /\ ix \in Indexes /\ Len(file) \in Nat
    BY <2>0, <2>1, Known
  <2>3. /\ Serves(ix, file, main, flips) /\ Lists(ix, file, Len(file))
        /\ Few(Gone(main, Held(file)) \cup Above(ix, main), flips)
        /\ Ordered(file)
    BY <1>1, <2>0, <2>1, <2>2 DEF MemLocal, DataLocal, Renamed, Serves, Stored
  <2>4. comp'.pc = "open" /\ comp'.snap = ix /\ comp'.seq = mem.seq
    BY <2>1
  <2>5. AddedSince' = {} /\ ToCopy' = DOMAIN ix
    BY <2>0, <2>1, <2>4 DEF AddedSince, ToCopy
  <2>6. Saved' = Held(file)
    <3>1. BlocksOf(ix, DOMAIN ix, file) = Held(file)
      BY <2>2, <2>3, LoadsAll
    <3>2. BlocksOf(ix, {}, file) = {}
      BY DEF BlocksOf, LiveOf
    <3>3. Saved' = {} \cup BlocksOf(ix, DOMAIN ix, file) \cup BlocksOf(ix, {}, file)
      BY <2>0, <2>1, <2>4, <2>5 DEF Saved
    <3> QED BY <3>1, <3>2, <3>3
  <2>7. SnapLocal(Len(file))'
    BY <2>0, <2>1, <2>3, <2>4, <2>5, <2>6 DEF SnapLocal
  <2>8. CopyLocal(Len(file))'
    BY <2>4 DEF CopyLocal
  <2>9. CompLocal'
    <3>1. Len(file) \in 1..Len(file)
      BY <2>2, <2>3 DEF Ordered
    <3>2. mem.seq <= mem.seq
      BY <2>2
    <3> QED BY <2>0, <2>1, <2>4, <2>7, <2>8, <3>1, <3>2 DEF CompLocal
  <2> QED BY <2>1, <2>2, <2>4, <2>9, CompactionLocal
<1>3. CASE CompactOpen
  <2>1. /\ alive /\ comp.pc = "open" /\ loop.pc = "idle"
        /\ UNCHANGED <<data, idx, idxTmp, mem, lock, loop, alive, main, flips>>
    BY <1>3 DEF CompactOpen
  <2>2. PICK fd \in Inode :
           /\ OpenTmp(fd)
           /\ comp' = [pc |-> "write", snap |-> comp.snap, seq |-> comp.seq,
                       epoch |-> NextEpoch, fd |-> fd, src |-> data, pos |-> 1,
                       todo |-> DOMAIN comp.snap, names |-> DOMAIN comp.snap, index |-> << >>]
    BY <1>3 DEF CompactOpen
  <2>3. /\ fd # data /\ tmp' = fd
        /\ ino'[data] = ino[data] /\ ino'[fd] = << >>
    BY <2>1, <2>2, OpenTmpIs DEF Shape
  <2>4. /\ comp'.pc = "write" /\ comp'.snap = comp.snap /\ comp'.seq = comp.seq
        /\ comp'.epoch = mem.epoch + 1 /\ comp'.pos = 1
        /\ comp'.todo = DOMAIN comp.snap /\ comp'.names = DOMAIN comp.snap /\ comp'.index = << >>
    BY <2>2 DEF NextEpoch
  <2>5. AddedSince' = AddedSince /\ ToCopy' = ToCopy
    BY <2>1, <2>4 DEF AddedSince, ToCopy
  <2>6. Saved' = Saved
    <3>1. Held(ino'[tmp']) = {}
      BY <2>3, EmptyCopy
    <3> QED BY <2>1, <2>3, <2>4, <2>5, <3>1 DEF Saved
  <2>7. ASSUME NEW g \in 1..Len(ino[data]), SnapLocal(g) PROVE SnapLocal(g)' /\ CopyLocal(g)'
    <3>1. SnapLocal(g)'
      BY <2>1, <2>3, <2>4, <2>5, <2>6, <2>7 DEF SnapLocal
    <3>2. tmp' # 0 /\ comp'.pos - 1 = 0 /\ ino'[tmp'] = << >> /\ DOMAIN << >> = {} /\ mem' = mem
      BY <2>1, <2>2, <2>3, <2>4 DEF Inode
    <3>3. Fresh(ino[tmp], comp.pos - 1, comp.epoch)'
      <4>1. Len(<< >>) = 0 /\ 2..0 = {} /\ Rising(<< >>) /\ Held(<< >>) = {}
        BY EmptyCopy
      <4> QED BY <3>2, <4>1 DEF Fresh
    <3>4. Live(ino'[tmp']) = {} /\ Lists(comp'.index, ino'[tmp'], comp'.pos - 1)
      BY <2>4, <3>2, EmptyCopy
    <3> QED BY <2>4, <3>1, <3>2, <3>3, <3>4 DEF CopyLocal
  <2>8. CompLocal'
    <3>1. comp.seq <= mem.seq
      BY <1>1, <2>1 DEF CompLocal
    <3>2. Current' => Current
      BY <2>1, <2>4 DEF Current
    <3> QED BY <1>1, <2>1, <2>3, <2>4, <2>7, <3>1, <3>2 DEF CompLocal
  <2> QED BY <2>1, <2>3, <2>4, <2>8, CompactionLocal
<1> QED BY <1>2, <1>3

\* A compaction that copies one record more.  It is entered under the least name that is
\* left, which is at most its height.
LEMMA CopyOneMore ==
  ASSUME Shape, Shape', DataLocal, MemLocal, Current, CompactCopy,
         NEW g \in 1..Len(ino[data]), SnapLocal(g), CopyLocal(g)
  PROVE  /\ SnapLocal(g)' /\ CopyLocal(g)' /\ ino'[data] = ino[data]
         /\ comp'.pc = "write" /\ comp'.seq = comp.seq
<1> DEFINE h == Least(comp.todo)
           name == Least(comp.names)
           e == comp.snap[h]
<1>0. PICK file, copy, snap, ix, r, flags, added :
         /\ file = ino[data] /\ copy = ino[tmp] /\ snap = comp.snap /\ ix = mem.index
         /\ r = file[e.off] /\ flags = PrunedFlags(h, e) /\ added = AddedSince
  OBVIOUS
<1>1. PICK cell, put, new :
         /\ cell = [h |-> r.h, id |-> r.id, flags |-> flags]
         /\ put = [x \in DOMAIN comp.index \cup {name} |->
                     IF x = name THEN [off |-> comp.pos, flags |-> flags] ELSE comp.index[x]]
         /\ new = WriteAt(copy, comp.pos, cell)
  OBVIOUS
<1>2. /\ alive /\ comp.pc = "write" /\ comp \in Copying /\ loop.pc = "idle"
      /\ comp.fd = tmp /\ comp.src = data
      /\ UNCHANGED <<data, tmp, mem, loop, main, flips>>
  BY Points DEF CompactCopy, Shape, ThreadsTyped, Idle
<1>3. /\ file \in Seq(Cell) /\ snap \in Indexes /\ ix \in Indexes /\ comp.index \in Indexes
      /\ comp.pos \in Nat \ {0} /\ flips \in Nat /\ main \in SUBSET Block /\ Len(file) \in Nat
      /\ ino \in [Inode -> Seq(Cell)] /\ data # tmp /\ data \in Inode
  BY <1>0, <1>2, Known
<1>4. /\ tmp # 0 /\ comp.epoch = mem.epoch + 1
      /\ Fresh(copy, comp.pos - 1, comp.epoch)
      /\ Lists(comp.index, copy, comp.pos - 1)
      /\ DOMAIN comp.index \subseteq DOMAIN snap
      /\ \A n \in Live(copy) :
            /\ \A k \in LiveOf(snap, comp.todo, file) : copy[n].h < file[snap[k].off].h
            /\ \A k \in LiveOf(ix, added, file) : copy[n].h < k
      /\ comp.todo \subseteq comp.names /\ comp.names \subseteq DOMAIN snap
      /\ \A a \in DOMAIN comp.index, k \in comp.names : a < k
  BY <1>0, <1>2 DEF CopyLocal, ToCopy
<1>5. /\ Lists(snap, file, g) /\ DOMAIN snap \subseteq DOMAIN ix
      /\ \A k \in added :
            ix[k].off > g /\ (IsRecord(file[ix[k].off]) => file[ix[k].off].h = k)
      /\ Few(Gone(main, Saved) \cup Above(snap, main), flips)
      /\ added = DOMAIN ix \ DOMAIN snap
  BY <1>0 DEF SnapLocal, AddedSince
<1>6. tmp \in Inode /\ copy \in Seq(Cell) /\ Len(copy) = comp.pos - 1 /\ g \in Nat /\ g <= Len(file)
  BY <1>0, <1>3, <1>4, Known DEF Fresh
<1>7. Ordered(file) /\ Held(file) \subseteq main /\ Lists(ix, file, Len(file))
  BY <1>0, <1>2 DEF DataLocal, MemLocal, Stored, Renamed, Serves
\* The height that is copied, and its name.
<1>8. /\ comp.pos > 1 /\ comp.todo # {}
      /\ IF Readable(file, e)
         THEN /\ ino' = [ino EXCEPT ![tmp] = new]
              /\ comp' = [comp EXCEPT !.pos = comp.pos + 1, !.todo = comp.todo \ {h},
                                      !.names = comp.names \ {name}, !.index = put]
         ELSE comp' = [comp EXCEPT !.todo = comp.todo \ {h}] /\ UNCHANGED ino
  BY <1>0, <1>1, <1>2 DEF CompactCopy, SkipUnreadable
<1>9. /\ h \in comp.todo /\ \A k \in comp.todo : h <= k
      /\ name \in comp.names /\ \A k \in comp.names : name <= k
      /\ comp.todo \in SUBSET Height /\ comp.names \in SUBSET Height
  <2>1. comp.names # {} /\ comp.todo \in SUBSET Height /\ comp.names \in SUBSET Height
    BY <1>3, <1>4, <1>8, Indices
  <2> QED BY <1>8, <2>1, HeightsHaveExtremes
<1> HIDE DEF h, name
<1>10. /\ h \in Nat /\ name \in Nat /\ name <= h /\ h \in DOMAIN snap
       /\ \A k \in DOMAIN snap : k \in Nat
  BY <1>3, <1>4, <1>9, Indices, StorageAssumption DEF Height
<1>11. e = snap[h] /\ e.off \in 2..g /\ e.off \in 1..Len(file) /\ e.flags \in Flags
  BY <1>0, <1>3, <1>5, <1>6, <1>10, Listed, Indices
<1>12. Readable(file, e) <=> IsRecord(file[e.off])
  <2>1. IsRecord(file[e.off]) => e.flags = file[e.off].flags
    BY <1>5, <1>10, <1>11 DEF Lists, LiveOf
  <2> QED BY <1>11, <2>1 DEF Readable
<1>13. ino'[data] = ino[data]
  BY <1>3, <1>8
<1>14. /\ comp'.pc = "write" /\ comp'.seq = comp.seq /\ comp'.snap = comp.snap
       /\ comp'.epoch = comp.epoch /\ comp'.todo = comp.todo \ {h}
  BY <1>2, <1>8 DEF Copying
<1>15. AddedSince' = added /\ ToCopy' = comp.todo \ {h} /\ ToCopy = comp.todo
  BY <1>0, <1>2, <1>14 DEF AddedSince, ToCopy
\* What is saved stays so.
<1>16. ASSUME Saved \subseteq Saved' PROVE SnapLocal(g)'
  <2>1. Gone(main, Saved') \cup Above(snap, main) \subseteq Gone(main, Saved) \cup Above(snap, main)
    BY <1>16, GoneLess
  <2>2. Gone(main, Saved) \cup Above(snap, main) \in SUBSET Height
    BY <1>3, Losses
  <2>3. Few(Gone(main, Saved') \cup Above(snap, main), flips)
    BY <1>3, <1>5, <2>1, <2>2, FewLess
  <2> QED BY <1>0, <1>2, <1>5, <1>13, <1>14, <1>15, <2>3 DEF SnapLocal
<1>17. Saved = Held(copy) \cup BlocksOf(snap, comp.todo, file) \cup BlocksOf(ix, added, file)
  BY <1>0, <1>2, <1>15 DEF Saved
<1>18. Saved' = Held(ino'[tmp]) \cup BlocksOf(snap, comp.todo \ {h}, file)
                 \cup BlocksOf(ix, added, file)
  BY <1>0, <1>2, <1>13, <1>14, <1>15 DEF Saved
<1>19. CASE ~ Readable(file, e)
  <2>1. UNCHANGED ino /\ comp'.pos = comp.pos /\ comp'.names = comp.names /\ comp'.index = comp.index
    BY <1>2, <1>8, <1>19 DEF Copying
  <2>2. LiveOf(snap, comp.todo, file) = LiveOf(snap, comp.todo \ {h}, file)
    BY <1>11, <1>12, <1>19 DEF LiveOf
  <2>3. BlocksOf(snap, comp.todo, file) = BlocksOf(snap, comp.todo \ {h}, file)
    BY <2>2 DEF BlocksOf
  <2>4. Saved \subseteq Saved'
    BY <1>0, <1>17, <1>18, <2>1, <2>3
  <2>5. Fresh(ino[tmp], comp.pos - 1, comp.epoch)'
    BY <1>0, <1>2, <1>4, <1>14, <2>1 DEF Fresh
  <2>6. comp'.todo \subseteq comp'.names /\ comp'.names \subseteq DOMAIN comp'.snap
    BY <1>0, <1>4, <1>14, <2>1
  <2>7. CopyLocal(g)'
    <3>1. /\ tmp' # 0 /\ comp'.epoch = mem'.epoch + 1 /\ comp'.names \subseteq DOMAIN comp'.snap
          /\ comp'.todo \subseteq comp'.names /\ DOMAIN comp'.index \subseteq DOMAIN comp'.snap
          /\ Lists(comp'.index, ino'[tmp'], comp'.pos - 1) /\ ino'[tmp'] = copy
          /\ \A a \in DOMAIN comp'.index, k \in comp'.names : a < k
      BY <1>0, <1>2, <1>4, <1>14, <2>1, <2>6
    <3>2. ASSUME NEW n \in Live(copy), NEW k \in LiveOf(snap, comp.todo \ {h}, file)
          PROVE  copy[n].h < file[snap[k].off].h
      BY <1>4, <2>2, <3>2
    <3> QED BY <1>0, <1>2, <1>4, <1>13, <1>14, <1>15, <2>5, <3>1, <3>2 DEF CopyLocal
  <2> QED BY <1>13, <1>14, <1>16, <2>4, <2>7
<1>20. CASE Readable(file, e)
  <2>1. /\ ino'[tmp] = new /\ comp'.pos = comp.pos + 1 /\ comp'.pos - 1 = comp.pos
        /\ comp'.names = comp.names \ {name} /\ comp'.index = put
    <3>1. ino'[tmp] = new
      BY <1>3, <1>6, <1>8, <1>20
    <3>2. comp'.pos = comp.pos + 1 /\ comp'.names = comp.names \ {name} /\ comp'.index = put
      BY <1>2, <1>8, <1>20 DEF Copying
    <3> QED BY <1>3, <3>1, <3>2
  <2>2. /\ r = file[e.off] /\ IsRecord(r) /\ e.off \in Live(file)
        /\ r \in Record /\ r.h \in Nat /\ r.h \in Height /\ r.id \in Id
        /\ At(r) \in main /\ h <= r.h
        /\ h \in LiveOf(snap, comp.todo, file) /\ h \in LiveOf(snap, DOMAIN snap, file)
    <3>1. IsRecord(r) /\ r = file[e.off] /\ e.off \in Live(file)
      BY <1>0, <1>11, <1>12, <1>20 DEF Live
    <3>2. h \in LiveOf(snap, comp.todo, file) /\ h \in LiveOf(snap, DOMAIN snap, file)
      BY <1>9, <1>10, <1>11, <3>1 DEF LiveOf
    <3>3. h <= r.h
      BY <1>5, <1>11, <3>1, <3>2 DEF Lists
    <3>4. r \in Record /\ r.h \in Nat /\ At(r) \in Held(file)
      BY <1>3, <3>1, LiveCells
    <3> QED BY <1>7, <3>1, <3>2, <3>3, <3>4, Cells
  <2>3. /\ cell \in Record /\ cell \in Cell /\ cell.h = r.h /\ cell.flags = flags /\ At(cell) = At(r)
        /\ IsRecord(cell)
    <3>1. flags \in Flags
      BY <1>0, <1>11 DEF PrunedFlags, Flags
    <3>2. cell \in Record /\ cell.h = r.h /\ cell.id = r.id /\ cell.flags = flags
      BY <1>1, <2>2, <3>1 DEF Record
    <3> QED BY <3>2, Cells DEF At, Cell
  <2>4. /\ new \in Seq(Cell) /\ Len(new) = comp.pos /\ new[comp.pos] = cell
        /\ \A n \in 1..Len(copy) : new[n] = copy[n]
    <3>1. comp.pos = Len(copy) + 1
      BY <1>3, <1>6
    <3>2. /\ WriteAt(copy, comp.pos, cell) \in Seq(Cell)
          /\ Len(WriteAt(copy, comp.pos, cell)) = comp.pos
          /\ WriteAt(copy, comp.pos, cell)[comp.pos] = cell
          /\ \A n \in 1..Len(copy) : WriteAt(copy, comp.pos, cell)[n] = copy[n]
      <4>1. copy \in Seq(Cell) /\ comp.pos \in Nat \ {0} /\ cell \in Cell /\ comp.pos = Len(copy) + 1
        BY <1>3, <1>6, <2>3, <3>1
      <4> QED BY ONLY <4>1, WriteAtIs
    <3> QED BY <1>1, <3>2
  <2>5. /\ Live(new) = Live(copy) \cup {comp.pos} /\ Held(new) = Held(copy) \cup {At(r)}
        /\ Rising(new)
    <3>1. Len(new) = Len(copy) + 1 /\ IsRecord(new[Len(new)]) /\ new[Len(new)] = cell
      BY <1>3, <1>6, <2>3, <2>4
    <3>2. \A n \in Live(copy) : copy[n].h < new[Len(new)].h
      BY <1>4, <1>11, <2>2, <2>3, <3>1
    <3>3. Rising(copy)
      BY <1>4 DEF Fresh
    <3> QED BY <1>6, <2>3, <2>4, <3>1, <3>2, <3>3, OneMore
  <2>6. Saved \subseteq Saved'
    <3>1. BlocksOf(snap, comp.todo, file) \subseteq BlocksOf(snap, comp.todo \ {h}, file) \cup {At(r)}
      <4>1. \A k \in LiveOf(snap, comp.todo, file) : k = h \/ k \in LiveOf(snap, comp.todo \ {h}, file)
        BY DEF LiveOf
      <4> QED BY <1>11, <2>2, <4>1 DEF BlocksOf
    <3> QED BY <1>17, <1>18, <2>1, <2>5, <3>1
  <2>7. Fresh(new, comp.pos, comp.epoch) /\ Fresh(ino[tmp], comp.pos - 1, comp.epoch)'
    <3>1. 1 \in 1..Len(copy) /\ comp.pos - 1 >= 1 /\ comp.pos >= 1
      BY <1>3, <1>6, <1>8
    <3>2. new[1] = Header(comp.epoch)
      BY <1>4, <2>4, <3>1 DEF Fresh
    <3>3. ASSUME NEW n \in 2..comp.pos PROVE new[n] \in Record
      <4>1. CASE n = comp.pos
        BY <2>3, <2>4, <4>1
      <4>2. CASE n # comp.pos
        <5>1. n \in 2..comp.pos - 1 /\ n \in 1..Len(copy)
          BY <1>3, <1>6, <4>2
        <5> QED BY <1>4, <2>4, <5>1 DEF Fresh
      <4> QED BY <4>1, <4>2
    <3>4. Held(new) \subseteq main
      BY <1>4, <2>2, <2>5 DEF Fresh
    <3> QED BY <1>2, <1>14, <2>1, <2>4, <2>5, <3>2, <3>3, <3>4 DEF Fresh
  <2>8. put \in Indexes
    <3>1. comp' \in Copying
      BY <1>14, Points DEF Shape, ThreadsTyped, Idle
    <3> QED BY <2>1, <3>1 DEF Copying
  <2>9. Lists(put, new, comp.pos)
    <3> DEFINE m == comp.pos - 1
               nm == [n \in m + 1..comp.pos |-> name]
    <3>1. /\ m \in Nat /\ m + 1 = comp.pos /\ m <= Len(copy) /\ m <= comp.pos /\ comp.pos <= Len(new)
          /\ comp.pos >= 2 /\ \A n \in m + 1..comp.pos : n = comp.pos
          /\ comp.pos \in m + 1..comp.pos
      BY <1>3, <1>6, <1>8, <2>4
    <3>2. \A n \in m + 1..comp.pos : nm[n] = name
      OBVIOUS
    <3> HIDE DEF m, nm
    <3>3. /\ name \in DOMAIN put /\ put[name] = [off |-> comp.pos, flags |-> flags]
          /\ \A k \in DOMAIN comp.index : k # name => k \in DOMAIN put /\ put[k] = comp.index[k]
          /\ \A k \in DOMAIN put : k # name => k \in DOMAIN comp.index /\ put[k] = comp.index[k]
      BY <1>1
    <3>4. \A n \in m + 1..comp.pos : /\ new[n] \in Record /\ n >= 2
                                     /\ nm[n] \in DOMAIN put /\ nm[n] <= new[n].h
                                     /\ put[nm[n]] = [off |-> n, flags |-> new[n].flags]
      <4>1. name <= r.h
        BY <1>10, <2>2
      <4> QED BY <2>3, <2>4, <3>1, <3>2, <3>3, <4>1
    <3>5. \A k \in LiveOf(comp.index, DOMAIN comp.index, copy) :
             k \in DOMAIN comp.index /\ k < name /\ k # name
      <4>1. \A k \in DOMAIN comp.index : k < name /\ k \in Nat
        BY <1>3, <1>4, <1>9, Indices, StorageAssumption DEF Height
      <4>2. \A k \in DOMAIN comp.index : k # name
        BY <1>10, <4>1
      <4> QED BY <4>1, <4>2 DEF LiveOf
    <3>6. Grown(comp.index, copy, m, put, new, comp.pos, nm)
      <4>1. \A n \in 1..m : new[n] = copy[n]
        BY <1>6, <2>4 DEF m
      <4>2. \A i, n \in m + 1..comp.pos : i < n => nm[i] < nm[n]
        <5>1. \A i, n \in m + 1..comp.pos : ~ i < n
          BY <1>3, <3>1
        <5> QED BY <5>1
      <4>3. \A k \in DOMAIN put :
               (k \in DOMAIN comp.index /\ put[k] = comp.index[k])
               \/ (\E n \in m + 1..comp.pos : k = nm[n])
        BY <3>1, <3>2, <3>3
      <4>4. \A k \in LiveOf(comp.index, DOMAIN comp.index, copy) :
               \A n \in m + 1..comp.pos : k < nm[n]
        BY <3>2, <3>5
      <4> QED BY <3>1, <3>3, <3>4, <3>5, <4>1, <4>2, <4>3, <4>4 DEF Grown
    <3>7. comp.pos \in Nat /\ Lists(comp.index, copy, m)
      BY <1>3, <1>4 DEF m
    <3> QED BY <1>3, <1>6, <2>4, <2>8, <3>1, <3>6, <3>7, ListsMore
  \* The order of the copies.
  <2>10. ASSUME NEW n \in Live(new), NEW k \in LiveOf(snap, comp.todo \ {h}, file)
         PROVE  new[n].h < file[snap[k].off].h
    <3>1. k \in LiveOf(snap, comp.todo, file) /\ k \in comp.todo /\ k # h
          /\ k \in LiveOf(snap, DOMAIN snap, file) /\ k \in DOMAIN snap
      BY <1>4 DEF LiveOf
    <3>2. CASE n \in Live(copy)
      <4>1. new[n] = copy[n]
        BY <2>4, <3>2 DEF Live
      <4> QED BY <1>4, <3>1, <3>2, <4>1
    <3>3. CASE n \notin Live(copy)
      <4>1. new[n] = cell
        BY <2>4, <2>5, <3>3
      <4>2. h < k
        BY <1>9, <1>10, <3>1
      <4>3. snap[h].off < snap[k].off
        BY <1>5, <2>2, <3>1, <4>2 DEF Lists
      <4>4. snap[k].off \in Live(file)
        BY <1>3, <1>5, <1>6, <3>1, Listed
      <4> QED BY <1>7, <1>11, <2>2, <2>3, <4>1, <4>3, <4>4 DEF Ordered, Rising
    <3> QED BY <3>2, <3>3
  <2>11. ASSUME NEW n \in Live(new), NEW k \in LiveOf(ix, added, file) PROVE new[n].h < k
    <3>1. CASE n \in Live(copy)
      <4>1. new[n] = copy[n]
        BY <2>4, <3>1 DEF Live
      <4> QED BY <1>4, <3>1, <4>1
    <3>2. CASE n \notin Live(copy)
      <4>1. new[n] = cell
        BY <2>4, <2>5, <3>2
      <4>2. k \in added /\ IsRecord(file[ix[k].off]) /\ k \in DOMAIN ix
        BY <1>5 DEF LiveOf
      <4>3. ix[k].off > g /\ file[ix[k].off].h = k /\ ix[k].off \in Nat
        BY <1>3, <1>5, <4>2, Indices
      <4>4. ix[k].off \in Live(file)
        <5>1. k \in LiveOf(ix, DOMAIN ix, file)
          BY <4>2 DEF LiveOf
        <5> QED BY <1>3, <1>7, <5>1, Listed
      <4>5. e.off < ix[k].off
        BY <1>6, <1>11, <4>3
      <4> QED BY <1>7, <2>2, <2>3, <4>1, <4>3, <4>4, <4>5 DEF Ordered, Rising
    <3> QED BY <3>1, <3>2
  <2>12. comp.todo \ {h} \subseteq comp.names \ {name}
    BY <1>4, <1>9, <1>10
  <2>13. ASSUME NEW a \in DOMAIN put, NEW k \in comp.names \ {name} PROVE a < k
    <3>1. CASE a = name
      <4>1. name <= k /\ k \in Nat
        BY <1>4, <1>9, <1>10
      <4> QED BY <1>10, <3>1, <4>1
    <3>2. CASE a # name
      BY <1>1, <1>4, <3>2
    <3> QED BY <3>1, <3>2
  <2>14. DOMAIN put \subseteq DOMAIN snap
    BY <1>1, <1>4, <1>9
  <2>15. CopyLocal(g)'
    <3>1. /\ tmp' # 0 /\ comp'.epoch = mem'.epoch + 1 /\ comp'.names \subseteq DOMAIN comp'.snap
          /\ comp'.todo \subseteq comp'.names /\ DOMAIN comp'.index \subseteq DOMAIN comp'.snap
      BY <1>0, <1>2, <1>4, <1>14, <2>1, <2>12, <2>14
    <3>2. Lists(comp'.index, ino'[tmp'], comp'.pos - 1)
      BY <1>2, <2>1, <2>9
    <3> QED BY <1>0, <1>2, <1>13, <1>14, <1>15, <2>1, <2>7, <2>10, <2>11, <2>13, <3>1, <3>2
            DEF CopyLocal
  <2> QED BY <1>13, <1>14, <1>16, <2>6, <2>15
<1> QED BY <1>19, <1>20

\* Phase 1.  A compaction whose snapshot is of another chain may write what it likes.
LEMMA CopyingLocal ==
  ASSUME Shape, Shape', Local, CompactHeader \/ CompactCopy \/ CompactWritten
  PROVE  Local'
<1>0. PICK file, copy : file = ino[data] /\ copy = ino[tmp]
  OBVIOUS
<1>1. DataLocal /\ MemLocal /\ CompLocal
  BY DEF Local
<1>2. /\ alive /\ comp.pc = "write" /\ comp \in Copying
      /\ loop.pc = "idle" /\ comp.fd = tmp /\ comp.src = data
      /\ UNCHANGED <<data, tmp, idx, idxTmp, mem, lock, loop, alive, main, flips>>
  BY Points DEF CompactHeader, CompactCopy, CompactWritten, files, Shape, ThreadsTyped, Idle
<1>3. /\ ino \in [Inode -> Seq(Cell)] /\ data \in Inode /\ data # tmp
      /\ comp.pos \in Nat \ {0} /\ comp.epoch \in Nat
  BY <1>2, Known
<1>4. comp.seq <= mem.seq
  BY <1>1, <1>2 DEF CompLocal
<1>5. ASSUME ino'[data] = file, comp'.pc \in {"write", "catchup"}, comp'.seq = comp.seq,
             \A g \in 1..Len(file) : Current /\ SnapLocal(g) /\ CopyLocal(g) =>
                                        SnapLocal(g)' /\ CopyLocal(g)'
      PROVE  Local'
  <2>1. Current' => Current
    BY <1>2, <1>5 DEF Current
  <2>2. CompLocal'
    BY <1>0, <1>1, <1>2, <1>4, <1>5, <2>1 DEF CompLocal
  <2> QED BY <1>0, <1>2, <1>5, <2>2, CompactionLocal
<1>6. CASE CompactHeader
  <2>1. /\ comp.pos = 1
        /\ ino' = [ino EXCEPT ![tmp] = WriteAt(@, 1, Header(comp.epoch))]
        /\ comp' = [comp EXCEPT !.pos = 2]
    BY <1>2, <1>6 DEF CompactHeader
  <2>2. /\ ino'[data] = file
        /\ comp'.pc = "write" /\ comp'.seq = comp.seq /\ comp'.snap = comp.snap
        /\ comp'.epoch = comp.epoch /\ comp'.pos = 2 /\ comp'.index = comp.index
        /\ comp'.todo = comp.todo /\ comp'.names = comp.names
    BY <1>0, <1>2, <1>3, <2>1 DEF Copying
  <2>3. ASSUME NEW g \in 1..Len(file), SnapLocal(g), CopyLocal(g) PROVE SnapLocal(g)' /\ CopyLocal(g)'
    <3>1. /\ tmp # 0 /\ Fresh(copy, 0, comp.epoch) /\ Lists(comp.index, copy, 0)
          /\ comp.epoch = mem.epoch + 1 /\ DOMAIN comp.index \subseteq DOMAIN comp.snap
          /\ comp.todo \subseteq comp.names /\ comp.names \subseteq DOMAIN comp.snap
          /\ \A a \in DOMAIN comp.index, k \in comp.names : a < k
      BY <1>0, <1>2, <2>1, <2>3 DEF CopyLocal
    <3>2. tmp \in Inode /\ copy \in Seq(Cell) /\ Len(copy) = 0 /\ 2..0 = {} /\ 2..1 = {} /\ 1..0 = {}
      BY <1>0, <3>1, Known DEF Fresh
    <3>3. PICK new : new = WriteAt(copy, 1, Header(comp.epoch))
      OBVIOUS
    <3>4. ino'[tmp'] = new
      BY <1>0, <1>2, <1>3, <2>1, <3>2, <3>3
    <3>5. Len(new) = 1 /\ new[1] = Header(comp.epoch) /\ ~ IsRecord(new[1])
      <4>1. PICK cell, pos : cell = Header(comp.epoch) /\ pos = 1
        OBVIOUS
      <4>2. copy \in Seq(Cell) /\ cell \in Cell /\ pos \in Nat \ {0} /\ pos = Len(copy) + 1
        BY <1>3, <3>2, <4>1 DEF Cell
      <4>3. Len(WriteAt(copy, pos, cell)) = pos /\ WriteAt(copy, pos, cell)[pos] = cell
        BY ONLY <4>2, WriteAtIs
      <4> QED BY <3>3, <4>1, <4>3, Cells
    <3>6. Live(new) = {} /\ Live(copy) = {}
      <4>1. 1..1 = {1}
        OBVIOUS
      <4> QED BY <3>2, <3>5, <4>1 DEF Live
    <3>7. Held(new) = {} /\ Held(copy) = {} /\ Rising(new)
      BY <3>6 DEF Held, Rising
    <3>8. Lists(comp.index, new, 1)
      <4>1. DOMAIN comp.index = {}
        BY <3>1, <3>2 DEF Lists
      <4> QED BY <3>2, <4>1 DEF Lists, LiveOf
    <3>9. AddedSince' = AddedSince /\ ToCopy' = ToCopy
      BY <1>2, <2>2 DEF AddedSince, ToCopy
    <3>10. Saved' = Saved
      BY <1>0, <1>2, <2>2, <3>4, <3>7, <3>9 DEF Saved
    <3>11. SnapLocal(g)'
      BY <1>0, <1>2, <2>2, <2>3, <3>9, <3>10 DEF SnapLocal
    <3>12. Fresh(ino[tmp], comp.pos - 1, comp.epoch)'
      BY <1>2, <2>2, <3>2, <3>4, <3>5, <3>7 DEF Fresh
    <3>13. Lists(comp'.index, ino'[tmp'], comp'.pos - 1)
      BY <2>2, <3>4, <3>8
    <3>14. CopyLocal(g)'
      BY <1>2, <2>2, <3>1, <3>4, <3>6, <3>12, <3>13 DEF CopyLocal
    <3> QED BY <3>11, <3>14
  <2> QED BY <1>5, <2>2, <2>3
<1>7. CASE CompactWritten
  <2>1. /\ comp.pos > 1 /\ comp.todo = {} /\ UNCHANGED ino
        /\ comp'.pc = "catchup" /\ comp'.snap = comp.snap /\ comp'.seq = comp.seq
        /\ comp'.epoch = comp.epoch /\ comp'.pos = comp.pos /\ comp'.index = comp.index
    BY <1>7 DEF CompactWritten, files
  <2>2. AddedSince' = AddedSince /\ ToCopy' = {} /\ ToCopy = {}
    BY <1>2, <2>1 DEF AddedSince, ToCopy
  <2>3. Saved' = Saved
    BY <1>2, <2>1, <2>2 DEF Saved
  <2>4. ASSUME NEW g \in 1..Len(file), SnapLocal(g), CopyLocal(g) PROVE SnapLocal(g)' /\ CopyLocal(g)'
    <3>1. SnapLocal(g)'
      BY <1>2, <2>1, <2>2, <2>3, <2>4 DEF SnapLocal
    <3>2. Fresh(ino[tmp], comp.pos - 1, comp.epoch)'
      BY <1>2, <2>1, <2>4 DEF Fresh, CopyLocal
    <3>3. CopyLocal(g)'
      BY <1>2, <2>1, <2>2, <2>4, <3>2 DEF CopyLocal
    <3> QED BY <3>1, <3>3
  <2> QED BY <1>0, <1>5, <2>1, <2>4
<1>8. CASE CompactCopy
  <2>1. /\ ino'[data] = file /\ comp'.pc = "write" /\ comp'.seq = comp.seq
    <3>1. /\ ino'[data] = ino[data]
      BY <1>3, <1>8, <1>2 DEF CompactCopy
    <3>2. comp'.pc = "write" /\ comp'.seq = comp.seq
      BY <1>2, <1>8 DEF CompactCopy, Copying
    <3> QED BY <1>0, <3>1, <3>2
  <2>2. ASSUME NEW g \in 1..Len(file), Current, SnapLocal(g), CopyLocal(g)
        PROVE  SnapLocal(g)' /\ CopyLocal(g)'
    BY <1>0, <1>1, <1>8, <2>2, CopyOneMore
  <2> QED BY <1>5, <2>1, <2>2
<1> QED BY <1>6, <1>7, <1>8

\* The ranks in a set of heights rise with the heights.
LEMMA RanksRise ==
  ASSUME NEW S \in SUBSET Height
  PROVE  /\ \A h \in S : Cardinality({k \in S : k <= h}) \in 1..Cardinality(S)
         /\ \A h, j \in S : h < j => Cardinality({k \in S : k <= h}) < Cardinality({k \in S : k <= j})
<1> DEFINE UpTo(h) == {k \in S : k <= h}
<1>1. /\ S \in SUBSET Nat /\ IsFiniteSet(S) /\ Cardinality(S) \in Nat
      /\ \A h \in S : Cardinality(UpTo(h)) \in Nat \ {0}
  BY Ranks, StorageAssumption DEF Height
<1>2. \A h : UpTo(h) \in SUBSET S /\ IsFiniteSet(UpTo(h)) /\ Cardinality(UpTo(h)) \in Nat
              /\ Cardinality(UpTo(h)) <= Cardinality(S)
  BY <1>1, FS_Subset, FS_CardinalityType
<1>3. ASSUME NEW h \in S, NEW j \in S, h < j PROVE Cardinality(UpTo(h)) < Cardinality(UpTo(j))
  <2>1. UpTo(h) \subseteq UpTo(j) \ {j} /\ j \in UpTo(j)
    <3>1. \A k \in S : k <= h => k <= j /\ k # j
      BY <1>1, <1>3
    <3>2. j <= j
      BY <1>1
    <3> QED BY <3>1, <3>2
  <2> DEFINE R == UpTo(j) \ {j}
  <2> HIDE DEF UpTo
  <2>2. IsFiniteSet(R) /\ Cardinality(R) = Cardinality(UpTo(j)) - 1
    BY <1>2, <2>1, FS_RemoveElement
  <2>3. UpTo(h) \in SUBSET R
    BY <2>1
  <2> HIDE DEF R
  <2>4. Cardinality(UpTo(h)) <= Cardinality(R)
    BY <2>2, <2>3, FS_Subset
  <2> QED BY <1>2, <2>2, <2>4
<1> HIDE DEF UpTo
<1>4. \A h \in S : Cardinality(UpTo(h)) \in 1..Cardinality(S)
  BY <1>1, <1>2
<1> QED BY <1>3, <1>4 DEF UpTo

\* A file that has the records of added, in their order, at the end of a copy, and its index.
Follows(file, ix, added, copy, base, c, rank, name, all, new) ==
    /\ file \in Seq(Cell) /\ copy \in Seq(Cell) /\ Len(copy) >= 1
    /\ ix \in Indexes /\ base \in Indexes /\ all \in Indexes /\ Lists(base, copy, Len(copy))
    /\ added \in SUBSET DOMAIN ix /\ added \cap DOMAIN base = {}
    /\ c \in Nat /\ rank \in [added -> 1..c] /\ name \in [1..c -> added]
    /\ \A k \in added : /\ ix[k].off \in Live(file)
                         /\ file[ix[k].off].h = k /\ file[ix[k].off].flags = ix[k].flags
    /\ \A n \in Live(copy), k \in added : copy[n].h < k
    /\ \A i \in 1..c : rank[name[i]] = i
    /\ \A h, j \in added : h < j => rank[h] < rank[j]
    /\ all = [h \in DOMAIN base \cup added |->
                IF h \in added THEN [off |-> Len(copy) + rank[h], flags |-> ix[h].flags]
                ELSE base[h]]
    /\ new = copy \o [i \in 1..c |-> file[ix[name[i]].off]]

\* It has the records of both, and the index leads to them.
LEMMA Appended ==
  ASSUME NEW file, NEW ix, NEW added, NEW copy, NEW base, NEW c, NEW rank, NEW name, NEW all,
         NEW new, Follows(file, ix, added, copy, base, c, rank, name, all, new)
  PROVE  /\ new \in Seq(Cell) /\ Len(new) = Len(copy) + c
         /\ \A n \in 1..Len(copy) : new[n] = copy[n]
         /\ \A n \in Len(copy) + 1..Len(new) : new[n] \in Record
         /\ Lists(all, new, Len(new))
         /\ Rising(copy) => Rising(new)
         /\ Held(new) = Held(copy) \cup BlocksOf(ix, added, file)
<1>0. PICK tail : tail = [i \in 1..c |-> file[ix[name[i]].off]]
  OBVIOUS
<1>1. /\ file \in Seq(Cell) /\ copy \in Seq(Cell) /\ Len(copy) >= 1
      /\ ix \in Indexes /\ base \in Indexes /\ all \in Indexes /\ Lists(base, copy, Len(copy))
      /\ added \in SUBSET DOMAIN ix /\ added \cap DOMAIN base = {} /\ c \in Nat
  BY DEF Follows
<1>2. \A k \in added : /\ ix[k].off \in Live(file)
                        /\ file[ix[k].off].h = k /\ file[ix[k].off].flags = ix[k].flags
  BY DEF Follows
<1>3. \A n \in Live(copy), k \in added : copy[n].h < k
  BY DEF Follows
<1>4. /\ \A i \in 1..c : name[i] \in added /\ rank[name[i]] = i
      /\ \A h \in added : rank[h] \in 1..c
      /\ \A h, j \in added : h < j => rank[h] < rank[j]
  BY DEF Follows
<1>5. all = [h \in DOMAIN base \cup added |->
                IF h \in added THEN [off |-> Len(copy) + rank[h], flags |-> ix[h].flags]
                ELSE base[h]]
  BY DEF Follows
<1>6. new = copy \o tail
  BY <1>0 DEF Follows
<1> DEFINE m == Len(copy)
<1>7. m \in Nat /\ m >= 1 /\ m \in 1..m
  BY <1>1
<1>8. /\ \A k \in added : k \in Nat /\ k \in Height
      /\ \A k \in DOMAIN base : k \in Nat
  BY <1>1, Indices, StorageAssumption DEF Height
<1>9. ASSUME NEW i \in 1..c
      PROVE  /\ name[i] \in added /\ rank[name[i]] = i
             /\ tail[i] = file[ix[name[i]].off] /\ tail[i] \in Record /\ tail[i] \in Cell
             /\ IsRecord(tail[i]) /\ tail[i].h = name[i] /\ tail[i].flags = ix[name[i]].flags
  <2>1. name[i] \in added /\ rank[name[i]] = i /\ tail[i] = file[ix[name[i]].off]
    BY <1>0, <1>4
  <2>2. ix[name[i]].off \in Live(file) /\ file[ix[name[i]].off].h = name[i]
        /\ file[ix[name[i]].off].flags = ix[name[i]].flags
    BY <1>2, <2>1
  <2>3. tail[i] \in Record /\ IsRecord(tail[i])
    BY <1>1, <2>1, <2>2, LiveCells
  <2> QED BY <2>1, <2>2, <2>3 DEF Cell
<1>10. ASSUME NEW h \in added, NEW i \in 1..c, rank[h] = i PROVE name[i] = h
  <2>1. name[i] \in added /\ rank[name[i]] = i /\ i \in Nat
    BY <1>9
  <2>2. ~ name[i] < h /\ ~ h < name[i]
    BY <1>10, <1>4, <2>1
  <2> QED BY <1>8, <2>1, <2>2
<1>11. tail \in Seq(Cell) /\ Len(tail) = c
  <2> DEFINE at(i) == file[ix[name[i]].off]
  <2>1. \A i \in 1..c : at(i) \in Cell
    BY <1>9
  <2>2. tail = [i \in 1..c |-> at(i)]
    BY <1>0
  <2>3. c \in Nat
    BY <1>1
  <2> HIDE DEF at
  <2>4. [i \in 1..c |-> at(i)] \in Seq(Cell) /\ Len([i \in 1..c |-> at(i)]) = c
    BY ONLY <2>1, <2>3
  <2> QED BY <2>2, <2>4
<1>12. /\ new \in Seq(Cell) /\ Len(new) = m + c
       /\ \A n \in 1..m : new[n] = copy[n]
       /\ \A n \in m + 1..m + c : n - m \in 1..c /\ new[n] = tail[n - m]
  <2>1. copy \o tail \in Seq(Cell) /\ Len(copy \o tail) = m + c
    BY <1>11, <1>1
  <2>2. \A n \in 1..m : (copy \o tail)[n] = copy[n]
    BY <1>11, <1>1
  <2>3. \A n \in m + 1..m + c : n - m \in 1..c /\ (copy \o tail)[n] = tail[n - m]
    BY <1>7, <1>11, <1>1
  <2> QED BY <1>6, <2>1, <2>2, <2>3
<1> DEFINE nm == [n \in m + 1..m + c |-> name[n - m]]
<1>13. ASSUME NEW n \in m + 1..m + c
      PROVE  /\ nm[n] \in added /\ rank[nm[n]] = n - m /\ n \in Nat /\ n >= 2 /\ n \in 1..m + c
             /\ new[n] \in Record /\ IsRecord(new[n]) /\ new[n].h = nm[n]
             /\ new[n].flags = ix[nm[n]].flags /\ new[n] = file[ix[nm[n]].off]
  <2>1. nm[n] = name[n - m] /\ n - m \in 1..c /\ new[n] = tail[n - m]
    BY <1>12
  <2>2. n \in Nat /\ n >= 2 /\ n \in 1..m + c
    BY <1>7
  <2> HIDE DEF nm, m
  <2> QED BY <1>9, <2>1, <2>2
<1> HIDE DEF nm, m
<1>14. ASSUME NEW h \in added
      PROVE  /\ m + rank[h] \in m + 1..m + c /\ nm[m + rank[h]] = h
             /\ h \in DOMAIN all /\ all[h] = [off |-> m + rank[h], flags |-> ix[h].flags]
  <2>1. rank[h] \in 1..c
    BY <1>4
  <2>2. m + rank[h] \in m + 1..m + c /\ (m + rank[h]) - m = rank[h]
    BY <1>7, <1>1, <2>1
  <2>3. nm[m + rank[h]] = name[rank[h]]
    BY <2>2 DEF nm
  <2>4. name[rank[h]] = h
    BY <1>10, <2>1
  <2> QED BY <1>5, <2>2, <2>3, <2>4 DEF m
<1>15. ASSUME NEW i \in m + 1..m + c, NEW n \in m + 1..m + c, i < n PROVE nm[i] < nm[n]
  <2>1. /\ nm[i] \in added /\ rank[nm[i]] = i - m /\ nm[n] \in added /\ rank[nm[n]] = n - m
        /\ i \in Nat /\ n \in Nat
    BY <1>13
  <2>2. rank[nm[i]] < rank[nm[n]] /\ ~ rank[nm[n]] < rank[nm[i]]
    BY <1>7, <1>15, <2>1
  <2>3. ~ nm[n] < nm[i] /\ nm[n] # nm[i]
    BY <1>7, <1>15, <1>4, <2>1, <2>2
  <2> QED BY <1>8, <2>1, <2>3
<1>16. ASSUME NEW n \in m + 1..m + c
       PROVE  /\ new[n] \in Record /\ n >= 2
              /\ nm[n] \in DOMAIN all /\ nm[n] <= new[n].h
              /\ all[nm[n]] = [off |-> n, flags |-> new[n].flags]
  <2>1. all[nm[n]] = [off |-> m + rank[nm[n]], flags |-> ix[nm[n]].flags] /\ nm[n] \in DOMAIN all
    BY <1>13, <1>14
  <2>2. n \in Nat /\ rank[nm[n]] = n - m /\ nm[n] \in Nat
    BY <1>8, <1>13
  <2>3. m + (n - m) = n
    BY ONLY <1>7, <2>2
  <2>4. nm[n] <= nm[n]
    BY ONLY <2>2
  <2> QED BY <1>13, <2>1, <2>2, <2>3, <2>4
<1>17. ASSUME NEW k \in DOMAIN all
       PROVE  (k \in DOMAIN base /\ all[k] = base[k]) \/ (\E n \in m + 1..m + c : k = nm[n])
  BY <1>14, <1>5
<1>18. ASSUME NEW k \in LiveOf(base, DOMAIN base, copy)
       PROVE  /\ k \in DOMAIN all /\ all[k] = base[k]
              /\ \A n \in m + 1..m + c : k < nm[n]
  <2>1. k \in DOMAIN base /\ k \in Nat /\ base[k].off \in Live(copy) /\ k <= copy[base[k].off].h
        /\ copy[base[k].off].h \in Nat
    <3>1. /\ copy \in Seq(Cell) /\ base \in Indexes /\ Len(copy) \in Nat /\ Len(copy) <= Len(copy)
          /\ Lists(base, copy, Len(copy)) /\ k \in LiveOf(base, DOMAIN base, copy)
      BY <1>1
    <3>2. k \in DOMAIN base /\ base[k].off \in Live(copy) /\ k <= copy[base[k].off].h
      BY ONLY <3>1, Listed
    <3>3. copy[base[k].off].h \in Nat
      BY ONLY <3>1, <3>2, LiveCells
    <3> QED BY <1>8, <3>2, <3>3
  <2>2. k \notin added
    BY <1>1, <2>1
  <2>3. ASSUME NEW n \in m + 1..m + c PROVE k < nm[n]
    <3>1. nm[n] \in added /\ copy[base[k].off].h < nm[n] /\ nm[n] \in Nat
      BY <1>8, <1>13, <1>3, <2>1
    <3> QED BY <2>1, <3>1
  <2> QED BY <1>5, <2>1, <2>2, <2>3
<1>19. Lists(all, new, m + c)
  <2>1. m <= m + c /\ m + c \in Nat
    BY <1>7, <1>1
  <2>2. Grown(base, copy, m, all, new, m + c, nm)
    <3>1. /\ m <= Len(copy) /\ m <= m + c /\ m + c <= Len(new)
          /\ \A n \in 1..m : new[n] = copy[n]
      BY <1>7, <1>12, <2>1 DEF m
    <3>2. \A k \in LiveOf(base, DOMAIN base, copy) : \A n \in m + 1..m + c : k < nm[n]
      BY <1>18
    <3>3. \A k \in LiveOf(base, DOMAIN base, copy) : k \in DOMAIN all /\ all[k] = base[k]
      BY <1>18
    <3> QED BY <1>15, <1>16, <1>17, <3>1, <3>2, <3>3 DEF Grown
  <2>3. Lists(base, copy, m)
    BY <1>1 DEF m
  <2>4. new \in Seq(Cell)
    BY <1>12
  <2> QED BY <1>7, <1>1, <2>1, <2>2, <2>3, <2>4, ListsMore
<1>20. /\ \A n \in 1..m + c : n \in 1..m \/ n \in m + 1..m + c
       /\ \A n \in 1..m : n \in 1..m + c
       /\ \A i \in 1..m, n \in m + 1..m + c : i < n
  BY <1>7, <1>1
<1>21. /\ Live(new) = Live(copy) \cup (m + 1..m + c)
       /\ \A n \in Live(copy) : new[n] = copy[n] /\ n \in 1..m
  <2>1. \A n \in Live(copy) : n \in 1..m /\ new[n] = copy[n] /\ IsRecord(new[n])
    BY <1>12 DEF Live, m
  <2>2. \A n \in 1..m : IsRecord(new[n]) => n \in Live(copy)
    BY <1>12 DEF Live, m
  <2>3. \A n \in Live(new) : n \in 1..m + c /\ IsRecord(new[n])
    BY <1>12 DEF Live
  <2>4. \A n \in 1..m + c : IsRecord(new[n]) => n \in Live(new)
    BY <1>12 DEF Live
  <2>5. \A n \in m + 1..m + c : n \in Live(new)
    BY <1>13, <2>4
  <2> QED BY <1>20, <2>1, <2>2, <2>3, <2>4, <2>5
<1>22. ASSUME Rising(copy), NEW i \in Live(new), NEW n \in Live(new), i < n PROVE new[i].h < new[n].h
  <2>1. CASE i \in Live(copy) /\ n \in Live(copy)
    BY <1>21, <1>22, <2>1 DEF Rising
  <2>2. CASE i \in Live(copy) /\ n \in m + 1..m + c
    <3>1. nm[n] \in added /\ new[n].h = nm[n]
      BY <1>13, <2>2
    <3> QED BY <1>21, <1>3, <2>2, <3>1
  <2>3. CASE i \in m + 1..m + c /\ n \in Live(copy)
    <3>1. n \in 1..m /\ i \in Nat
      BY <1>13, <1>21, <2>3
    <3>2. n < i /\ n \in Nat
      BY <1>20, <2>3, <3>1
    <3> QED BY <1>22, <3>1, <3>2
  <2>4. CASE i \in m + 1..m + c /\ n \in m + 1..m + c
    BY <1>13, <1>15, <1>22, <2>4
  <2> QED BY <1>21, <2>1, <2>2, <2>3, <2>4
<1>23. Held(new) = Held(copy) \cup BlocksOf(ix, added, file)
  <2>1. \A k \in added : k \in LiveOf(ix, added, file)
    BY <1>2 DEF LiveOf, Live
  <2>2. ASSUME NEW n \in m + 1..m + c PROVE At(new[n]) \in BlocksOf(ix, added, file)
    BY <1>13, <2>1 DEF BlocksOf
  <2>3. ASSUME NEW k \in LiveOf(ix, added, file)
        PROVE  \E n \in m + 1..m + c : At(file[ix[k].off]) = At(new[n])
    <3>1. k \in added
      BY DEF LiveOf
    <3>2. m + rank[k] \in m + 1..m + c /\ nm[m + rank[k]] = k
      BY <1>14, <3>1
    <3>3. new[m + rank[k]] = file[ix[k].off]
      BY <1>13, <3>2
    <3> QED BY <3>2, <3>3
  <2>4. ASSUME NEW b \in Held(new) PROVE b \in Held(copy) \cup BlocksOf(ix, added, file)
    <3>1. PICK n \in Live(new) : b = At(new[n])
      BY DEF Held
    <3>2. CASE n \in Live(copy)
      BY <1>21, <3>1, <3>2 DEF Held
    <3>3. CASE n \in m + 1..m + c
      BY <2>2, <3>1, <3>3
    <3> QED BY <1>21, <3>2, <3>3
  <2>5. ASSUME NEW b \in Held(copy) PROVE b \in Held(new)
    <3>1. PICK n \in Live(copy) : b = At(copy[n])
      BY DEF Held
    <3>2. n \in Live(new) /\ b = At(new[n])
      BY <1>21, <3>1
    <3> QED BY <3>2 DEF Held
  <2>6. ASSUME NEW b \in BlocksOf(ix, added, file) PROVE b \in Held(new)
    <3>1. PICK k \in LiveOf(ix, added, file) : b = At(file[ix[k].off])
      BY DEF BlocksOf
    <3>2. PICK n \in m + 1..m + c : At(file[ix[k].off]) = At(new[n])
      BY <2>3
    <3>3. n \in Live(new)
      BY <1>21
    <3> QED BY <3>1, <3>2, <3>3 DEF Held
  <2> QED BY <2>4, <2>5, <2>6
<1> QED BY <1>12, <1>16, <1>19, <1>22, <1>23 DEF Rising, m

\* Phase 2 appends the records that were added since the snapshot, each under its height.
LEMMA CatchUpLocal ==
  ASSUME Shape, Shape', Local, CompactCatchUp
  PROVE  Local'
<1> DEFINE upTo(h) == Cardinality({k \in AddedSince : k <= h})
           off(h)  == comp.pos - 1 + upTo(h)
           at(i)   == CHOOSE h \in AddedSince : off(h) = comp.pos - 1 + i
           last    == [i \in 1..Cardinality(AddedSince) |-> ino[data][mem.index[at(i)].off]]
           both    == [h \in DOMAIN comp.index \cup AddedSince |->
                         IF h \in AddedSince THEN [off |-> off(h), flags |-> mem.index[h].flags]
                         ELSE comp.index[h]]
<1>0. /\ alive /\ comp.pc = "catchup" /\ lock = "free" /\ comp.seq = mem.seq
      /\ \A h \in AddedSince : Readable(ino[data], mem.index[h])
      /\ ino' = [ino EXCEPT ![tmp] = @ \o last]
      /\ idxTmp' = [epoch |-> comp.epoch, size |-> comp.pos - 1 + Cardinality(AddedSince),
                    index |-> both]
      /\ comp' = [pc |-> "data", epoch |-> comp.epoch]
      /\ UNCHANGED <<data, tmp, idx, mem, loop, alive, main, flips>>
  BY DEF CompactCatchUp, Rewritten
<1>1. PICK file, copy, ix, base, added, m, c, rank, name, all, new :
         /\ file = ino[data] /\ copy = ino[tmp] /\ ix = mem.index /\ base = comp.index
         /\ added = AddedSince /\ m = comp.pos - 1 /\ c = Cardinality(added)
         /\ rank = [h \in added |-> upTo(h)] /\ name = [i \in 1..c |-> at(i)]
         /\ all = both /\ new = copy \o last
  OBVIOUS
<1>2. DataLocal /\ MemLocal /\ CompLocal
  BY DEF Local
<1>3. /\ alive /\ comp.pc = "catchup" /\ lock = "free" /\ comp.seq = mem.seq
      /\ \A h \in added : Readable(file, ix[h])
      /\ ino' = [ino EXCEPT ![tmp] = new]
      /\ idxTmp' = [epoch |-> comp.epoch, size |-> m + c, index |-> all]
      /\ comp' = [pc |-> "data", epoch |-> comp.epoch]
      /\ UNCHANGED <<data, tmp, idx, mem, loop, alive, main, flips>>
  <2> HIDE DEF last, both
  <2> QED BY <1>0, <1>1
<1>4. /\ new = copy \o [i \in 1..c |-> file[ix[at(i)].off]]
      /\ all = [h \in DOMAIN base \cup added |->
                  IF h \in added THEN [off |-> m + upTo(h), flags |-> ix[h].flags] ELSE base[h]]
  <2> HIDE DEF upTo, at
  <2>1. \A h : off(h) = m + upTo(h)
    BY <1>1
  <2> QED BY <1>1
<1> HIDE DEF last, both
<1>5. /\ loop.pc = "idle" /\ file \in Seq(Cell) /\ ix \in Indexes /\ base \in Indexes
      /\ flips \in Nat /\ main \in SUBSET Block /\ comp.snap \in Indexes /\ comp.pos \in Nat \ {0}
      /\ ino \in [Inode -> Seq(Cell)] /\ data \in Inode /\ data # tmp /\ Len(file) \in Nat
      /\ comp.epoch \in Nat
  BY <1>1, <1>3, Known
<1>6. PICK g \in 1..Len(file) : SnapLocal(g) /\ CopyLocal(g)
  BY <1>1, <1>2, <1>3, <1>5 DEF CompLocal, Current
<1>7. Ordered(file) /\ Held(file) \subseteq main /\ Lists(ix, file, Len(file))
  BY <1>1, <1>2, <1>3, <1>5 DEF DataLocal, MemLocal, Stored, Renamed, Serves
<1>8. /\ tmp # 0 /\ comp.epoch = mem.epoch + 1
      /\ Fresh(copy, m, comp.epoch) /\ Lists(base, copy, m)
      /\ DOMAIN base \subseteq DOMAIN comp.snap
      /\ \A n \in Live(copy), k \in LiveOf(ix, added, file) : copy[n].h < k
      /\ comp.pos > 1
  BY <1>1, <1>3, <1>6 DEF CopyLocal
<1>9. /\ added = DOMAIN ix \ DOMAIN comp.snap
      /\ \A k \in added : IsRecord(file[ix[k].off]) => file[ix[k].off].h = k
      /\ Few(Gone(main, Saved) \cup Above(comp.snap, main), flips)
  BY <1>1, <1>6 DEF SnapLocal, AddedSince
<1>10. /\ copy \in Seq(Cell) /\ Len(copy) = m /\ m \in Nat /\ m >= 1 /\ tmp \in Inode
  BY <1>1, <1>5, <1>8, Known DEF Fresh
<1>11. /\ added \in SUBSET DOMAIN ix /\ added \in SUBSET Height /\ added \cap DOMAIN base = {}
       /\ \A k \in added : k \in Nat
  BY <1>5, <1>8, <1>9, Indices, StorageAssumption DEF Height
<1>12. ASSUME NEW k \in added
       PROVE  /\ ix[k].off \in Live(file) /\ file[ix[k].off].h = k
              /\ file[ix[k].off].flags = ix[k].flags /\ k \in LiveOf(ix, added, file)
  <2>1. IsRecord(file[ix[k].off]) /\ file[ix[k].off].flags = ix[k].flags
    BY <1>3 DEF Readable
  <2>2. k \in LiveOf(ix, added, file) /\ k \in LiveOf(ix, DOMAIN ix, file)
    BY <1>11, <2>1 DEF LiveOf
  <2>3. ix[k].off \in Live(file)
    BY <1>5, <1>7, <2>2, Listed
  <2> QED BY <1>9, <2>1, <2>2, <2>3
\* The ranks of the added heights.
<1>13. /\ c \in Nat
       /\ \A h \in added : upTo(h) \in 1..c
       /\ \A h, j \in added : h < j => upTo(h) < upTo(j)
       /\ \A i \in 1..c : \E h \in added : upTo(h) = i
  <2>1. c = Cardinality(added) /\ \A h : upTo(h) = Cardinality({k \in added : k <= h})
    BY <1>1
  <2> HIDE DEF upTo
  <2>2. /\ Cardinality(added) \in Nat
        /\ \A i \in 1..Cardinality(added) : \E h \in added : Cardinality({k \in added : k <= h}) = i
    BY ONLY <1>11, Ranks
  <2>3. /\ \A h \in added : Cardinality({k \in added : k <= h}) \in 1..Cardinality(added)
        /\ \A h, j \in added : h < j =>
              Cardinality({k \in added : k <= h}) < Cardinality({k \in added : k <= j})
    BY ONLY <1>11, RanksRise
  <2> QED BY <2>1, <2>2, <2>3
<1> HIDE DEF upTo
<1>14. ASSUME NEW i \in 1..c PROVE at(i) \in added /\ upTo(at(i)) = i
  <2>1. PICK h \in added : upTo(h) = i
    BY <1>13
  <2>2. off(h) = comp.pos - 1 + i
    BY <2>1
  <2>3. at(i) \in added /\ off(at(i)) = comp.pos - 1 + i
    <3> HIDE DEF off
    <3> QED BY <1>1, <2>2
  <2>4. upTo(at(i)) \in Nat /\ i \in Nat
    BY <1>13, <2>3
  <2> HIDE DEF at
  <2> QED BY <1>5, <2>3, <2>4
<1> HIDE DEF at, off
<1>15. /\ rank \in [added -> 1..c] /\ name \in [1..c -> added]
       /\ \A i \in 1..c : rank[name[i]] = i /\ name[i] = at(i)
       /\ \A h \in added : rank[h] = upTo(h)
       /\ \A h, j \in added : h < j => rank[h] < rank[j]
  BY <1>1, <1>13, <1>14
<1>16. all \in Indexes
  <2>1. idxTmp'.index = all
    BY <1>3
  <2>2. idxTmp' \in IndexFile
    BY DEF Shape, FilesTyped
  <2> QED BY <2>1, <2>2 DEF IndexFile
<1>17. Follows(file, ix, added, copy, base, c, rank, name, all, new)
  <2>1. [i \in 1..c |-> file[ix[at(i)].off]] = [i \in 1..c |-> file[ix[name[i]].off]]
    BY <1>15
  <2>2. \A h \in added : m + upTo(h) = Len(copy) + rank[h]
    BY <1>10, <1>15
  <2>3. all = [h \in DOMAIN base \cup added |->
                   IF h \in added THEN [off |-> Len(copy) + rank[h], flags |-> ix[h].flags]
                   ELSE base[h]]
    BY <1>4, <2>2
  <2>4. /\ file \in Seq(Cell) /\ copy \in Seq(Cell) /\ Len(copy) >= 1
        /\ ix \in Indexes /\ base \in Indexes /\ all \in Indexes /\ Lists(base, copy, Len(copy))
        /\ added \in SUBSET DOMAIN ix /\ added \cap DOMAIN base = {}
        /\ c \in Nat /\ rank \in [added -> 1..c] /\ name \in [1..c -> added]
    BY <1>5, <1>8, <1>10, <1>11, <1>13, <1>15, <1>16
  <2>5. /\ \A k \in added : /\ ix[k].off \in Live(file)
                            /\ file[ix[k].off].h = k /\ file[ix[k].off].flags = ix[k].flags
        /\ \A n \in Live(copy), k \in added : copy[n].h < k
    BY <1>8, <1>12
  <2>6. new = copy \o [i \in 1..c |-> file[ix[name[i]].off]]
    BY <1>4, <2>1
  <2>7. /\ \A i \in 1..c : rank[name[i]] = i
        /\ \A h, j \in added : h < j => rank[h] < rank[j]
    BY <1>15
  <2> QED BY ONLY <2>3, <2>4, <2>5, <2>6, <2>7 DEF Follows
<1>18. /\ new \in Seq(Cell) /\ Len(new) = Len(copy) + c
       /\ \A n \in 1..Len(copy) : new[n] = copy[n]
       /\ \A n \in Len(copy) + 1..Len(new) : new[n] \in Record
       /\ Lists(all, new, Len(new))
       /\ Rising(copy) => Rising(new)
       /\ Held(new) = Held(copy) \cup BlocksOf(ix, added, file)
  BY ONLY <1>17, Appended
<1>19. ino'[tmp] = new /\ ino'[data] = file
  BY <1>1, <1>3, <1>5, <1>10
<1>20. /\ comp'.pc = "data" /\ comp'.epoch = comp.epoch
       /\ idxTmp'.epoch = comp.epoch /\ idxTmp'.size = Len(new) /\ idxTmp'.index = all
  BY <1>3, <1>10, <1>18
<1>21. Fresh(new, Len(new), comp.epoch)
  <2>1. 1 \in 1..Len(copy) /\ Rising(copy) /\ copy[1] = Header(comp.epoch)
        /\ \A n \in 2..m : copy[n] \in Record /\ n \in 1..Len(copy)
    BY <1>8, <1>10 DEF Fresh
  <2>2. ASSUME NEW n \in 2..Len(new) PROVE new[n] \in Record
    <3>1. CASE n \in 2..m
      BY <1>18, <2>1, <3>1
    <3>2. CASE n \notin 2..m
      <4>1. n \in Len(copy) + 1..Len(new)
        BY <1>10, <3>2
      <4> QED BY <1>18, <4>1
    <3> QED BY <3>1, <3>2
  <2>3. Held(new) \subseteq main
    <3>1. BlocksOf(ix, added, file) \subseteq Held(file)
      BY <1>12 DEF BlocksOf, LiveOf, Held
    <3> QED BY <1>7, <1>8, <1>18, <3>1 DEF Fresh
  <2> QED BY <1>18, <2>1, <2>2, <2>3 DEF Fresh
<1>22. Few(Gone(main, Held(new)), flips)
  <2>1. Saved = Held(copy) \cup BlocksOf(comp.snap, {}, file) \cup BlocksOf(ix, added, file)
    BY <1>1, <1>3 DEF Saved, ToCopy
  <2>2. BlocksOf(comp.snap, {}, file) = {}
    BY DEF BlocksOf, LiveOf
  <2>3. Gone(main, Held(new)) \subseteq Gone(main, Saved) \cup Above(comp.snap, main)
    BY <1>18, <2>1, <2>2
  <2>4. Gone(main, Saved) \cup Above(comp.snap, main) \in SUBSET Height
    BY <1>5, Losses
  <2> QED BY <1>5, <1>9, <2>3, <2>4, FewLess
<1>23. CompLocal'
  <2>1. Len(new) >= 1
    BY <1>10, <1>13, <1>18
  <2>2. Fresh(ino[tmp], Len(ino[tmp]), comp.epoch)'
    BY <1>3, <1>19, <1>20, <1>21 DEF Fresh
  <2> QED BY <1>3, <1>8, <1>18, <1>19, <1>20, <1>22, <2>1, <2>2 DEF CompLocal, Current
<1> QED BY <1>1, <1>3, <1>5, <1>19, <1>20, <1>23, CompactionLocal

\* A finished copy, whose records the index all leads to, serves the chain.
LEMMA FreshServes ==
  ASSUME NEW file \in Seq(Cell), Len(file) >= 1, NEW e \in Nat, Fresh(file, Len(file), e),
         NEW ix \in Indexes, Lists(ix, file, Len(file)), main \in SUBSET Block,
         NEW n \in Nat, Few(Gone(main, Held(file)), n)
  PROVE  /\ Ordered(file) /\ file[1].epoch = e /\ Held(file) \subseteq main
         /\ Serves(ix, file, main, n)
<1>1. /\ Len(file) \in Nat /\ file[1] = Header(e) /\ Rising(file) /\ Held(file) \subseteq main
      /\ \A i \in 2..Len(file) : file[i] \in Record
  BY DEF Fresh
<1>2. file[1].epoch = e /\ Ordered(file)
  BY <1>1, Cells DEF Ordered
<1>3. Dead(ix, file) = {}
  <2>1. \A k \in DOMAIN ix : ix[k].off \in 2..Len(file)
    BY DEF Lists
  <2>2. \A k \in DOMAIN ix : IsRecord(file[ix[k].off])
    BY <1>1, <2>1, Cells
  <2> QED BY <2>2 DEF Dead
<1>4. Above(ix, main) = {}
  <2>1. Above(ix, main) \subseteq Dead(ix, file)
    BY <1>1, AboveIsDead
  <2> QED BY <1>3, <2>1
<1>5. Gone(main, Held(file)) \cup Above(ix, main) = Gone(main, Held(file))
  BY <1>4
<1>6. Few(Dead(ix, file), n)
  BY <1>3, FewNone
<1> QED BY <1>1, <1>2, <1>5, <1>6 DEF Serves

\* The end of a compaction: it gives up, or it swaps the files.
LEMMA SwapLocal ==
  ASSUME Shape, Local, CompactAbort \/ CompactFails \/ CompactData \/ CompactDone
  PROVE  Local'
<1>1. DataLocal /\ MemLocal /\ LoopLocal /\ CompLocal
  BY DEF Local
<1>2. /\ mem.epoch \in Nat /\ idx.epoch \in Int /\ flips \in Nat /\ main \in SUBSET Block
      /\ mem \in [index : Indexes, epoch : Nat, size : Nat, seq : Nat]
      /\ ino[data] \in Seq(Cell) /\ Len(ino[data]) \in Nat
      /\ idxTmp.index \in Indexes
  BY Known
<1>3. CASE CompactAbort \/ CompactFails
  <2>1. /\ comp.pc = "catchup" /\ lock = "free" /\ comp' = Idle
        /\ UNCHANGED <<ino, data, idx, mem, loop, alive, main, flips>>
    BY <1>3 DEF CompactAbort, CompactFails, files
  <2>2. loop.pc = "idle" /\ comp'.pc = "idle"
    BY <2>1, Points DEF Shape, ThreadsTyped
  <2>3. CompLocal'
    BY <2>2 DEF CompLocal, Current
  <2> QED BY <2>1, <2>2, <2>3, CompactionLocal
<1>4. CASE CompactData
  <2>0. PICK file, ix : file = ino[tmp] /\ ix = idxTmp.index
    OBVIOUS
  <2>1. /\ alive /\ comp.pc = "data" /\ tmp # 0 /\ data' = tmp /\ tmp' = 0
        /\ comp' = [comp EXCEPT !.pc = "done"]
        /\ UNCHANGED <<ino, idx, idxTmp, mem, lock, loop, alive, main, flips>>
    BY <1>4 DEF CompactData
  <2>2. loop.pc = "idle" /\ comp \in Swapping /\ comp.epoch \in Nat
    BY <2>1, Points DEF Shape, ThreadsTyped, Swapping
  <2>3. comp'.pc = "done" /\ comp'.epoch = comp.epoch
    BY <2>1, <2>2 DEF Swapping
  <2>4. /\ comp.epoch = mem.epoch + 1
        /\ Len(file) >= 1 /\ Fresh(file, Len(file), comp.epoch)
        /\ idxTmp.epoch = comp.epoch /\ idxTmp.size = Len(file)
        /\ Lists(ix, file, Len(file))
        /\ Few(Gone(main, Held(file)), flips)
    BY <1>1, <2>0, <2>1 DEF CompLocal
  <2>5. file \in Seq(Cell) /\ Len(file) \in Nat /\ ix \in Indexes
    BY <2>0, <2>1, Known
  <2>6. /\ Ordered(file) /\ file[1].epoch = comp.epoch /\ Held(file) \subseteq main
        /\ Serves(ix, file, main, flips)
    BY <1>2, <2>2, <2>4, <2>5, FreshServes
  <2>7. /\ idx.epoch < comp.epoch
        /\ \A b, c \in main : b.h = c.h => b = c
    <3>1. idx.epoch <= mem.epoch /\ \A b, c \in main : b.h = c.h => b = c
      BY <1>1, <2>1, <2>2 DEF DataLocal, MemLocal, Describes, Renamed, Stored
    <3> QED BY <1>2, <2>4, <3>1
  <2>8. ino'[data'] = file /\ Stored' = main
    BY <2>0, <2>1, <2>2 DEF Stored
  <2>9. DataLocal'
    <3>1. Describes(idx, file, flips)
      BY <1>2, <2>2, <2>6, <2>7 DEF Describes
    <3> QED BY <2>1, <2>6, <2>7, <2>8, <3>1 DEF DataLocal
  <2>10. MemLocal'
    <3>1. Renamed'
      BY <2>3 DEF Renamed
    <3> QED BY <2>0, <2>1, <2>4, <2>6, <2>7, <2>8, <3>1 DEF MemLocal
  <2>11. LoopLocal'
    BY <2>1, <2>2 DEF LoopLocal
  <2>12. CompLocal'
    BY <2>1, <2>3, <2>6, <2>8 DEF CompLocal, Current
  <2> QED BY <2>9, <2>10, <2>11, <2>12 DEF Local
<1>5. CASE CompactDone
  <2>0. PICK file : file = ino[data]
    OBVIOUS
  <2>1. /\ alive /\ comp.pc = "done"
        /\ idx' = idxTmp
        /\ mem' = [mem EXCEPT !.index = idxTmp.index, !.epoch = comp.epoch, !.size = idxTmp.size]
        /\ comp' = Idle
        /\ UNCHANGED <<ino, data, tmp, loop, alive, main, flips>>
    BY <1>5 DEF CompactDone
  <2>2. loop.pc = "idle" /\ comp'.pc = "idle"
    BY <2>1, Points DEF Shape, ThreadsTyped
  <2>3. /\ comp.epoch = file[1].epoch
        /\ idxTmp.epoch = file[1].epoch /\ idxTmp.size = Len(file)
        /\ Serves(idxTmp.index, file, main, flips)
        /\ Ordered(file) /\ Held(file) \subseteq main
        /\ \A b, c \in main : b.h = c.h => b = c
    BY <1>1, <2>0, <2>1, <2>2 DEF CompLocal, MemLocal, DataLocal, Renamed, Stored
  <2>4. /\ mem'.index = idxTmp.index /\ mem'.epoch = comp.epoch /\ mem'.size = idxTmp.size
        /\ ino'[data'] = file /\ Stored' = main
    BY <1>2, <2>0, <2>1, <2>2 DEF Stored
  <2>5. DataLocal'
    <3>1. Len(file) \in 1..Len(file)
      BY <1>2, <2>0, <2>3 DEF Ordered
    <3>2. Describes(idxTmp, file, flips)
      <4>1. idxTmp.epoch <= file[1].epoch
        BY <2>3, Known
      <4> QED BY <2>3, <3>1, <4>1 DEF Describes, Serves
    <3> QED BY <2>1, <2>3, <2>4, <3>2 DEF DataLocal
  <2>6. MemLocal'
    <3>1. ~ Renamed'
      BY <2>1, <2>2 DEF Renamed
    <3> QED BY <2>1, <2>3, <2>4, <3>1 DEF MemLocal
  <2>7. LoopLocal' /\ CompLocal'
    BY <2>1, <2>2 DEF LoopLocal, CompLocal, Current
  <2> QED BY <2>5, <2>6, <2>7 DEF Local
<1> QED BY <1>3, <1>4, <1>5

\* The next start reads all that it can; what it cannot read is no longer of the chain.
LEMMA RecoverLocal ==
  ASSUME Shape, Local, Recover
  PROVE  Local'
<1>0. PICK file, good, index :
         file = ino[data] /\ good = RecoveredFile(file, idx) /\ index = RecoveredIndex(file, idx)
  OBVIOUS
<1>1. DataLocal
  BY DEF Local
<1>2. /\ file \in Seq(Cell) /\ Len(file) \in Nat /\ idx \in IndexFile /\ idx.index \in Indexes
      /\ flips \in Nat /\ main \in SUBSET Block /\ data \in Inode /\ idx.size \in Nat
  BY <1>0, Known
<1>3. ~ alive /\ loop.pc = "idle" /\ comp.pc = "idle" /\ UNCHANGED <<data, lock, loop, comp, flips>>
  BY DEF Recover, Shape, ThreadsTyped
<1>4. /\ Ordered(file) /\ Held(file) \subseteq main /\ \A b, c \in main : b.h = c.h => b = c
      /\ Describes(idx, file, flips)
  BY <1>0, <1>1, <1>3 DEF DataLocal, Stored
<1>5. /\ HasHeader(file)
      /\ good \in Seq(Cell) /\ index \in Indexes
      /\ Len(good) \in 1..Len(file)
      /\ \A i \in 1..Len(good) : good[i] = file[i]
      /\ Lists(index, good, Len(good))
      /\ Few(Dead(index, good), flips)
      /\ Adopts(file, idx) => idx.size <= Len(good)
  BY <1>0, <1>2, <1>4, Recovers
<1>6. /\ ino' = [i \in Inode |-> IF i = data THEN good ELSE << >>]
      /\ mem' = [index |-> index, epoch |-> good[1].epoch, size |-> Len(good), seq |-> 0]
      /\ idx' = IF ~ Adopts(file, idx)
                THEN [epoch |-> good[1].epoch, size |-> Len(good), index |-> index]
                ELSE idx
      /\ main' = Loaded(good, index)
      /\ alive'
  BY <1>0, <1>5 DEF Recover, Recoverable
<1>7. Len(good) \in Nat /\ Len(good) >= 1 /\ Len(good) <= Len(file) /\ 1 \in 1..Len(good)
  BY <1>2, <1>5
<1>8. Held(good) \subseteq Held(file) /\ Ordered(good) /\ good[1] = file[1]
  <2>1. Held(good) \subseteq Held(file) /\ (Rising(file) => Rising(good))
    BY <1>2, <1>5, <1>7, FirstCells
  <2>2. good[1] = file[1]
    BY <1>5, <1>7
  <2> QED BY <1>4, <1>7, <2>1, <2>2 DEF Ordered
<1>9. main' = Held(good) /\ main' \in SUBSET Block /\ main' \subseteq main
  <2>1. Loaded(good, index) = Held(good)
    BY <1>5, <1>8, LoadsAll
  <2> QED BY <1>2, <1>4, <1>6, <1>8, <2>1
<1>10. ino'[data'] = good /\ Stored' = main'
  BY <1>2, <1>3, <1>6 DEF Stored
<1>11. Describes(idx', good, flips)
  <2>1. CASE Adopts(file, idx)
    <3>1. /\ idx.size \in 1..Len(file) /\ Lists(idx.index, file, idx.size)
          /\ Few(Dead(idx.index, file), flips)
          /\ idx.epoch = file[1].epoch /\ idx.epoch <= file[1].epoch
      BY <1>4, <2>1 DEF Adopts, Describes
    <3>2. /\ idx.size <= Len(good) /\ idx.size <= Len(file) /\ idx.size \in 1..Len(good)
          /\ \A n \in 1..idx.size : good[n] = file[n]
      BY <1>2, <1>5, <1>7, <2>1, <3>1
    <3>3. Lists(idx.index, good, idx.size) /\ Dead(idx.index, good) = Dead(idx.index, file)
      BY <1>2, <1>5, <3>1, <3>2, SameListing
    <3> QED BY <1>6, <1>8, <2>1, <3>1, <3>2, <3>3 DEF Describes
  <2>2. CASE ~ Adopts(file, idx)
    <3>1. idx'.epoch = good[1].epoch /\ idx'.size = Len(good) /\ idx'.index = index
      BY <1>6, <2>2
    <3>2. Len(good) \in 1..Len(good)
      BY <1>7
    <3>3. good[1].epoch <= good[1].epoch
      <4>1. IsHeader(good[1]) /\ good[1] \in Cell
        BY <1>5, <1>7, <1>8 DEF Ordered
      <4>2. \E e \in Nat : good[1] = Header(e)
        BY <4>1, Cells DEF Cell
      <4>3. good[1].epoch \in Nat
        BY <4>2, Cells
      <4> QED BY <4>3
    <3> QED BY <1>5, <3>1, <3>2, <3>3 DEF Describes
  <2> QED BY <2>1, <2>2
<1>12. Serves(index, good, main', flips)
  BY <1>2, <1>5, <1>9, ServesAll
<1>13. DataLocal'
  BY <1>3, <1>4, <1>8, <1>9, <1>10, <1>11 DEF DataLocal
<1>14. ~ Renamed' /\ ~ Renamed
  BY <1>3 DEF Renamed
<1>15. MemLocal'
  <2>1. mem'.index = index /\ mem'.epoch = good[1].epoch /\ mem'.size = Len(good)
    BY <1>6
  <2> QED BY <1>3, <1>10, <1>12, <1>14, <2>1 DEF MemLocal
<1>16. LoopLocal' /\ CompLocal'
  BY <1>3 DEF LoopLocal, CompLocal, Current
<1> QED BY <1>13, <1>15, <1>16 DEF Local

\* The end of the process, and steps that change nothing of all this.
LEMMA RestartLocal ==
  ASSUME Shape, Local, Crash \/ Close \/ Exhausted \/ UNCHANGED vars
  PROVE  Local'
<1>1. DataLocal /\ MemLocal /\ LoopLocal /\ CompLocal
  BY DEF Local
<1>2. ASSUME ~ alive', loop'.pc = "idle", comp'.pc = "idle"
      PROVE  MemLocal' /\ LoopLocal' /\ CompLocal'
  BY <1>2 DEF MemLocal, LoopLocal, CompLocal, Current, Renamed
<1>3. CASE Crash
  <2>1. /\ alive' = FALSE
        /\ main' = IF loop.pc = "done" THEN loop.chain ELSE main
        /\ loop' = Idle /\ comp' = Idle
        /\ UNCHANGED <<ino, data, idx, flips>>
    BY <1>3 DEF Crash, Stored, files
  <2>2. loop'.pc = "idle" /\ comp'.pc = "idle" /\ ~ alive'
    BY <2>1, Points
  <2>3. Stored' = Stored
    BY <2>1, <2>2 DEF Stored
  <2>4. DataLocal'
    BY <1>1, <2>1, <2>3 DEF DataLocal
  <2> QED BY <1>2, <2>2, <2>4 DEF Local
<1>4. CASE Close
  <2>0. PICK file : file = ino[data]
    OBVIOUS
  <2>1. /\ alive /\ lock = "free" /\ loop.pc = "idle" /\ alive' = FALSE
        /\ idx' = [epoch |-> mem.epoch, size |-> mem.size, index |-> mem.index]
        /\ comp' = Idle
        /\ UNCHANGED <<ino, data, loop, main, flips>>
    BY <1>4 DEF Close
  <2>2. loop'.pc = "idle" /\ comp'.pc = "idle" /\ ~ alive' /\ ~ Renamed
    BY <2>1, Points, Known DEF Renamed
  <2>3. /\ mem.epoch = file[1].epoch /\ mem.size = Len(file)
        /\ Lists(mem.index, file, Len(file)) /\ Few(Dead(mem.index, file), flips)
        /\ Len(file) >= 1 /\ Len(file) \in Nat /\ mem.epoch \in Nat
    BY <1>1, <2>0, <2>1, <2>2, Known DEF MemLocal, DataLocal, Ordered, Serves
  <2>4. /\ idx'.epoch = file[1].epoch /\ idx'.size = Len(file) /\ idx'.index = mem.index
        /\ Len(file) \in 1..Len(file) /\ idx'.epoch <= file[1].epoch
    BY <2>1, <2>3
  <2>5. Describes(idx', file, flips)
    BY <2>3, <2>4 DEF Describes
  <2>6. Stored' = Stored
    BY <2>1 DEF Stored
  <2>7. DataLocal'
    BY <1>1, <2>0, <2>1, <2>5, <2>6 DEF DataLocal
  <2> QED BY <1>2, <2>2, <2>7 DEF Local
<1>5. CASE Exhausted \/ UNCHANGED vars
  <2>1. UNCHANGED <<ino, data, tmp, idx, idxTmp, mem, loop, comp, alive, main, flips>>
    BY <1>5 DEF Exhausted, vars, files
  <2>2. DataLocal' /\ MemLocal'
    BY <1>1, <2>1 DEF DataLocal, MemLocal, Stored, Renamed
  <2>3. LoopLocal'
    BY <1>1, <2>1 DEF LoopLocal, Written
  <2>4. CompLocal'
    <3>1. AddedSince' = AddedSince /\ ToCopy' = ToCopy /\ (Current' <=> Current)
      BY <2>1 DEF AddedSince, ToCopy, Current
    <3>2. Saved' = Saved
      BY <2>1, <3>1 DEF Saved
    <3>3. \A g \in 1..Len(ino[data]) : SnapLocal(g)' <=> SnapLocal(g)
      BY <2>1, <3>1, <3>2 DEF SnapLocal
    <3>4. \A g \in 1..Len(ino[data]) : CopyLocal(g)' <=> CopyLocal(g)
      BY <2>1, <3>1 DEF CopyLocal, Fresh
    <3>5. Fresh(ino[tmp], Len(ino[tmp]), comp.epoch)' <=> Fresh(ino[tmp], Len(ino[tmp]), comp.epoch)
      BY <2>1 DEF Fresh
    <3> QED BY <1>1, <2>1, <3>1, <3>3, <3>4, <3>5 DEF CompLocal
  <2> QED BY <2>2, <2>3, <2>4 DEF Local
<1> QED BY <1>3, <1>4, <1>5

\* One corrupted record is one more loss.
LEMMA FlippedServes ==
  ASSUME NEW file \in Seq(Cell), Ordered(file), NEW n \in 1..Len(file), IsRecord(file[n]),
         NEW new \in Seq(Cell), Corrupts(file, n, new),
         NEW ix \in Indexes, NEW chain \in SUBSET Block, NEW m \in Nat, Serves(ix, file, chain, m)
  PROVE  Serves(ix, new, chain, m + 1)
<1>0. /\ file \in Seq(Cell) /\ Ordered(file) /\ n \in 1..Len(file) /\ IsRecord(file[n])
      /\ new \in Seq(Cell) /\ Corrupts(file, n, new) /\ ix \in Indexes
      /\ Len(file) \in Nat /\ Len(file) <= Len(file)
  OBVIOUS
<1>2. Held(file) \subseteq Held(new) \cup {At(file[n])}
  BY ONLY <1>0, Flipped
<1>3. Lists(ix, file, Len(file)) /\ Few(Dead(ix, file), m)
      /\ Few(Gone(chain, Held(file)) \cup Above(ix, chain), m)
  BY DEF Serves
<1>4. Lists(ix, new, Len(file)) /\ \E x : Dead(ix, new) \subseteq Dead(ix, file) \cup {x}
  <2>1. PICK g \in Nat : g = Len(file) /\ g <= Len(file) /\ Lists(ix, file, g)
    BY <1>0, <1>3
  <2>2. Lists(ix, new, g) /\ \E x : Dead(ix, new) \subseteq Dead(ix, file) \cup {x}
    BY ONLY <1>0, <2>1, FlippedEntry
  <2> QED BY <2>1, <2>2
<1>5. /\ Dead(ix, file) \in SUBSET Height /\ Gone(chain, Held(file)) \in SUBSET Height
      /\ Above(ix, chain) \in SUBSET Height
  BY Losses
<1>6. Few(Dead(ix, new), m + 1)
  BY <1>3, <1>4, <1>5, FewMore
<1>7. Gone(chain, Held(new)) \cup Above(ix, chain)
        \subseteq (Gone(chain, Held(file)) \cup Above(ix, chain)) \cup {At(file[n]).h}
  BY <1>2 DEF Gone
<1>8. Gone(chain, Held(file)) \cup Above(ix, chain) \in SUBSET Height
  BY <1>5
<1>9. Few(Gone(chain, Held(new)) \cup Above(ix, chain), m + 1)
  <2> DEFINE S == Gone(chain, Held(new)) \cup Above(ix, chain)
             T == Gone(chain, Held(file)) \cup Above(ix, chain)
             x == At(file[n]).h
  <2>1. S \subseteq T \cup {x} /\ T \in SUBSET Height /\ Few(T, m)
    BY <1>3, <1>7, <1>8
  <2> HIDE DEF S, T, x
  <2>2. Few(S, m + 1)
    BY <2>1, FewMore
  <2> QED BY <2>2 DEF S
<1> QED BY <1>4, <1>6, <1>9 DEF Serves, Corrupts

\* The medium corrupts a record: what is lost of the chain, of the index in memory and of
\* the copy of a compaction grows by one.
LEMMA FlipLocal ==
  ASSUME Shape, Shape', Local, NEW n \in Nat, BitFlip(n), n >= 2
  PROVE  Local'
<1>0. PICK file, new : file = ino[data] /\ new = [file EXCEPT ![n] = Torn]
  OBVIOUS
<1>1. DataLocal /\ MemLocal /\ LoopLocal /\ CompLocal
  BY DEF Local
<1>2. /\ ino \in [Inode -> Seq(Cell)] /\ data \in Inode /\ data # tmp
      /\ file \in Seq(Cell) /\ Len(file) \in Nat /\ flips \in Nat
      /\ idx \in IndexFile /\ idx.index \in Indexes /\ idxTmp.index \in Indexes
      /\ mem.index \in Indexes /\ Stored \in SUBSET Block /\ main \in SUBSET Block
      /\ tmp # 0 => tmp \in Inode
  BY <1>0, Known
<1>3. /\ n \in 1..Len(file) /\ IsRecord(file[n]) /\ flips' = flips + 1
      /\ ino' = [ino EXCEPT ![data] = new]
      /\ UNCHANGED <<data, tmp, idx, idxTmp, mem, lock, loop, comp, alive, main>>
  <2>1. /\ n <= Len(file) /\ IsRecord(file[n]) /\ flips' = flips + 1
        /\ ino' = [ino EXCEPT ![data][n] = Torn]
        /\ UNCHANGED <<data, tmp, idx, idxTmp, mem, lock, loop, comp, alive, main>>
    BY <1>0 DEF BitFlip
  <2> QED BY <1>0, <1>2, <2>1
<1>4. ino'[data] = new /\ ino'[data'] = new /\ (tmp # 0 => ino'[tmp] = ino[tmp])
  BY <1>2, <1>3
<1>5. Stored' = Stored /\ (Renamed' <=> Renamed)
  BY <1>3 DEF Stored, Renamed
<1>6. /\ Ordered(file) /\ Held(file) \subseteq Stored /\ \A b, c \in Stored : b.h = c.h => b = c
      /\ Describes(idx, file, flips)
  BY <1>0, <1>1 DEF DataLocal
<1>7. /\ new \in Seq(Cell) /\ Corrupts(file, n, new)
      /\ Len(new) = Len(file) /\ new[1] = file[1] /\ Ordered(new)
      /\ Held(new) \subseteq Held(file) /\ Held(file) \subseteq Held(new) \cup {At(file[n])}
  <2>1. new \in Seq(Cell) /\ Corrupts(file, n, new)
    BY <1>0, <1>2, <1>3, Cells DEF Corrupts, Cell
  <2>2. /\ file \in Seq(Cell) /\ Ordered(file) /\ n \in 1..Len(file) /\ IsRecord(file[n])
        /\ new \in Seq(Cell) /\ Corrupts(file, n, new)
    BY <1>2, <1>3, <1>6, <2>1
  <2>3. /\ new[1] = file[1] /\ Ordered(new)
        /\ Held(new) \subseteq Held(file) /\ Held(file) \subseteq Held(new) \cup {At(file[n])}
    BY ONLY <2>2, Flipped
  <2>4. Len(new) = Len(file)
    BY <2>1 DEF Corrupts
  <2> QED BY <2>1, <2>3, <2>4
<1>8. ASSUME NEW ix \in Indexes, NEW g \in Nat, g <= Len(file), Lists(ix, file, g)
      PROVE  /\ Lists(ix, new, g)
             /\ \E x : Dead(ix, new) \subseteq Dead(ix, file) \cup {x}
             /\ \A S \in SUBSET DOMAIN ix :
                   /\ LiveOf(ix, S, new) \subseteq LiveOf(ix, S, file)
                   /\ \A k \in LiveOf(ix, S, new) : new[ix[k].off] = file[ix[k].off]
                   /\ BlocksOf(ix, S, file) \subseteq BlocksOf(ix, S, new) \cup {At(file[n])}
  BY <1>2, <1>3, <1>7, <1>8, FlippedEntry
<1>9. DataLocal'
  <2>0. new[1].epoch = file[1].epoch /\ Len(new) = Len(file)
    BY <1>7
  <2>1. ASSUME idx.epoch = new[1].epoch
        PROVE  /\ idx.size \in 1..Len(new) /\ Lists(idx.index, new, idx.size)
               /\ Few(Dead(idx.index, new), flips + 1)
    <3>0. idx.epoch = file[1].epoch
      BY <2>0, <2>1
    <3>1. /\ idx.size \in 1..Len(file) /\ Lists(idx.index, file, idx.size)
          /\ Few(Dead(idx.index, file), flips)
      BY <1>6, <3>0 DEF Describes
    <3>2. idx.size \in Nat /\ idx.size <= Len(file)
      BY <1>2, <3>1
    <3>3. Lists(idx.index, new, idx.size)
          /\ \E x : Dead(idx.index, new) \subseteq Dead(idx.index, file) \cup {x}
      BY <1>2, <1>8, <3>1, <3>2
    <3>4. Dead(idx.index, file) \in SUBSET Height
      BY <1>2, Losses
    <3>5. Few(Dead(idx.index, new), flips + 1)
      BY <1>2, <3>1, <3>3, <3>4, FewMore
    <3> QED BY <1>7, <3>1, <3>3, <3>5
  <2>2. Describes(idx, new, flips + 1)
    BY <1>6, <2>0, <2>1 DEF Describes
  <2>3. Held(new) \subseteq Stored
    BY <1>6, <1>7
  <2> QED BY <1>3, <1>4, <1>5, <1>6, <1>7, <2>2, <2>3 DEF DataLocal
<1>10. MemLocal'
  <2>1. ASSUME NEW ix \in Indexes, Serves(ix, file, Stored, flips)
        PROVE  Serves(ix, new, Stored, flips + 1)
    BY <1>2, <1>3, <1>6, <1>7, <2>1, FlippedServes
  <2>2. alive /\ ~ Renamed =>
          /\ mem.epoch = new[1].epoch /\ mem.size = Len(new)
          /\ Serves(mem.index, new, Stored, flips + 1)
    BY <1>0, <1>1, <1>2, <1>7, <2>1 DEF MemLocal
  <2>3. Renamed =>
          /\ idxTmp.epoch = new[1].epoch /\ idxTmp.size = Len(new)
          /\ idx.epoch < new[1].epoch
          /\ Serves(idxTmp.index, new, Stored, flips + 1)
    BY <1>0, <1>1, <1>2, <1>7, <2>1 DEF MemLocal
  <2> QED BY <1>3, <1>4, <1>5, <2>2, <2>3 DEF MemLocal
<1>11. LoopLocal'
  <2>1. loop.pc = "write" => tmp # 0
    <3>1. loop.pc = "write" => loop \in Replacing /\ loop.fd = tmp
      BY Points DEF Shape, ThreadsTyped, Idle
    <3>2. \A l \in Replacing : l.fd \in Inode
      BY DEF Replacing
    <3> QED BY <3>1, <3>2 DEF Inode
  <2>2. tmp # 0 => \A m : Written(ino[tmp], m)' <=> Written(ino[tmp], m)
    BY <1>3, <1>4 DEF Written
  <2> QED BY <1>0, <1>1, <1>3, <1>4, <1>7, <2>1, <2>2 DEF LoopLocal
<1>12. ASSUME Current PROVE \E g \in 1..Len(new) : SnapLocal(g)' /\ CopyLocal(g)'
  <2>0. PICK ix, snap, copy, added :
           ix = mem.index /\ snap = comp.snap /\ copy = ino[tmp] /\ added = AddedSince
    OBVIOUS
  <2>1. /\ comp.pc \in {"open", "write", "catchup"} /\ loop.pc = "idle" /\ alive /\ ~ Renamed
        /\ snap \in Indexes /\ (comp.pc = "write" => comp.todo \subseteq DOMAIN snap)
    BY <1>12, <2>0, Known, Points DEF Current, Renamed, Shape, ThreadsTyped
  <2>2. ix \in Indexes /\ Lists(ix, file, Len(file)) /\ Len(file) <= Len(file)
    BY <1>0, <1>1, <1>2, <2>0, <2>1 DEF MemLocal, Serves
  <2>3. PICK g \in 1..Len(file) : SnapLocal(g) /\ CopyLocal(g)
    BY <1>0, <1>1, <1>12 DEF CompLocal
  <2>4. g \in Nat /\ g <= Len(file) /\ g \in 1..Len(new)
    BY <1>2, <1>7
  <2>5. /\ Lists(snap, file, g) /\ DOMAIN snap \subseteq DOMAIN ix
        /\ \A k \in added : ix[k].off > g /\ (IsRecord(file[ix[k].off]) => file[ix[k].off].h = k)
        /\ Few(Gone(main, Saved) \cup Above(snap, main), flips)
    BY <1>0, <2>0, <2>3 DEF SnapLocal
  <2>6. added \in SUBSET DOMAIN ix /\ ToCopy \in SUBSET DOMAIN snap
        /\ AddedSince' = added /\ ToCopy' = ToCopy
    BY <1>3, <2>0, <2>1 DEF AddedSince, ToCopy
  <2>7. /\ Lists(snap, new, g)
        /\ LiveOf(snap, ToCopy, new) \subseteq LiveOf(snap, ToCopy, file)
        /\ \A k \in LiveOf(snap, ToCopy, new) : new[snap[k].off] = file[snap[k].off]
        /\ BlocksOf(snap, ToCopy, file) \subseteq BlocksOf(snap, ToCopy, new) \cup {At(file[n])}
    BY <1>8, <2>1, <2>4, <2>5, <2>6
  <2>8. /\ LiveOf(ix, added, new) \subseteq LiveOf(ix, added, file)
        /\ \A k \in LiveOf(ix, added, new) : new[ix[k].off] = file[ix[k].off]
        /\ BlocksOf(ix, added, file) \subseteq BlocksOf(ix, added, new) \cup {At(file[n])}
    BY <1>2, <1>8, <2>2, <2>6
  <2>9. Saved \subseteq Saved' \cup {At(file[n])}
    <3>1. comp.pc # "open" => tmp # 0
      BY <2>1, <2>3 DEF CopyLocal
    <3>2. Saved = (IF comp.pc = "open" THEN {} ELSE Held(ino[tmp]))
                     \cup BlocksOf(snap, ToCopy, file) \cup BlocksOf(ix, added, file)
      BY <1>0, <2>0 DEF Saved
    <3>3. Saved' = (IF comp.pc = "open" THEN {} ELSE Held(ino'[tmp]))
                     \cup BlocksOf(snap, ToCopy, new) \cup BlocksOf(ix, added, new)
      BY <1>3, <1>4, <2>0, <2>6 DEF Saved
    <3>4. comp.pc # "open" => Held(ino'[tmp]) = Held(ino[tmp])
      BY <1>4, <3>1
    <3> QED BY <2>7, <2>8, <3>2, <3>3, <3>4
  <2>10. Few(Gone(main, Saved') \cup Above(snap, main), flips + 1)
    <3> DEFINE S == Gone(main, Saved') \cup Above(snap, main)
               T == Gone(main, Saved) \cup Above(snap, main)
               x == At(file[n]).h
    <3>1. S \subseteq T \cup {x}
      BY <2>9 DEF Gone
    <3>2. T \in SUBSET Height
      BY <1>2, <2>1, Losses
    <3>3. Few(T, flips)
      BY <2>5
    <3> HIDE DEF S, T, x
    <3>4. Few(S, flips + 1)
      BY <1>2, <3>1, <3>2, <3>3, FewMore
    <3> QED BY <3>4 DEF S
  <2>11. SnapLocal(g)'
    <3>1. \A k \in added : IsRecord(new[ix[k].off]) => new[ix[k].off].h = k
      <4>1. \A k \in added : IsRecord(new[ix[k].off]) => k \in LiveOf(ix, added, new)
        BY DEF LiveOf
      <4>2. \A k \in LiveOf(ix, added, file) : IsRecord(file[ix[k].off])
        BY DEF LiveOf
      <4>3. \A k \in added : k \in LiveOf(ix, added, new) => new[ix[k].off].h = k
        BY <2>5, <2>8, <4>2
      <4> QED BY <4>1, <4>3
    <3> QED BY <1>3, <1>4, <2>0, <2>5, <2>6, <2>7, <2>10, <3>1 DEF SnapLocal
  <2>12. CopyLocal(g)'
    <3>1. ASSUME comp.pc \in {"write", "catchup"}
          PROVE  /\ tmp # 0 /\ ino'[tmp] = copy /\ comp.epoch = mem.epoch + 1
                 /\ Fresh(copy, comp.pos - 1, comp.epoch)
                 /\ Lists(comp.index, copy, comp.pos - 1)
                 /\ DOMAIN comp.index \subseteq DOMAIN snap
                 /\ \A i \in Live(copy) :
                       /\ \A k \in LiveOf(snap, ToCopy, file) : copy[i].h < file[snap[k].off].h
                       /\ \A k \in LiveOf(ix, added, file) : copy[i].h < k
                 /\ comp.pc = "write" =>
                       /\ comp.todo \subseteq comp.names /\ comp.names \subseteq DOMAIN snap
                       /\ \A a \in DOMAIN comp.index, k \in comp.names : a < k
                 /\ comp.pc = "catchup" => comp.pos > 1
      BY <1>0, <1>4, <2>0, <2>3, <3>1 DEF CopyLocal
    <3>2. ASSUME comp.pc \in {"write", "catchup"}, NEW i \in Live(copy)
          PROVE  /\ \A k \in LiveOf(snap, ToCopy, new) : copy[i].h < new[snap[k].off].h
                 /\ \A k \in LiveOf(ix, added, new) : copy[i].h < k
      BY <2>7, <2>8, <3>1, <3>2
    <3>3. Fresh(copy, comp.pos - 1, comp.epoch) => Fresh(copy, comp.pos - 1, comp.epoch)'
      BY <1>3, <2>0 DEF Fresh
    <3>4. comp'.pc \in {"write", "catchup"} => comp.pc \in {"write", "catchup"}
      BY <1>3
    <3> HIDE DEF CopyLocal
    <3> QED BY <1>3, <1>4, <2>0, <2>6, <3>1, <3>2, <3>3, <3>4 DEF CopyLocal, Fresh
  <2> QED BY <2>4, <2>11, <2>12
<1>13. CompLocal'
  <2>1. Current' <=> Current
    BY <1>3 DEF Current
  <2>2. comp.pc = "data" => Few(Gone(main, Held(ino[tmp])), flips + 1)
    <3>1. comp.pc = "data" => Few(Gone(main, Held(ino[tmp])), flips)
      BY <1>1 DEF CompLocal
    <3>2. Gone(main, Held(ino[tmp])) \in SUBSET Height
      BY <1>2, Losses, EmptyIndex
    <3>3. Gone(main, Held(ino[tmp])) \subseteq Gone(main, Held(ino[tmp])) \cup {0}
      OBVIOUS
    <3> QED BY <1>2, <3>1, <3>2, <3>3, FewMore
  <2>3. comp.pc = "data" =>
          /\ tmp # 0 /\ ino'[tmp] = ino[tmp] /\ comp.epoch = mem.epoch + 1
          /\ Len(ino[tmp]) >= 1 /\ Fresh(ino[tmp], Len(ino[tmp]), comp.epoch)
          /\ idxTmp.epoch = comp.epoch /\ idxTmp.size = Len(ino[tmp])
          /\ Lists(idxTmp.index, ino[tmp], Len(ino[tmp]))
    BY <1>1, <1>4 DEF CompLocal
  <2>4. comp.pc = "done" => comp.epoch = new[1].epoch
    BY <1>0, <1>1, <1>7 DEF CompLocal
  <2>5. comp.pc \in {"open", "write", "catchup"} => comp.seq <= mem.seq
    BY <1>1 DEF CompLocal
  <2>6. comp.pc = "data" => Fresh(ino[tmp], Len(ino[tmp]), comp.epoch)'
    BY <1>3, <2>3 DEF Fresh
  <2> QED BY <1>3, <1>4, <1>12, <2>1, <2>2, <2>3, <2>4, <2>5, <2>6 DEF CompLocal
<1> QED BY <1>9, <1>10, <1>11, <1>13 DEF Local

\* The first start.
LEMMA InitLocal == Init => Local
<1> SUFFICES ASSUME Init PROVE Local
  OBVIOUS
<1>0. PICK file : file = <<Header(0)>>
  OBVIOUS
<1>1. /\ ino[data] = file /\ loop = Idle /\ comp = Idle /\ main = {} /\ flips = 0
      /\ idx = NoIndex /\ mem = [index |-> << >>, epoch |-> 0, size |-> 1, seq |-> 0]
  BY <1>0 DEF Init, Inode
<1>2. /\ Len(file) = 1 /\ file[1] = Header(0) /\ file[1].epoch = 0 /\ IsHeader(file[1])
      /\ ~ IsRecord(file[1]) /\ 1..1 = {1} /\ 2..1 = {} /\ Idle.pc = "idle"
      /\ DOMAIN << >> = {}
  BY <1>0, Cells, Points
<1>3. Live(file) = {}
  BY <1>2 DEF Live
<1>4. Held(file) = {} /\ Ordered(file)
  BY <1>2, <1>3 DEF Held, Ordered, Rising
<1>5. Lists(<< >>, file, 1) /\ Dead(<< >>, file) = {}
  BY <1>2 DEF Lists, LiveOf, Dead
<1>6. Gone({}, Held(file)) \cup Above(<< >>, {}) = {}
  BY <1>2 DEF Gone, Above
<1>7. Serves(<< >>, file, {}, 0)
  BY <1>2, <1>5, <1>6, FewNone DEF Serves
<1>8. Describes(NoIndex, file, 0)
  BY <1>2 DEF Describes, NoIndex
<1>9. Stored = {} /\ ~ Renamed
  BY <1>1, <1>2 DEF Stored, Renamed
<1>10. DataLocal /\ MemLocal
  BY <1>1, <1>2, <1>4, <1>7, <1>8, <1>9 DEF DataLocal, MemLocal
<1>11. LoopLocal /\ CompLocal
  BY <1>1, <1>2 DEF LoopLocal, CompLocal, Current
<1> QED BY <1>10, <1>11 DEF Local

\* The inductive invariant: whatever was corrupted, and however often, the data file holds
\* blocks of the chain in their order, the indexes lead to all of them, and what an index or
\* the copy of a compaction misses of the chain since the last start is at most one height
\* for each corruption.  What the starts themselves cost is the next section's subject.
THEOREM LocalInvariant == ~ Overlap /\ Spec => []Local
<1> SUFFICES ASSUME ~ Overlap PROVE Spec => []Local
  OBVIOUS
<1>1. ASSUME Shape, Shape', Local, [Next]_vars PROVE Local'
  <2>1. ASSUME NEW b \in Block, AppendBlock(b) \/ AppendDies(b) PROVE Local'
    BY <1>1, <2>1, AppendLocal
  <2>2. CASE \/ \E chain \in Chains : ReplaceOpen(chain)
             \/ ReplaceWrite \/ ReplaceIndex \/ ReplaceData \/ ReplaceDone
    BY <1>1, <2>2, ReplaceLocal
  <2>3. CASE CompactSnapshot \/ CompactOpen
    BY <1>1, <2>3, SnapshotLocal
  <2>4. CASE CompactHeader \/ CompactCopy \/ CompactWritten
    BY <1>1, <2>4, CopyingLocal
  <2>5. CASE CompactCatchUp
    BY <1>1, <2>5, CatchUpLocal
  <2>6. CASE CompactAbort \/ CompactFails \/ CompactData \/ CompactDone
    BY <1>1, <2>6, SwapLocal
  <2>7. CASE Crash \/ Close \/ Exhausted \/ UNCHANGED vars
    BY <1>1, <2>7, RestartLocal
  <2>8. CASE Recover
    BY <1>1, <2>8, RecoverLocal
  <2>9. ASSUME NEW n \in 2..MaxHeight + 2, BitFlip(n) PROVE Local'
    <3>1. n \in Nat /\ n >= 2
      BY StorageAssumption
    <3> QED BY <1>1, <2>9, <3>1, FlipLocal
  <2> QED BY <1>1, <2>1, <2>2, <2>3, <2>4, <2>5, <2>6, <2>7, <2>8, <2>9, StepsAre
<1>2. Shape /\ Shape' /\ Local /\ [Next]_vars => Local'
  BY <1>1
<1> QED BY <1>2, ShapeInvariant, InitLocal, PTL DEF Spec

\* The blocks of a set, one per height, are as many as their heights.
LEMMA GoneBlocks ==
  ASSUME NEW chain \in SUBSET Block, \A b, c \in chain : b.h = c.h => b = c,
         NEW T, NEW n \in Nat, Few(Gone(chain, T), n)
  PROVE  Cardinality(chain \ T) <= n
<1> DEFINE S == chain \ T
           G == Gone(chain, T)
           f == [b \in S |-> b.h]
<1>1. Cardinality(G) <= n /\ IsFiniteSet(G) /\ Cardinality(G) \in Nat
  <2>1. G \in SUBSET Height
    BY DEF Gone, Block
  <2> QED BY <2>1, Ranks DEF Few
<1>2. f \in Injection(S, G)
  <2>1. \A b \in S : b.h \in G
    BY DEF Gone
  <2>2. f \in [S -> G]
    BY <2>1
  <2>3. \A b, c \in S : f[b] = f[c] => b = c
    OBVIOUS
  <2> QED BY <2>2, <2>3 DEF Injection, IsInjective
<1> HIDE DEF S, G, f
<1>3. Cardinality(S) <= Cardinality(G) /\ Cardinality(S) \in Nat
  BY <1>1, <1>2, FS_Injection, FS_CardinalityType
<1>4. Cardinality(S) <= n
  BY <1>1, <1>3
<1> QED BY <1>4 DEF S

\* Between two starts, through any appends, replacements and compactions, the running
\* process misses at most one block of its chain for each corruption, and reads nothing else.
THEOREM CorruptionStaysLocal == ~ Overlap /\ Spec => []CorruptionIsLocal
<1>1. ASSUME Shape, Local PROVE CorruptionIsLocal
  <2> SUFFICES ASSUME alive, lock = "free"
               PROVE  /\ Loaded(ino[data], mem.index) \subseteq main
                      /\ Cardinality(main \ Loaded(ino[data], mem.index)) <= flips
    BY DEF CorruptionIsLocal
  <2>0. PICK file, ix : file = ino[data] /\ ix = mem.index
    OBVIOUS
  <2>1. /\ file \in Seq(Cell) /\ ix \in Indexes /\ flips \in Nat /\ main \in SUBSET Block
        /\ loop.pc = "idle" /\ comp.pc # "done"
    BY <1>1, <2>0, Known
  <2>2. /\ Ordered(file) /\ Held(file) \subseteq main /\ Serves(ix, file, main, flips)
        /\ \A b, c \in main : b.h = c.h => b = c
    BY <1>1, <2>0, <2>1 DEF Local, DataLocal, MemLocal, Renamed, Stored
  <2>3. Loaded(file, ix) = Held(file)
    BY <2>1, <2>2, LoadsAll DEF Serves
  <2>4. Few(Gone(main, Held(file)), flips)
    BY <2>1, <2>2, ServesFew
  <2>5. Cardinality(main \ Held(file)) <= flips
    BY <2>1, <2>2, <2>4, GoneBlocks
  <2> QED BY <2>0, <2>2, <2>3, <2>5
<1>2. Shape /\ Local => CorruptionIsLocal
  BY <1>1
<1> QED BY <1>2, ShapeInvariant, LocalInvariant, PTL

-----------------------------------------------------------------------------
(* What a start costs *)

\* The data file itself, dead or alive, has lost at most one height for each corruption.
FileHasMost == Few(Gone(Stored, Held(ino[data])), flips)

\* While the process runs, the index that serves the chain tells so.
LEMMA AliveHasMost == Shape /\ Local /\ alive => FileHasMost
<1> SUFFICES ASSUME Shape, Local, alive PROVE FileHasMost
  OBVIOUS
<1>0. PICK file : file = ino[data]
  OBVIOUS
<1>1. /\ mem.index \in Indexes /\ idxTmp.index \in Indexes /\ flips \in Nat
      /\ Stored \in SUBSET Block
  BY Known
<1>2. Serves(mem.index, file, Stored, flips) \/ Serves(idxTmp.index, file, Stored, flips)
  BY <1>0 DEF Local, MemLocal
<1>3. Few(Gone(Stored, Held(file)), flips)
  BY <1>1, <1>2, ServesFew
<1> QED BY <1>0, <1>3 DEF FileHasMost

\* The steps to and in a state without a process.
LEMMA DeadSteps ==
  ASSUME Shape, [Next]_vars, ~ alive'
  PROVE  \/ \E b \in Block : AppendDies(b)
         \/ Crash \/ Close \/ UNCHANGED vars
         \/ \E n \in 2..MaxHeight + 2 : BitFlip(n)
<1>1. \A b \in Block : ~ AppendBlock(b)
  BY DEF AppendBlock
<1>2. /\ \A chain \in Chains : ~ ReplaceOpen(chain)
      /\ ~ ReplaceWrite /\ ~ ReplaceIndex /\ ~ ReplaceData /\ ~ ReplaceDone
  BY DEF ReplaceOpen, ReplaceWrite, ReplaceIndex, ReplaceData, ReplaceDone, Shape, ThreadsTyped
<1>3. /\ ~ CompactSnapshot /\ ~ CompactOpen /\ ~ CompactHeader /\ ~ CompactCopy
      /\ ~ CompactWritten /\ ~ CompactAbort /\ ~ CompactFails /\ ~ CompactCatchUp
      /\ ~ CompactData /\ ~ CompactDone
  <2>1. ~ CompactSnapshot /\ ~ CompactOpen /\ ~ CompactHeader
    BY DEF CompactSnapshot, CompactOpen, CompactHeader
  <2>2. ~ CompactCopy
    BY DEF CompactCopy
  <2>3. ~ CompactWritten /\ ~ CompactAbort /\ ~ CompactFails
    BY DEF CompactWritten, CompactAbort, CompactFails
  <2>4. ~ CompactCatchUp
    BY DEF CompactCatchUp
  <2>5. ~ CompactData /\ ~ CompactDone
    BY DEF CompactData, CompactDone
  <2> QED BY <2>1, <2>2, <2>3, <2>4, <2>5
<1>4. ~ Recover /\ ~ Exhausted
  BY DEF Recover, Exhausted, vars
<1> QED BY <1>1, <1>2, <1>3, <1>4, StepsAre

\* ... and they lose no more than the corruption of a record does.
LEMMA DeadHasMost ==
  ASSUME Shape, Local, FileHasMost, [Next]_vars, ~ alive'
  PROVE  FileHasMost'
<1>0. PICK file : file = ino[data]
  OBVIOUS
<1>1. /\ file \in Seq(Cell) /\ Len(file) \in Nat /\ flips \in Nat
      /\ main \in SUBSET Block /\ Stored \in SUBSET Block
      /\ ino \in [Inode -> Seq(Cell)] /\ data \in Inode
  BY <1>0, Known
<1>2. Ordered(file) /\ Few(Gone(Stored, Held(file)), flips)
  BY <1>0 DEF Local, DataLocal, FileHasMost
<1>3. ASSUME NEW b \in Block, AppendDies(b) PROVE FileHasMost'
  <2> DEFINE r == [h |-> b.h, id |-> b.id, flags |-> "full"]
  <2>1. r \in Cell /\ Torn \in Cell /\ ~ IsRecord(Torn) /\ IsRecord(r) /\ At(r) = b
    <3>1. r \in Record /\ r.h = b.h /\ r.id = b.id /\ b = [h |-> b.h, id |-> b.id]
      BY DEF Record, Block, Flags
    <3> HIDE DEF r
    <3> QED BY <3>1, Cells DEF At, Cell
  <2> HIDE DEF r
  <2>2. /\ loop.pc = "idle" /\ loop' = Idle /\ data' = data /\ flips' = flips
        /\ \/ ino' = [ino EXCEPT ![data] = Append(@, Torn)] /\ main' = main
           \/ ino' = [ino EXCEPT ![data] = Append(@, r)] /\ main' = main \cup {b}
    BY <1>3 DEF AppendDies, r
  <2>3. Stored = main /\ Stored' = main'
    BY <2>2, Points DEF Stored
  <2>4. PICK new, c :
           /\ new = ino'[data'] /\ new = Append(file, c)
           /\ (c = Torn /\ main' = main) \/ (c = r /\ main' = main \cup {b})
    BY <1>0, <1>1, <2>2
  <2>5. /\ c \in Cell /\ new \in Seq(Cell) /\ Len(new) = Len(file) + 1
        /\ \A n \in 1..Len(file) : new[n] = file[n]
        /\ new[Len(file) + 1] = c
    BY <1>1, <2>1, <2>4
  <2>6. Held(file) \subseteq Held(new)
    BY <1>1, <2>5, FirstCells
  <2>7. c = r => b \in Held(new)
    <3>1. Len(file) + 1 \in 1..Len(new)
      BY <1>1, <2>5
    <3> QED BY <2>1, <2>5, <3>1 DEF Held, Live
  <2>8. main' \ Held(new) \subseteq main \ Held(file)
    BY <2>4, <2>6, <2>7
  <2>9. Gone(main', Held(new)) \subseteq Gone(main, Held(file))
    BY <2>8 DEF Gone
  <2>10. Gone(main, Held(file)) \in SUBSET Height
    BY <1>1 DEF Gone, Block
  <2>11. Few(Gone(main', Held(new)), flips)
    BY <1>1, <1>2, <2>3, <2>9, <2>10, FewLess
  <2> QED BY <2>2, <2>3, <2>4, <2>11 DEF FileHasMost
<1>4. CASE Crash \/ Close \/ UNCHANGED vars
  <2>1. UNCHANGED <<ino, data, flips>>
    BY <1>4 DEF Crash, Close, vars, files
  <2>2. Stored' = Stored
    BY <1>4, Points DEF Crash, Close, vars, Stored
  <2> QED BY <2>1, <2>2 DEF FileHasMost
<1>5. ASSUME NEW n \in 2..MaxHeight + 2, BitFlip(n) PROVE FileHasMost'
  <2>1. /\ n \in 1..Len(file) /\ IsRecord(file[n]) /\ flips' = flips + 1 /\ data' = data
        /\ loop' = loop /\ main' = main
        /\ ino' = [ino EXCEPT ![data] = [file EXCEPT ![n] = Torn]]
    <3>1. /\ n <= Len(ino[data]) /\ IsRecord(ino[data][n]) /\ flips' = flips + 1 /\ data' = data
          /\ loop' = loop /\ main' = main
          /\ ino' = [ino EXCEPT ![data][n] = Torn]
      BY <1>5 DEF BitFlip
    <3>2. n \in Nat /\ n >= 1
      BY StorageAssumption
    <3> QED BY <1>0, <1>1, <3>1, <3>2
  <2>2. PICK new : new = ino'[data'] /\ new = [file EXCEPT ![n] = Torn]
    BY <1>1, <2>1
  <2>3. new \in Seq(Cell) /\ Corrupts(file, n, new)
    BY <1>1, <2>1, <2>2, Cells DEF Corrupts, Cell
  <2>4. Held(file) \subseteq Held(new) \cup {At(file[n])}
    BY <1>1, <1>2, <2>1, <2>3, Flipped
  <2>5. Gone(Stored, Held(new)) \subseteq Gone(Stored, Held(file)) \cup {At(file[n]).h}
    BY <2>4 DEF Gone
  <2>6. Gone(Stored, Held(file)) \in SUBSET Height
    BY <1>1 DEF Gone, Block
  <2>7. Few(Gone(Stored, Held(new)), flips + 1)
    BY <1>1, <1>2, <2>5, <2>6, FewMore
  <2>8. Stored' = Stored
    BY <2>1 DEF Stored
  <2> QED BY <2>1, <2>2, <2>7, <2>8 DEF FileHasMost
<1> QED BY <1>3, <1>4, <1>5, DeadSteps

\* Of the chain that a start should find, the data file misses at most one block for each
\* corruption since the first start: neither a crash nor a compaction loses another one.
THEOREM FileInvariant == ~ Overlap /\ Spec => []FileHasMost
<1> SUFFICES ASSUME ~ Overlap PROVE Spec => []FileHasMost
  OBVIOUS
<1>1. Shape /\ Local /\ Shape' /\ Local' /\ FileHasMost /\ [Next]_vars => FileHasMost'
  <2> SUFFICES ASSUME Shape, Local, Shape', Local', FileHasMost, [Next]_vars PROVE FileHasMost'
    OBVIOUS
  <2>1. CASE alive'
    <3>1. (Shape /\ Local /\ alive => FileHasMost)'
      BY AliveHasMost, PTL
    <3> QED BY <2>1, <3>1
  <2>2. CASE ~ alive'
    BY <2>2, DeadHasMost
  <2> QED BY <2>1, <2>2
<1>2. Init => FileHasMost
  <2>1. Init => alive
    BY DEF Init
  <2> QED BY <2>1, InitShape, InitLocal, AliveHasMost
<1> QED BY <1>1, <1>2, ShapeInvariant, LocalInvariant, PTL DEF Spec

\* The scan of a start ends at the first unreadable cell that the index does not cover.
LEMMA ScanStops ==
  ASSUME NEW file \in Seq(Cell), HasHeader(file), NEW ix \in IndexFile,
         NEW k \in 1..Len(file)
  PROVE  (\E m \in ScanStart(file, ix) + 1..k : ~ IsRecord(file[m]))
            <=> k > Len(RecoveredFile(file, ix))
<1> DEFINE start == ScanStart(file, ix)
           last  == LastGood(file, start)
           S     == {m \in start..Len(file) : \A i \in start + 1..m : IsRecord(file[i])}
<1>1. Len(file) \in Nat /\ Len(file) >= 1 /\ start \in 1..Len(file)
  BY DEF HasHeader, ScanStart, Adopts, IndexFile
<1> HIDE DEF start
<1>2. S \in SUBSET Nat /\ start \in S /\ \A m \in S : m <= Len(file)
  BY <1>1
<1>3. last \in S /\ \A m \in S : m <= last
  <2>1. last = Most(S)
    BY DEF LastGood
  <2> HIDE DEF S, last
  <2>2. Most(S) \in S /\ \A m \in S : m <= Most(S)
    BY <1>1, <1>2, HaveExtremes
  <2> QED BY <2>1, <2>2
<1> HIDE DEF last
<1>4. last \in start..Len(file) /\ \A i \in start + 1..last : IsRecord(file[i])
  BY <1>3
<1>5. Len(RecoveredFile(file, ix)) = last
  <2>1. RecoveredFile(file, ix) = SubSeq(file, 1, last)
    BY DEF RecoveredFile, last, start
  <2> QED BY <1>1, <1>4, <2>1
<1>6. ASSUME NEW m \in start + 1..k, ~ IsRecord(file[m]) PROVE k > last
  <2>1. m \in Nat /\ m >= start + 1 /\ m <= k
    BY <1>1
  <2>2. ~ (m <= last)
    BY <1>1, <1>4, <1>6, <2>1
  <2> QED BY <1>1, <1>4, <2>1, <2>2
<1>7. ASSUME k > last PROVE \E m \in start + 1..k : ~ IsRecord(file[m])
  <2> SUFFICES ASSUME \A m \in start + 1..k : IsRecord(file[m]) PROVE FALSE
    OBVIOUS
  <2>1. k \in start..Len(file)
    BY <1>1, <1>4, <1>7
  <2>2. k \in S
    BY <2>1
  <2> QED BY <1>1, <1>3, <1>4, <1>7, <2>2
<1> QED BY <1>5, <1>6, <1>7 DEF start

\* A start, after any corruptions, crashes, compactions and replacements, costs at most one
\* block for each corruption and a tail of the chain, stored behind the first torn record that
\* the index does not cover, and brings back nothing that is not of the chain.
THEOREM StartsLoseOnlyTheTail == ~ Overlap /\ Spec => []StartLosesOnlyTheTail
<1>1. ASSUME Shape, Local, FileHasMost PROVE StartLosesOnlyTheTail
  <2>0. PICK file, good, index :
           /\ file = ino[data]
           /\ good = RecoveredFile(file, idx) /\ index = RecoveredIndex(file, idx)
    OBVIOUS
  <2>1. /\ file \in Seq(Cell) /\ idx \in IndexFile /\ flips \in Nat /\ Stored \in SUBSET Block
        /\ Len(file) \in Nat
    BY <1>1, <2>0, Known
  <2>2. /\ Ordered(file) /\ Rising(file) /\ Held(file) \subseteq Stored
        /\ \A b, c \in Stored : b.h = c.h => b = c
        /\ Describes(idx, file, flips) /\ Few(Gone(Stored, Held(file)), flips)
    BY <1>1, <2>0 DEF Local, DataLocal, Ordered, FileHasMost
  <2>3. /\ HasHeader(file) /\ good \in Seq(Cell) /\ index \in Indexes
        /\ Len(good) \in 1..Len(file)
        /\ \A i \in 1..Len(good) : good[i] = file[i]
        /\ Lists(index, good, Len(good))
    BY <2>0, <2>1, <2>2, Recovers
  <2>4. Ordered(good)
    <3>1. Len(good) >= 1 /\ Len(good) <= Len(file) /\ good[1] = file[1]
      BY <2>1, <2>3
    <3>2. Rising(good)
      BY <2>1, <2>2, <2>3, <3>1, FirstCells
    <3> QED BY <2>2, <3>1, <3>2 DEF Ordered
  <2>5. Recoverable = {At(file[n]) : n \in {k \in Live(file) : k <= Len(good)}}
    <3>1. Recoverable = Held(good)
      BY <2>0, <2>3, <2>4, LoadsAll DEF Recoverable
    <3>2. Live(good) = {k \in Live(file) : k <= Len(good)}
      BY <2>1, <2>3 DEF Live
    <3>3. \A n \in Live(good) : good[n] = file[n]
      BY <2>3 DEF Live
    <3> QED BY <3>1, <3>2, <3>3 DEF Held
  <2>6. Truncated = {At(file[n]) : n \in {k \in Live(file) : k > Len(good)}}
    <3>1. \A k \in 1..Len(file) :
             (\E m \in ScanStart(file, idx) + 1..k : ~ IsRecord(file[m])) <=> k > Len(good)
      BY <2>0, <2>1, <2>3, ScanStops
    <3>2. Truncated = {At(file[n]) : n \in
             {k \in 1..Len(file) : /\ IsRecord(file[k])
                                   /\ \E m \in ScanStart(file, idx) + 1..k : ~ IsRecord(file[m])}}
      BY <2>0 DEF Truncated, At
    <3>3. {k \in 1..Len(file) : /\ IsRecord(file[k])
                                /\ \E m \in ScanStart(file, idx) + 1..k : ~ IsRecord(file[m])}
            = {k \in Live(file) : k > Len(good)}
      BY <3>1 DEF Live
    <3> QED BY <3>2, <3>3
  <2>7. \A n \in Live(file) : n \in Nat /\ file[n].h \in Nat /\ At(file[n]).h = file[n].h
    BY <2>1, LiveCells
  <2>8. Recoverable \cup Truncated = Held(file)
    <3>1. \A n \in Live(file) : n <= Len(good) \/ n > Len(good)
      BY <2>1, <2>3, <2>7
    <3> QED BY <2>5, <2>6, <3>1 DEF Held
  <2>9. Cardinality(Stored \ Held(file)) <= flips
    BY <2>1, <2>2, GoneBlocks
  <2>10. ASSUME NEW b \in Truncated, NEW c \in Recoverable PROVE c.h < b.h
    <3>1. PICK n \in Live(file) : n > Len(good) /\ b = At(file[n])
      BY <2>6
    <3>2. PICK k \in Live(file) : k <= Len(good) /\ c = At(file[k])
      BY <2>5
    <3>3. k < n
      BY <2>3, <2>7, <3>1, <3>2
    <3>4. file[k].h < file[n].h
      BY <2>2, <3>3 DEF Rising
    <3> QED BY <2>7, <3>1, <3>2, <3>4
  <2> QED BY <2>2, <2>8, <2>9, <2>10 DEF StartLosesOnlyTheTail
<1>2. Shape /\ Local /\ FileHasMost => StartLosesOnlyTheTail
  BY <1>1
<1> QED BY <1>2, ShapeInvariant, LocalInvariant, FileInvariant, PTL
=============================================================================
