------------------------------- MODULE Storage -------------------------------
(***************************************************************************)
(* class IndexedStorage of blockchain/storage.py: the data file            *)
(* chain.blocks, its index file, the files under construction, the event   *)
(* loop that appends and replaces, and the compaction thread.              *)
(*                                                                         *)
(* Files are inodes: a rename moves a name, and a thread goes on writing   *)
(* through its descriptor to the inode it opened.  A file is a sequence of *)
(* cells, cell 1 the header with the epoch and every other one a record;   *)
(* records have one size, as those of blocks without transactions do.      *)
(* A crash kills the process; what was written stays.                      *)
(***************************************************************************)
EXTENDS Integers, Sequences, FiniteSets

CONSTANTS
    Id,             \* tells blocks of one height apart
    MaxHeight,      \* bound on the height of the chain
    PruneAfter,     \* prune_after
    Overlap,        \* may replace_all and phase 1 of a compaction overlap in time?
    MaxRewrites,    \* bound on replace_all calls and compactions
    MaxCrashes,     \* bound on crashes
    MaxFlips        \* bound on records that the disk corrupts

ASSUME StorageAssumption ==
    /\ MaxHeight \in Nat /\ PruneAfter \in Nat /\ MaxRewrites \in Nat /\ MaxCrashes \in Nat
    /\ MaxFlips \in Nat
    /\ Overlap \in BOOLEAN

VARIABLES
    ino,        \* the inodes: each a sequence of cells
    data,       \* the inode named chain.blocks
    tmp,        \* the inode named chain.blocks.tmp, 0 if there is none
    idx,        \* the file chain.index
    idxTmp,     \* the file chain.index.tmp
    mem,        \* _index, _epoch, _data_size, _rewrite_seq
    lock,       \* who holds _write_lock
    loop,       \* the event loop inside replace_all
    comp,       \* the compaction thread inside _compact_once
    alive,      \* is the process running?
    main,       \* the caller's _chain: what load() gave at the start, and what append and
                \* replace_all made of it since
    rewrites, crashes, flips

files == <<ino, data, tmp, idx, idxTmp>>
vars  == <<files, mem, lock, loop, comp, alive, main, rewrites, crashes, flips>>

Inode   == 1..3
Height  == 0..MaxHeight
Block   == [h : Height, id : Id]
Flags   == {"full", "header"}
Record  == [h : Height, id : Id, flags : Flags]
Header(epoch) == [epoch |-> epoch]
Torn    == [torn |-> TRUE]          \* zeros, or half a record
IsRecord(cell) == "flags" \in DOMAIN cell
IsHeader(cell) == "epoch" \in DOMAIN cell
Least(S) == CHOOSE n \in S : \A k \in S : n <= k
Most(S)  == CHOOSE n \in S : \A k \in S : n >= k

NoIndex  == [epoch |-> -1, size |-> 0, index |-> << >>]
Idle     == [pc |-> "idle"]

\* The chains a caller stores: one block per height from 0 up.
Chains == {{[h |-> n, id |-> f[n]] : n \in 0..k} :
              f \in [Height -> Id], k \in Height}
TipOf(chain) == Most({b.h : b \in chain} \cup {-1})

-----------------------------------------------------------------------------
\* _read_record: the block where the index says, if its CRC (over the flags the
\* index gives) is right.
Readable(file, e) ==
    /\ e.off <= Len(file)
    /\ IsRecord(file[e.off])
    /\ file[e.off].flags = e.flags

BlockAt(file, e) == [h |-> file[e.off].h, id |-> file[e.off].id]

\* load(): what can be read, unreadable heights are skipped.
Loaded(file, index) ==
    {BlockAt(file, index[h]) : h \in {k \in DOMAIN index : Readable(file, index[k])}}

\* Mutant of LastGood: the file is cut where its last good record begins.
LastGoodBegins(file, start) ==
    Most({start} \cup {n \in start..Len(file) - 1 : \A i \in start + 1..n + 1 : IsRecord(file[i])})

\* _scan_from(start): records up to the first torn one; later ones win.
LastGood(file, start) ==
    Most({n \in start..Len(file) : \A i \in start + 1..n : IsRecord(file[i])})

Scanned(file, start, index) ==
    LET good  == start + 1..LastGood(file, start)
        found == {file[i].h : i \in good}
    IN  [h \in DOMAIN index \cup found |->
            IF h \in found
            THEN LET i == Most({j \in good : file[j].h = h})
                 IN  [off |-> i, flags |-> file[i].flags]
            ELSE index[h]]

\* _recover(): adopt the index file if its epoch and size fit, else scan it all.
HasHeader(file) == Len(file) >= 1 /\ IsHeader(file[1])
Adopts(file, ix) == ix.epoch = file[1].epoch /\ 1 <= ix.size /\ ix.size <= Len(file)
ScanStart(file, ix) == IF Adopts(file, ix) THEN ix.size ELSE 1
BaseIndex(file, ix) == IF Adopts(file, ix) THEN ix.index ELSE << >>
RecoveredIndex(file, ix) ==
    IF HasHeader(file) THEN Scanned(file, ScanStart(file, ix), BaseIndex(file, ix)) ELSE << >>
RecoveredFile(file, ix) ==
    IF HasHeader(file) THEN SubSeq(file, 1, LastGood(file, ScanStart(file, ix)))
                       ELSE <<Header(0)>>

\* What load() would return after a crash now.
Recoverable == Loaded(RecoveredFile(ino[data], idx), RecoveredIndex(ino[data], idx))

\* The chain that a start should find: that of the caller, or of a replace_all whose data
\* file has its name.
Stored == IF loop.pc = "done" THEN loop.chain ELSE main

\* The records behind the first torn one that the scan of a start would meet: it
\* truncates the file there.
Truncated ==
    LET file == ino[data] IN
    {[h |-> file[n].h, id |-> file[n].id] :
        n \in {k \in 1..Len(file) : /\ IsRecord(file[k])
                                   /\ \E m \in ScanStart(file, idx) + 1..k : ~ IsRecord(file[m])}}

\* A write of one cell through a descriptor at position pos; a gap reads as zeros.
WriteAt(file, pos, cell) ==
    [i \in 1..(IF pos > Len(file) THEN pos ELSE Len(file)) |->
        IF i = pos THEN cell ELSE IF i <= Len(file) THEN file[i] ELSE Torn]

-----------------------------------------------------------------------------
\* The epoch of the next data file.  Mutant: a rewrite keeps the epoch.
SameEpoch == mem.epoch
NextEpoch == mem.epoch + 1

\* Did a replace_all return since the snapshot of the compaction?  Mutant: the
\* sequence number is not compared.
NeverRewritten == FALSE
Rewritten == mem.seq # comp.seq

\* The heights appended since the snapshot.
AddedSince == DOMAIN mem.index \ DOMAIN comp.snap

\* What is left to copy when the record of height h cannot be read.  Mutant: the
\* copy ends there.
StopAtUnreadable(h) == {}
SkipUnreadable(h) == comp.todo \ {h}

\* The first start in an empty directory.
Init ==
    /\ ino = [i \in Inode |-> IF i = 1 THEN <<Header(0)>> ELSE << >>]
    /\ data = 1 /\ tmp = 0
    /\ idx = NoIndex /\ idxTmp = NoIndex
    /\ mem = [index |-> << >>, epoch |-> 0, size |-> 1, seq |-> 0]
    /\ lock = "free" /\ loop = Idle /\ comp = Idle
    /\ alive = TRUE
    /\ main = {}
    /\ rewrites = 0 /\ crashes = 0 /\ flips = 0

\* open(chain.blocks.tmp, "wb"): truncates the file of that name, or creates it.
InUse == {data, tmp} \cup (IF loop.pc = "write" THEN {loop.fd} ELSE {})
                     \cup (IF comp.pc = "write" THEN {comp.fd, comp.src} ELSE {})
OpenTmp(fd) ==
    /\ fd = IF tmp # 0 THEN tmp ELSE Least(Inode \ InUse)
    /\ ino' = [ino EXCEPT ![fd] = << >>]
    /\ tmp' = fd

-----------------------------------------------------------------------------
(* The event loop *)

\* append(b): one record, then the index.  A failed write is rolled back and
\* changes nothing, so it is no action.
AppendBlock(b) ==
    /\ alive /\ lock = "free" /\ loop.pc = "idle"
    /\ b.h = TipOf(main) + 1
    /\ ino' = [ino EXCEPT ![data] = Append(@, [h |-> b.h, id |-> b.id, flags |-> "full"])]
    /\ mem' = [mem EXCEPT
         !.index = [h \in DOMAIN mem.index \cup {b.h} |->
                      IF h = b.h THEN [off |-> mem.size + 1, flags |-> "full"] ELSE mem.index[h]],
         !.size = mem.size + 1]
    /\ main' = main \cup {b}
    /\ UNCHANGED <<data, tmp, idx, idxTmp, lock, loop, comp, alive, rewrites, crashes, flips>>

\* The process dies inside append, with half of the record written or all of it.
AppendDies(b) ==
    /\ alive /\ lock = "free" /\ loop.pc = "idle" /\ crashes < MaxCrashes
    /\ b.h = TipOf(main) + 1
    /\ \/ /\ ino' = [ino EXCEPT ![data] = Append(@, Torn)]
          /\ UNCHANGED main
       \/ /\ ino' = [ino EXCEPT ![data] = Append(@, [h |-> b.h, id |-> b.id, flags |-> "full"])]
          /\ main' = main \cup {b}
    /\ alive' = FALSE /\ crashes' = crashes + 1
    /\ lock' = "free" /\ loop' = Idle /\ comp' = Idle
    /\ UNCHANGED <<data, tmp, idx, idxTmp, mem, rewrites, flips>>

\* replace_all(chain): takes the lock, opens the tmp file.
ReplaceOpen(chain) ==
    /\ alive /\ lock = "free" /\ loop.pc = "idle" /\ rewrites < MaxRewrites
    /\ Overlap \/ comp.pc # "write"
    /\ main # {} /\ chain # main /\ TipOf(chain) >= TipOf(main)
    /\ \E fd \in Inode :
         /\ OpenTmp(fd)
         /\ loop' = [pc |-> "write", fd |-> fd, pos |-> 1, chain |-> chain, epoch |-> NextEpoch]
    /\ lock' = "loop" /\ rewrites' = rewrites + 1
    /\ UNCHANGED <<data, idx, idxTmp, mem, comp, alive, main, crashes, flips>>

ReplaceWrite ==
    /\ alive /\ loop.pc = "write"
    /\ LET h == loop.pos - 2
           cell == IF loop.pos = 1 THEN Header(loop.epoch)
                   ELSE [h |-> h, flags |-> "full",
                         id |-> (CHOOSE b \in loop.chain : b.h = h).id]
       IN  ino' = [ino EXCEPT ![loop.fd] = WriteAt(@, loop.pos, cell)]
    /\ loop' = [loop EXCEPT !.pos = @ + 1,
                            !.pc = IF loop.pos = TipOf(loop.chain) + 2 THEN "index" ELSE "write"]
    /\ UNCHANGED <<data, tmp, idx, idxTmp, mem, lock, comp, alive, main, rewrites, crashes, flips>>

NewIndexOf(chain) == [h \in {b.h : b \in chain} |-> [off |-> h + 2, flags |-> "full"]]

ReplaceIndex ==
    /\ alive /\ loop.pc = "index"
    /\ idxTmp' = [epoch |-> loop.epoch, size |-> TipOf(loop.chain) + 2,
                  index |-> NewIndexOf(loop.chain)]
    /\ loop' = [loop EXCEPT !.pc = "data"]
    /\ UNCHANGED <<ino, data, tmp, idx, mem, lock, comp, alive, main, rewrites, crashes, flips>>

\* os.replace fails if another thread took the tmp file away; it never does here,
\* because only the holder of the lock unlinks or renames it.
ReplaceData ==
    /\ alive /\ loop.pc = "data" /\ tmp # 0
    /\ data' = tmp /\ tmp' = 0
    /\ loop' = [loop EXCEPT !.pc = "done"]
    /\ UNCHANGED <<ino, idx, idxTmp, mem, lock, comp, alive, main, rewrites, crashes, flips>>

ReplaceDone ==
    /\ alive /\ loop.pc = "done"
    /\ idx' = idxTmp /\ idxTmp' = NoIndex
    /\ mem' = [index |-> idxTmp.index, epoch |-> loop.epoch, size |-> idxTmp.size,
               seq |-> mem.seq + 1]
    /\ main' = loop.chain
    /\ lock' = "free" /\ loop' = Idle
    /\ UNCHANGED <<ino, data, tmp, comp, alive, rewrites, crashes, flips>>

-----------------------------------------------------------------------------
(* The compaction thread: _compact_once *)

CompactSnapshot ==
    /\ alive /\ comp.pc = "idle" /\ lock = "free" /\ rewrites < MaxRewrites
    /\ DOMAIN mem.index # {}
    /\ comp' = [pc |-> "open", snap |-> mem.index, seq |-> mem.seq]
    /\ rewrites' = rewrites + 1
    /\ UNCHANGED <<files, mem, lock, loop, alive, main, crashes, flips>>

\* Phase 1 holds no lock.  The epoch is read, the tmp file opened and then the
\* data file by the generator records().
CompactOpen ==
    /\ alive /\ comp.pc = "open"
    /\ Overlap \/ loop.pc = "idle"
    /\ \E fd \in Inode :
         /\ OpenTmp(fd)
         /\ comp' = [pc |-> "write", snap |-> comp.snap, seq |-> comp.seq,
                     epoch |-> NextEpoch, fd |-> fd, src |-> data, pos |-> 1,
                     todo |-> DOMAIN comp.snap, names |-> DOMAIN comp.snap, index |-> << >>]
    /\ UNCHANGED <<data, idx, idxTmp, mem, lock, loop, alive, main, rewrites, crashes, flips>>

CompactHeader ==
    /\ alive /\ comp.pc = "write" /\ comp.pos = 1
    /\ ino' = [ino EXCEPT ![comp.fd] = WriteAt(@, 1, Header(comp.epoch))]
    /\ comp' = [comp EXCEPT !.pos = 2]
    /\ UNCHANGED <<data, tmp, idx, idxTmp, mem, lock, loop, alive, main, rewrites, crashes, flips>>

\* Mutant of PrunedFlags: one block too early.
PrunedFlagsEarly(h, e) ==
    IF Most(DOMAIN comp.snap) - h >= PruneAfter - 1 THEN "header" ELSE e.flags

\* prune a record that is PruneAfter or more below the tip of the snapshot
PrunedFlags(h, e) ==
    IF Most(DOMAIN comp.snap) - h >= PruneAfter THEN "header" ELSE e.flags

\* zip(heights, records()): the next record that can be read is entered in the new
\* index under the next height.
CompactCopy ==
    /\ alive /\ comp.pc = "write" /\ comp.pos > 1 /\ comp.todo # {}
    /\ LET h    == Least(comp.todo)
           name == Least(comp.names)
           e    == comp.snap[h]
           src  == ino[comp.src]
       IN  IF Readable(src, e)
           THEN LET flags == PrunedFlags(h, e)
                    cell == [h |-> src[e.off].h, id |-> src[e.off].id, flags |-> flags]
                IN  /\ ino' = [ino EXCEPT ![comp.fd] = WriteAt(@, comp.pos, cell)]
                    /\ comp' = [comp EXCEPT
                         !.pos = @ + 1, !.todo = @ \ {h}, !.names = @ \ {name},
                         !.index = [k \in DOMAIN @ \cup {name} |->
                              IF k = name THEN [off |-> comp.pos, flags |-> flags] ELSE @[k]]]
           ELSE comp' = [comp EXCEPT !.todo = SkipUnreadable(h)] /\ UNCHANGED ino
    /\ UNCHANGED <<data, tmp, idx, idxTmp, mem, lock, loop, alive, main, rewrites, crashes, flips>>

CompactWritten ==
    /\ alive /\ comp.pc = "write" /\ comp.pos > 1 /\ comp.todo = {}
    /\ comp' = [pc |-> "catchup", snap |-> comp.snap, seq |-> comp.seq, epoch |-> comp.epoch,
                pos |-> comp.pos, index |-> comp.index]
    /\ UNCHANGED <<files, mem, lock, loop, alive, main, rewrites, crashes, flips>>

\* Phase 2: a replace_all happened since the snapshot, give up.
CompactAbort ==
    /\ alive /\ comp.pc = "catchup" /\ lock = "free"
    /\ Rewritten
    /\ tmp' = 0
    /\ comp' = Idle
    /\ UNCHANGED <<ino, data, idx, idxTmp, mem, lock, loop, alive, main, rewrites, crashes, flips>>

\* Phase 2: append what was appended since the snapshot, write the index.
CompactCatchUp ==
    /\ alive /\ comp.pc = "catchup" /\ lock = "free"
    /\ ~ Rewritten
    /\ LET added == AddedSince
           file  == ino[data]
           off(h) == comp.pos - 1 + Cardinality({k \in added : k <= h})
       IN  /\ \A h \in added : Readable(file, mem.index[h])
           /\ ino' = [ino EXCEPT ![tmp] = @ \o
                        [i \in 1..Cardinality(added) |->
                           file[mem.index[CHOOSE h \in added : off(h) = comp.pos - 1 + i].off]]]
           /\ idxTmp' = [epoch |-> comp.epoch, size |-> comp.pos - 1 + Cardinality(added),
                index |-> [h \in DOMAIN comp.index \cup added |->
                             IF h \in added THEN [off |-> off(h), flags |-> mem.index[h].flags]
                             ELSE comp.index[h]]]
    /\ lock' = "comp"
    /\ comp' = [pc |-> "data", epoch |-> comp.epoch]
    /\ UNCHANGED <<data, tmp, idx, mem, loop, alive, main, rewrites, crashes, flips>>

\* Phase 2 cannot read an appended record: OSError, logged; the tmp file stays.
CompactFails ==
    /\ alive /\ comp.pc = "catchup" /\ lock = "free"
    /\ ~ Rewritten
    /\ \E h \in AddedSince : ~ Readable(ino[data], mem.index[h])
    /\ comp' = Idle
    /\ UNCHANGED <<files, mem, lock, loop, alive, main, rewrites, crashes, flips>>

\* Mutant of CompactData: the data file is linked, the tmp name stays.
CompactLinks ==
    /\ alive /\ comp.pc = "data"
    /\ data' = tmp
    /\ comp' = [comp EXCEPT !.pc = "done"]
    /\ UNCHANGED <<ino, tmp, idx, idxTmp, mem, lock, loop, alive, main, rewrites, crashes, flips>>

CompactData ==
    /\ alive /\ comp.pc = "data" /\ tmp # 0
    /\ data' = tmp /\ tmp' = 0
    /\ comp' = [comp EXCEPT !.pc = "done"]
    /\ UNCHANGED <<ino, idx, idxTmp, mem, lock, loop, alive, main, rewrites, crashes, flips>>

CompactDone ==
    /\ alive /\ comp.pc = "done"
    /\ idx' = idxTmp /\ idxTmp' = NoIndex
    /\ mem' = [mem EXCEPT !.index = idxTmp.index, !.epoch = comp.epoch, !.size = idxTmp.size]
    /\ lock' = "free" /\ comp' = Idle
    /\ UNCHANGED <<ino, data, tmp, loop, alive, main, rewrites, crashes, flips>>

-----------------------------------------------------------------------------
\* kill -9 at any moment.  A replace_all that has renamed the data file has happened.
Crash ==
    /\ alive /\ crashes < MaxCrashes
    /\ alive' = FALSE /\ crashes' = crashes + 1
    /\ main' = Stored
    /\ lock' = "free" /\ loop' = Idle /\ comp' = Idle
    /\ UNCHANGED <<files, mem, rewrites, flips>>

\* close() at the end of the process: the index is written over chain.index.
Close ==
    /\ alive /\ lock = "free" /\ loop.pc = "idle" /\ crashes < MaxCrashes
    /\ idx' = [epoch |-> mem.epoch, size |-> mem.size, index |-> mem.index]
    /\ alive' = FALSE /\ crashes' = crashes + 1 /\ comp' = Idle
    /\ UNCHANGED <<ino, data, tmp, idxTmp, mem, lock, loop, main, rewrites, flips>>

\* The next start: leftover tmp files are removed, a rebuilt index is written, and the
\* caller goes on with the chain that load() returns, whatever the start has lost.
Recover ==
    /\ ~ alive
    /\ LET file  == ino[data]
           good  == RecoveredFile(file, idx)
           index == RecoveredIndex(file, idx)
       IN  /\ ino' = [i \in Inode |-> IF i = data THEN good ELSE << >>]
           /\ mem' = [index |-> index, epoch |-> good[1].epoch, size |-> Len(good), seq |-> 0]
           /\ idx' = IF HasHeader(file) /\ ~ Adopts(file, idx)
                     THEN [epoch |-> good[1].epoch, size |-> Len(good), index |-> index]
                     ELSE idx
    /\ tmp' = 0 /\ idxTmp' = NoIndex
    /\ alive' = TRUE
    /\ main' = Recoverable
    /\ UNCHANGED <<data, lock, loop, comp, rewrites, crashes, flips>>

\* The bounds are used up and nothing is under way: the only end of a behaviour.
Exhausted ==
    /\ alive /\ lock = "free" /\ loop.pc = "idle" /\ comp.pc = "idle"
    /\ rewrites = MaxRewrites /\ TipOf(main) = MaxHeight
    /\ UNCHANGED vars

\* The medium flips a bit of a stored record: its CRC no longer matches.
BitFlip(n) ==
    /\ flips < MaxFlips
    /\ n <= Len(ino[data]) /\ IsRecord(ino[data][n])
    /\ ino' = [ino EXCEPT ![data][n] = Torn]
    /\ flips' = flips + 1
    /\ UNCHANGED <<data, tmp, idx, idxTmp, mem, lock, loop, comp, alive, main, rewrites, crashes>>

Next ==
    \/ \E b \in Block : AppendBlock(b) \/ AppendDies(b)
    \/ \E chain \in Chains : ReplaceOpen(chain)
    \/ ReplaceWrite \/ ReplaceIndex \/ ReplaceData \/ ReplaceDone
    \/ CompactSnapshot \/ CompactOpen \/ CompactHeader \/ CompactCopy \/ CompactWritten
    \/ CompactAbort \/ CompactFails \/ CompactCatchUp \/ CompactData \/ CompactDone
    \/ Crash \/ Close \/ Recover
    \/ \E n \in 2..MaxHeight + 2 : BitFlip(n)
    \/ Exhausted

Spec == Init /\ [][Next]_vars

-----------------------------------------------------------------------------
(* Properties *)

TypeOK ==
    /\ \A i \in Inode : \A n \in 1..Len(ino[i]) :
          IsRecord(ino[i][n]) \/ IsHeader(ino[i][n]) \/ ino[i][n] = Torn
    /\ data \in Inode /\ tmp \in Inode \cup {0} /\ data # tmp
    /\ lock \in {"free", "loop", "comp"}
    /\ alive \in BOOLEAN
    /\ main \in SUBSET Block

\* A crash now would lose nothing that a call returned for, and leave no part of
\* a call that did not return: recovery finds the chain before or after it.
CrashKeepsTheChain ==
    flips = 0 =>
        Recoverable = main \/ (loop.pc # "idle" /\ Recoverable = loop.chain)

\* Between calls, the running process reads every block of its chain back at its
\* height, whatever compaction is doing.
ReadsSeeTheChain ==
    flips = 0 /\ alive /\ lock = "free" =>
        /\ DOMAIN mem.index = {b.h : b \in main}
        /\ \A b \in main : Readable(ino[data], mem.index[b.h])
                            /\ BlockAt(ino[data], mem.index[b.h]) = b

\* Pruning spares the blocks less than PruneAfter below the tip, over any number
\* of compactions, reorganisations and recoveries.
RecentBodiesAreKept ==
    flips = 0 /\ alive /\ lock = "free" =>
        \A h \in DOMAIN mem.index :
            mem.index[h].flags = "header" => TipOf(main) - h >= PruneAfter

\* The index file never describes a data file of another epoch: if recovery would
\* adopt it, everything it lists is where it says.
AdoptedIndexIsRight ==
    flips = 0 /\ Adopts(ino[data], idx) =>
        \A h \in DOMAIN idx.index : /\ Readable(ino[data], idx.index[h])
                                    /\ BlockAt(ino[data], idx.index[h]).h = h

\* Between two starts: of the chain that load() gave, with the appends and replacements
\* since, the running process cannot read at most one block for each record that was ever
\* corrupted, through any compactions, and it reads nothing else.
CorruptionIsLocal ==
    alive /\ lock = "free" =>
        /\ Loaded(ino[data], mem.index) \subseteq main
        /\ Cardinality(main \ Loaded(ino[data], mem.index)) <= flips

\* What a start would cost now, whenever the process died: at most one block for each
\* record that was ever corrupted, and besides only a tail of the chain, which is stored behind
\* the first torn record that the index does not cover and goes with it.  No block
\* that is not of the chain comes back.
StartLosesOnlyTheTail ==
    /\ Recoverable \cup Truncated \subseteq Stored
    /\ Cardinality(Stored \ (Recoverable \cup Truncated)) <= flips
    /\ \A b \in Truncated, c \in Recoverable : c.h < b.h

\* replace_all, "atomically replace the stored chain": when it has returned, the
\* live file holds the new chain, even if a compaction was under way.
ReplaceIsAtomic == ReadsSeeTheChain

\* As long as the medium keeps what was written, the files are a ChainStore: append and
\* replace_all take effect at once and for good, and a compaction, a crash, a close and
\* a recovery, at any point of the others, change nothing of what a start would load.
Asked == IF loop.pc \in {"write", "index", "data"} THEN {loop.chain} ELSE {}
CS == INSTANCE ChainStore WITH stored <- Recoverable, asked <- Asked
SameFiles == UNCHANGED <<ino[data], idx, Asked>>    \* then nothing changes; for TLC
IsChainStore == CS!Init /\ [][flips' > 0 \/ SameFiles \/ CS!Next]_<<Recoverable, Asked>>
=============================================================================
