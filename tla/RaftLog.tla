------------------------------- MODULE RaftLog -------------------------------
(***************************************************************************)
(* The log arithmetic of raft1/raft.go.  A peer's log is a Go slice whose  *)
(* element 0 is a placeholder that only carries the term of the last       *)
(* snapshotted entry; absolute index i lives at slice offset               *)
(* i - snapshotLastIndex.  Here the slice is a TLA+ sequence, so slice     *)
(* offset k is sequence position k + 1.                                    *)
(***************************************************************************)
EXTENDS Integers, Sequences, FiniteSets, FiniteSetsExt

CONSTANTS Value,   \* commands handed to Start
          Nil      \* Go's nil command, and -1 for votedFor

ASSUME NilAssumption == Nil \notin Value

LogEntry == [term : Nat, cmd : Value \cup {Nil}]

Log == Seq(LogEntry) \ {<<>>}

Placeholder(t) == [term |-> t, cmd |-> Nil]

absoluteIndexToLogIndex(snapIdx, i) == i - snapIdx

logLength(lg, snapIdx) == Len(lg) + snapIdx

(* rf.log[rf.absoluteIndexToLogIndex(i)], which panics out of range.       *)
InRange(lg, snapIdx, i) == absoluteIndexToLogIndex(snapIdx, i) \in 0 .. Len(lg) - 1

EntryAt(lg, snapIdx, i) == lg[absoluteIndexToLogIndex(snapIdx, i) + 1]

LastTerm(lg) == lg[Len(lg)].term

(* The slice from absolute index i on.                                     *)
TailFrom(lg, snapIdx, i) == SubSeq(lg, absoluteIndexToLogIndex(snapIdx, i) + 1, Len(lg))

(* The log behind absolute index i, with a new placeholder.  The mutations *)
(* leave out the placeholder, and keep entry i.                            *)
trimWithoutPlaceholder(lg, snapIdx, i, t) == TailFrom(lg, snapIdx, i + 1)

trimKeepingEntry(lg, snapIdx, i, t) == <<Placeholder(t)>> \o TailFrom(lg, snapIdx, i)

trimLogFrom(lg, snapIdx, i, t) == <<Placeholder(t)>> \o TailFrom(lg, snapIdx, i + 1)

-----------------------------------------------------------------------------
(* RequestVote's myLogOlder: the voter's log is ahead of the candidate's.  *)
MyLogOlder(myIndex, myTerm, candIndex, candTerm) ==
    \/ myTerm > candTerm
    \/ myTerm = candTerm /\ myIndex > candIndex

(* The offsets k at which entries[k] contradicts the entry held there.     *)
Conflicts(lg, snapIdx, prev, entries) ==
    {k \in 1 .. Len(entries) :
        /\ prev + k < logLength(lg, snapIdx)
        /\ EntryAt(lg, snapIdx, prev + k).term # entries[k].term}

(* AppendEntries' merge loop: keep what agrees, cut at the first conflict, *)
(* append what is missing.  A shorter or older request truncates nothing.  *)
MergeEntries(lg, snapIdx, prev, entries) ==
    LET bad == Conflicts(lg, snapIdx, prev, entries)
        held == Min({Len(entries), logLength(lg, snapIdx) - 1 - prev})
    IN  IF bad = {}
          THEN lg \o SubSeq(entries, held + 1, Len(entries))
          ELSE LET k == Min(bad)
               IN  SubSeq(lg, 1, absoluteIndexToLogIndex(snapIdx, prev + k))
                     \o SubSeq(entries, k, Len(entries))

(* buildFailedReply's FailedFirstIndex for the conflicting slice offset.   *)
FailedFirstIndex(lg, snapIdx, snapTerm, offset) ==
    LET t == lg[offset + 1].term
        sameTerm == {i \in 0 .. offset : lg[i + 1].term = t}
    IN  Max({IF t = snapTerm THEN snapIdx ELSE Min(sameTerm) + snapIdx, 1})

(* AppendEntries' consistency check.                                       *)
(* The mutation does not compare the terms.                                *)
AcceptsAnyTerm(lg, snapIdx, prev, prevTerm) ==
    prev < logLength(lg, snapIdx) /\ snapIdx <= prev

Accepts(lg, snapIdx, prev, prevTerm) ==
    /\ prev < logLength(lg, snapIdx)
    /\ snapIdx <= prev
    /\ EntryAt(lg, snapIdx, prev).term = prevTerm

(* FailedFirstIndex of a rejected AppendEntries.  FailedTerm is sent too,  *)
(* and never read by the leader.                                           *)
RejectionIndex(lg, snapIdx, snapTerm, prev) ==
    IF logLength(lg, snapIdx) <= prev
      THEN FailedFirstIndex(lg, snapIdx, snapTerm, Len(lg) - 1)
      ELSE IF snapIdx > prev
        THEN snapIdx
        ELSE FailedFirstIndex(lg, snapIdx, snapTerm, absoluteIndexToLogIndex(snapIdx, prev))

(* InstallSnapshot's new log: keep the tail behind the last included entry *)
(* if that entry is held, start afresh otherwise.                          *)
InstalledLog(lg, snapIdx, i, t) ==
    IF InRange(lg, snapIdx, i) /\ EntryAt(lg, snapIdx, i).term = t
      THEN trimLogFrom(lg, snapIdx, i, t)
      ELSE <<Placeholder(t)>>

(* med is the element at offset (n-1)/2 of the sorted matchIndex values.   *)
IsMedian(match, med) ==
    LET half == (Cardinality(DOMAIN match) - 1) \div 2
    IN  /\ Cardinality({p \in DOMAIN match : match[p] < med}) <= half
        /\ Cardinality({p \in DOMAIN match : match[p] <= med}) > half
=============================================================================
