---------------------------- MODULE RaftLogProofs ----------------------------
(***************************************************************************)
(* What the log operators of RaftLog return, for logs and indices of every *)
(* size.                                                                   *)
(***************************************************************************)
EXTENDS RaftLog, FiniteSetTheorems, SequenceTheorems, TLAPS

(* Every nonempty set of naturals has a least element: the intervals that  *)
(* end in its members have a minimal one under inclusion.                  *)
LEMMA LeastNatural ==
    ASSUME NEW S, S \subseteq Nat, S # {}
    PROVE  \E m \in S : \A k \in S : m <= k
<1> DEFINE I == {0 .. n : n \in S}
<1>1. \A n \in S : IsFiniteSet(0 .. n)
  BY FS_Interval
<1>2. I \subseteq FiniteSubsetsOf(Nat) /\ I # {}
  <2>1. \A n \in S : (0 .. n) \in FiniteSubsetsOf(Nat)
    BY <1>1 DEF FiniteSubsetsOf
  <2> QED BY <2>1, Zenon
<1>3. \E x \in I : \A y \in I : ~(<<y, x>> \in StrictSubsetOrdering(Nat))
  <2> HIDE DEF I
  <2> QED BY <1>2, FS_StrictSubsetOrderingWellFounded, WFMin
<1>4. PICK m \in S : \A k \in S : ~(<<0 .. k, 0 .. m>> \in StrictSubsetOrdering(Nat))
  BY <1>3
<1>5. ASSUME NEW k \in S, k < m PROVE FALSE
  <2>1. <<0 .. k, 0 .. m>> \in (SUBSET Nat) \X (SUBSET Nat)
    BY <1>5
  <2>2. (0 .. k) \subseteq (0 .. m) /\ m \in 0 .. m /\ m \notin 0 .. k
    BY <1>5
  <2> QED BY <1>4, <2>1, <2>2 DEF StrictSubsetOrdering
<1> QED BY <1>5

(* The least member of a nonempty set of naturals is one of them.          *)
LEMMA MinType ==
    ASSUME NEW S, S \subseteq Nat, S # {}
    PROVE  Min(S) \in S
BY LeastNatural, Zenon DEF Min

(* Min and Max of two integers are the lower and the higher of them.       *)
LEMMA MinMaxPair ==
    ASSUME NEW a \in Int, NEW b \in Int
    PROVE  /\ Min({a, b}) = IF a < b THEN a ELSE b
           /\ Max({a, b}) = IF a > b THEN a ELSE b
BY DEF Min, Max

(* Min and Max of two naturals are naturals.                               *)
LEMMA MinMaxType ==
    ASSUME NEW a \in Nat, NEW b \in Nat
    PROVE  Min({a, b}) \in Nat /\ Max({a, b}) \in Nat
BY MinMaxPair

-----------------------------------------------------------------------------
(* A log holds at least its placeholder, so its last entry has a term.     *)
LEMMA LastTermType ==
    ASSUME NEW lg \in Log
    PROVE  /\ lg \in Seq(LogEntry)
           /\ Len(lg) \in Nat /\ Len(lg) >= 1
           /\ LastTerm(lg) \in Nat
<1>1. lg \in Seq(LogEntry) /\ lg # <<>>
  BY DEF Log
<1>2. Len(lg) \in Nat /\ Len(lg) # 0
  BY <1>1, EmptySeq, LenProperties
<1>3. lg[Len(lg)] \in LogEntry
  BY <1>1, <1>2, ElementOfSeq
<1> QED BY <1>1, <1>2, <1>3 DEF LastTerm, LogEntry

(* An index in range reads an entry.                                       *)
LEMMA EntryType ==
    ASSUME NEW lg \in Log, NEW snapIdx \in Nat, NEW i \in Int, InRange(lg, snapIdx, i)
    PROVE  EntryAt(lg, snapIdx, i) \in LogEntry
<1>1. lg \in Seq(LogEntry) /\ Len(lg) \in Nat
  BY LastTermType
<1>2. i - snapIdx + 1 \in 1 .. Len(lg)
  BY <1>1 DEF InRange, absoluteIndexToLogIndex
<1> QED BY <1>1, <1>2, ElementOfSeq DEF EntryAt, absoluteIndexToLogIndex

(* What is sent from an index up to one past the end is a list of entries. *)
LEMMA TailType ==
    ASSUME NEW lg \in Log, NEW snapIdx \in Nat, NEW i \in Int,
           i >= snapIdx, i <= logLength(lg, snapIdx)
    PROVE  TailFrom(lg, snapIdx, i) \in Seq(LogEntry)
<1>1. lg \in Seq(LogEntry) /\ Len(lg) \in Nat
  BY LastTermType
<1>2. i - snapIdx + 1 \in 1 .. Len(lg) + 1
  BY <1>1 DEF logLength
<1> QED BY <1>1, <1>2, SubSeqProperties DEF TailFrom, absoluteIndexToLogIndex

(* Trimming at a held index leaves a log with a placeholder.               *)
LEMMA TrimType ==
    ASSUME NEW lg \in Log, NEW snapIdx \in Nat, NEW i \in Int, NEW t \in Nat,
           InRange(lg, snapIdx, i)
    PROVE  trimLogFrom(lg, snapIdx, i, t) \in Log
<1>1. Len(lg) \in Nat
  BY LastTermType
<1>2. i + 1 \in Int /\ i + 1 >= snapIdx /\ i + 1 <= logLength(lg, snapIdx)
  BY <1>1 DEF InRange, absoluteIndexToLogIndex, logLength
<1>3. TailFrom(lg, snapIdx, i + 1) \in Seq(LogEntry)
  BY <1>2, TailType
<1>4. <<Placeholder(t)>> \in Seq(LogEntry) /\ Len(<<Placeholder(t)>>) = 1
  BY DEF Placeholder, LogEntry
<1> DEFINE a == <<Placeholder(t)>>
           b == TailFrom(lg, snapIdx, i + 1)
<1>5. a \o b \in Seq(LogEntry) /\ a \o b # <<>>
  <2> HIDE DEF a, b
  <2>1. a \in Seq(LogEntry) /\ b \in Seq(LogEntry) /\ Len(a) = 1
    BY <1>3, <1>4 DEF a, b
  <2>2. a \o b \in Seq(LogEntry) /\ Len(a \o b) = 1 + Len(b) /\ Len(b) \in Nat
    BY <2>1, ConcatProperties, LenProperties
  <2> QED BY <2>2, EmptySeq
<1> QED BY <1>5 DEF trimLogFrom, Log

(* A log followed by entries is a log.                                     *)
LEMMA ConcatType ==
    ASSUME NEW lg \in Log, NEW es \in Seq(LogEntry)
    PROVE  lg \o es \in Log
<1>1. lg \in Seq(LogEntry) /\ Len(lg) \in Nat /\ Len(lg) >= 1
  BY LastTermType
<1>2. lg \o es \in Seq(LogEntry) /\ Len(lg \o es) = Len(lg) + Len(es) /\ Len(es) \in Nat
  BY <1>1, ConcatProperties, LenProperties
<1>3. lg \o es # <<>>
  BY <1>1, <1>2, EmptySeq
<1> QED BY <1>2, <1>3 DEF Log

(* AppendEntries' merge of a request that passed the consistency check     *)
(* leaves a log, with its placeholder still in front.                      *)
LEMMA MergeType ==
    ASSUME NEW lg \in Log, NEW snapIdx \in Nat, NEW prev \in Nat,
           NEW entries \in Seq(LogEntry),
           snapIdx <= prev, prev < logLength(lg, snapIdx)
    PROVE  MergeEntries(lg, snapIdx, prev, entries) \in Log
<1> DEFINE bad == Conflicts(lg, snapIdx, prev, entries)
           held == Min({Len(entries), logLength(lg, snapIdx) - 1 - prev})
           k == Min(bad)
           n == (prev + k) - snapIdx
           kept == SubSeq(lg, 1, n)
<1>1. lg \in Seq(LogEntry) /\ Len(lg) \in Nat /\ Len(lg) >= 1 /\ Len(entries) \in Nat
  BY LastTermType, LenProperties
<1>2. CASE bad = {}
  <2>1. held \in Nat
    <3>1. logLength(lg, snapIdx) - 1 - prev \in Nat
      BY <1>1 DEF logLength
    <3> QED BY <3>1, <1>1, MinMaxPair
  <2> HIDE DEF held
  <2>2. \A i \in held + 1 .. Len(entries) : entries[i] \in LogEntry
    BY <2>1, <1>1, ElementOfSeq
  <2>3. SubSeq(entries, held + 1, Len(entries)) \in Seq(LogEntry)
    BY <2>1, <2>2, <1>1, SubSeqProperties
  <2> QED BY <2>3, <1>2, ConcatType DEF MergeEntries, held
<1>3. CASE bad # {}
  <2>1. bad \subseteq Nat
    BY <1>1 DEF Conflicts
  <2>2. k \in bad
    BY <2>1, <1>3, MinType
  <2>3. k \in 1 .. Len(entries) /\ prev + k < logLength(lg, snapIdx)
    BY <2>2 DEF Conflicts
  <2> HIDE DEF k
  <2>4. n \in Int /\ 1 <= n /\ n <= Len(lg)
    BY <2>3, <1>1 DEF logLength
  <2>5. kept \in Seq(LogEntry) /\ Len(kept) = n
    <3> HIDE DEF n, kept
    <3>1. \A i \in 1 .. n : lg[i] \in LogEntry
      BY <2>4, <1>1, ElementOfSeq
    <3>2. /\ SubSeq(lg, 1, n) \in Seq(LogEntry)
          /\ Len(SubSeq(lg, 1, n)) = IF 1 <= n THEN n - 1 + 1 ELSE 0
      BY <2>4, <3>1, SubSeqProperties
    <3> QED BY <2>4, <3>2 DEF kept
  <2>6. kept \in Log
    <3> HIDE DEF n, kept
    <3> QED BY <2>4, <2>5, EmptySeq DEF Log
  <2>7. \A i \in k .. Len(entries) : entries[i] \in LogEntry
    BY <2>3, <1>1, ElementOfSeq
  <2>8. SubSeq(entries, k, Len(entries)) \in Seq(LogEntry)
    BY <2>3, <2>7, <1>1, SubSeqProperties
  <2>9. MergeEntries(lg, snapIdx, prev, entries) = kept \o SubSeq(entries, k, Len(entries))
    <3>1. absoluteIndexToLogIndex(snapIdx, prev + k) = n
      BY DEF absoluteIndexToLogIndex
    <3>2. MergeEntries(lg, snapIdx, prev, entries)
            = SubSeq(lg, 1, absoluteIndexToLogIndex(snapIdx, prev + k))
                \o SubSeq(entries, k, Len(entries))
      BY <1>3, Zenon DEF MergeEntries, k
    <3> QED BY <3>1, <3>2, Zenon
  <2> HIDE DEF kept
  <2> QED BY <2>6, <2>8, <2>9, ConcatType
<1> QED BY <1>2, <1>3

(* The first index of the conflicting term exists and is a natural.        *)
LEMMA FailedIndexType ==
    ASSUME NEW lg \in Log, NEW snapIdx \in Nat, NEW snapTerm \in Nat,
           NEW offset \in 0 .. Len(lg) - 1
    PROVE  FailedFirstIndex(lg, snapIdx, snapTerm, offset) \in Nat
<1> DEFINE t == lg[offset + 1].term
           sameTerm == {i \in 0 .. offset : lg[i + 1].term = t}
           first == IF t = snapTerm THEN snapIdx ELSE Min(sameTerm) + snapIdx
<1>1. Len(lg) \in Nat
  BY LastTermType
<1>2. offset \in sameTerm /\ sameTerm \subseteq Nat
  BY <1>1
<1>3. first \in Nat
  <2> HIDE DEF sameTerm
  <2>1. Min(sameTerm) \in Nat
    BY <1>2, MinType, Zenon
  <2> HIDE DEF t
  <2> QED BY <2>1
<1>4. FailedFirstIndex(lg, snapIdx, snapTerm, offset) = Max({first, 1})
  BY DEF FailedFirstIndex
<1>5. Max({first, 1}) = IF first > 1 THEN first ELSE 1
  <2> HIDE DEF first
  <2>1. first \in Int /\ 1 \in Int
    BY <1>3
  <2> QED BY <2>1, MinMaxPair, Zenon
<1> HIDE DEF first
<1> QED BY <1>3, <1>4, <1>5

(* A rejection always names an index.                                      *)
LEMMA RejectionType ==
    ASSUME NEW lg \in Log, NEW snapIdx \in Nat, NEW snapTerm \in Nat, NEW prev \in Nat
    PROVE  RejectionIndex(lg, snapIdx, snapTerm, prev) \in Nat
<1>1. Len(lg) \in Nat /\ Len(lg) >= 1
  BY LastTermType
<1>2. CASE logLength(lg, snapIdx) <= prev
  <2>1. Len(lg) - 1 \in 0 .. Len(lg) - 1
    BY <1>1
  <2> QED BY <2>1, <1>2, FailedIndexType DEF RejectionIndex
<1>3. CASE ~(logLength(lg, snapIdx) <= prev) /\ snapIdx > prev
  BY <1>3 DEF RejectionIndex
<1>4. CASE ~(logLength(lg, snapIdx) <= prev) /\ ~(snapIdx > prev)
  <2>1. absoluteIndexToLogIndex(snapIdx, prev) \in 0 .. Len(lg) - 1
    BY <1>1, <1>4 DEF logLength, absoluteIndexToLogIndex
  <2> QED BY <2>1, <1>4, FailedIndexType DEF RejectionIndex
<1> QED BY <1>2, <1>3, <1>4

(* InstallSnapshot leaves a log, whether it keeps a tail or starts afresh. *)
LEMMA InstalledType ==
    ASSUME NEW lg \in Log, NEW snapIdx \in Nat, NEW i \in Nat, NEW t \in Nat
    PROVE  InstalledLog(lg, snapIdx, i, t) \in Log
<1>1. <<Placeholder(t)>> \in Log
  <2>1. Placeholder(t) \in LogEntry
    BY DEF Placeholder, LogEntry
  <2> QED BY <2>1 DEF Log
<1> QED BY <1>1, TrimType DEF InstalledLog
=============================================================================
