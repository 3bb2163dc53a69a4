---------------------------- MODULE GatewayProofs ----------------------------
(***************************************************************************)
(* What the proofs about the read side have in common: branches of blocks  *)
(* and their beginnings, the moves of the node and of the sync loop, the   *)
(* readiness probe, and the steps of the gateway.                          *)
(***************************************************************************)
EXTENDS VerifiedGateway, SequenceTheorems, FiniteSetTheorems, WellFoundedInduction, TLAPS

-----------------------------------------------------------------------------
(***************************************************************************)
(* Branches are sequences of blocks.                                       *)
(***************************************************************************)

\* A branch is a sequence of blocks, no longer than MaxHeight.
LEMMA BranchIsSeq ==
  ASSUME NEW x \in Branch
  PROVE  /\ x \in Seq(Block)
         /\ Len(x) \in Nat /\ Len(x) <= MaxHeight
         /\ DOMAIN x = 1 .. Len(x)
         /\ \A k \in 1 .. Len(x) : x[k] \in Block
         /\ x = <<>> <=> Len(x) = 0
<1>1. PICK n \in 0 .. MaxHeight : x \in [1 .. n -> Block]
  BY DEF Branch
<1>2. n \in Nat /\ n <= MaxHeight
  BY ReadinessAssumption
<1>3. x \in Seq(Block)
  BY <1>1, <1>2, SeqDef
<1>4. Len(x) = n /\ DOMAIN x = 1 .. Len(x)
  BY <1>1, <1>2, <1>3, LenProperties
<1>5. x = <<>> <=> Len(x) = 0
  BY <1>2, <1>3, <1>4, EmptySeq
<1> QED
  BY <1>1, <1>2, <1>3, <1>4, <1>5

\* A sequence of blocks that fits is a branch.
LEMMA SeqIsBranch ==
  \A x \in Seq(Block) : Len(x) <= MaxHeight => x \in Branch
<1> SUFFICES ASSUME NEW x \in Seq(Block), Len(x) <= MaxHeight
             PROVE  x \in Branch
  OBVIOUS
<1>1. Len(x) \in Nat /\ x \in [1 .. Len(x) -> Block]
  BY LenProperties
<1>2. Len(x) \in 0 .. MaxHeight
  BY <1>1, ReadinessAssumption
<1> QED
  BY <1>1, <1>2 DEF Branch

\* The beginning of a branch is a branch of the length asked for.
LEMMA CutIsBranch ==
  ASSUME NEW x \in Branch, NEW n \in 0 .. Len(x)
  PROVE  /\ SubSeq(x, 1, n) \in Branch
         /\ Len(SubSeq(x, 1, n)) = n
         /\ \A k \in 1 .. n : SubSeq(x, 1, n)[k] = x[k]
<1>1. /\ Len(x) \in Nat /\ Len(x) <= MaxHeight /\ MaxHeight \in Nat
      /\ n \in Nat /\ n <= Len(x) /\ n <= MaxHeight
      /\ \A k \in 1 .. Len(x) : x[k] \in Block
  BY BranchIsSeq, ReadinessAssumption
<1>2. \A k \in 1 .. n : x[k] \in Block
  BY <1>1
<1>3. /\ SubSeq(x, 1, n) \in Seq(Block)
      /\ Len(SubSeq(x, 1, n)) = IF 1 <= n THEN n - 1 + 1 ELSE 0
      /\ \A k \in 1 .. n - 1 + 1 : SubSeq(x, 1, n)[k] = x[1 + k - 1]
  BY <1>1, <1>2, SubSeqProperties
<1>4. /\ Len(SubSeq(x, 1, n)) = n
      /\ \A k \in 1 .. n : SubSeq(x, 1, n)[k] = x[k]
  BY <1>1, <1>3
<1> QED
  BY <1>1, <1>3, <1>4, SeqIsBranch

\* Branches of one length with the same blocks are equal.
LEMMA BranchEqual ==
  ASSUME NEW x \in Branch, NEW y \in Branch, Len(x) = Len(y),
         \A k \in 1 .. Len(x) : x[k] = y[k]
  PROVE  x = y
BY BranchIsSeq, SeqEqual

\* A branch is its own longest beginning.
LEMMA CutWhole ==
  ASSUME NEW x \in Branch
  PROVE  SubSeq(x, 1, Len(x)) = x
<1>1. Len(x) \in 0 .. Len(x)
  BY BranchIsSeq
<1> QED
  BY <1>1, CutIsBranch, BranchEqual

\* A beginning of a beginning is a beginning.
LEMMA CutOfCut ==
  ASSUME NEW x \in Branch, NEW n \in 0 .. Len(x), NEW k \in 0 .. n
  PROVE  SubSeq(SubSeq(x, 1, n), 1, k) = SubSeq(x, 1, k)
<1>1. k \in 0 .. Len(x) /\ 1 .. k \subseteq 1 .. n
  BY BranchIsSeq
<1>2. SubSeq(x, 1, n) \in Branch /\ Len(SubSeq(x, 1, n)) = n
  BY CutIsBranch
<1>3. /\ SubSeq(SubSeq(x, 1, n), 1, k) \in Branch
      /\ Len(SubSeq(SubSeq(x, 1, n), 1, k)) = k
      /\ \A i \in 1 .. k : SubSeq(SubSeq(x, 1, n), 1, k)[i] = SubSeq(x, 1, n)[i]
  BY <1>2, CutIsBranch
<1>4. /\ SubSeq(x, 1, k) \in Branch
      /\ Len(SubSeq(x, 1, k)) = k
      /\ \A i \in 1 .. k : SubSeq(x, 1, k)[i] = SubSeq(x, 1, n)[i]
  BY <1>1, CutIsBranch
<1> QED
  BY <1>3, <1>4, BranchEqual

\* A branch grows by a block.
LEMMA AppendIsBranch ==
  ASSUME NEW x \in Branch, NEW b \in Block, Len(x) < MaxHeight
  PROVE  Append(x, b) \in Branch
<1>1. x \in Seq(Block) /\ Len(x) \in Nat /\ MaxHeight \in Nat
  BY BranchIsSeq, ReadinessAssumption
<1>2. Append(x, b) \in Seq(Block) /\ Len(Append(x, b)) = Len(x) + 1
  BY <1>1, AppendProperties
<1>3. Len(x) + 1 <= MaxHeight
  BY <1>1
<1>4. Len(Append(x, b)) <= MaxHeight
  BY <1>2, <1>3, Zenon
<1> QED
  BY <1>2, <1>4, SeqIsBranch, Zenon

\* There is an empty branch.
LEMMA EmptyIsBranch == <<>> \in Branch /\ Len(<<>>) = 0
<1>1. <<>> \in Seq(Block) /\ Len(<<>>) = 0
  BY EmptySeq
<1>2. 0 <= MaxHeight
  BY ReadinessAssumption
<1>3. Len(<<>>) <= MaxHeight
  BY <1>1, <1>2, Zenon
<1> QED
  BY <1>1, <1>3, SeqIsBranch, Zenon

-----------------------------------------------------------------------------
(***************************************************************************)
(* IsPrefix, of branches, is an order whose lower sets are chains.         *)
(***************************************************************************)

\* A prefix is the beginning of its length.
LEMMA PrefixIsCut ==
  ASSUME NEW x \in Branch, NEW y \in Branch
  PROVE  /\ IsPrefix(x, y) => /\ Len(x) <= Len(y)
                              /\ Len(x) \in 0 .. Len(y)
                              /\ x = SubSeq(y, 1, Len(x))
         /\ \A n \in 0 .. Len(y) : x = SubSeq(y, 1, n) => IsPrefix(x, y)
<1>1. SubSeq(x, 1, Len(x)) = x /\ Len(x) \in Nat /\ Len(y) \in Nat
  BY CutWhole, BranchIsSeq
<1>2. IsPrefix(x, y) => /\ Len(x) <= Len(y)
                        /\ Len(x) \in 0 .. Len(y)
                        /\ x = SubSeq(y, 1, Len(x))
  BY <1>1 DEF IsPrefix
<1>3. ASSUME NEW n \in 0 .. Len(y), x = SubSeq(y, 1, n)
      PROVE  IsPrefix(x, y)
  <2>1. Len(x) = n
    BY <1>3, CutIsBranch
  <2> QED
    BY <1>1, <1>3, <2>1 DEF IsPrefix
<1> QED
  BY <1>2, <1>3

\* A branch is a prefix of itself.
LEMMA PrefixReflexive ==
  ASSUME NEW x \in Branch
  PROVE  IsPrefix(x, x)
BY BranchIsSeq DEF IsPrefix

\* A prefix of a prefix is a prefix.
LEMMA PrefixTransitive ==
  ASSUME NEW x \in Branch, NEW y \in Branch, NEW z \in Branch,
         IsPrefix(x, y), IsPrefix(y, z)
  PROVE  IsPrefix(x, z)
<1>1. /\ x = SubSeq(y, 1, Len(x)) /\ Len(x) \in 0 .. Len(y)
      /\ y = SubSeq(z, 1, Len(y)) /\ Len(y) \in 0 .. Len(z)
      /\ Len(z) \in Nat
  BY PrefixIsCut, BranchIsSeq
<1>2. SubSeq(SubSeq(z, 1, Len(y)), 1, Len(x)) = SubSeq(z, 1, Len(x))
  BY <1>1, CutOfCut
<1>3. x = SubSeq(z, 1, Len(x)) /\ Len(x) \in 0 .. Len(z)
  BY <1>1, <1>2
<1> QED
  BY <1>3, PrefixIsCut

\* Of two prefixes of one branch the shorter is a prefix of the longer.
LEMMA PrefixesAreOrdered ==
  ASSUME NEW x \in Branch, NEW y \in Branch, NEW z \in Branch,
         IsPrefix(x, z), IsPrefix(y, z), Len(x) <= Len(y)
  PROVE  IsPrefix(x, y)
<1>1. /\ x = SubSeq(z, 1, Len(x)) /\ Len(x) \in Nat
      /\ y = SubSeq(z, 1, Len(y)) /\ Len(y) \in 0 .. Len(z)
      /\ Len(x) \in 0 .. Len(y)
  BY PrefixIsCut, BranchIsSeq
<1>2. SubSeq(SubSeq(z, 1, Len(y)), 1, Len(x)) = SubSeq(z, 1, Len(x))
  BY <1>1, CutOfCut
<1>3. x = SubSeq(y, 1, Len(x))
  BY <1>1, <1>2
<1> QED
  BY <1>1, <1>3, PrefixIsCut

\* Branches that are prefixes of each other are equal.
LEMMA PrefixAntisymmetric ==
  ASSUME NEW x \in Branch, NEW y \in Branch, IsPrefix(x, y), Len(y) <= Len(x)
  PROVE  x = y
<1>1. /\ x = SubSeq(y, 1, Len(x)) /\ Len(x) <= Len(y)
      /\ Len(x) \in Nat /\ Len(y) \in Nat
  BY PrefixIsCut, BranchIsSeq
<1>2. Len(x) = Len(y)
  BY <1>1
<1> QED
  BY <1>1, <1>2, CutWhole

\* A set of numbers up to n has a largest one.
LEMMA LargestExists ==
  ASSUME NEW n \in Nat, NEW S \in SUBSET (0 .. n), S # {}
  PROVE  \E m \in S : \A k \in S : k <= m
<1> DEFINE T == {k .. n : k \in S}
<1>1. \A k \in S : k \in Nat /\ k <= n
  OBVIOUS
<1>2. \A k \in S : k .. n \subseteq 0 .. n /\ IsFiniteSet(k .. n)
  BY <1>1, FS_Interval
<1>3. T \subseteq FiniteSubsetsOf(0 .. n) /\ T # {}
  BY <1>2 DEF FiniteSubsetsOf
<1>4. PICK x \in T : \A y \in T : <<y, x>> \notin StrictSubsetOrdering(0 .. n)
  BY <1>3, FS_StrictSubsetOrderingWellFounded, WFMin
<1>5. PICK m \in S : x = m .. n
  OBVIOUS
<1>6. ASSUME NEW k \in S, k > m
      PROVE  FALSE
  <2>1. k .. n \in T /\ k .. n \subseteq m .. n /\ m \in m .. n /\ m \notin k .. n
    BY <1>1, <1>6
  <2>2. <<k .. n, m .. n>> \in StrictSubsetOrdering(0 .. n)
    BY <1>2, <2>1 DEF StrictSubsetOrdering
  <2> QED
    BY <1>4, <1>5, <2>1, <2>2
<1> QED
  BY <1>1, <1>6

\* The common beginning that the rollback walk looks for is one of the tables.
LEMMA LongestCommonPrefixIsPrefix ==
  ASSUME NEW x \in Branch, NEW y \in Branch
  PROVE  LET lcp == LongestCommonPrefix({x, y}) IN
           lcp \in Branch /\ IsPrefix(lcp, x) /\ IsPrefix(lcp, y)
<1> DEFINE C == CommonPrefixes({x, y})
           Lengths == {Len(p) : p \in C}
<1>1. \A p \in C : p \in Branch /\ IsPrefix(p, x) /\ IsPrefix(p, y)
  <2>1. \A p \in C : /\ p \in Prefixes(x) \cup Prefixes(y)
                     /\ IsPrefix(p, x) /\ IsPrefix(p, y)
    BY DEF CommonPrefixes
  <2> QED
    BY <2>1, CutIsBranch DEF Prefixes
<1>2. <<>> \in C
  <2>1. 0 \in 0 .. Len(x)
    BY BranchIsSeq
  <2>2. SubSeq(x, 1, 0) \in Branch /\ Len(SubSeq(x, 1, 0)) = 0
    BY <2>1, CutIsBranch
  <2>3. SubSeq(x, 1, 0) = <<>>
    BY <2>2, BranchIsSeq
  <2>4. <<>> \in Prefixes(x)
    BY <2>1, <2>3 DEF Prefixes
  <2>5. 0 \in 0 .. Len(y)
    BY BranchIsSeq
  <2>6. SubSeq(y, 1, 0) = <<>>
    BY <2>5, CutIsBranch, BranchIsSeq
  <2>7. IsPrefix(<<>>, x) /\ IsPrefix(<<>>, y)
    BY <2>1, <2>3, <2>5, <2>6, PrefixIsCut, EmptyIsBranch
  <2> QED
    BY <2>4, <2>7 DEF CommonPrefixes
<1> HIDE DEF C
<1>3. Lengths \subseteq 0 .. MaxHeight /\ Lengths # {} /\ MaxHeight \in Nat
  <2>1. \A p \in C : Len(p) \in 0 .. MaxHeight
    BY <1>1, BranchIsSeq, ReadinessAssumption
  <2> QED
    BY <1>2, <2>1, ReadinessAssumption
<1>4. PICK m \in Lengths : \A k \in Lengths : k <= m
  <2> HIDE DEF Lengths
  <2> QED
    BY <1>3, LargestExists
<1>5. \E p \in C : \A other \in C : Len(other) <= Len(p)
  BY <1>4
<1>6. LongestCommonPrefix({x, y}) \in C
  BY <1>5 DEF LongestCommonPrefix, C
<1> QED
  BY <1>1, <1>6

-----------------------------------------------------------------------------
(***************************************************************************)
(* The node and the sync loop: types, and what a commit does to the tables.*)
(***************************************************************************)

SourcesTypeOK ==
  /\ node \in Branch /\ left \in Branch /\ tables \in Branch
  /\ reorgs \in 0 .. MaxReorgs
  /\ reorgEpoch \in Nat
  /\ phase \in {"awaiting_init", "active"}

\* The node and the loop start empty.
LEMMA SourcesStartTyped ==
  ReadinessInit => ReadinessTypeOK
BY EmptyIsBranch, ReadinessAssumption
DEF ReadinessInit, ReadinessTypeOK, NoProbe, Probe, HeightOrNull

\* They keep their types, and between two rollbacks the tables only grow.
LEMMA SourcesMoveIsTyped ==
  ASSUME SourcesTypeOK, SourcesMove
  PROVE  /\ SourcesTypeOK'
         /\ \/ reorgEpoch' = reorgEpoch /\ IsPrefix(tables, tables')
            \/ reorgEpoch' = reorgEpoch + 1
<1>1. /\ node \in Branch /\ left \in Branch /\ tables \in Branch
      /\ reorgs \in 0 .. MaxReorgs /\ MaxReorgs \in Nat
      /\ reorgEpoch \in Nat
      /\ IsPrefix(tables, tables)
  BY PrefixReflexive, ReadinessAssumption DEF SourcesTypeOK
<1>2. CASE \E b \in Block : NodeConnects(b)
  <2>1. /\ node' \in Branch
        /\ UNCHANGED <<left, reorgs, tables, reorgEpoch, phase>>
    BY <1>1, <1>2, AppendIsBranch DEF NodeConnects
  <2> QED
    BY <1>1, <2>1 DEF SourcesTypeOK
<1>3. CASE NodeDisconnects
  <2>1. PICK n \in 0 .. (Len(node) - 1) : node' = SubSeq(node, 1, n)
    BY <1>3 DEF NodeDisconnects
  <2>2. n \in 0 .. Len(node)
    BY <1>1, BranchIsSeq
  <2>3. node' \in Branch
    BY <1>1, <2>1, <2>2, CutIsBranch
  <2>4. /\ left' = node /\ reorgs < MaxReorgs /\ reorgs' = reorgs + 1
        /\ UNCHANGED <<tables, reorgEpoch, phase>>
    BY <1>3 DEF NodeDisconnects
  <2>5. reorgs' \in 0 .. MaxReorgs
    BY <1>1, <2>4
  <2> QED
    BY <1>1, <2>3, <2>4, <2>5 DEF SourcesTypeOK
<1>4. CASE SyncAppends
  <2>1. PICK branch \in {node, left}, n \in 1 .. MaxHeight :
          /\ Len(tables) < n /\ n <= Len(branch)
          /\ IsPrefix(tables, branch)
          /\ tables' = SubSeq(branch, 1, n)
    BY <1>4 DEF SyncAppends
  <2>2. branch \in Branch /\ n \in 0 .. Len(branch) /\ n \in Nat /\ Len(tables) \in Nat
    BY <1>1, <2>1, BranchIsSeq, ReadinessAssumption
  <2>3. tables' \in Branch /\ Len(tables') = n
    BY <2>1, <2>2, CutIsBranch
  <2>4. IsPrefix(tables', branch) /\ Len(tables) <= Len(tables')
    <3>1. \A x, y \in Branch : \A k \in 0 .. Len(y) :
            x = SubSeq(y, 1, k) => IsPrefix(x, y)
      BY PrefixIsCut
    <3>2. IsPrefix(tables', branch)
      BY <2>1, <2>2, <2>3, <3>1
    <3> QED
      BY <2>1, <2>2, <2>3, <3>2
  <2>5. IsPrefix(tables, tables')
    BY <1>1, <2>1, <2>2, <2>3, <2>4, PrefixesAreOrdered
  <2>6. left' = <<>> /\ UNCHANGED <<node, reorgs, reorgEpoch, phase>>
    BY <1>4 DEF SyncAppends
  <2> QED
    BY <1>1, <2>3, <2>5, <2>6, EmptyIsBranch DEF SourcesTypeOK
<1>5. CASE SyncRollsBack
  <2> DEFINE lcp == LongestCommonPrefix({tables, node})
  <2>1. PICK n \in 0 .. Len(lcp) : tables' = SubSeq(tables, 1, n)
    BY <1>5 DEF SyncRollsBack
  <2>2. lcp \in Branch /\ IsPrefix(lcp, tables)
    BY <1>1, LongestCommonPrefixIsPrefix
  <2> HIDE DEF lcp
  <2>3. n \in 0 .. Len(tables)
    BY <1>1, <2>1, <2>2, PrefixIsCut, BranchIsSeq
  <2>4. tables' \in Branch
    BY <1>1, <2>1, <2>3, CutIsBranch
  <2>5. /\ reorgEpoch' = reorgEpoch + 1
        /\ left' = <<>> /\ UNCHANGED <<node, reorgs, phase>>
    BY <1>5 DEF SyncRollsBack
  <2> QED
    BY <1>1, <2>4, <2>5, EmptyIsBranch DEF SourcesTypeOK
<1>6. CASE SyncNotesActivation
  BY <1>1, <1>6 DEF SyncNotesActivation, PhaseOf, SourcesTypeOK
<1> QED
  BY <1>2, <1>3, <1>4, <1>5, <1>6 DEF SourcesMove

-----------------------------------------------------------------------------
(***************************************************************************)
(* The tables as the stack of BlockStore.                                  *)
(***************************************************************************)

\* What is below each block of a branch.
BelowOf(x) == [h \in 1 .. Len(x) |-> SubSeq(x, 1, h - 1)]

\* The beginning of a branch has the same below its blocks.
LEMMA CutHasSameBelow ==
  ASSUME NEW y \in Branch, NEW n \in 0 .. Len(y)
  PROVE  /\ BelowOf(SubSeq(y, 1, n)) = [h \in 1 .. n |-> BelowOf(y)[h]]
         /\ BelowOf(y) = [h \in 1 .. Len(y) |-> BelowOf(y)[h]]
<1> DEFINE x == SubSeq(y, 1, n)
<1>1. Len(x) = n /\ n \in Nat /\ Len(y) \in Nat /\ n <= Len(y)
  BY CutIsBranch, BranchIsSeq
<1>2. ASSUME NEW h \in 1 .. n
      PROVE  SubSeq(x, 1, h - 1) = BelowOf(y)[h]
  <2>1. h \in 1 .. Len(y) /\ h - 1 \in 0 .. n
    BY <1>1
  <2>2. SubSeq(x, 1, h - 1) = SubSeq(y, 1, h - 1)
    BY <2>1, CutOfCut
  <2> HIDE DEF x
  <2> QED
    BY <2>1, <2>2 DEF BelowOf
<1> HIDE DEF x
<1>3. BelowOf(x) = [h \in 1 .. n |-> SubSeq(x, 1, h - 1)]
  BY <1>1 DEF BelowOf
<1>4. BelowOf(x) = [h \in 1 .. n |-> BelowOf(y)[h]]
  BY <1>2, <1>3
<1>5. BelowOf(y) = [h \in 1 .. Len(y) |-> BelowOf(y)[h]]
  BY DEF BelowOf
<1> QED
  BY <1>4, <1>5 DEF x

\* A batch of the sync loop is an append.
LEMMA SyncAppendsIsAppend ==
  ASSUME SourcesTypeOK, SyncAppends
  PROVE  Store!Append
<1>1. PICK branch \in {node, left}, n \in 1 .. MaxHeight :
        /\ Len(tables) < n /\ n <= Len(branch)
        /\ IsPrefix(tables, branch)
        /\ tables' = SubSeq(branch, 1, n)
  BY DEF SyncAppends
<1>2. /\ branch \in Branch /\ tables \in Branch /\ MaxHeight \in Nat
      /\ n \in Nat /\ n >= 1 /\ n <= MaxHeight /\ n \in 0 .. Len(branch)
      /\ Len(tables) \in Nat
  BY <1>1, BranchIsSeq, ReadinessAssumption DEF SourcesTypeOK
<1>3. tables' \in Branch /\ Len(tables') = n
  BY <1>1, <1>2, CutIsBranch
<1> DEFINE m == Len(tables)
           first == m + 1
<1>4. /\ m \in Nat /\ m < n /\ m \in 0 .. n
      /\ first \in 1 .. MaxHeight /\ n \in 1 .. MaxHeight
      /\ first <= n /\ n < first + MaxHeight
  BY <1>1, <1>2
<1>5. tables = SubSeq(tables', 1, m)
  <2>1. tables = SubSeq(branch, 1, m)
    BY <1>1, <1>2, PrefixIsCut
  <2>2. SubSeq(SubSeq(branch, 1, n), 1, m) = SubSeq(branch, 1, m)
    BY <1>2, <1>4, CutOfCut
  <2> QED
    BY <1>1, <2>1, <2>2
<1>6. /\ BelowOf(tables) = [h \in 1 .. m |-> BelowOf(tables')[h]]
      /\ BelowOf(tables') = [h \in 1 .. n |-> BelowOf(tables')[h]]
  <2>1. m \in 0 .. Len(tables')
    BY <1>3, <1>4
  <2>2. /\ BelowOf(SubSeq(tables', 1, m)) = [h \in 1 .. m |-> BelowOf(tables')[h]]
        /\ BelowOf(tables') = [h \in 1 .. Len(tables') |-> BelowOf(tables')[h]]
    BY <1>3, <2>1, CutHasSameBelow
  <2> HIDE DEF m
  <2> QED
    BY <1>3, <1>5, <2>2
<1>7. BelowOf(tables')[first] = tables
  <2>1. first \in 1 .. n /\ first - 1 = m
    BY <1>4
  <2> QED
    BY <1>3, <1>5, <2>1 DEF BelowOf
<1>8. /\ 1 .. n = 1 .. m \cup (first .. n)
      /\ \A h \in 1 .. m : h < first
      /\ 1 .. m # {} => first - 1 \in 1 .. m
  BY <1>4
<1> DEFINE old == BelowOf(tables)
           new == BelowOf(tables')
<1>9. /\ DOMAIN new = DOMAIN old \cup (first .. n)
      /\ \A h \in DOMAIN old : h < first
      /\ DOMAIN old # {} => first - 1 \in DOMAIN old
      /\ new[first] = tables
  BY <1>6, <1>7, <1>8
<1>10. new = [h \in DOMAIN new |-> IF h \in DOMAIN old THEN old[h] ELSE new[h]]
  <2>1. /\ DOMAIN old = 1 .. m /\ DOMAIN new = 1 .. n
        /\ \A h \in 1 .. m : old[h] = new[h]
        /\ new = [h \in 1 .. n |-> new[h]]
    BY <1>6, Zenon
  <2> HIDE DEF old, new
  <2>2. \A h \in 1 .. n : new[h] = IF h \in 1 .. m THEN old[h] ELSE new[h]
    BY <2>1
  <2> QED
    BY <2>1, <2>2
<1> HIDE DEF old, new, first, m
<1>11. \E low, top \in 1 .. MaxHeight :
         /\ low <= top /\ top < low + MaxHeight
         /\ \A h \in DOMAIN old : h < low
         /\ DOMAIN old # {} => low - 1 \in DOMAIN old
         /\ DOMAIN new = DOMAIN old \cup (low .. top)
         /\ new = [h \in DOMAIN new |-> IF h \in DOMAIN old THEN old[h] ELSE new[h]]
         /\ new[low] = tables
  <2>1. first \in 1 .. MaxHeight /\ n \in 1 .. MaxHeight
    BY <1>4
  <2>2. /\ first <= n /\ n < first + MaxHeight
        /\ \A h \in DOMAIN old : h < first
        /\ DOMAIN old # {} => first - 1 \in DOMAIN old
        /\ DOMAIN new = DOMAIN old \cup (first .. n)
        /\ new = [h \in DOMAIN new |-> IF h \in DOMAIN old THEN old[h] ELSE new[h]]
        /\ new[first] = tables
    BY <1>4, <1>9, <1>10
  <2> QED
    BY <2>1, <2>2, Zenon
<1> QED
  BY <1>11 DEF Store!Append, Store!Stored, old, new, BelowOf

\* A rollback of the sync loop is a rollback, and takes at least a block.
LEMMA SyncRollsBackIsRollback ==
  ASSUME SourcesTypeOK, SyncRollsBack, tables' # tables
  PROVE  Store!Rollback
<1> DEFINE lcp == LongestCommonPrefix({tables, node})
<1>1. PICK n \in 0 .. Len(lcp) : tables' = SubSeq(tables, 1, n)
  BY DEF SyncRollsBack
<1>2. /\ tables \in Branch /\ lcp \in Branch /\ IsPrefix(lcp, tables)
  BY LongestCommonPrefixIsPrefix DEF SourcesTypeOK
<1> HIDE DEF lcp
<1>3. n \in 0 .. Len(tables) /\ n \in Nat /\ Len(tables) \in Nat
  BY <1>1, <1>2, PrefixIsCut, BranchIsSeq
<1>4. n # Len(tables)
  BY <1>1, <1>2, CutWhole
<1>5. tables' \in Branch /\ Len(tables') = n
  BY <1>1, <1>2, <1>3, CutIsBranch
<1> DEFINE lowest == n + 1
           old == BelowOf(tables)
           new == BelowOf(tables')
<1>6. lowest \in 1 .. Len(tables) /\ lowest - 1 = n
  BY <1>3, <1>4
<1>7. /\ new = [h \in 1 .. n |-> old[h]]
      /\ DOMAIN old = 1 .. Len(tables)
  <2>1. /\ BelowOf(SubSeq(tables, 1, n)) = [h \in 1 .. n |-> BelowOf(tables)[h]]
        /\ BelowOf(tables) = [h \in 1 .. Len(tables) |-> BelowOf(tables)[h]]
    BY <1>2, <1>3, CutHasSameBelow
  <2> QED
    BY <1>1, <2>1
<1>8. old[lowest] = tables'
  BY <1>1, <1>6 DEF BelowOf
<1>9. {g \in 1 .. Len(tables) : g < lowest} = 1 .. n
  BY <1>3, <1>4
<1>10. new = [h \in {g \in DOMAIN old : g < lowest} |-> old[h]]
  <2> HIDE DEF old, new, lowest
  <2> QED
    BY <1>7, <1>9
<1> HIDE DEF old, new, lowest
<1>11. \E low \in DOMAIN old :
         /\ tables' = old[low]
         /\ new = [h \in {g \in DOMAIN old : g < low} |-> old[h]]
  BY <1>6, <1>7, <1>8, <1>10
<1> QED
  BY <1>11 DEF Store!Rollback, Store!Stored, old, new, BelowOf

\* Nothing but a batch or a rollback changes the tables.
LEMMA SourcesMoveAsStore ==
  ASSUME SourcesTypeOK, SourcesMove \/ UNCHANGED tables
  PROVE  Store!Next \/ UNCHANGED Store!storeVars
<1>1. CASE UNCHANGED tables
  BY <1>1 DEF Store!storeVars
<1>2. CASE SyncAppends
  BY <1>2, SyncAppendsIsAppend DEF Store!Next
<1>3. CASE SyncRollsBack /\ tables' # tables
  BY <1>3, SyncRollsBackIsRollback DEF Store!Next
<1>4. CASE (\E b \in Block : NodeConnects(b)) \/ NodeDisconnects \/ SyncNotesActivation
  <2>1. UNCHANGED tables
    BY <1>4 DEF NodeConnects, NodeDisconnects, SyncNotesActivation
  <2> QED
    BY <1>1, <2>1
<1> QED
  BY <1>1, <1>2, <1>3, <1>4 DEF SourcesMove

\* At first there is no block.
LEMMA SourcesStartAsStore ==
  ASSUME ReadinessInit
  PROVE  Store!Init
<1>1. tables = <<>> /\ Len(tables) = 0
  BY EmptyIsBranch DEF ReadinessInit
<1>2. 1 .. Len(tables) = {}
  BY <1>1
<1>3. [h \in 1 .. Len(tables) |-> SubSeq(tables, 1, h - 1)] = [h \in {} |-> <<>>]
  BY <1>2
<1> QED
  BY <1>1, <1>3 DEF Store!Init

\* Probe and gateway read the tables and change nothing of them.
LEMMA GateLeavesTables ==
  ASSUME NEW r \in Reader, GateStep(r) \/ FetchB(r)
  PROVE  UNCHANGED tables
<1>1. ASSUME ProbeStep(r)
      PROVE  UNCHANGED tables
  BY <1>1 DEF ProbeStep, ProbeTip, ProbeCheckpoint, ProbeNode, ProbeFails, sourceVars
<1>2. ASSUME Fail(r)
      PROVE  UNCHANGED tables
  BY <1>2 DEF Fail, sourceVars
<1>3. CASE GateProbes(r)
  BY <1>1, <1>3 DEF GateProbes
<1>4. CASE NotReady(r) \/ FetchBTimesOut(r) \/ SignAFails(r) \/ EnvelopeRejected(r)
  BY <1>2, <1>4 DEF NotReady, FetchBTimesOut, SignAFails, EnvelopeRejected
<1>5. CASE SignA(r)
  BY <1>2, <1>5 DEF SignA, sourceVars
<1>6. CASE FetchB(r)
  BY <1>2, <1>6 DEF FetchB, sourceVars
<1>7. CASE Agree(r)
  BY <1>2, <1>7 DEF Agree, sourceVars
<1>8. CASE AgreeAgain(r)
  BY <1>2, <1>8 DEF AgreeAgain, sourceVars
<1> QED
  BY <1>3, <1>4, <1>5, <1>6, <1>7, <1>8 DEF GateStep

\* Beside the node and the sync loop, only pipeline B moves by itself.
LEMMA WorldMovesTables ==
  WorldMoves => SourcesMove \/ UNCHANGED tables
BY DEF WorldMoves, PipelineBMoves

-----------------------------------------------------------------------------
(***************************************************************************)
(* The probe.                                                              *)
(***************************************************************************)

\* A probe that reports readiness has seen a tip.
ProbeSound(r) == probe[r].pc = "ready" => probe[r].canonicalHeight # None

\* A probe's height is the tip's, or null.
LEMMA TipHeightIsTyped ==
  ASSUME NEW x \in Branch
  PROVE  /\ TipHeight(x) \in HeightOrNull
         /\ TipHeight(x) # None => TipHeight(x) = Len(x)
BY BranchIsSeq, ReadinessAssumption DEF TipHeight, HeightOrNull

\* A step of a probe.
LEMMA ProbeStepIsTyped ==
  ASSUME ReadinessTypeOK, NEW r \in Reader, ProbeStep(r),
         \A q \in Reader : ProbeSound(q)
  PROVE  /\ ReadinessTypeOK'
         /\ UNCHANGED sourceVars
         /\ \A q \in Reader : ProbeSound(q)'
         /\ \A q \in Reader : q # r => probe'[q] = probe[q]
         /\ \/ probe'[r].canonicalHeight = probe[r].canonicalHeight
            \/ probe'[r].canonicalHeight = TipHeight(tables)
<1>1. /\ probe \in [Reader -> Probe] /\ tables \in Branch
      /\ probe[r] \in Probe
  BY DEF ReadinessTypeOK
<1>2. UNCHANGED sourceVars
  BY DEF ProbeStep, ProbeTip, ProbeCheckpoint, ProbeNode, ProbeFails
<1>3. \E p \in Probe :
        /\ probe' = [probe EXCEPT ![r] = p]
        /\ p.pc = "ready" => p.canonicalHeight # None
        /\ \/ p.canonicalHeight = probe[r].canonicalHeight
           \/ p.canonicalHeight = TipHeight(tables)
  <2>1. CASE ProbeTip(r)
    <3> DEFINE p == [probe[r] EXCEPT !.pc = "checkpoint",
                                     !.canonicalHeight = TipHeight(tables)]
    <3>1. p \in Probe /\ p.pc # "ready" /\ p.canonicalHeight = TipHeight(tables)
      BY <1>1, TipHeightIsTyped DEF Probe
    <3>2. probe' = [probe EXCEPT ![r] = p]
      BY <1>1, <2>1 DEF ProbeTip, Probe
    <3> QED
      BY <3>1, <3>2
  <2>2. CASE ProbeCheckpoint(r)
    <3> DEFINE p == [probe[r] EXCEPT !.pc = "node",
                                     !.checkpointHeight = TipHeight(tables)]
    <3>1. p \in Probe /\ p.pc # "ready" /\ p.canonicalHeight = probe[r].canonicalHeight
      BY <1>1, TipHeightIsTyped DEF Probe
    <3>2. probe' = [probe EXCEPT ![r] = p]
      BY <1>1, <2>2 DEF ProbeCheckpoint, Probe
    <3> QED
      BY <3>1, <3>2
  <2>3. CASE ProbeNode(r)
    <3> DEFINE ready == IsReady(probe[r].canonicalHeight, probe[r].checkpointHeight,
                                Len(node), phase)
               p == [probe[r] EXCEPT !.pc = IF ready THEN "ready" ELSE "unready"]
    <3>1. /\ p \in Probe /\ p.canonicalHeight = probe[r].canonicalHeight
          /\ p.pc = "ready" => p.canonicalHeight # None
      BY <1>1 DEF Probe, IsReady
    <3>2. probe' = [probe EXCEPT ![r] = p]
      BY <1>1, <2>3 DEF ProbeNode, Probe
    <3> QED
      BY <3>1, <3>2
  <2>4. CASE ProbeFails(r)
    <3> DEFINE p == [probe[r] EXCEPT !.pc = "unready"]
    <3>1. p \in Probe /\ p.pc # "ready" /\ p.canonicalHeight = probe[r].canonicalHeight
      BY <1>1 DEF Probe
    <3>2. probe' = [probe EXCEPT ![r] = p]
      BY <1>1, <2>4 DEF ProbeFails, Probe
    <3> QED
      BY <3>1, <3>2
  <2> QED
    BY <2>1, <2>2, <2>3, <2>4 DEF ProbeStep
<1> QED
  BY <1>1, <1>2, <1>3 DEF ReadinessTypeOK, sourceVars, ProbeSound

-----------------------------------------------------------------------------
(***************************************************************************)
(* The gateway, one request at a time.                                     *)
(***************************************************************************)

\* What fetchPipelineB and the sources of the tables leave alone.
Outside == <<node, left, reorgs, tables, reorgEpoch, phase, pipelineB>>

\* Request r's gate becomes g, its probe p, and nothing else moves.
GateBecomes(r, g, p) ==
  /\ gate' = [gate EXCEPT ![r] = g]
  /\ probe' = [probe EXCEPT ![r] = p]
  /\ UNCHANGED Outside

\* The probe of a resolution moves; it may read the tip.
Probes(g, p, g1, p1) ==
  /\ g1 = g
  /\ p1.pc = "ready" => p1.canonicalHeight # None
  /\ p1.canonicalHeight \in {p.canonicalHeight, TipHeight(tables)}

\* The resolution ends without an agreement.
Fails(g, p, g1, p1) ==
  /\ g.stage \in {"before", "after"}
  /\ g1.stage = Failed(g.stage)
  /\ p1 = NoProbe

\* This pipeline signs the tables' state at the probed height.
Signs(g, p, g1, p1) ==
  /\ p1 = p /\ g.stage \in {"before", "after"}
  /\ p.canonicalHeight \in 1 .. Len(tables)
  /\ g1 = [g EXCEPT !.signedA = AtHeight(tables, p.canonicalHeight)]

\* Pipeline B's envelope arrives.
Receives(g, p, g1, p1) ==
  /\ p1 = p /\ g.stage \in {"before", "after"}
  /\ g1.stage = g.stage /\ g1.signedA = g.signedA /\ g1.before = g.before

\* Both pipelines agree, for the first time or again.
Agrees(g, p, g1, p1) ==
  /\ p1 = NoProbe /\ g.signedA # None
  /\ \/ /\ g.stage = "before"
        /\ g1 = [NoGate EXCEPT !.stage = "query", !.before = g.signedA]
     \/ /\ g.stage = "after" /\ g.before = g.signedA
        /\ g1 = [NoGate EXCEPT !.stage = "answered", !.before = g.signedA]

\* An agreement is at a height that a pipeline has: it has no other hash.
LEMMA AtHeightIsTuple ==
  ASSUME NEW x \in Branch, NEW h \in 1 .. Len(x)
  PROVE  AtHeight(x, h) \in Branch \ {<<>>} /\ Len(AtHeight(x, h)) = h
<1>1. h \in 0 .. Len(x) /\ h # 0
  BY BranchIsSeq
<1>2. SubSeq(x, 1, h) \in Branch /\ Len(SubSeq(x, 1, h)) = h
  BY <1>1, CutIsBranch
<1> QED
  BY <1>1, <1>2, EmptyIsBranch DEF AtHeight

\* There is a probe before the first and after the last.
LEMMA ProbesAreTyped ==
  /\ NoProbe \in Probe /\ NoProbe.pc = "idle" /\ NoProbe.canonicalHeight = None
  /\ NewProbe \in Probe /\ NewProbe.pc = "tip" /\ NewProbe.canonicalHeight = None
BY DEF NoProbe, NewProbe, Probe, HeightOrNull

\* A resolution that fails does so for its own request.
LEMMA FailIsOfOneRequest ==
  ASSUME GatewayTypeOK, NEW r \in Reader, Resolving(r), Fail(r)
  PROVE  \E g1 \in Gate, p1 \in Probe :
           GateBecomes(r, g1, p1) /\ Fails(gate[r], probe[r], g1, p1)
<1> DEFINE g1 == [gate[r] EXCEPT !.stage = Failed(gate[r].stage),
                                 !.signedA = None, !.signedB = None]
<1>1. gate \in [Reader -> Gate] /\ gate[r] \in Gate
  BY DEF GatewayTypeOK
<1>2. g1 \in Gate /\ g1.stage = Failed(gate[r].stage)
  BY <1>1 DEF Gate, Failed, TupleOrNull
<1>3. gate' = [gate EXCEPT ![r] = g1]
  BY <1>1 DEF Fail, Gate
<1>4. GateBecomes(r, g1, NoProbe)
  BY <1>3 DEF GateBecomes, Fail, Outside, sourceVars
<1>5. Fails(gate[r], probe[r], g1, NoProbe)
  BY <1>2 DEF Fails, Resolving
<1> HIDE DEF g1
<1> QED
  BY <1>2, <1>4, <1>5, ProbesAreTyped

\* What a step of the gateway does to the request it is of.
LEMMA GateStepCases ==
  ASSUME GatewayTypeOK, \A q \in Reader : ProbeSound(q),
         NEW r \in Reader, GateStep(r) \/ FetchB(r)
  PROVE  \E g1 \in Gate, p1 \in Probe :
           /\ GateBecomes(r, g1, p1)
           /\ \/ Probes(gate[r], probe[r], g1, p1)
              \/ Fails(gate[r], probe[r], g1, p1)
              \/ Signs(gate[r], probe[r], g1, p1)
              \/ Receives(gate[r], probe[r], g1, p1)
              \/ Agrees(gate[r], probe[r], g1, p1)
<1>1. /\ gate \in [Reader -> Gate] /\ gate[r] \in Gate
      /\ probe \in [Reader -> Probe] /\ probe[r] \in Probe
      /\ tables \in Branch /\ pipelineB \in Branch
      /\ ReadinessTypeOK
  BY DEF GatewayTypeOK, ReadinessTypeOK
<1>2. CASE Resolving(r) /\ Fail(r)
  BY <1>2, FailIsOfOneRequest
<1>3. CASE GateProbes(r)
  <2>1. /\ ReadinessTypeOK'
        /\ UNCHANGED sourceVars
        /\ ProbeSound(r)'
        /\ \A q \in Reader : q # r => probe'[q] = probe[q]
        /\ \/ probe'[r].canonicalHeight = probe[r].canonicalHeight
           \/ probe'[r].canonicalHeight = TipHeight(tables)
    BY <1>1, <1>3, ProbeStepIsTyped DEF GateProbes
  <2>2. probe' \in [Reader -> Probe] /\ probe'[r] \in Probe
    BY <2>1 DEF ReadinessTypeOK
  <2>3. probe' = [probe EXCEPT ![r] = probe'[r]]
    BY <1>1, <2>1, <2>2
  <2>4. gate' = [gate EXCEPT ![r] = gate[r]] /\ UNCHANGED pipelineB
    BY <1>1, <1>3 DEF GateProbes
  <2>5. GateBecomes(r, gate[r], probe'[r])
    BY <2>1, <2>3, <2>4 DEF GateBecomes, Outside, sourceVars
  <2>6. Probes(gate[r], probe[r], gate[r], probe'[r])
    BY <2>1 DEF Probes, ProbeSound
  <2> QED
    BY <1>1, <2>2, <2>5, <2>6
<1>4. CASE SignA(r) /\ ~Fail(r)
  <2> DEFINE h == probe[r].canonicalHeight
             g1 == [gate[r] EXCEPT !.signedA = AtHeight(tables, h)]
  <2>1. /\ Resolving(r) /\ h # None /\ ~(Len(tables) < h)
        /\ gate' = [gate EXCEPT ![r].signedA = AtHeight(tables, h)]
        /\ UNCHANGED <<sourceVars, probe, pipelineB>>
    BY <1>4 DEF SignA, Probed, ProbeSound
  <2>2. h \in 1 .. Len(tables)
    BY <1>1, <2>1, BranchIsSeq, ReadinessAssumption DEF Probe, HeightOrNull
  <2>3. AtHeight(tables, h) \in TupleOrNull
    BY <1>1, <2>2, AtHeightIsTuple DEF TupleOrNull
  <2>4. g1 \in Gate
    BY <1>1, <2>3 DEF Gate
  <2>5. gate' = [gate EXCEPT ![r] = g1] /\ probe' = [probe EXCEPT ![r] = probe[r]]
    BY <1>1, <2>1 DEF Gate
  <2>6. GateBecomes(r, g1, probe[r])
    BY <2>1, <2>5 DEF GateBecomes, Outside, sourceVars
  <2>7. Signs(gate[r], probe[r], g1, probe[r])
    BY <2>1, <2>2 DEF Signs, Resolving
  <2> HIDE DEF g1
  <2> QED
    BY <1>1, <2>4, <2>6, <2>7
<1>5. CASE FetchB(r) /\ ~Fail(r)
  <2> DEFINE h == probe[r].canonicalHeight
             g1 == [gate[r] EXCEPT !.signedB = AtHeight(pipelineB, h)]
  <2>1. /\ Resolving(r) /\ h # None /\ ~(Len(pipelineB) < h)
        /\ gate' = [gate EXCEPT ![r].signedB = AtHeight(pipelineB, h)]
        /\ UNCHANGED <<sourceVars, probe, pipelineB>>
    BY <1>5 DEF FetchB, Probed, ProbeSound
  <2>2. h \in 1 .. Len(pipelineB)
    BY <1>1, <2>1, BranchIsSeq, ReadinessAssumption DEF Probe, HeightOrNull
  <2>3. AtHeight(pipelineB, h) \in TupleOrNull
    BY <1>1, <2>2, AtHeightIsTuple DEF TupleOrNull
  <2>4. g1 \in Gate
    BY <1>1, <2>3 DEF Gate
  <2>5. gate' = [gate EXCEPT ![r] = g1] /\ probe' = [probe EXCEPT ![r] = probe[r]]
    BY <1>1, <2>1 DEF Gate
  <2>6. GateBecomes(r, g1, probe[r])
    BY <2>1, <2>5 DEF GateBecomes, Outside, sourceVars
  <2>7. Receives(gate[r], probe[r], g1, probe[r])
    BY <1>1, <2>1 DEF Receives, Resolving, Gate
  <2> HIDE DEF g1
  <2> QED
    BY <1>1, <2>4, <2>6, <2>7
<1>6. CASE (Agree(r) \/ AgreeAgain(r)) /\ ~Fail(r)
  <2> DEFINE stage == IF gate[r].stage = "before" THEN "query" ELSE "answered"
             g1 == [NoGate EXCEPT !.stage = stage, !.before = gate[r].signedA]
  <2>1. /\ gate[r].signedA # None
        /\ \/ gate[r].stage = "before"
           \/ gate[r].stage = "after" /\ gate[r].before = gate[r].signedA
        /\ gate' = [gate EXCEPT ![r] = g1]
        /\ probe' = [probe EXCEPT ![r] = NoProbe]
        /\ UNCHANGED <<sourceVars, pipelineB>>
    <3>1. CASE Agree(r)
      BY <1>6, <3>1 DEF Agree, BothSigned
    <3>2. CASE AgreeAgain(r)
      BY <1>6, <3>2 DEF AgreeAgain, BothSigned, SameAgreement
    <3> QED
      BY <1>6, <3>1, <3>2
  <2>2. g1 \in Gate
    BY <1>1 DEF Gate, NoGate, TupleOrNull
  <2>3. GateBecomes(r, g1, NoProbe)
    BY <2>1 DEF GateBecomes, Outside, sourceVars
  <2>4. Agrees(gate[r], probe[r], g1, NoProbe)
    BY <2>1 DEF Agrees
  <2> HIDE DEF g1
  <2> QED
    BY <2>2, <2>3, <2>4, ProbesAreTyped
<1> QED
  BY <1>2, <1>3, <1>4, <1>5, <1>6
  DEF GateStep, NotReady, SignA, SignAFails, FetchB, FetchBTimesOut, EnvelopeRejected,
      Agree, AgreeAgain, BothSigned, Probed
=============================================================================
