--------------------------- MODULE PoolFeedProofs ---------------------------
(***************************************************************************)
(* What holds of PoolFeed and the port it polls, for any headers,          *)
(* difficulties, answers of the node, bounds and numbers of rows kept: the *)
(* newest rows are the ones kept, nothing cleared comes back, the file     *)
(* holds what the process remembers, and blocks are announced once.        *)
(***************************************************************************)
EXTENDS PoolFeed, FiniteSetTheorems, WellFoundedInduction, TLAPS

-----------------------------------------------------------------------------
(* The first of a set in an order.  R holds the pairs <<x, y>> in which x   *)
(* comes before y.                                                          *)

Before(R, S, r) == {s \in S : <<s, r>> \in R}
First(R, k, S) == {r \in S : Cardinality(Before(R, S, r)) < k}

Transitive(R, S) == \A x, y, z \in S : <<x, y>> \in R /\ <<y, z>> \in R => <<x, z>> \in R
Irreflexive(R, S) == \A x \in S : <<x, x>> \notin R
Total(R, S) == \A x, y \in S : x # y => <<x, y>> \in R \/ <<y, x>> \in R

\* Natural numbers have a least.
LEMMA Least == ASSUME NEW S \in SUBSET Nat, S # {} PROVE \E x \in S : \A y \in S : x <= y
<1>1. \E x \in S : \A y \in S : ~ (<<y, x>> \in OpToRel(<, Nat))
  BY WFMin, NatLessThanWellFounded, Zenon
<1>2. \A x, y \in S : <<y, x>> \in OpToRel(<, Nat) <=> y < x
  BY DEF OpToRel
<1>3. \A x, y \in S : ~ (y < x) => x <= y
  OBVIOUS
<1> QED
  BY <1>1, <1>2, <1>3, Zenon

\* What comes before an element of a finite set is counted by a number.
LEMMA BeforeCounted ==
  ASSUME NEW S, IsFiniteSet(S), NEW R, NEW r
  PROVE  IsFiniteSet(Before(R, S, r)) /\ Cardinality(Before(R, S, r)) \in Nat
<1>1. Before(R, S, r) \in SUBSET S
  BY DEF Before
<1> QED
  BY <1>1, FS_Subset, FS_CardinalityType

\* A finite set that is not empty has an element nothing comes before.
LEMMA FirstOf ==
  ASSUME NEW S, IsFiniteSet(S), S # {}, NEW R, Transitive(R, S), Irreflexive(R, S)
  PROVE  \E x \in S : \A y \in S : <<y, x>> \notin R
<1> DEFINE up(x) == Before(R, S, x)  N == {Cardinality(up(x)) : x \in S}
<1>1. \A x \in S : IsFiniteSet(up(x)) /\ Cardinality(up(x)) \in Nat
  BY BeforeCounted
<1>2. \E n \in N : \A m \in N : n <= m
  <2>1. N \in SUBSET Nat /\ N # {}
    BY <1>1
  <2> HIDE DEF N
  <2> QED
    BY <2>1, Least
<1>3. PICK x \in S : \A z \in S : Cardinality(up(x)) <= Cardinality(up(z))
  BY <1>2
<1>4. ASSUME NEW y \in S, <<y, x>> \in R PROVE FALSE
  <2>1. up(y) \in SUBSET up(x) /\ y \in up(x) /\ y \notin up(y)
    BY <1>4 DEF Before, Transitive, Irreflexive
  <2>2. Cardinality(up(y)) <= Cardinality(up(x)) /\ Cardinality(up(x)) # Cardinality(up(y))
    <3> HIDE DEF up
    <3> QED
      BY <1>1, <2>1, FS_Subset
  <2>3. Cardinality(up(x)) <= Cardinality(up(y))
    BY <1>3
  <2> HIDE DEF up
  <2> QED
    BY <1>1, <2>2, <2>3
<1> QED
  BY <1>4

\* The first k of what was kept and one more are the first k of all: what was dropped
\* earlier is never missed.
LEMMA FirstOfMore ==
  ASSUME NEW A, IsFiniteSet(A), NEW x, NEW R, Transitive(R, A \cup {x}), Irreflexive(R, A \cup {x}), NEW k \in Nat
  PROVE  First(R, k, First(R, k, A) \cup {x}) = First(R, k, A \cup {x})
<1> DEFINE B == First(R, k, A)  C == A \cup {x}  D == B \cup {x}
<1>1. IsFiniteSet(C) /\ B \in SUBSET A /\ D \in SUBSET C /\ IsFiniteSet(D) /\ IsFiniteSet(B)
  <2>1. B \in SUBSET A /\ D \in SUBSET C
    BY DEF First
  <2> HIDE DEF B
  <2> QED
    BY <2>1, FS_AddElement, FS_Subset
<1>2. ASSUME NEW r \in C, Cardinality(Before(R, C, r)) < k
      PROVE  r \in D /\ Cardinality(Before(R, D, r)) < k
  <2>1. Before(R, D, r) \in SUBSET Before(R, C, r) /\ (r \in A => Before(R, A, r) \in SUBSET Before(R, C, r))
    BY <1>1 DEF Before
  <2>2. Cardinality(Before(R, D, r)) <= Cardinality(Before(R, C, r))
    BY <1>1, <2>1, BeforeCounted, FS_Subset
  <2>3. r \in A => Cardinality(Before(R, A, r)) <= Cardinality(Before(R, C, r))
    BY <1>1, <2>1, BeforeCounted, FS_Subset
  <2>4. /\ Cardinality(Before(R, C, r)) \in Nat /\ Cardinality(Before(R, D, r)) \in Nat
        /\ Cardinality(Before(R, A, r)) \in Nat
    BY <1>1, BeforeCounted
  <2>5. r \in A => r \in B
    BY <1>2, <2>3, <2>4 DEF First
  <2> QED
    BY <1>2, <2>2, <2>4, <2>5
<1>3. ASSUME NEW r \in D, Cardinality(Before(R, D, r)) < k
      PROVE  Cardinality(Before(R, C, r)) < k
  <2> DEFINE T == {s \in A \ B : <<s, r>> \in R}
  <2>1. CASE T = {}
    <3>1. Before(R, C, r) = Before(R, D, r)
      BY <2>1, <1>1 DEF Before
    <3> QED
      BY <1>3, <3>1
  <2>2. CASE T # {}
    <3>1. IsFiniteSet(T) /\ Transitive(R, T) /\ Irreflexive(R, T)
      <4>1. T \in SUBSET A
        OBVIOUS
      <4> QED
        BY <4>1, FS_Subset DEF Transitive, Irreflexive
    <3>2. PICK s \in T : \A t \in T : <<t, s>> \notin R
      <4> HIDE DEF T
      <4> QED
        BY <2>2, <3>1, FirstOf
    <3>3. s \in A /\ s \notin B /\ <<s, r>> \in R /\ r \in C
      BY <1>1
    <3>4. Before(R, A, s) \in SUBSET Before(R, D, r)
      <4> SUFFICES ASSUME NEW t \in A, <<t, s>> \in R PROVE t \in D /\ <<t, r>> \in R
        BY DEF Before
      <4>1. <<t, r>> \in R
        BY <3>3 DEF Transitive
      <4> QED
        BY <3>2, <4>1
    <3>5. ~ (Cardinality(Before(R, A, s)) < k)
      BY <3>3 DEF First
    <3>6. Cardinality(Before(R, A, s)) <= Cardinality(Before(R, D, r))
      BY <1>1, <3>4, BeforeCounted, FS_Subset
    <3>7. Cardinality(Before(R, A, s)) \in Nat /\ Cardinality(Before(R, D, r)) \in Nat
      BY <1>1, BeforeCounted
    <3> QED
      BY <1>3, <3>5, <3>6, <3>7
  <2> QED
    BY <2>1, <2>2
<1>4. \A r : r \in First(R, k, D) <=> r \in D /\ Cardinality(Before(R, D, r)) < k
  BY DEF First
<1>5. \A r : r \in First(R, k, C) <=> r \in C /\ Cardinality(Before(R, C, r)) < k
  BY DEF First
<1> HIDE DEF B, C, D
<1>6. First(R, k, D) = First(R, k, C)
  BY <1>1, <1>2, <1>3, <1>4, <1>5
<1> QED
  BY <1>6 DEF B, C, D

\* The first k of a set are no more than k.
LEMMA FirstBounded ==
  ASSUME NEW S, IsFiniteSet(S), NEW R, Transitive(R, S), Irreflexive(R, S), Total(R, S), NEW k \in Nat
  PROVE  IsFiniteSet(First(R, k, S)) /\ Cardinality(First(R, k, S)) <= k
<1> DEFINE L == First(R, k, S)  Q == {p \in S \X S : <<p[2], p[1]>> \in R}
<1>1. L \in SUBSET S /\ IsFiniteSet(L)
  <2>1. L \in SUBSET S
    BY DEF First
  <2> QED
    BY <2>1, FS_Subset
<1>2. CASE L = {}
  BY <1>1, <1>2, FS_EmptySet
<1>3. CASE L # {}
  <2>1. \A x, y \in L : <<x, y>> \in Q <=> <<y, x>> \in R
    BY <1>1
  <2>2. Transitive(Q, L) /\ Irreflexive(Q, L)
    <3> HIDE DEF L, Q
    <3> QED
      BY <1>1, <2>1 DEF Transitive, Irreflexive
  <2>3. PICK r \in L : \A y \in L : <<y, r>> \notin Q
    <3> HIDE DEF L, Q
    <3> QED
      BY <1>1, <1>3, <2>2, FirstOf
  <2>4. L \ {r} \in SUBSET Before(R, S, r)
    <3> HIDE DEF L, Q
    <3> QED
      BY <1>1, <2>1, <2>3 DEF Total, Before
  <2>5. Cardinality(L \ {r}) <= Cardinality(Before(R, S, r))
    BY <2>4, BeforeCounted, FS_Subset
  <2>6. Cardinality(L \ {r}) = Cardinality(L) - 1 /\ Cardinality(L) \in Nat
    BY <1>1, FS_RemoveElement, FS_CardinalityType
  <2>7. Cardinality(Before(R, S, r)) < k /\ Cardinality(Before(R, S, r)) \in Nat
    BY BeforeCounted DEF First
  <2> HIDE DEF L
  <2>8. Cardinality(L) <= k
    BY <2>5, <2>6, <2>7
  <2> QED
    BY <1>1, <2>8 DEF L
<1> QED
  BY <1>2, <1>3

-----------------------------------------------------------------------------
(* The port.                                                                *)

NewerOrder == {p \in Row \X Row : Newer(p[1], p[2])}

\* Rows are ordered by time and then by id, and Newest takes the first of them.
LEMMA NewerOrdered ==
  ASSUME NEW S \in SUBSET Row
  PROVE  /\ Transitive(NewerOrder, S) /\ Irreflexive(NewerOrder, S)
         /\ \A k : Newest(k, S) = First(NewerOrder, k, S)
<1>1. \A x, y \in S : <<x, y>> \in NewerOrder <=> Newer(x, y)
  BY DEF NewerOrder
<1>2. \A r \in S : r.time \in Int /\ r.id \in Int
  BY BoundsAssumption DEF Row
<1>3. \A x, y, z \in S : Newer(x, y) /\ Newer(y, z) => Newer(x, z)
  BY <1>2 DEF Newer
<1>4. \A x \in S : ~ Newer(x, x)
  BY <1>2 DEF Newer
<1>5. Transitive(NewerOrder, S) /\ Irreflexive(NewerOrder, S)
  BY <1>1, <1>3, <1>4, Zenon DEF Transitive, Irreflexive
<1>6. \A r \in S : {s \in S : Newer(s, r)} = Before(NewerOrder, S, r)
  BY <1>1 DEF Before
<1>7. ASSUME NEW k PROVE Newest(k, S) = First(NewerOrder, k, S)
  BY <1>6 DEF Newest, First
<1> QED
  BY <1>5, <1>7

PortInv == PortTypeOK /\ IsFiniteSet(accepted) /\ NewestKept

\* Rows stored are rows that were ever stored.
LEMMA SharesAccepted == ASSUME PortInv PROVE shares \subseteq accepted /\ accepted \subseteq Row
BY DEF PortInv, NewestKept, Newest, PortTypeOK

\* What the port never takes back.
PortKeeps ==
  /\ accepted \subseteq accepted'
  /\ clock' = clock \/ clock' = clock + 1
  /\ \A i \in Ids : candidates[i] # Unlisted => candidates'[i] # Unlisted

\* The port starts with candidates of an earlier time and no shares.
LEMMA PortStarts == ASSUME PortInit PROVE PortInv
<1>1. PortTypeOK
  <2>1. PICK n \in 0..MaxBlocks : proofs = [i \in 1..n |-> "valid"]
    BY DEF PortInit
  <2>2. proofs \in [1..n -> {"valid", "invalid", "unreadable"}]
    BY <2>1
  <2>3. clock \in 0..MaxTime
    BY BoundsAssumption DEF PortInit
  <2>4. candidates \in [Ids -> Statuses \cup {Unlisted}]
    BY DEF PortInit, Statuses
  <2> QED
    BY <2>2, <2>3, <2>4 DEF PortInit, PortTypeOK
<1>2. NewestKept
  BY DEF PortInit, NewestKept, Newest
<1> QED
  BY <1>1, <1>2, FS_EmptySet DEF PortInv, PortInit

\* The node's answer gives a candidate a status.
LEMMA VerdictTyped ==
  ASSUME NEW proof \in {"valid", "invalid"}, NEW answer PROVE Verdict(proof, answer) \in Statuses
<1>1. Labelled(answer) \in Statuses
  <2>1. answer = -1 \/ answer = 0 \/ answer \in 1..5 \/ answer \in 6..99
        \/ ~ (answer = -1 \/ answer = 0 \/ answer \in 1..5 \/ answer \in 6..99)
    OBVIOUS
  <2> QED
    BY <2>1 DEF Labelled, Statuses
<1> QED
  BY <1>1 DEF Verdict, Statuses

\* Every step of the port and its surroundings keeps the newest rows, and what it listed.
LEMMA PortSteps == ASSUME PortInv, PortNext PROVE PortInv' /\ PortKeeps
<1>1. CASE Tick
  BY <1>1, BoundsAssumption DEF Tick, PortInv, PortTypeOK, NewestKept, PortKeeps
<1>2. CASE StartVerify
  BY <1>2 DEF StartVerify, PortInv, PortTypeOK, NewestKept, PortKeeps
<1>3. ASSUME NEW proof \in {"valid", "invalid", "unreadable"}, FindBlock(proof) PROVE PortInv' /\ PortKeeps
  <2>1. PICK n \in 0..MaxBlocks : proofs \in [1..n -> {"valid", "invalid", "unreadable"}]
    BY DEF PortInv, PortTypeOK
  <2>2. DOMAIN proofs = 1..n /\ Cardinality(DOMAIN proofs) = n
    BY <2>1, FS_Interval
  <2>3. /\ n + 1 \in 0..MaxBlocks
        /\ proofs' = [i \in 1..(n + 1) |-> IF i = n + 1 THEN proof ELSE proofs[i]]
        /\ UNCHANGED <<clock, unchecked, candidates, received, shares, rows, accepted>>
    BY <1>3, <2>2, BoundsAssumption DEF FindBlock
  <2>4. proofs' \in [1..(n + 1) -> {"valid", "invalid", "unreadable"}] /\ DOMAIN proofs \subseteq DOMAIN proofs'
    BY <2>1, <2>2, <2>3
  <2> QED
    BY <2>3, <2>4 DEF PortInv, PortTypeOK, NewestKept, PortKeeps
<1>4. ASSUME NEW i \in Ids, NEW answer, Check(i, answer) PROVE PortInv' /\ PortKeeps
  <2>1. i \in DOMAIN proofs /\ UNCHANGED <<clock, proofs, received, shares, rows, accepted>>
    BY <1>4 DEF Check, PortInv, PortTypeOK
  <2>2. proofs[i] # "unreadable" => proofs[i] \in {"valid", "invalid"}
    BY <2>1 DEF PortInv, PortTypeOK
  <2>3. candidates' = candidates \/ \E status \in Statuses : candidates' = [candidates EXCEPT ![i] = status]
    BY <1>4, <2>2, VerdictTyped DEF Check
  <2>4. candidates' \in [Ids -> Statuses \cup {Unlisted}] /\ PortKeeps
    BY <2>1, <2>3, UnlistedAssumption DEF PortInv, PortTypeOK, PortKeeps
  <2>5. unchecked' \subseteq DOMAIN proofs
    BY <1>4 DEF Check, PortInv, PortTypeOK
  <2> QED
    BY <2>1, <2>4, <2>5 DEF PortInv, PortTypeOK, NewestKept
<1>5. ASSUME NEW h \in Headers, Receive(h) PROVE PortInv' /\ PortKeeps
  BY <1>5 DEF Receive, PortInv, PortTypeOK, NewestKept, PortKeeps, Share
<1>6. ASSUME NEW s \in received, Store(s) PROVE PortInv' /\ PortKeeps
  <2> DEFINE row == [header |-> s.header, time |-> s.time, id |-> rows + 1]
  <2>1. row \in Row /\ received' \subseteq Share /\ UNCHANGED <<clock, proofs, unchecked, candidates>>
    BY <1>6 DEF Store, PortInv, PortTypeOK, Share, Row
  <2>2. CASE UNCHANGED <<shares, rows, accepted>>
    BY <2>1, <2>2 DEF PortInv, PortTypeOK, NewestKept, PortKeeps
  <2>3. CASE ~ UNCHANGED <<shares, rows, accepted>>
    <3>1. /\ shares' = Newest(Kept, shares \cup {row}) /\ rows' = rows + 1
          /\ accepted' = accepted \cup {row}
      BY <1>6, <2>3 DEF Store
    <3> HIDE DEF row
    <3>2. accepted \cup {row} \in SUBSET Row /\ shares \cup {row} \in SUBSET Row /\ accepted \in SUBSET Row
      BY <2>1, SharesAccepted
    <3>3. shares = First(NewerOrder, Kept, accepted)
      BY <3>2, NewerOrdered DEF PortInv, NewestKept
    <3>4. Newest(Kept, shares \cup {row}) = First(NewerOrder, Kept, shares \cup {row})
      BY <3>2, NewerOrdered
    <3>5. Newest(Kept, accepted \cup {row}) = First(NewerOrder, Kept, accepted \cup {row})
      BY <3>2, NewerOrdered
    <3>6. First(NewerOrder, Kept, shares \cup {row}) = First(NewerOrder, Kept, accepted \cup {row})
      <4>1. Transitive(NewerOrder, accepted \cup {row}) /\ Irreflexive(NewerOrder, accepted \cup {row})
        BY <3>2, NewerOrdered
      <4>2. IsFiniteSet(accepted) /\ Kept \in Nat
        BY BoundsAssumption DEF PortInv
      <4>3. First(NewerOrder, Kept, First(NewerOrder, Kept, accepted) \cup {row})
              = First(NewerOrder, Kept, accepted \cup {row})
        BY <4>1, <4>2, FirstOfMore
      <4> QED
        BY <3>3, <4>3
    <3>7. NewestKept'
      BY <3>1, <3>4, <3>5, <3>6 DEF NewestKept
    <3>8. IsFiniteSet(accepted')
      BY <3>1, FS_AddElement DEF PortInv
    <3>9. shares' \subseteq Row
      BY <3>1, <3>2 DEF Newest
    <3>10. PortTypeOK'
      <4>1. accepted' \subseteq Row /\ rows' \in Nat
        BY <3>1, <3>2 DEF PortInv, PortTypeOK
      <4> QED
        BY <2>1, <3>9, <4>1 DEF PortInv, PortTypeOK
    <3> QED
      BY <2>1, <3>1, <3>7, <3>8, <3>10 DEF PortInv, PortKeeps
  <2> QED
    BY <2>2, <2>3
<1> QED
  BY <1>1, <1>2, <1>3, <1>4, <1>5, <1>6 DEF PortNext

-----------------------------------------------------------------------------
(* Bests, and lists of shares.                                              *)

\* The better of two bests is one of them, and neither exceeds it.
LEMMA BetterOf ==
  ASSUME NEW a \in Bests, NEW b \in Bests
  PROVE  Better(a, b) \in {a, b} /\ ~ Exceeds(a, Better(a, b)) /\ ~ Exceeds(b, Better(a, b))
BY NothingAssumption DEF Better, Exceeds, Bests

\* What does not exceed a best exceeds none that is at least as good.
LEMMA ExceedsNone ==
  ASSUME NEW a \in Bests, NEW b \in Bests, NEW c \in Bests, ~ Exceeds(a, b), ~ Exceeds(b, c)
  PROVE  ~ Exceeds(a, c)
BY NothingAssumption DEF Exceeds, Bests

\* A difficulty is a best.
LEMMA DifficultyTyped ==
  ASSUME NEW h \in Headers PROVE Difficulty(h) \in Nat /\ Difficulty(h) \in Bests /\ Difficulty(h) # Nothing
BY HeadersAssumption, NothingAssumption DEF Bests

\* Times and headers are numbers.
LEMMA ShareFields ==
  ASSUME NEW s \in Share PROVE s.time \in Nat /\ s.time \in 0..MaxTime /\ s.header \in Headers /\ s.header \in Nat
<1>1. Headers \subseteq Nat /\ MaxTime \in Nat
  BY HeadersAssumption, BoundsAssumption
<1>2. s.header \in Headers /\ s.time \in 0..MaxTime
  BY DEF Share
<1>3. s.time \in Nat
  BY <1>1, <1>2
<1> QED
  BY <1>1, <1>2, <1>3

\* Highest is the difficulty of one of the shares, which no other exceeds.
LEMMA HighestOf ==
  ASSUME NEW S, IsFiniteSet(S), \A s \in S : s.header \in Headers
  PROVE  /\ Highest(S) \in Bests
         /\ Highest(S) # Nothing => \E s \in S : Highest(S) = Difficulty(s.header)
         /\ \A s \in S : ~ Exceeds(Difficulty(s.header), Highest(S))
<1> DEFINE D == {Difficulty(s.header) : s \in S}
           R == {p \in S \X S : Difficulty(p[1].header) > Difficulty(p[2].header)}
<1>1. \A s \in S : Difficulty(s.header) \in Nat /\ Difficulty(s.header) # Nothing
  BY DifficultyTyped
<1>2. CASE S = {}
  BY <1>2 DEF Highest, Bests
<1>3. CASE S # {}
  <2>1. \A x, y \in S : <<x, y>> \in R <=> Difficulty(x.header) > Difficulty(y.header)
    OBVIOUS
  <2>2. Transitive(R, S) /\ Irreflexive(R, S)
    <3> HIDE DEF R
    <3> QED
      BY <1>1, <2>1 DEF Transitive, Irreflexive
  <2>3. PICK x \in S : \A y \in S : <<y, x>> \notin R
    <3> HIDE DEF R
    <3> QED
      BY <1>3, <2>2, FirstOf
  <2>4. \A y \in S : Difficulty(y.header) <= Difficulty(x.header)
    <3> HIDE DEF R
    <3>1. SUFFICES ASSUME NEW y \in S PROVE Difficulty(y.header) <= Difficulty(x.header)
      OBVIOUS
    <3>2. ~ (Difficulty(y.header) > Difficulty(x.header))
      BY <2>1, <2>3
    <3>3. Difficulty(y.header) \in Nat /\ Difficulty(x.header) \in Nat
      BY <1>1
    <3> QED
      BY <3>2, <3>3
  <2>5. \E d \in D : \A e \in D : d >= e
    BY <1>1, <2>4
  <2>6. Max(D) \in D /\ \A e \in D : Max(D) >= e
    BY <2>5 DEF Max
  <2>7. Highest(S) = Max(D)
    BY <1>3 DEF Highest
  <2>8. PICK s \in S : Highest(S) = Difficulty(s.header)
    BY <2>6, <2>7
  <2>9. \A t \in S : Difficulty(t.header) <= Highest(S)
    BY <1>1, <2>6, <2>7, <2>8
  <2> QED
    BY <1>1, <2>8, <2>9, NothingAssumption DEF Exceeds, Bests
<1> QED
  BY <1>2, <1>3

\* The rows of a finite set, as shares.
LEMMA AsSharesTyped ==
  ASSUME NEW S \in SUBSET Row, IsFiniteSet(S)
  PROVE  AsShares(S) \in SUBSET Share /\ IsFiniteSet(AsShares(S))
<1> DEFINE f == [r \in S |-> [header |-> r.header, time |-> r.time]]
<1>1. AsShares(S) \in SUBSET Share
  BY DEF AsShares, Row, Share
<1>2. f \in Surjection(S, AsShares(S))
  BY DEF AsShares, Surjection
<1> QED
  BY <1>1, <1>2, FS_Surjection

AfterOrder == {p \in Share \X Share : Later(p[1], p[2])}

\* Latest keeps no more than Kept of the shares.
LEMMA LatestBounded ==
  ASSUME NEW S \in SUBSET Share, IsFiniteSet(S)
  PROVE  Latest(S) \in SUBSET S /\ IsFiniteSet(Latest(S)) /\ Cardinality(Latest(S)) <= Kept
<1>1. \A x, y \in S : <<x, y>> \in AfterOrder <=> Later(x, y)
  BY DEF AfterOrder
<1>2. \A x \in S : x.time \in Int /\ x.header \in Int
  BY ShareFields
<1>3. \A x, y \in S : x.time = y.time /\ x.header = y.header => x = y
  BY DEF Share
<1>4. Transitive(AfterOrder, S) /\ Irreflexive(AfterOrder, S)
  <2>1. \A x, y, z \in S : Later(x, y) /\ Later(y, z) => Later(x, z)
    BY <1>2 DEF Later
  <2>2. \A x \in S : ~ Later(x, x)
    BY <1>2 DEF Later
  <2> QED
    BY <1>1, <2>1, <2>2, Zenon DEF Transitive, Irreflexive
<1>5. Total(AfterOrder, S)
  <2>1. \A x, y \in S : x # y => Later(x, y) \/ Later(y, x)
    BY <1>2, <1>3 DEF Later
  <2> QED
    BY <1>1, <2>1, Zenon DEF Total
<1>6. Latest(S) = First(AfterOrder, Kept, S)
  <2>1. \A x \in S : {t \in S : Later(t, x)} = Before(AfterOrder, S, x)
    BY <1>1 DEF Before
  <2>2. Latest(S) = {x \in S : Cardinality({t \in S : Later(t, x)}) < Kept}
    BY DEF Latest, Later
  <2> QED
    BY <2>1, <2>2 DEF First
<1>7. Latest(S) \in SUBSET S
  BY <1>6 DEF First
<1> QED
  BY <1>4, <1>5, <1>6, <1>7, FirstBounded, BoundsAssumption

-----------------------------------------------------------------------------
(* What the process remembers and what the file holds are two copies of one *)
(* kind, and each of them may be the next to be remembered: a restart loads *)
(* the file, also when it was not written for a while.                      *)

Backed(b, since, stored) == \E r \in stored : r.time > since /\ Difficulty(r.header) >= b

\* A history, its record and its reset: the record covers the history, and both are of shares
\* stored since the user last cleared the history, which the reset does not precede.
Sound(h, b, r, since, stored) ==
  /\ h \subseteq Share /\ IsFiniteSet(h) /\ Cardinality(h) <= Kept
  /\ b \in Bests /\ r \in Times
  /\ \A s \in h : ~ Exceeds(Difficulty(s.header), b)
  /\ since # Nothing =>
       /\ r # Nothing /\ r >= since
       /\ \A s \in h : s.time > since
       /\ b # Nothing => Backed(b, since, stored)

\* The poll holds shares of the port.
PollInv ==
  /\ configured \in BOOLEAN
  /\ pc \in {"wait", "asked", "answered", "asking", "merging"}
  /\ snapshot \in Snapshots \cup {Nothing}
  /\ unannounced \subseteq Identities(Ids)
  /\ seen = Nothing \/ seen \subseteq Identities(Ids)
  /\ pc \in {"answered", "asking", "merging"} <=> snapshot # Nothing
  /\ snapshot # Nothing => snapshot.shares \subseteq AsShares(accepted)

MemoryInv ==
  /\ Sound(history, best, reset, cleared, accepted)
  /\ session \in Bests /\ ~ Exceeds(session, best)
  /\ cleared # Nothing /\ session # Nothing => Backed(session, cleared, accepted)

DiskInv ==
  /\ file \in Stored /\ saved \in BOOLEAN
  /\ Sound(file.history, file.best, file.reset, cleared, accepted)
  /\ FileCurrent

\* The user cleared the history of a pool that is still configured, and not in the future.
ClearedInv ==
  /\ cleared # Nothing => cleared \in Nat /\ cleared <= clock
  /\ ~ configured => cleared = Nothing

FeedInv == PortInv /\ PollInv /\ MemoryInv /\ DiskInv /\ ClearedInv

\* The clock counts.
LEMMA ClockTyped == ASSUME PortInv PROVE clock \in Nat /\ clock \in Times /\ clock # Nothing
<1>1. clock \in Nat
  BY BoundsAssumption DEF PortInv, PortTypeOK
<1> QED
  BY <1>1, NothingAssumption DEF Times

\* The shares of the port's rows are finitely many shares the port ever stored.
LEMMA Stocked ==
  ASSUME PortInv
  PROVE  /\ AsShares(shares) \subseteq AsShares(accepted)
         /\ AsShares(accepted) \in SUBSET Share /\ IsFiniteSet(AsShares(accepted))
<1>1. shares \subseteq accepted /\ accepted \in SUBSET Row /\ IsFiniteSet(accepted)
  BY SharesAccepted DEF PortInv
<1>2. AsShares(shares) \subseteq AsShares(accepted)
  BY <1>1 DEF AsShares
<1> QED
  BY <1>1, <1>2, AsSharesTyped

\* No history and no record are sound with any reset that is late enough.
LEMMA EmptySound ==
  ASSUME NEW r \in Times, NEW since, NEW stored, since # Nothing => r # Nothing /\ r >= since
  PROVE  Sound({}, Nothing, r, since, stored)
BY FS_EmptySet, BoundsAssumption DEF Sound, Bests

\* A sound copy stays so when the port stores more.
LEMMA SoundStays ==
  ASSUME NEW h, NEW b, NEW r, NEW since, NEW stored, NEW more,
         Sound(h, b, r, since, stored), stored \subseteq more
  PROVE  Sound(h, b, r, since, more)
BY DEF Sound, Backed

\* The process starts with no history.
LEMMA FeedStarts == ASSUME Init PROVE FeedInv
<1>1. PortInv
  BY PortStarts DEF Init
<1>2. PollInv
  BY DEF Init, PollInv
<1>3. Nothing \in Times /\ Nothing \in Bests
  BY DEF Times, Bests
<1>4. Sound({}, Nothing, Nothing, Nothing, accepted)
  BY <1>3, EmptySound
<1>5. MemoryInv
  BY <1>3, <1>4 DEF Init, MemoryInv, Exceeds
<1>6. DiskInv
  <2>1. file = [history |-> {}, best |-> Nothing, reset |-> Nothing] /\ saved = TRUE
    BY DEF Init, Memory
  <2>2. file.history = {} /\ file.best = Nothing /\ file.reset = Nothing /\ file \in Stored
    BY <1>3, <2>1 DEF Stored
  <2> QED
    BY <1>4, <2>1, <2>2 DEF Init, DiskInv, FileCurrent
<1>7. ClearedInv
  BY DEF Init, ClearedInv
<1> QED
  BY <1>1, <1>2, <1>5, <1>6, <1>7 DEF FeedInv

\* Whatever the port does, what the feed remembers stays true of it.
LEMMA PortStepInv == ASSUME FeedInv, PortNext, UNCHANGED feedVars PROVE FeedInv'
<1>1. PortInv' /\ accepted \subseteq accepted' /\ (clock' = clock \/ clock' = clock + 1)
  BY PortSteps DEF FeedInv, PortKeeps
<1>2. /\ UNCHANGED <<configured, pc, snapshot, unannounced, seen, history, best, session, reset,
                     file, saved, cleared>>
  BY DEF feedVars, memoryVars, diskVars
<1>3. AsShares(accepted) \subseteq AsShares(accepted')
  BY <1>1 DEF AsShares
<1>4. PollInv'
  BY <1>2, <1>3 DEF FeedInv, PollInv
<1>5. MemoryInv'
  <2>1. Sound(history', best', reset', cleared', accepted')
    BY <1>1, <1>2, SoundStays DEF FeedInv, MemoryInv
  <2> QED
    BY <1>1, <1>2, <2>1 DEF FeedInv, MemoryInv, Backed
<1>6. DiskInv'
  <2>1. Sound(file.history, file.best, file.reset, cleared, accepted')
    BY <1>1, SoundStays DEF FeedInv, DiskInv
  <2> QED
    BY <1>2, <2>1 DEF FeedInv, DiskInv, FileCurrent
<1>7. ClearedInv'
  BY <1>1, <1>2, ClockTyped DEF FeedInv, ClearedInv
<1> QED
  BY <1>1, <1>4, <1>5, <1>6, <1>7 DEF FeedInv

\* The port's invariant and rows are untouched by the feed.
LEMMA PortRests ==
  ASSUME PortInv, UNCHANGED portVars PROVE PortInv' /\ accepted' = accepted /\ clock' = clock
BY DEF PortInv, PortTypeOK, NewestKept, portVars

\* What is written is what is remembered, and what is not written stays.
LEMMA Written ==
  ASSUME MemoryInv', Saved PROVE DiskInv'
<1>1. file' = [history |-> history', best |-> best', reset |-> reset'] /\ saved' = TRUE
  BY DEF Saved, Memory
<1>2. file'.history = history' /\ file'.best = best' /\ file'.reset = reset'
  BY <1>1
<1>3. file' \in Stored
  BY <1>1 DEF MemoryInv, Sound, Stored
<1> QED
  BY <1>1, <1>2, <1>3 DEF MemoryInv, DiskInv, FileCurrent

LEMMA NotWritten ==
  ASSUME DiskInv, Unsaved, accepted' = accepted, cleared' = cleared \/ cleared' = Nothing
  PROVE  DiskInv'
<1>1. file' = file /\ saved' = FALSE
  BY DEF Unsaved
<1>2. Sound(file.history, file.best, file.reset, cleared', accepted')
  BY DEF DiskInv, Sound
<1> QED
  BY <1>1, <1>2 DEF DiskInv, FileCurrent

\* A step that touches neither the port, the records nor the file.
LEMMA RestInv ==
  ASSUME FeedInv, UNCHANGED <<portVars, configured, diskVars, cleared, history, best, session, reset>>,
         pc' \in {"wait", "asked", "answered", "asking", "merging"}, snapshot' \in Snapshots \cup {Nothing},
         pc' \in {"answered", "asking", "merging"} <=> snapshot' # Nothing,
         snapshot' # Nothing => snapshot'.shares \subseteq AsShares(accepted),
         unannounced' \subseteq Identities(Ids), seen' = Nothing \/ seen' \subseteq Identities(Ids)
  PROVE  FeedInv'
<1>1. PortInv' /\ accepted' = accepted /\ clock' = clock
  BY PortRests DEF FeedInv
<1>2. PollInv'
  BY <1>1 DEF FeedInv, PollInv
<1>3. MemoryInv'
  BY <1>1 DEF FeedInv, MemoryInv
<1>4. DiskInv'
  BY <1>1 DEF FeedInv, DiskInv, FileCurrent, diskVars
<1>5. ClearedInv'
  BY <1>1 DEF FeedInv, ClearedInv
<1> QED
  BY <1>1, <1>2, <1>3, <1>4, <1>5 DEF FeedInv

\* The blocks a poll lists and looks at.
LEMMA LookedAmong ==
  /\ Listed \in SUBSET Ids /\ Identities(Listed) \subseteq Identities(Ids)
  /\ \A blocks : Looked(blocks) \subseteq Identities(blocks)
  /\ \A s \in Snapshots : Looked(s.blocks) \subseteq Identities(Ids)
BY DEF Listed, Looked, Identities, Snapshots

\* Asking, the lack of an answer and the announcements.
LEMMA PollSteps ==
  ASSUME FeedInv, Ask \/ NoAnswer \/ (\E block \in Identities(Ids) : Announce(block)) PROVE FeedInv'
<1> USE DEF FeedInv, PollInv
<1>1. CASE Ask
  BY <1>1, RestInv DEF Ask, memoryVars
<1>2. CASE NoAnswer
  BY <1>2, RestInv DEF NoAnswer, memoryVars
<1>3. CASE \E block \in Identities(Ids) : Announce(block)
  BY <1>3, RestInv DEF Announce, memoryVars
<1> QED
  BY <1>1, <1>2, <1>3

\* The port answers with what it holds.
LEMMA AnswerInv == ASSUME FeedInv, Answer PROVE FeedInv'
<1>1. PICK worker \in {Nothing, Highest(accepted)} :
        snapshot' = [blocks |-> Listed, shares |-> AsShares(shares), worker |-> worker]
  BY DEF Answer
<1>2. /\ pc' = "answered"
      /\ unannounced' = IF seen = Nothing THEN {} ELSE Looked(Listed) \ seen
      /\ UNCHANGED <<portVars, configured, memoryVars, diskVars, cleared>>
  BY DEF Answer
<1>3. Highest(accepted) \in Bests
  <2>1. IsFiniteSet(accepted) /\ \A r \in accepted : r.header \in Headers
    BY DEF FeedInv, PortInv, PortTypeOK, Row
  <2> QED
    BY <2>1, HighestOf
<1>4. snapshot' \in Snapshots /\ snapshot'.shares = AsShares(shares)
  <2>1. worker \in Bests
    BY <1>3 DEF Bests
  <2>2. AsShares(shares) \in SUBSET Share /\ Listed \in SUBSET Ids
    BY Stocked, LookedAmong DEF FeedInv
  <2> QED
    BY <1>1, <2>1, <2>2 DEF Snapshots
<1>5. snapshot' # Nothing
  BY <1>4, NothingAssumption
<1>6. snapshot'.shares \subseteq AsShares(accepted)
  BY <1>4, Stocked DEF FeedInv
<1>7. unannounced' \subseteq Identities(Ids)
  BY <1>2, LookedAmong
<1> QED
  BY <1>2, <1>4, <1>5, <1>6, <1>7, RestInv DEF FeedInv, PollInv, memoryVars

\* An empty list is asked for again, and read at another moment.
LEMMA AskSharesInv == ASSUME FeedInv, AskShares PROVE FeedInv'
<1>1. /\ pc = "answered" /\ seen' = Looked(snapshot.blocks) /\ pc' = "asking"
      /\ UNCHANGED <<portVars, configured, snapshot, unannounced, history, best, session, reset, diskVars,
                     cleared>>
  BY DEF AskShares, SeenAfter
<1>2. snapshot \in Snapshots /\ snapshot # Nothing
  BY <1>1 DEF FeedInv, PollInv
<1>3. seen' \subseteq Identities(Ids)
  BY <1>1, <1>2, LookedAmong
<1> QED
  BY <1>1, <1>2, <1>3, RestInv DEF FeedInv, PollInv

LEMMA SharesAnswerInv == ASSUME FeedInv, SharesAnswer PROVE FeedInv'
<1>1. PICK list \in {{}, AsShares(shares)} : snapshot' = [snapshot EXCEPT !.shares = list]
  BY DEF SharesAnswer
<1>2. /\ pc = "asking" /\ pc' = "merging"
      /\ UNCHANGED <<portVars, configured, unannounced, memoryVars, diskVars, cleared>>
  BY DEF SharesAnswer
<1>3. snapshot \in Snapshots
  BY <1>2 DEF FeedInv, PollInv
<1>4. list \in SUBSET Share /\ list \subseteq AsShares(accepted)
  BY Stocked DEF FeedInv
<1>5. snapshot' \in Snapshots /\ snapshot'.shares = list
  BY <1>1, <1>3, <1>4 DEF Snapshots
<1>6. snapshot' # Nothing
  BY <1>5, NothingAssumption
<1> QED
  BY <1>2, <1>4, <1>5, <1>6, RestInv DEF FeedInv, PollInv, memoryVars

\* The user clears the history, and nothing is older than what is left.
LEMMA ClearInv == ASSUME FeedInv, Clear PROVE FeedInv'
<1>1. /\ history' = {} /\ best' = Nothing /\ session' = Nothing /\ reset' = Reset
      /\ \/ Saved /\ cleared' = IF configured THEN clock ELSE cleared
         \/ Unsaved /\ cleared' = cleared
      /\ UNCHANGED <<portVars, configured, pc, snapshot, unannounced, seen>>
  BY DEF Clear
<1>2. PortInv' /\ accepted' = accepted /\ clock' = clock
  BY <1>1, PortRests DEF FeedInv
<1>3. PollInv'
  BY <1>1, <1>2 DEF FeedInv, PollInv
<1>4. clock \in Nat /\ clock \in Times /\ clock # Nothing
  BY ClockTyped DEF FeedInv
<1>5. ClearedInv'
  BY <1>1, <1>2, <1>4 DEF FeedInv, ClearedInv
<1>6. /\ reset' \in Times
      /\ cleared' # Nothing => reset' # Nothing /\ reset' >= cleared'
  BY <1>1, <1>4 DEF FeedInv, ClearedInv, Reset, Times
<1>7. MemoryInv'
  <2>1. Sound({}, Nothing, reset', cleared', accepted')
    BY <1>6, EmptySound
  <2> QED
    BY <1>1, <2>1 DEF MemoryInv, Exceeds, Bests
<1>8. DiskInv'
  BY <1>1, <1>2, <1>7, Written, NotWritten DEF FeedInv
<1> QED
  BY <1>2, <1>3, <1>5, <1>7, <1>8 DEF FeedInv

\* The pools are edited; a pool that is removed is forgotten.
LEMMA ReconfigureInv == ASSUME FeedInv, NEW with \in BOOLEAN, Reconfigure(with) PROVE FeedInv'
<1>1. /\ configured' = with
      /\ IF with
         THEN UNCHANGED <<seen, history, best, session, reset, cleared>>
         ELSE /\ seen' = Nothing /\ history' = {} /\ best' = Nothing /\ session' = Nothing /\ reset' = Nothing
              /\ cleared' = Nothing
      /\ Saved \/ Unsaved
      /\ UNCHANGED <<portVars, pc, snapshot, unannounced>>
  BY DEF Reconfigure, memoryVars
<1>2. PortInv' /\ accepted' = accepted /\ clock' = clock
  BY <1>1, PortRests DEF FeedInv
<1>3. PollInv'
  BY <1>1, <1>2 DEF FeedInv, PollInv
<1>4. ClearedInv'
  BY <1>1, <1>2 DEF FeedInv, ClearedInv
<1>5. MemoryInv'
  <2>1. CASE with
    BY <1>1, <1>2, <2>1 DEF FeedInv, MemoryInv
  <2>2. CASE ~ with
    <3>1. Sound({}, Nothing, Nothing, Nothing, accepted')
      BY EmptySound DEF Times
    <3> QED
      BY <1>1, <2>2, <3>1 DEF MemoryInv, Exceeds, Bests
  <2> QED
    BY <2>1, <2>2
<1>6. DiskInv'
  BY <1>1, <1>2, <1>5, Written, NotWritten DEF FeedInv
<1> QED
  BY <1>2, <1>3, <1>4, <1>5, <1>6 DEF FeedInv

\* The process restarts from the file, also when that is behind what it remembered.
LEMMA RestartInv == ASSUME FeedInv, Restart PROVE FeedInv'
<1>1. /\ pc' = "wait" /\ snapshot' = Nothing /\ unannounced' = {}
      /\ seen' = Nothing /\ session' = Nothing
      /\ history' = file.history /\ best' = file.best /\ reset' = file.reset
      /\ saved' = TRUE
      /\ UNCHANGED <<portVars, configured, file, cleared>>
  BY DEF Restart
<1>2. PortInv' /\ accepted' = accepted /\ clock' = clock
  BY <1>1, PortRests DEF FeedInv
<1>3. PollInv'
  BY <1>1 DEF FeedInv, PollInv
<1>4. ClearedInv'
  BY <1>1, <1>2 DEF FeedInv, ClearedInv
<1>5. MemoryInv'
  BY <1>1, <1>2 DEF FeedInv, DiskInv, MemoryInv, Bests, Exceeds
<1>6. DiskInv'
  BY <1>1, <1>2 DEF FeedInv, DiskInv, FileCurrent
<1> QED
  BY <1>2, <1>3, <1>4, <1>5, <1>6 DEF FeedInv

\* The end of the poll: what is merged is newer than the reset, the best difficulties cover it,
\* and what is not written was written before, or the file is known to be behind.
LEMMA MergeInv ==
  ASSUME FeedInv, Merge, pc \in {"answered", "merging"}, seen' = Nothing \/ seen' \subseteq Identities(Ids)
  PROVE  FeedInv'
<1> DEFINE fresh == {s \in snapshot.shares : Exceeds(s.time, reset)}
           top == Highest(fresh)
           shared == Better(session, top)
           record == Better(best, top)
           changed == Changed(fresh)
<1>1. /\ pc' = "wait" /\ snapshot' = Nothing
      /\ UNCHANGED <<portVars, configured, unannounced, reset, cleared>>
      /\ history' = Latest(Merged(fresh))
  BY DEF Merge
<1>2. /\ \/ session' = shared /\ best' = record
         \/ /\ session' = Better(shared, Observed)
            /\ best' = IF Observed = Nothing THEN record ELSE Better(record, session')
      /\ \/ Unsaved
         \/ Saved
         \/ ~ changed /\ best' = record /\ UNCHANGED diskVars
         \/ saved' = FALSE /\ file' = [Memory' EXCEPT !.best = record]
         \/ saved' = FALSE /\ file' = file
  BY DEF Merge, Unsaved
<1>3. snapshot \in Snapshots /\ snapshot # Nothing
  BY DEF FeedInv, PollInv
<1>4. fresh \subseteq AsShares(accepted) /\ fresh \in SUBSET Share /\ IsFiniteSet(fresh)
  <2>1. fresh \in SUBSET AsShares(accepted)
    BY <1>3 DEF FeedInv, PollInv
  <2> HIDE DEF fresh
  <2> QED
    BY <2>1, Stocked, FS_Subset DEF FeedInv
<1>5. \A s \in fresh : Exceeds(s.time, reset)
  OBVIOUS
<1>6. ~ changed /\ best' = record /\ UNCHANGED diskVars =>
           Ranked(history') = Ranked(history) /\ best' = best /\ UNCHANGED diskVars
  BY <1>1 DEF Changed, Better
<1> HIDE DEF changed, fresh
<1>7. /\ top \in Bests
      /\ top # Nothing => \E s \in fresh : top = Difficulty(s.header)
      /\ \A s \in fresh : ~ Exceeds(Difficulty(s.header), top)
  BY <1>4, ShareFields, HighestOf
<1>8. Observed \in Bests /\ (reset # Nothing => Observed = Nothing)
  BY <1>3 DEF Observed, Snapshots, Bests
<1>9. /\ best \in Bests /\ session \in Bests /\ ~ Exceeds(session, best)
      /\ history \subseteq Share /\ IsFiniteSet(history) /\ reset \in Times
      /\ \A s \in history : ~ Exceeds(Difficulty(s.header), best)
  BY DEF FeedInv, MemoryInv, Sound
<1> HIDE DEF top
<1>10. /\ shared \in {session, top} /\ ~ Exceeds(session, shared) /\ ~ Exceeds(top, shared)
       /\ record \in {best, top} /\ ~ Exceeds(best, record) /\ ~ Exceeds(top, record)
       /\ shared \in Bests /\ record \in Bests
  BY <1>7, <1>9, BetterOf
<1> HIDE DEF shared, record
<1>11. ~ Exceeds(shared, record)
  BY <1>7, <1>9, <1>10, ExceedsNone
<1>12. /\ session' \in {shared, Observed} /\ session' \in Bests
       /\ best' \in {record, session'} /\ best' \in Bests
       /\ ~ Exceeds(record, best') /\ ~ Exceeds(session', best')
       /\ Observed = Nothing => best' = record /\ session' = shared
  <2>1. ~ Exceeds(record, record)
    BY <1>10, NothingAssumption DEF Exceeds, Bests
  <2>2. CASE session' = shared /\ best' = record
    BY <1>10, <1>11, <2>1, <2>2
  <2>3. CASE /\ session' = Better(shared, Observed)
             /\ best' = IF Observed = Nothing THEN record ELSE Better(record, session')
    <3>1. session' \in {shared, Observed} /\ session' \in Bests
      BY <1>8, <1>10, <2>3, BetterOf
    <3>2. CASE Observed = Nothing
      <4>1. best' = record /\ session' = shared
        BY <2>3, <3>2 DEF Better, Exceeds
      <4> QED
        BY <1>10, <1>11, <2>1, <4>1
    <3>3. CASE Observed # Nothing
      <4>1. best' = Better(record, session')
        BY <2>3, <3>3
      <4> QED
        BY <1>10, <3>1, <3>3, <4>1, BetterOf
    <3> QED
      BY <3>2, <3>3
  <2> QED
    BY <1>2, <2>2, <2>3
<1>13. history' \subseteq history \cup fresh /\ history' \subseteq Share
       /\ IsFiniteSet(history') /\ Cardinality(history') <= Kept
  <2>1. Merged(fresh) \subseteq history \cup fresh
    BY DEF Merged
  <2>2. history \cup fresh \in SUBSET Share /\ IsFiniteSet(history \cup fresh)
    BY <1>4, <1>9, FS_Union
  <2>3. Merged(fresh) \in SUBSET Share /\ IsFiniteSet(Merged(fresh))
    BY <2>1, <2>2, FS_Subset
  <2> QED
    BY <1>1, <2>1, <2>3, LatestBounded
<1>14. PortInv' /\ accepted' = accepted /\ clock' = clock
  BY <1>1, PortRests DEF FeedInv
<1>15. PollInv'
  BY <1>1 DEF FeedInv, PollInv
<1>16. ClearedInv'
  BY <1>1, <1>14 DEF FeedInv, ClearedInv
<1>17. ASSUME NEW s \in history' PROVE ~ Exceeds(Difficulty(s.header), record)
  <2>1. Difficulty(s.header) \in Bests
    BY <1>13, ShareFields, DifficultyTyped
  <2>2. CASE s \in history
    BY <1>9, <1>10, <2>1, <2>2, ExceedsNone
  <2>3. CASE s \in fresh
    BY <1>7, <1>10, <2>1, <2>3, ExceedsNone
  <2> QED
    BY <1>13, <2>2, <2>3
<1>18. ASSUME cleared # Nothing
       PROVE  /\ Observed = Nothing /\ reset # Nothing /\ reset >= cleared
              /\ \A s \in history' : s.time > cleared
              /\ \A b \in {best, session, top} \ {Nothing} : Backed(b, cleared, accepted)
  <2>1. /\ reset # Nothing /\ reset >= cleared /\ reset \in Nat /\ cleared \in Nat
        /\ \A s \in history : s.time > cleared
        /\ \A b \in {best, session} \ {Nothing} : Backed(b, cleared, accepted)
    BY <1>18 DEF FeedInv, MemoryInv, Sound, ClearedInv, Times
  <2>2. \A s \in fresh : s.time > cleared
    <3> SUFFICES ASSUME NEW s \in fresh PROVE s.time > cleared
      OBVIOUS
    <3>1. s.time \in Nat /\ s.time > reset
      BY <1>4, <1>5, <2>1, ShareFields DEF Exceeds
    <3> QED
      BY <2>1, <3>1
  <2>3. top # Nothing => Backed(top, cleared, accepted)
    <3> SUFFICES ASSUME top # Nothing PROVE Backed(top, cleared, accepted)
      OBVIOUS
    <3>1. PICK s \in fresh : top = Difficulty(s.header)
      BY <1>7
    <3>2. PICK r \in accepted : s = [header |-> r.header, time |-> r.time]
      BY <1>4 DEF AsShares
    <3>3. r.time > cleared /\ Difficulty(r.header) = top
      BY <2>2, <3>1, <3>2
    <3>4. top \in Nat
      BY <1>7 DEF Bests
    <3> QED
      BY <3>3, <3>4 DEF Backed
  <2> QED
    BY <1>8, <1>13, <2>1, <2>2, <2>3
<1>19. Sound(history', best', reset', cleared', accepted') /\ Sound(history', record, reset', cleared', accepted')
  <2>1. \A s \in history' : ~ Exceeds(Difficulty(s.header), best')
    <3> SUFFICES ASSUME NEW s \in history' PROVE ~ Exceeds(Difficulty(s.header), best')
      OBVIOUS
    <3>1. Difficulty(s.header) \in Bests
      BY <1>13, ShareFields, DifficultyTyped
    <3> QED
      BY <1>10, <1>12, <1>17, <3>1, ExceedsNone
  <2>2. cleared # Nothing => best' \in {best, top} /\ record \in {best, top}
    BY <1>10, <1>12, <1>18
  <2> QED
    BY <1>1, <1>9, <1>10, <1>12, <1>13, <1>14, <1>17, <1>18, <2>1, <2>2 DEF Sound
<1>20. MemoryInv'
  <2>1. cleared # Nothing => session' \in {session, top}
    BY <1>10, <1>12, <1>18
  <2> QED
    BY <1>1, <1>12, <1>14, <1>18, <1>19, <2>1 DEF MemoryInv
<1>21. DiskInv'
  <2>1. CASE Unsaved
    BY <1>1, <1>14, <2>1, NotWritten DEF FeedInv
  <2>2. CASE Saved
    BY <1>20, <2>2, Written
  <2>3. CASE ~ changed /\ best' = record /\ UNCHANGED diskVars
    BY <1>1, <1>6, <1>14, <2>3 DEF FeedInv, DiskInv, FileCurrent, diskVars
  <2>4. CASE saved' = FALSE /\ file' = [Memory' EXCEPT !.best = record]
    <3>1. file' = [history |-> history', best |-> record, reset |-> reset']
      BY <2>4 DEF Memory
    <3>2. file'.history = history' /\ file'.best = record /\ file'.reset = reset'
      BY <3>1
    <3>3. file' \in Stored
      BY <1>19, <3>1 DEF Sound, Stored
    <3> QED
      BY <1>19, <2>4, <3>2, <3>3 DEF DiskInv, FileCurrent
  <2>5. CASE saved' = FALSE /\ file' = file
    BY <1>1, <1>14, <2>5, NotWritten DEF FeedInv, Unsaved
  <2> QED
    BY <1>2, <2>1, <2>2, <2>3, <2>4, <2>5
<1> QED
  BY <1>14, <1>15, <1>16, <1>20, <1>21 DEF FeedInv

LEMMA FinishInv == ASSUME FeedInv, Finish \/ FinishLate PROVE FeedInv'
<1>1. CASE Finish
  <2>1. snapshot \in Snapshots
    BY <1>1 DEF Finish, FeedInv, PollInv
  <2>2. seen' \subseteq Identities(Ids)
    BY <1>1, <2>1, LookedAmong DEF Finish, SeenAfter
  <2> QED
    BY <1>1, <2>2, MergeInv DEF Finish
<1>2. CASE FinishLate
  BY <1>2, MergeInv DEF FinishLate, FeedInv, PollInv
<1> QED
  BY <1>1, <1>2

\* Every step keeps the invariant of the port and the feed.
LEMMA NextInv == ASSUME FeedInv, [Next]_vars PROVE FeedInv'
<1>1. CASE PortNext /\ UNCHANGED feedVars
  BY <1>1, PortStepInv
<1>2. CASE FeedNext
  BY <1>2, PollSteps, AnswerInv, AskSharesInv, SharesAnswerInv, FinishInv, ClearInv, ReconfigureInv, RestartInv
     DEF FeedNext
<1>3. CASE UNCHANGED vars
  BY <1>3, RestInv DEF FeedInv, PollInv, vars, feedVars, memoryVars
<1> QED
  BY <1>1, <1>2, <1>3 DEF Next

\* What holds of the invariant in one state.
LEMMA FeedInvGives == ASSUME FeedInv PROVE TypeOK /\ NewestKept /\ ClearedForGood /\ FileCurrent /\ RecordHolds
<1>1. TypeOK
  BY DEF FeedInv, PollInv, MemoryInv, DiskInv, Sound, PortInv, TypeOK
<1>2. ClearedForGood
  BY DEF FeedInv, MemoryInv, Sound, Backed, ClearedForGood
<1>3. RecordHolds
  <2>1. Highest(history) \in Bests /\ (Highest(history) # Nothing => \E s \in history : Highest(history) = Difficulty(s.header))
    BY ShareFields, HighestOf DEF FeedInv, MemoryInv, Sound
  <2>2. ~ Exceeds(Highest(history), best)
    BY <2>1 DEF FeedInv, MemoryInv, Sound, Exceeds
  <2> QED
    BY <2>2 DEF FeedInv, MemoryInv, RecordHolds
<1> QED
  BY <1>1, <1>2, <1>3 DEF FeedInv, PortInv, DiskInv

\* Every step of the port, the feed, the user and the process keeps to what the properties
\* of one state say: types, and that the history has no more than Kept shares.
THEOREM TypeCorrect == Spec => []TypeOK
<1>1. Spec => []FeedInv
  BY FeedStarts, NextInv, PTL DEF Spec
<1>2. FeedInv => TypeOK
  BY FeedInvGives
<1> QED
  BY <1>1, <1>2, PTL

\* However the threads that store shares overtake each other, the rows are the newest of all
\* that were ever stored: pruning at every insertion drops none that would count later.
THEOREM NewestKeptHolds == Spec => []NewestKept
<1>1. Spec => []FeedInv
  BY FeedStarts, NextInv, PTL DEF Spec
<1>2. FeedInv => NewestKept
  BY FeedInvGives
<1> QED
  BY <1>1, <1>2, PTL

\* What the user cleared never comes back, through polls under way, restarts and removals.
THEOREM ClearedForGoodHolds == Spec => []ClearedForGood
<1>1. Spec => []FeedInv
  BY FeedStarts, NextInv, PTL DEF Spec
<1>2. FeedInv => ClearedForGood
  BY FeedInvGives
<1> QED
  BY <1>1, <1>2, PTL

\* As long as the last attempt to write succeeded, what a restart would load is what the process
\* remembers, though it stores only changes and any of the writes may fail.
THEOREM FileCurrentHolds == Spec => []FileCurrent
<1>1. Spec => []FeedInv
  BY FeedStarts, NextInv, PTL DEF Spec
<1>2. FeedInv => FileCurrent
  BY FeedInvGives
<1> QED
  BY <1>1, <1>2, PTL

\* The record covers the session and every share of the history.
THEOREM RecordHoldsAlways == Spec => []RecordHolds
<1>1. Spec => []FeedInv
  BY FeedStarts, NextInv, PTL DEF Spec
<1>2. FeedInv => RecordHolds
  BY FeedInvGives
<1> QED
  BY <1>1, <1>2, PTL

-----------------------------------------------------------------------------
(* Announcements.  An identity that was announced is among those last seen, *)
(* or so many older ones are listed that it is not looked at again.         *)

Few(blocks) == Cardinality(Identities(blocks)) <= Shown

\* AnnouncedOnce speaks of these identities.
Covered(block) == Together(block) \/ Few(Listed)

Announcing ==
  /\ news \subseteq Identities(Listed)
  /\ pc # "answered" => unannounced = {}
  /\ pc = "answered" =>
       /\ snapshot.blocks \subseteq Listed
       /\ unannounced \subseteq Identities(snapshot.blocks)
       /\ \A block \in unannounced \cap news : ~ Covered(block)
       /\ news \subseteq Identities(snapshot.blocks)
       /\ Looked(snapshot.blocks) \subseteq news \cup unannounced
  /\ pc # "answered" /\ seen # Nothing =>
       \A block \in news : Covered(block) => block \in seen \/ block \notin Looked(Listed)
  /\ seen # Nothing => seen \subseteq news

\* The identities of a list and of what is older in it are finitely many.
LEMMA IdentitiesCounted ==
  ASSUME NEW B \in SUBSET Ids
  PROVE  /\ IsFiniteSet(Identities(B)) /\ Cardinality(Identities(B)) \in Nat
         /\ \A i : /\ IsFiniteSet(Older(i, B)) /\ Cardinality(Older(i, B)) \in Nat
                   /\ Older(i, B) \subseteq Identities(B)
<1>1. IsFiniteSet(B)
  <2>1. IsFiniteSet(Ids)
    BY FS_Interval, BoundsAssumption DEF Ids
  <2> QED
    BY <2>1, FS_Subset
<1>2. IsFiniteSet(Identities(B))
  <2> DEFINE f == [i \in B |-> Identity(i)]
  <2>1. f \in Surjection(B, Identities(B))
    BY DEF Identities, Surjection
  <2> QED
    BY <1>1, <2>1, FS_Surjection
<1>3. ASSUME NEW i PROVE IsFiniteSet(Older(i, B)) /\ Older(i, B) \subseteq Identities(B)
  <2>1. Older(i, B) \in SUBSET Identities(B)
    BY DEF Older, Identities
  <2> QED
    BY <1>2, <2>1, FS_Subset
<1> QED
  BY <1>2, <1>3, FS_CardinalityType

\* The oldest row of an identity.
LEMMA OldestRow ==
  ASSUME NEW B \in SUBSET Ids, NEW block \in Identities(B)
  PROVE  \E m \in B : Identity(m) = block /\ \A j \in B : Identity(j) = block => m <= j
<1> DEFINE S == {i \in B : Identity(i) = block}
<1>1. S # {} /\ S \in SUBSET Nat
  BY BoundsAssumption DEF Identities, Ids
<1> HIDE DEF S
<1>2. PICK m \in S : \A j \in S : m <= j
  BY <1>1, Least
<1> QED
  BY <1>2 DEF S

\* Of a list that is short enough every identity is looked at.
LEMMA FewLooked ==
  ASSUME NEW B \in SUBSET Ids, Few(B) PROVE Identities(B) \subseteq Looked(B)
<1> SUFFICES ASSUME NEW block \in Identities(B) PROVE block \in Looked(B)
  OBVIOUS
<1>1. PICK m \in B : Identity(m) = block /\ \A j \in B : Identity(j) = block => m <= j
  BY OldestRow
<1>2. Older(m, B) \subseteq Identities(B) \ {block}
  <2> SUFFICES ASSUME NEW j \in B, j < m PROVE Identity(j) \in Identities(B) /\ Identity(j) # block
    BY DEF Older, Identities
  <2>1. j \in Int /\ m \in Int
    BY BoundsAssumption DEF Ids
  <2> QED
    BY <1>1, <2>1 DEF Identities
<1>3. /\ IsFiniteSet(Identities(B) \ {block})
      /\ Cardinality(Identities(B) \ {block}) = Cardinality(Identities(B)) - 1
  BY IdentitiesCounted, FS_RemoveElement
<1>4. Cardinality(Older(m, B)) <= Cardinality(Identities(B) \ {block})
  <2>1. Older(m, B) \in SUBSET (Identities(B) \ {block})
    BY <1>2
  <2> QED
    BY <1>3, <2>1, FS_Subset
<1>5. Cardinality(Older(m, B)) < Shown
  BY <1>3, <1>4, IdentitiesCounted, ShownAssumption DEF Few
<1> QED
  BY <1>1, <1>5 DEF Looked, Identities

\* A list that grows has no fewer identities.
LEMMA FewBefore ==
  ASSUME NEW A \in SUBSET Ids, NEW B \in SUBSET A, Few(A) PROVE Few(B)
<1>1. Identities(B) \in SUBSET Identities(A)
  BY DEF Identities
<1>2. Cardinality(Identities(B)) <= Cardinality(Identities(A))
  BY <1>1, IdentitiesCounted, FS_Subset
<1>3. B \in SUBSET Ids
  OBVIOUS
<1>4. Cardinality(Identities(A)) \in Nat /\ Cardinality(Identities(B)) \in Nat
  BY <1>3, IdentitiesCounted
<1> QED
  BY <1>2, <1>4, ShownAssumption DEF Few

\* What a list is too long for stays so when it grows: what was older stays older, for no other
\* row lies between those of the identity.
LEMMA LeftStays ==
  ASSUME NEW A \in SUBSET Ids, NEW B \in SUBSET A, NEW block \in Identities(B),
         Together(block), block \notin Looked(B)
  PROVE  block \notin Looked(A)
<1> SUFFICES ASSUME NEW i \in A, Identity(i) = block, Cardinality(Older(i, A)) < Shown PROVE FALSE
  BY DEF Looked, Identities
<1>1. B \in SUBSET Ids
  OBVIOUS
<1>2. PICK m \in B : Identity(m) = block /\ \A j \in B : Identity(j) = block => m <= j
  BY <1>1, OldestRow
<1>3. Older(m, B) \subseteq Older(i, A)
  <2> SUFFICES ASSUME NEW j \in B, j < m PROVE j < i
    BY DEF Older, Identities
  <2>1. /\ j \in Int /\ m \in Int /\ i \in Int
        /\ j \in Ids /\ m \in Ids /\ i \in Ids
    BY BoundsAssumption DEF Ids
  <2>2. Identity(j) # block
    BY <1>2, <2>1
  <2>3. ~ (i < j)
    BY <1>2, <2>1, <2>2 DEF Together
  <2> QED
    BY <2>1, <2>2, <2>3
<1>4. /\ IsFiniteSet(Older(i, A)) /\ Cardinality(Older(i, A)) \in Nat
      /\ Cardinality(Older(m, B)) \in Nat
  BY <1>1, IdentitiesCounted
<1>5. Cardinality(Older(m, B)) <= Cardinality(Older(i, A))
  <2>1. Older(m, B) \in SUBSET Older(i, A)
    BY <1>3
  <2> QED
    BY <1>4, <2>1, FS_Subset
<1>6. Cardinality(Older(m, B)) < Shown
  BY <1>4, <1>5, ShownAssumption
<1> QED
  BY <1>2, <1>6 DEF Looked, Identities

\* An announced identity that one list has no room for is not looked at in a longer one.
LEMMA StaysLeft ==
  ASSUME NEW A \in SUBSET Ids, NEW B \in SUBSET A, NEW block \in Identities(B),
         Together(block) \/ Few(A), block \notin Looked(B)
  PROVE  block \notin Looked(A)
<1>1. B \in SUBSET Ids
  OBVIOUS
<1>2. ~ Few(A)
  BY <1>1, FewBefore, FewLooked
<1> QED
  BY <1>2, LeftStays

\* Nothing was announced or seen when the process starts.
LEMMA AnnouncingStarts == ASSUME Init PROVE Announcing
BY DEF Init, Announcing

\* The port lists more and more.
LEMMA PortAnnouncing ==
  ASSUME FeedInv, Announcing, PortNext, UNCHANGED feedVars PROVE Announcing'
<1>1. /\ Listed \in SUBSET Listed' /\ Listed' \in SUBSET Ids /\ Listed \in SUBSET Ids
      /\ Identities(Listed) \subseteq Identities(Listed')
  BY PortSteps DEF FeedInv, PortKeeps, Listed, Identities
<1>2. UNCHANGED <<pc, snapshot, unannounced, seen, news>>
  BY DEF feedVars, memoryVars
<1>3. ASSUME NEW block, Covered(block)' PROVE Covered(block)
  <2>1. Together(block) \/ Few(Listed')
    BY <1>3 DEF Covered, Together, Few
  <2> QED
    BY <1>1, <2>1, FewBefore DEF Covered
<1>4. ASSUME NEW block \in news, Covered(block)', block \notin Looked(Listed) PROVE block \notin Looked(Listed')
  <2>1. Together(block) \/ Few(Listed')
    BY <1>4 DEF Covered, Together, Few
  <2>2. block \in Identities(Listed)
    BY DEF Announcing
  <2> QED
    BY <1>1, <1>4, <2>1, <2>2, StaysLeft
<1>5. Looked(Listed)' = Looked(Listed') /\ Identities(Listed)' = Identities(Listed')
      /\ Looked(snapshot.blocks)' = Looked(snapshot.blocks)
      /\ Identities(snapshot.blocks)' = Identities(snapshot.blocks)
  BY <1>2 DEF Looked, Identities, Older
<1> QED
  BY <1>1, <1>2, <1>3, <1>4, <1>5 DEF Announcing

\* What the port lists is the same as long as the port rests.
LEMMA SameList ==
  ASSUME UNCHANGED portVars
  PROVE  /\ Listed' = Listed /\ Identities(Listed)' = Identities(Listed) /\ Looked(Listed)' = Looked(Listed)
         /\ \A block : Covered(block)' <=> Covered(block)
<1>1. Listed' = Listed
  BY DEF portVars, Listed
<1> QED
  BY <1>1 DEF Identities, Looked, Older, Covered, Few, Together

\* A step that neither polls nor announces; it may forget what was seen, and drop the poll.
LEMMA RestAnnouncing ==
  ASSUME Announcing, UNCHANGED <<portVars, news>>,
         \/ UNCHANGED <<pc, snapshot, unannounced>> /\ seen' \in {seen, Nothing}
         \/ pc # "answered" /\ pc' # "answered" /\ unannounced' \in {unannounced, {}} /\ seen' \in {seen, Nothing}
         \/ pc' # "answered" /\ unannounced' = {} /\ seen' = Nothing
  PROVE  Announcing'
<1>1. /\ Listed' = Listed /\ Identities(Listed)' = Identities(Listed) /\ Looked(Listed)' = Looked(Listed)
      /\ \A block : Covered(block)' <=> Covered(block)
  BY SameList
<1>2. CASE UNCHANGED <<pc, snapshot, unannounced>> /\ seen' \in {seen, Nothing}
  <2>1. Looked(snapshot.blocks)' = Looked(snapshot.blocks) /\ Identities(snapshot.blocks)' = Identities(snapshot.blocks)
    BY <1>2 DEF Looked, Identities, Older
  <2> QED
    BY <1>1, <1>2, <2>1 DEF Announcing
<1>3. CASE pc # "answered" /\ pc' # "answered" /\ unannounced' \in {unannounced, {}} /\ seen' \in {seen, Nothing}
  BY <1>1, <1>3 DEF Announcing
<1>4. CASE pc' # "answered" /\ unannounced' = {} /\ seen' = Nothing
  BY <1>1, <1>4 DEF Announcing
<1> QED
  BY <1>2, <1>3, <1>4

\* Everything but the answer, an announcement and the memory of a poll is such a step.
LEMMA StepsAnnouncing ==
  ASSUME Announcing,
         \/ Ask \/ NoAnswer \/ SharesAnswer \/ FinishLate
         \/ Clear \/ (\E with \in BOOLEAN : Reconfigure(with)) \/ Restart
  PROVE  Announcing'
<1>1. CASE Ask
  BY <1>1, RestAnnouncing DEF Ask, memoryVars
<1>2. CASE NoAnswer
  BY <1>2, RestAnnouncing DEF NoAnswer, memoryVars
<1>3. CASE SharesAnswer
  BY <1>3, RestAnnouncing DEF SharesAnswer, memoryVars
<1>4. CASE FinishLate
  <2>1. pc # "answered" /\ pc' # "answered" /\ UNCHANGED <<portVars, news, unannounced, seen>>
    BY <1>4 DEF FinishLate, Merge
  <2> QED
    BY <2>1, RestAnnouncing
<1>5. CASE Clear
  BY <1>5, RestAnnouncing DEF Clear
<1>6. ASSUME NEW with \in BOOLEAN, Reconfigure(with) PROVE Announcing'
  <2>1. UNCHANGED <<portVars, news, pc, snapshot, unannounced>> /\ seen' \in {seen, Nothing}
    BY <1>6 DEF Reconfigure, memoryVars
  <2> QED
    BY <2>1, RestAnnouncing
<1>7. CASE Restart
  BY <1>7, RestAnnouncing DEF Restart
<1> QED
  BY <1>1, <1>2, <1>3, <1>4, <1>5, <1>6, <1>7

\* An announcement.
LEMMA AnnounceAnnouncing ==
  ASSUME Announcing, NEW block \in Identities(Ids), Announce(block) PROVE Announcing'
<1>1. /\ block \in unannounced /\ unannounced' = unannounced \ {block} /\ news' = news \cup {block}
      /\ UNCHANGED <<portVars, pc, snapshot, seen>>
  BY DEF Announce, memoryVars
<1>2. pc = "answered" /\ pc' = "answered"
  BY <1>1 DEF Announcing
<1>3. /\ Listed' = Listed /\ Identities(Listed)' = Identities(Listed) /\ Looked(Listed)' = Looked(Listed)
      /\ \A b : Covered(b)' <=> Covered(b)
  BY <1>1, SameList
<1>4. Looked(snapshot.blocks)' = Looked(snapshot.blocks) /\ Identities(snapshot.blocks)' = Identities(snapshot.blocks)
  BY <1>1 DEF Looked, Identities, Older
<1>5. block \in Identities(snapshot.blocks) /\ block \in Identities(Listed)
  BY <1>1, <1>2 DEF Announcing, Identities
<1> QED
  BY <1>1, <1>2, <1>3, <1>4, <1>5 DEF Announcing

\* Of what is listed, the feed announces what it looks at and did not see.
LEMMA AnswerAnnouncing == ASSUME Announcing, Answer PROVE Announcing'
<1>1. /\ pc = "asked" /\ pc' = "answered" /\ snapshot'.blocks = Listed
      /\ unannounced' = IF seen = Nothing THEN {} ELSE Looked(Listed) \ seen
      /\ news' = IF seen = Nothing THEN Identities(Listed) ELSE news
      /\ UNCHANGED <<portVars, seen>>
  BY DEF Answer, memoryVars
<1>2. /\ Listed' = Listed /\ Identities(Listed)' = Identities(Listed) /\ Looked(Listed)' = Looked(Listed)
      /\ \A block : Covered(block)' <=> Covered(block)
  BY <1>1, SameList
<1>3. /\ Looked(snapshot.blocks)' = Looked(Listed) /\ Identities(snapshot.blocks)' = Identities(Listed)
      /\ Looked(Listed) \subseteq Identities(Listed)
  BY <1>1 DEF Looked, Identities, Older
<1>4. CASE seen = Nothing
  BY <1>1, <1>2, <1>3, <1>4 DEF Announcing
<1>5. CASE seen # Nothing
  <2>1. \A block \in unannounced' \cap news : ~ Covered(block)
    BY <1>1, <1>5 DEF Announcing
  <2> QED
    BY <1>1, <1>2, <1>3, <1>5, <2>1 DEF Announcing
<1> QED
  BY <1>4, <1>5

\* When a poll remembers what it saw, what was announced is in it, or the list is too long for it.
LEMMA SeenAnnouncing == ASSUME FeedInv, Announcing, Finish \/ AskShares PROVE Announcing'
<1>1. /\ pc = "answered" /\ unannounced = {} /\ pc' # "answered" /\ seen' = Looked(snapshot.blocks)
      /\ UNCHANGED <<portVars, unannounced, news>>
  BY DEF Finish, AskShares, Merge, SeenAfter
<1>2. /\ Listed' = Listed /\ Identities(Listed)' = Identities(Listed) /\ Looked(Listed)' = Looked(Listed)
      /\ \A block : Covered(block)' <=> Covered(block)
  BY <1>1, SameList
<1>3. /\ snapshot.blocks \in SUBSET Listed /\ Listed \in SUBSET Ids
      /\ news \subseteq Identities(snapshot.blocks) /\ Looked(snapshot.blocks) \subseteq news
      /\ news \subseteq Identities(Listed)
  BY <1>1, LookedAmong DEF Announcing
<1>4. ASSUME NEW block \in news, Covered(block), block \notin Looked(snapshot.blocks)
      PROVE  block \notin Looked(Listed)
  BY <1>3, <1>4, StaysLeft DEF Covered
<1> QED
  BY <1>1, <1>2, <1>3, <1>4 DEF Announcing

\* Every step keeps what is remembered of announcements.
LEMMA NextAnnouncing == ASSUME FeedInv, Announcing, [Next]_vars PROVE Announcing'
<1>1. CASE PortNext /\ UNCHANGED feedVars
  BY <1>1, PortAnnouncing
<1>2. CASE FeedNext
  BY <1>2, StepsAnnouncing, AnnounceAnnouncing, AnswerAnnouncing, SeenAnnouncing DEF FeedNext
<1>3. CASE UNCHANGED vars
  <2>1. UNCHANGED <<portVars, news, pc, snapshot, unannounced, seen>>
    BY <1>3 DEF vars, feedVars, memoryVars
  <2> QED
    BY <2>1, RestAnnouncing
<1> QED
  BY <1>1, <1>2, <1>3 DEF Next

\* No block is announced that was announced before, or was there when the process first looked, for
\* any number of blocks and whatever the user and restarts do, but for what AnnouncedOnce excepts.
THEOREM AnnouncedOnceHolds == Spec => AnnouncedOnce
<1>1. Spec => [](FeedInv /\ Announcing)
  BY FeedStarts, AnnouncingStarts, NextInv, NextAnnouncing, PTL DEF Spec
<1>2. ASSUME Announcing, NEW block \in Identities(Ids), Announce(block),
             Together(block) \/ Cardinality(Identities(Listed)) <= Shown
      PROVE  block \notin news
  BY <1>2 DEF Announcing, Announce, Covered, Few
<1>3. Announcing /\ [Next]_vars =>
        [\A block \in Identities(Ids) :
           Announce(block) /\ (Together(block) \/ Cardinality(Identities(Listed)) <= Shown) => block \notin news]_vars
  BY <1>2
<1> QED
  BY <1>1, <1>3, PTL DEF Spec, AnnouncedOnce

\* A poll tells of every candidate that has fewer than Shown older ones in its list, however long the
\* list is and whichever of them are known by one identity.
THEOREM BlocksAnnouncedHolds == Spec => BlocksAnnounced
<1>1. Spec => [](FeedInv /\ Announcing)
  BY FeedStarts, AnnouncingStarts, NextInv, NextAnnouncing, PTL DEF Spec
<1>2. ASSUME FeedInv, Announcing, [Next]_vars, pc = "answered", pc' # "answered", seen' # Nothing,
             NEW i \in snapshot.blocks, Cardinality(Older(i, snapshot.blocks)) < Shown
      PROVE  Identity(i) \in news
  <2>1. Finish \/ AskShares
    BY <1>2 DEF Next, FeedNext, Ask, NoAnswer, Answer, Announce, SharesAnswer, FinishLate, Clear, Reconfigure,
                Restart, feedVars, vars
  <2>2. Looked(snapshot.blocks) \subseteq news
    BY <1>2, <2>1 DEF Finish, AskShares, Announcing
  <2>3. Identity(i) \in Looked(snapshot.blocks)
    BY <1>2 DEF Looked, Identities
  <2> QED
    BY <2>2, <2>3
<1>3. FeedInv /\ Announcing /\ [Next]_vars
        => [pc = "answered" /\ pc' # "answered" /\ seen' # Nothing
              => \A i \in snapshot.blocks :
                   Cardinality(Older(i, snapshot.blocks)) < Shown => Identity(i) \in news]_vars
  BY <1>2
<1> QED
  BY <1>1, <1>3, PTL DEF Spec, BlocksAnnounced
=============================================================================
