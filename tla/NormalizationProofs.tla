-------------------------- MODULE NormalizationProofs --------------------------
(***************************************************************************)
(* Proofs about the two stores of Stores that make what they hold fit for  *)
(* its readers: settings.json, which Get and Set normalise field by field, *)
(* and the transcript of a conversation, which is cut, compacted and       *)
(* reconciled so that a provider accepts it.  For any settings file, any   *)
(* patches and callers, any cap of the history, any number of calls of an  *)
(* answer, and any sizes.                                                  *)
(***************************************************************************)
EXTENDS Stores, Ordered, SequenceTheorems, FiniteSetTheorems, FunctionTheorems, TLAPS

-----------------------------------------------------------------------------
(* The least and the greatest of a finite set of numbers, and its elements *)
(* in their order.                                                         *)

Largest(S) == CHOOSE x \in S : \A y \in S : x >= y
Smallest(S) == CHOOSE x \in S : \A y \in S : x =< y

(* The ranks of a finite set are the numbers up to its size, in order.     *)
LEMMA Ranks ==
    ASSUME NEW S \in SUBSET Nat, IsFiniteSet(S)
    PROVE  /\ Cardinality(S) \in Nat
           /\ \A k \in S : Rank(S, k) \in 1 .. Cardinality(S)
           /\ \A k, l \in S : k < l => Rank(S, k) < Rank(S, l)
           /\ \A n \in 1 .. Cardinality(S) : \E k \in S : Rank(S, k) = n
<1>1. Cardinality(S) \in Nat
  BY FS_CardinalityType
<1>2. ASSUME NEW k \in Nat
      PROVE  /\ IsFiniteSet({j \in S : j <= k}) /\ Rank(S, k) \in Nat /\ Rank(S, k) <= Cardinality(S)
  BY FS_Subset, FS_CardinalityType DEF Rank
<1>. \A k \in S : k \in Nat
  OBVIOUS
<1>3. ASSUME NEW k \in S PROVE Rank(S, k) \in 1 .. Cardinality(S)
  <2>0. k \in Nat /\ Rank(S, k) \in Nat /\ Rank(S, k) <= Cardinality(S)
    BY <1>2
  <2>1. Rank(S, k) # 0
    <3>1. k \in {j \in S : j <= k}
      OBVIOUS
    <3>2. {j \in S : j <= k} # {}
      BY <3>1
    <3>. QED BY <1>2, <3>2, FS_EmptySet DEF Rank
  <2>. QED BY <1>1, <2>0, <2>1
<1>4. ASSUME NEW k \in S, NEW l \in S, k < l PROVE Rank(S, k) < Rank(S, l)
  <2>1. {j \in S : j <= k} \in SUBSET {j \in S : j <= l} /\ {j \in S : j <= k} # {j \in S : j <= l}
    <3>1. l \in {j \in S : j <= l} /\ l \notin {j \in S : j <= k}
      BY <1>4
    <3>2. \A j \in S : j <= k => j <= l
      BY <1>4
    <3>. QED BY <3>1, <3>2
  <2>2. IsFiniteSet({j \in S : j <= l})
    BY <1>2
  <2>3. Rank(S, k) <= Rank(S, l) /\ Rank(S, k) # Rank(S, l)
    BY <2>1, <2>2, FS_Subset DEF Rank
  <2>4. Rank(S, k) \in Nat /\ Rank(S, l) \in Nat
    BY <1>2
  <2>. QED BY <2>3, <2>4
<1>5. ASSUME NEW n \in 1 .. Cardinality(S) PROVE \E k \in S : Rank(S, k) = n
  <2>. DEFINE rank == [k \in S |-> Rank(S, k)]
  <2>1. rank \in Injection(S, 1 .. Cardinality(S))
    <3>1. rank \in [S -> 1 .. Cardinality(S)]
      BY <1>3
    <3>2. ASSUME NEW k \in S, NEW l \in S, rank[k] = rank[l] PROVE k = l
      <4>1. Rank(S, k) = Rank(S, l) /\ Rank(S, k) \in Nat
        BY <3>2, <1>2
      <4>. QED BY <4>1, <1>4
    <3>. QED BY <3>1, <3>2 DEF Injection, IsInjective
  <2>2. IsFiniteSet(1 .. Cardinality(S)) /\ Cardinality(1 .. Cardinality(S)) = Cardinality(S)
    BY <1>1, FS_Interval
  <2>3. rank \in Surjection(S, 1 .. Cardinality(S))
    BY <2>1, <2>2, FS_Injection
  <2>4. PICK k \in S : rank[k] = n
    BY <2>3 DEF Surjection
  <2>. QED BY <2>4
<1>. QED BY <1>1, <1>3, <1>4, <1>5

(* A finite set that is not empty has a least and a greatest element.      *)
LEMMA Extremes ==
    ASSUME NEW S \in SUBSET Nat, IsFiniteSet(S), S # {}
    PROVE  /\ Largest(S) \in S /\ \A y \in S : y <= Largest(S)
           /\ Smallest(S) \in S /\ \A y \in S : Smallest(S) <= y
<1>1. Cardinality(S) \in Nat /\ Cardinality(S) # 0
  BY Ranks, FS_EmptySet
<1>2. PICK x \in S : Rank(S, x) = Cardinality(S)
  BY <1>1, Ranks
<1>3. \A y \in S : x >= y
  <2>1. ASSUME NEW y \in S, x < y PROVE FALSE
    BY <1>1, <1>2, <2>1, Ranks
  <2>. QED BY <2>1
<1>4. PICK z \in S : Rank(S, z) = 1
  BY <1>1, Ranks
<1>5. \A y \in S : z =< y
  <2>1. ASSUME NEW y \in S, y < z PROVE FALSE
    BY <1>1, <1>4, <2>1, Ranks
  <2>. QED BY <2>1
<1>6. Largest(S) \in S /\ \A y \in S : Largest(S) >= y
  BY <1>2, <1>3 DEF Largest
<1>7. Smallest(S) \in S /\ \A y \in S : Smallest(S) =< y
  BY <1>4, <1>5 DEF Smallest
<1>. QED BY <1>6, <1>7

(* Ascending lists each element of a finite set once, in order.            *)
LEMMA Ascends ==
    ASSUME NEW S \in SUBSET Nat, IsFiniteSet(S)
    PROVE  /\ Ascending(S) \in [1 .. Cardinality(S) -> S] /\ Cardinality(S) \in Nat
           /\ \A n \in 1 .. Cardinality(S) : Rank(S, Ascending(S)[n]) = n
           /\ \A k \in S : Rank(S, k) \in 1 .. Cardinality(S) /\ Ascending(S)[Rank(S, k)] = k
           /\ \A m, n \in 1 .. Cardinality(S) : m < n => Ascending(S)[m] < Ascending(S)[n]
<1>. DEFINE a == Ascending(S)
<1>1. ASSUME NEW n \in 1 .. Cardinality(S) PROVE a[n] \in S /\ Rank(S, a[n]) = n
  <2>1. a[n] = CHOOSE k \in S : Rank(S, k) = n
    BY DEF Ascending
  <2>. QED BY <2>1, Ranks
<1>2. a \in [1 .. Cardinality(S) -> S]
  BY <1>1 DEF Ascending
<1>3. ASSUME NEW k \in S, NEW l \in S, Rank(S, k) = Rank(S, l) PROVE k = l
  <2>1. Rank(S, k) \in Nat /\ ~(Rank(S, k) < Rank(S, l)) /\ ~(Rank(S, l) < Rank(S, k))
    BY <1>3, Ranks
  <2>. QED BY <2>1, Ranks
<1>4. ASSUME NEW k \in S PROVE Rank(S, k) \in 1 .. Cardinality(S) /\ a[Rank(S, k)] = k
  <2>1. Rank(S, k) \in 1 .. Cardinality(S)
    BY Ranks
  <2>2. a[Rank(S, k)] \in S /\ Rank(S, a[Rank(S, k)]) = Rank(S, k)
    BY <1>1, <2>1
  <2>. QED BY <1>3, <2>1, <2>2
<1>5. ASSUME NEW m \in 1 .. Cardinality(S), NEW n \in 1 .. Cardinality(S), m < n PROVE a[m] < a[n]
  <2>1. a[m] \in S /\ a[n] \in S /\ Rank(S, a[m]) = m /\ Rank(S, a[n]) = n
    BY <1>1
  <2>2. ~(a[n] < a[m])
    <3>1. a[n] < a[m] => n < m
      BY <2>1, Ranks
    <3>. QED BY <1>5, <3>1
  <2>3. a[n] # a[m]
    <3>1. a[n] = a[m] => Rank(S, a[n]) = Rank(S, a[m])
      OBVIOUS
    <3>. QED BY <1>5, <2>1, <3>1
  <2>4. a[n] \in Nat /\ a[m] \in Nat
    BY <2>1
  <2>. QED BY <2>2, <2>3, <2>4
<1>. QED BY <1>1, <1>2, <1>4, <1>5, Ranks

(* A run of neighbours has neighbouring ranks.                             *)
LEMMA Neighbours ==
    ASSUME NEW S \in SUBSET Nat, IsFiniteSet(S), NEW k \in S, NEW d \in Nat, k + 1 .. k + d \subseteq S
    PROVE  Rank(S, k + d) = Rank(S, k) + d
<1>. k \in Nat /\ \A j \in S : j \in Nat
  OBVIOUS
<1>1. {j \in S : j <= k + d} = {j \in S : j <= k} \cup (k + 1 .. k + d)
  <2>1. \A j \in Nat : j <= k + d <=> j <= k \/ j \in k + 1 .. k + d
    OBVIOUS
  <2>2. \A j \in k + 1 .. k + d : j \in S /\ j \in Nat
    OBVIOUS
  <2>. QED BY <2>1, <2>2
<1>2. {j \in S : j <= k} \cap (k + 1 .. k + d) = {}
  OBVIOUS
<1>3. IsFiniteSet({j \in S : j <= k}) /\ Cardinality({j \in S : j <= k}) \in Nat
  BY FS_Subset, FS_CardinalityType
<1>4. IsFiniteSet(k + 1 .. k + d) /\ Cardinality(k + 1 .. k + d) = d
  BY FS_Interval
<1>6. Cardinality({j \in S : j <= k} \cap (k + 1 .. k + d)) = 0
  BY <1>2, FS_EmptySet
<1>5. Cardinality({j \in S : j <= k + d})
        = Cardinality({j \in S : j <= k}) + Cardinality(k + 1 .. k + d) - Cardinality({j \in S : j <= k} \cap (k + 1 .. k + d))
  BY <1>1, <1>3, <1>4, FS_Union
<1>. QED BY <1>3, <1>4, <1>5, <1>6 DEF Rank

(* The elements of an interval.                                            *)
LEMMA OfInterval ==
    ASSUME NEW a \in Nat, NEW b \in Nat, a <= b + 1
    PROVE  Ascending(a .. b) = [n \in 1 .. b + 1 - a |-> a + n - 1]
<1>. DEFINE S == a .. b
<1>1. S \in SUBSET Nat /\ IsFiniteSet(S) /\ Cardinality(S) = b + 1 - a
  BY FS_Interval
<1>2. ASSUME NEW n \in 1 .. b + 1 - a PROVE Ascending(S)[n] = a + n - 1
  <2>1. {j \in S : j <= a + n - 1} = a .. a + n - 1
    OBVIOUS
  <2>2. Rank(S, a + n - 1) = n
    <3>1. Rank(S, a + n - 1) = Cardinality(a .. a + n - 1)
      BY <2>1 DEF Rank
    <3>2. a + n - 1 \in Int /\ a <= a + n - 1 /\ n \in Nat
      OBVIOUS
    <3>. QED BY <3>1, <3>2, FS_Interval
  <2>3. a + n - 1 \in S
    OBVIOUS
  <2>. QED BY <1>1, <2>2, <2>3, Ascends
<1>3. Ascending(S) = [n \in 1 .. b + 1 - a |-> Ascending(S)[n]]
  BY <1>1, Ascends
<1>. QED BY <1>2, <1>3

-----------------------------------------------------------------------------
(* Settings: each normaliser accepts what it made, and changes nothing of  *)
(* what it accepts.                                                        *)

(* The operators that Settings brings with it.                             *)
LEMMA SetOps ==
    ASSUME NEW S
    PROVE  Config!Max(S) = Largest(S) /\ Config!Min(S) = Smallest(S) /\ Config!Ascending(S) = Ascending(S)
<1>1. Config!Max(S) = Largest(S)
  BY DEF Config!Max, Largest
<1>2. Config!Min(S) = Smallest(S)
  BY DEF Config!Min, Smallest
<1>3. Config!Ascending(S) = Ascending(S)
  BY Zenon DEF Config!Ascending, Ascending, Config!Rank, Rank, Config!Cardinality, Cardinality
<1>. QED BY <1>1, <1>2, <1>3

(* Of two numbers, and what clampRound makes of one.                       *)
LEMMA OfTwo ==
    ASSUME NEW a \in Int, NEW b \in Int
    PROVE  /\ Config!Max({a, b}) = IF a >= b THEN a ELSE b
           /\ Config!Min({a, b}) = IF a <= b THEN a ELSE b
<1>1. Config!Max({a, b}) = IF a >= b THEN a ELSE b
  <2>1. \A x \in {a, b} : (\A y \in {a, b} : x >= y) <=> x = IF a >= b THEN a ELSE b
    OBVIOUS
  <2>2. (IF a >= b THEN a ELSE b) \in {a, b}
    OBVIOUS
  <2>3. Config!Max({a, b}) = CHOOSE x \in {a, b} : \A y \in {a, b} : x >= y
    BY DEF Config!Max
  <2>. QED BY <2>1, <2>2, <2>3
<1>2. Config!Min({a, b}) = IF a <= b THEN a ELSE b
  <2>1. \A x \in {a, b} : (\A y \in {a, b} : x =< y) <=> x = IF a <= b THEN a ELSE b
    OBVIOUS
  <2>2. (IF a <= b THEN a ELSE b) \in {a, b}
    OBVIOUS
  <2>3. Config!Min({a, b}) = CHOOSE x \in {a, b} : \A y \in {a, b} : x =< y
    BY DEF Config!Min
  <2>. QED BY <2>1, <2>2, <2>3
<1>. QED BY <1>1, <1>2

(* A clamped number is in its range, and one in the range stays.           *)
LEMMA Clamps ==
    ASSUME NEW lo \in Int, NEW hi \in Int, lo <= hi, NEW n \in Int
    PROVE  /\ Config!clampRound(lo, hi, n) \in lo .. hi
           /\ n \in lo .. hi => Config!clampRound(lo, hi, n) = n
<1>. DEFINE m == Config!Max({lo, n})
<1>1. m \in Int /\ m >= lo /\ (n >= lo => m = n)
  BY OfTwo
<1>. HIDE DEF m
<1>2. Config!clampRound(lo, hi, n) = IF hi <= m THEN hi ELSE m
  BY <1>1, OfTwo DEF Config!clampRound, m
<1>. QED BY <1>1, <1>2

(* A font size, and a context window, that are accepted.                   *)
Sized(n) == n \in Config!FontSizeMin .. Config!FontSizeMax

Windowed(n) == n = 0 \/ n \in Config!AgentContextWindowMin .. Config!AgentContextWindowMax

(* The ranges of the numbers are not empty.                                *)
LEMMA Bounds ==
    /\ Config!FontSizeMin \in Int /\ Config!FontSizeMax \in Int /\ Config!FontSizeMin <= Config!FontSizeMax
    /\ Config!DefaultFontSize \in Config!FontSizeMin .. Config!FontSizeMax
    /\ Config!AgentContextWindowMin \in Int /\ Config!AgentContextWindowMax \in Int
    /\ Config!AgentContextWindowMin <= Config!AgentContextWindowMax
<1>1. Config!AgentContextWindowMin \in Int /\ Config!AgentContextWindowMax \in Int
  BY DEF Config!AgentContextWindowMin, Config!AgentContextWindowMax
<1>2. Config!AgentContextWindowMin <= Config!AgentContextWindowMax
  BY DEF Config!AgentContextWindowMin, Config!AgentContextWindowMax
<1>. QED BY <1>1, <1>2 DEF Config!FontSizeMin, Config!FontSizeMax, Config!DefaultFontSize

(* Both numbers are normalised to what is accepted, which stays.           *)
LEMMA Scalars ==
    ASSUME NEW n, n \in Int \/ n = NaN
    PROVE  /\ Sized(Config!normalizeFontSize(n)) /\ (Sized(n) => Config!normalizeFontSize(n) = n)
           /\ Windowed(Config!normalizeContextWindow(n)) /\ (Windowed(n) => Config!normalizeContextWindow(n) = n)
<1>1. NaN \notin Int
  BY SettingsAssumption
<1>2. Sized(n) \/ Windowed(n) => n \in Int
  BY Bounds DEF Sized, Windowed
<1>3. Sized(Config!normalizeFontSize(n)) /\ (Sized(n) => Config!normalizeFontSize(n) = n)
  <2>1. CASE n = NaN
    <3>1. Config!normalizeFontSize(n) = Config!DefaultFontSize
      BY <2>1 DEF Config!normalizeFontSize
    <3>2. Sized(Config!DefaultFontSize)
      BY Bounds DEF Sized
    <3>. QED BY <1>1, <1>2, <2>1, <3>1, <3>2
  <2>2. CASE n # NaN
    <3>1. Config!normalizeFontSize(n) = Config!clampRound(Config!FontSizeMin, Config!FontSizeMax, n)
      BY <2>2 DEF Config!normalizeFontSize
    <3>. QED BY <2>2, <3>1, Bounds, Clamps DEF Sized
  <2>. QED BY <2>1, <2>2
<1>4. Windowed(Config!normalizeContextWindow(n)) /\ (Windowed(n) => Config!normalizeContextWindow(n) = n)
  <2>1. CASE n = NaN \/ n = 0
    <3>1. Config!normalizeContextWindow(n) = 0
      BY <2>1 DEF Config!normalizeContextWindow
    <3>2. Windowed(0)
      BY DEF Windowed
    <3>. QED BY <1>1, <1>2, <2>1, <3>1, <3>2
  <2>2. CASE ~(n = NaN \/ n = 0)
    <3>1. Config!normalizeContextWindow(n) = Config!clampRound(Config!AgentContextWindowMin, Config!AgentContextWindowMax, n)
      BY <2>2 DEF Config!normalizeContextWindow
    <3>. QED BY <2>2, <3>1, Bounds, Clamps DEF Windowed
  <2>. QED BY <2>1, <2>2
<1>. QED BY <1>3, <1>4

(* A JSON value becomes a number or none, and a number is read back.       *)
LEMMA Coerced ==
    /\ \A raw \in Config!Scalar : Config!coerceNumber(raw) \in Int \/ Config!coerceNumber(raw) = NaN
    /\ \A n : Config!coerceNumber(Config!Number(n)) = n
<1>1. \A raw \in Config!Scalar : Config!coerceNumber(raw) \in Int \/ Config!coerceNumber(raw) = NaN
  BY DEF Config!coerceNumber, Config!Scalar
<1>2. \A n : Config!coerceNumber(Config!Number(n)) = n
  BY DEF Config!coerceNumber, Config!Number
<1>. QED BY <1>1, <1>2

-----------------------------------------------------------------------------
(* URLs.                                                                   *)
LEMMA Trims ==
    ASSUME NEW s \in Seq(Config!Word), NEW c, NEW t, t = Config!TrimRight(s, c)
    PROVE  /\ t \in Seq(Config!Word) /\ Len(t) <= Len(s) /\ \A i \in 1 .. Len(t) : t[i] = s[i]
           /\ Len(t) > 0 => t[Len(t)] # c
           /\ Len(s) > 0 /\ s[Len(s)] # c => t = s
<1>. DEFINE S == {0} \cup {i \in DOMAIN s : s[i] # c}
            k == Largest(S)
<1>0. Len(s) \in Nat
  BY LenProperties
<1>1. DOMAIN s = 1 .. Len(s) /\ \A i \in 1 .. Len(s) : s[i] \in Config!Word
  BY LenProperties, ElementOfSeq
<1>2. S \in SUBSET (0 .. Len(s)) /\ 0 \in S /\ (Len(s) > 0 /\ s[Len(s)] # c => Len(s) \in S)
  BY <1>0, <1>1
<1>3. \A i \in S : i = 0 \/ s[i] # c
  OBVIOUS
<1>4. k \in S /\ \A i \in S : i <= k
  <2>. HIDE DEF S
  <2>1. IsFiniteSet(0 .. Len(s))
    BY <1>0, FS_Interval
  <2>2. IsFiniteSet(S)
    BY <1>2, <2>1, FS_Subset
  <2>3. S \in SUBSET Nat /\ S # {}
    BY <1>0, <1>2
  <2>. QED BY <2>2, <2>3, Extremes
<1>5. t = SubSeq(s, 1, k)
  BY SetOps DEF Config!TrimRight
<1>6. k \in 0 .. Len(s) /\ (k > 0 => s[k] # c) /\ (Len(s) > 0 /\ s[Len(s)] # c => k = Len(s))
  <2>. HIDE DEF S, k
  <2>1. k \in 0 .. Len(s)
    BY <1>2, <1>4
  <2>2. k > 0 => s[k] # c
    BY <1>3, <1>4, <2>1
  <2>3. ASSUME Len(s) > 0, s[Len(s)] # c PROVE k = Len(s)
    <3>1. Len(s) <= k
      BY <1>2, <1>4, <2>3
    <3>. QED BY <1>0, <2>1, <3>1
  <2>. QED BY <2>1, <2>2, <2>3
<1>. HIDE DEF k, S
<1>7. t \in Seq(Config!Word) /\ Len(t) = k /\ \A i \in 1 .. k : t[i] = s[i]
  <2>0. k \in Nat /\ \A i \in 1 .. k : i \in 1 .. Len(s)
    BY <1>0, <1>6
  <2>1. \A i \in 1 .. k : s[i] \in Config!Word
    BY <1>1, <2>0
  <2>2. /\ SubSeq(s, 1, k) \in Seq(Config!Word)
        /\ Len(SubSeq(s, 1, k)) = IF 1 <= k THEN k - 1 + 1 ELSE 0
        /\ \A i \in 1 .. k - 1 + 1 : SubSeq(s, 1, k)[i] = s[1 + i - 1]
    <3>1. 1 \in Int /\ k \in Int
      BY <2>0
    <3>. QED BY <2>1, <3>1, SubSeqProperties
  <2>3. \A i \in 1 .. k : 1 + i - 1 = i /\ i \in 1 .. k - 1 + 1
    BY <2>0
  <2>4. (IF 1 <= k THEN k - 1 + 1 ELSE 0) = k
    BY <2>0
  <2>5. \A i \in 1 .. k : SubSeq(s, 1, k)[i] = s[i]
    BY <2>2, <2>3
  <2>. QED BY <1>5, <2>2, <2>4, <2>5
<1>8. Len(s) > 0 /\ s[Len(s)] # c => t = s
  BY <1>5, <1>6, SubSeqFull
<1>9. Len(t) <= Len(s) /\ (Len(t) > 0 => t[Len(t)] # c)
  <2>1. k > 0 => k \in 1 .. k
    BY <1>6
  <2>. QED BY <1>0, <1>6, <1>7, <2>1
<1>. QED BY <1>7, <1>8, <1>9

(* A URL that is shown is shown as it is again, unless it ends in a space. *)
Steady(url) == Config!normalizeURL(url) = url \/ Config!Last(url) = "space"

(* A URL with a text in front and no slash at the end is shown as it is.   *)
LEMMA Ordinary ==
    ASSUME NEW u \in Seq(Config!Word), Len(u) > 0, u[1] # Bad, u[Len(u)] # "slash"
    PROVE  Steady(u)
<1>1. Len(u) \in Nat
  BY LenProperties
<1>2. Config!Last(u) = u[Len(u)]
  BY DEF Config!Last
<1>3. CASE u[Len(u)] = "space"
  BY <1>2, <1>3 DEF Steady
<1>4. CASE u[Len(u)] # "space"
  <2>1. Config!TrimRight(u, "space") = u
    BY <1>4, Trims
  <2>2. Config!TrimRight(u, "slash") = u
    BY Trims
  <2>3. u # <<>>
    OBVIOUS
  <2>. QED BY <2>1, <2>2, <2>3 DEF Steady, Config!normalizeURL
<1>. QED BY <1>3, <1>4

(* normalizeURL makes such URLs.                                           *)
LEMMA URLs ==
    /\ \A s \in Seq(Config!Word) : Config!normalizeURL(s) \in Seq(Config!Word) /\ Steady(Config!normalizeURL(s))
    /\ Config!DefaultURL \in Seq(Config!Word) /\ Steady(Config!DefaultURL)
<1>1. Config!DefaultURL \in Seq(Config!Word) /\ Steady(Config!DefaultURL)
  <2>. DEFINE d == Config!DefaultURL
  <2>1. "default" \in Config!Word /\ "default" # Bad
    BY SettingsAssumption DEF Config!Word
  <2>2. d \in Seq(Config!Word) /\ Len(d) = 1 /\ d[1] = "default"
    BY <2>1 DEF Config!DefaultURL
  <2>. HIDE DEF d
  <2>3. d[1] # Bad /\ d[Len(d)] # "slash" /\ Len(d) > 0
    BY <2>1, <2>2
  <2>. QED BY <2>2, <2>3, Ordinary DEF d
<1>2. ASSUME NEW s \in Seq(Config!Word)
      PROVE  Config!normalizeURL(s) \in Seq(Config!Word) /\ Steady(Config!normalizeURL(s))
  <2>. DEFINE a == Config!TrimRight(s, "space")
              t == Config!TrimRight(a, "slash")
  <2>1. a \in Seq(Config!Word)
    BY Trims
  <2>. HIDE DEF a
  <2>2. t \in Seq(Config!Word) /\ (Len(t) > 0 => t[Len(t)] # "slash")
    BY <2>1, Trims
  <2>. HIDE DEF t
  <2>3. Config!normalizeURL(s) = IF t = <<>> \/ t[1] = Bad THEN Config!DefaultURL ELSE t
    BY DEF Config!normalizeURL, a, t
  <2>4. CASE t = <<>> \/ t[1] = Bad
    BY <1>1, <2>3, <2>4
  <2>5. CASE ~(t = <<>> \/ t[1] = Bad)
    <3>1. Len(t) > 0
      BY <2>2, <2>5, EmptySeq, LenProperties
    <3>. QED BY <2>2, <2>3, <2>5, <3>1, Ordinary
  <2>. QED BY <2>4, <2>5
<1>. QED BY <1>1, <1>2

(* What Capped leaves is the front of a list.                              *)
LEMMA CapOf ==
    ASSUME NEW S, NEW s \in Seq(S), NEW n \in Nat, NEW t, t = Config!Capped(s, n)
    PROVE  /\ t \in Seq(S) /\ Len(t) <= n /\ Len(t) <= Len(s) /\ \A i \in 1 .. Len(t) : t[i] = s[i]
           /\ Len(s) <= n => t = s
           /\ Len(s) > 0 /\ n > 0 => Len(t) > 0
<1>0. Len(s) \in Nat
  BY LenProperties
<1>1. PICK m \in Nat : m = Config!Min({n, Len(s)}) /\ m <= n /\ m <= Len(s) /\ (m = n \/ m = Len(s))
  <2>1. n \in Int /\ Len(s) \in Int
    BY <1>0
  <2>2. Config!Min({n, Len(s)}) = IF n <= Len(s) THEN n ELSE Len(s)
    BY Zenon, <2>1, OfTwo
  <2>. QED BY <1>0, <2>2
<1>2. t = SubSeq(s, 1, m)
  BY <1>1 DEF Config!Capped
<1>3. \A i \in 1 .. m : s[i] \in S
  <2>1. \A i \in 1 .. m : i \in 1 .. Len(s)
    BY <1>0, <1>1
  <2>. QED BY <2>1, ElementOfSeq
<1>4. /\ SubSeq(s, 1, m) \in Seq(S)
      /\ Len(SubSeq(s, 1, m)) = IF 1 <= m THEN m - 1 + 1 ELSE 0
      /\ \A i \in 1 .. m - 1 + 1 : SubSeq(s, 1, m)[i] = s[1 + i - 1]
  BY <1>3, SubSeqProperties
<1>5. (IF 1 <= m THEN m - 1 + 1 ELSE 0) = m /\ \A i \in 1 .. m : 1 + i - 1 = i /\ i \in 1 .. m - 1 + 1
  OBVIOUS
<1>6. \A i \in 1 .. m : SubSeq(s, 1, m)[i] = s[i]
  BY <1>4, <1>5
<1>7. Len(t) = m
  BY <1>2, <1>4, <1>5
<1>8. Len(s) <= n => t = s
  <2>1. Len(s) <= n => m = Len(s)
    BY <1>0, <1>1
  <2>. QED BY <1>2, <2>1, SubSeqFull
<1>9. m <= Len(s) /\ (Len(s) > 0 /\ n > 0 => m > 0)
  BY <1>0, <1>1
<1>. QED BY <1>1, <1>2, <1>4, <1>6, <1>7, <1>8, <1>9

(* Each name once, and none that is not accepted.                          *)
Distinct(names) == \A i, j \in DOMAIN names : names[i] # Bad /\ (names[i] = names[j] => i = j)

(* t is made of rows of s whose names are accepted, each once.             *)
RowsOf(t, s, names) ==
    \E row \in [1 .. Len(t) -> 1 .. Len(s)] :
      /\ \A i \in 1 .. Len(t) : t[i] = s[row[i]] /\ names[row[i]] # Bad
      /\ \A i, j \in 1 .. Len(t) : names[row[i]] = names[row[j]] => i = j

(* Firsts keeps a row for each accepted name, and a list without a         *)
(* repetition as it is.                                                    *)
LEMMA FirstsOf ==
    ASSUME NEW S, NEW s \in Seq(S), NEW names, DOMAIN names = 1 .. Len(s), NEW t, t = Config!Firsts(s, names)
    PROVE  t \in Seq(S) /\ RowsOf(t, s, names) /\ (Distinct(names) => t = s)
<1>. DEFINE n == Len(s)
            K == {i \in DOMAIN s : names[i] # Bad /\ \A j \in 1 .. i - 1 : names[j] # names[i]}
            row == Ascending(K)
            C == Cardinality(K)
<1>0. n \in Nat
  BY LenProperties
<1>1. DOMAIN s = 1 .. n
  BY LenProperties
<1>2. K \in SUBSET (1 .. n)
  BY <1>1
<1>3. \A i \in K : i \in 1 .. n /\ names[i] # Bad /\ \A j \in 1 .. i - 1 : names[j] # names[i]
  BY <1>1
<1>4. Distinct(names) => K = 1 .. n
  <2>1. Distinct(names) => \A i \in 1 .. n : names[i] # Bad /\ \A j \in 1 .. i - 1 : names[j] # names[i]
    <3>1. \A i \in 1 .. n : \A j \in 1 .. i - 1 : j \in 1 .. n /\ j # i
      BY <1>0
    <3>. QED BY <3>1 DEF Distinct
  <2>. QED BY <1>1, <2>1
<1>5. t = [i \in DOMAIN row |-> s[row[i]]]
  BY SetOps DEF Config!Firsts
<1>. HIDE DEF K
<1>6. K \in SUBSET Nat /\ IsFiniteSet(K)
  <2>1. IsFiniteSet(1 .. n)
    BY <1>0, FS_Interval
  <2>2. IsFiniteSet(K)
    BY <1>2, <2>1, FS_Subset
  <2>. QED BY <1>0, <1>2, <2>2
<1>7. row \in [1 .. C -> K] /\ C \in Nat /\ \A i, j \in 1 .. C : i < j => row[i] < row[j]
  BY <1>6, Ascends
<1>8. Distinct(names) => row = [i \in 1 .. n |-> i]
  <2>1. Ascending(1 .. n) = [i \in 1 .. n + 1 - 1 |-> 1 + i - 1]
    <3>1. 1 \in Nat /\ n \in Nat /\ 1 <= n + 1
      BY <1>0
    <3>. QED BY <3>1, OfInterval
  <2>2. 1 .. n + 1 - 1 = 1 .. n /\ \A i \in 1 .. n : 1 + i - 1 = i
    BY <1>0
  <2>3. [i \in 1 .. n + 1 - 1 |-> 1 + i - 1] = [i \in 1 .. n |-> i]
    BY <2>2
  <2>. QED BY <1>4, <2>1, <2>3
<1>. HIDE DEF row, C
<1>9. \A i \in 1 .. n : s[i] \in S
  BY ElementOfSeq
<1>10. t \in Seq(S) /\ Len(t) = C /\ \A i \in 1 .. C : t[i] = s[row[i]]
  <2>1. DOMAIN row = 1 .. C /\ \A i \in 1 .. C : row[i] \in 1 .. n
    BY <1>2, <1>7
  <2>2. t \in [1 .. C -> S] /\ \A i \in 1 .. C : t[i] = s[row[i]]
    BY <1>5, <1>9, <2>1
  <2>. QED BY <1>7, <2>2, SeqDef
<1>11. row \in [1 .. Len(t) -> 1 .. n]
  BY <1>2, <1>7, <1>10
<1>12. \A i \in 1 .. C : t[i] = s[row[i]] /\ names[row[i]] # Bad
  BY <1>3, <1>7, <1>10
<1>13. ASSUME NEW i \in 1 .. C, NEW j \in 1 .. C, names[row[i]] = names[row[j]] PROVE i = j
  <2>1. ASSUME NEW a \in 1 .. C, NEW b \in 1 .. C, a < b PROVE names[row[a]] # names[row[b]]
    <3>1. row[a] \in K /\ row[b] \in K /\ row[a] < row[b]
      BY <1>7, <2>1
    <3>2. row[a] \in 1 .. n /\ row[b] \in 1 .. n
      BY <1>2, <3>1
    <3>3. row[a] \in 1 .. row[b] - 1
      BY <1>0, <3>1, <3>2
    <3>. QED BY <1>3, <3>1, <3>3
  <2>2. ~(i < j) /\ ~(j < i)
    BY <1>13, <2>1
  <2>3. i \in Nat /\ j \in Nat
    BY <1>7
  <2>. QED BY <2>2, <2>3
<1>14. Distinct(names) => t = s
  <2>1. SUFFICES ASSUME Distinct(names) PROVE t = s
    OBVIOUS
  <2>2. t = [i \in 1 .. n |-> s[i]]
    BY <1>5, <1>8, <2>1
  <2>3. s = [i \in 1 .. n |-> s[i]]
    BY <1>1
  <2>. QED BY <2>2, <2>3
<1>15. RowsOf(t, s, names)
  BY <1>10, <1>11, <1>12, <1>13 DEF RowsOf
<1>. QED BY <1>10, <1>14, <1>15

-----------------------------------------------------------------------------
(* Lists of models and of providers that are shown as they are.            *)
Models(list) == list \in Seq(Config!Word) /\ Distinct(list) /\ Len(list) <= AgentModelsMax

Listing(list) ==
    /\ list \in Seq(Config!Provider) /\ Len(list) <= AgentProviderMax
    /\ \A i, j \in 1 .. Len(list) : list[i].id # Bad /\ (list[i].id = list[j].id => i = j)
    /\ \A i \in 1 .. Len(list) : Models(list[i].models)

(* normalizeModelList makes such lists of models, and keeps them.          *)
LEMMA ModelLists ==
    ASSUME NEW list \in Seq(Config!Word)
    PROVE  /\ Models(Config!normalizeModelList(list))
           /\ Models(list) => Config!normalizeModelList(list) = list
<1>1. Len(list) \in Nat /\ AgentModelsMax \in Nat
  BY LenProperties, SettingsAssumption
<1>2. DOMAIN list = 1 .. Len(list)
  BY LenProperties
<1>3. PICK names, f : names = list /\ f = Config!Firsts(list, names)
  OBVIOUS
<1>4. PICK c : c = Config!Capped(f, AgentModelsMax)
  OBVIOUS
<1>5. Config!normalizeModelList(list) = c
  BY <1>3, <1>4 DEF Config!normalizeModelList
<1>6. f \in Seq(Config!Word) /\ (Distinct(list) => f = list) /\ RowsOf(f, list, names)
  BY <1>2, <1>3, FirstsOf
<1>7. PICK row \in [1 .. Len(f) -> 1 .. Len(list)] :
        /\ \A i \in 1 .. Len(f) : f[i] = list[row[i]] /\ names[row[i]] # Bad
        /\ \A i, j \in 1 .. Len(f) : names[row[i]] = names[row[j]] => i = j
  BY <1>6 DEF RowsOf
<1>8. c \in Seq(Config!Word) /\ Len(c) <= AgentModelsMax /\ Len(c) <= Len(f) /\ \A i \in 1 .. Len(c) : c[i] = f[i]
  BY <1>1, <1>4, <1>6, CapOf
<1>9. Distinct(c)
  <2>1. DOMAIN c = 1 .. Len(c) /\ Len(c) \in Nat /\ Len(f) \in Nat
    BY <1>6, <1>8, LenProperties
  <2>2. \A i \in 1 .. Len(c) : i \in 1 .. Len(f)
    BY <1>8, <2>1
  <2>3. \A i \in 1 .. Len(c) : c[i] = names[row[i]] /\ names[row[i]] # Bad
    BY <1>3, <1>7, <1>8, <2>2
  <2>4. \A i, j \in 1 .. Len(c) : names[row[i]] = names[row[j]] => i = j
    BY <1>7, <2>2
  <2>. QED BY <2>1, <2>3, <2>4 DEF Distinct
<1>10. Models(list) => c = list
  BY <1>1, <1>4, <1>6, CapOf DEF Models
<1>. QED BY <1>5, <1>8, <1>9, <1>10 DEF Models

(* normalizeProviderList makes such lists of providers, and keeps them.    *)
LEMMA ProviderLists ==
    ASSUME NEW list \in Seq(Config!Provider)
    PROVE  /\ Listing(Config!normalizeProviderList(list))
           /\ Listing(list) => Config!normalizeProviderList(list) = list
<1>1. Len(list) \in Nat /\ AgentProviderMax \in Nat
  BY LenProperties, SettingsAssumption
<1>2. DOMAIN list = 1 .. Len(list)
  BY LenProperties
<1>3. PICK names : names = [i \in DOMAIN list |-> list[i].id]
  OBVIOUS
<1>4. PICK f : f = Config!Firsts(list, names)
  OBVIOUS
<1>5. PICK g : g = [i \in DOMAIN f |-> Config!normalizeOneProvider(f[i])]
  OBVIOUS
<1>6. PICK c : c = Config!Capped(g, AgentProviderMax)
  OBVIOUS
<1>7. Config!normalizeProviderList(list) = c
  BY <1>3, <1>4, <1>5, <1>6 DEF Config!normalizeProviderList
<1>8. DOMAIN names = 1 .. Len(list) /\ \A i \in 1 .. Len(list) : names[i] = list[i].id
  BY <1>2, <1>3
<1>9. f \in Seq(Config!Provider) /\ (Distinct(names) => f = list) /\ RowsOf(f, list, names)
  BY <1>4, <1>8, FirstsOf
<1>10. PICK row \in [1 .. Len(f) -> 1 .. Len(list)] :
        /\ \A i \in 1 .. Len(f) : f[i] = list[row[i]] /\ names[row[i]] # Bad
        /\ \A i, j \in 1 .. Len(f) : names[row[i]] = names[row[j]] => i = j
  BY <1>9 DEF RowsOf
<1>11. Len(f) \in Nat /\ DOMAIN f = 1 .. Len(f) /\ \A i \in 1 .. Len(f) : f[i] \in Config!Provider
  BY <1>9, LenProperties, ElementOfSeq
<1>12. ASSUME NEW p \in Config!Provider
       PROVE  /\ Config!normalizeOneProvider(p) \in Config!Provider /\ Config!normalizeOneProvider(p).id = p.id
              /\ Models(Config!normalizeOneProvider(p).models)
              /\ Models(p.models) => Config!normalizeOneProvider(p) = p
  <2>1. p.models \in Seq(Config!Word)
    BY DEF Config!Provider
  <2>2. PICK m : m = Config!normalizeModelList(p.models)
    OBVIOUS
  <2>3. Models(m) /\ m \in Seq(Config!Word) /\ (Models(p.models) => m = p.models)
    BY <2>1, <2>2, ModelLists DEF Models
  <2>4. Config!normalizeOneProvider(p) = [p EXCEPT !.models = m]
    BY <2>2 DEF Config!normalizeOneProvider
  <2>. QED BY <2>3, <2>4 DEF Config!Provider
<1>13. /\ g \in Seq(Config!Provider) /\ Len(g) = Len(f)
       /\ \A i \in 1 .. Len(f) : g[i].id = f[i].id /\ Models(g[i].models)
                                 /\ (Models(f[i].models) => g[i] = f[i])
  <2>1. \A i \in 1 .. Len(f) : g[i] = Config!normalizeOneProvider(f[i])
    BY <1>5, <1>11
  <2>2. g \in [1 .. Len(f) -> Config!Provider]
    BY <1>5, <1>11, <1>12
  <2>3. g \in Seq(Config!Provider) /\ Len(g) = Len(f)
    BY <1>11, <2>2, SeqDef
  <2>. QED BY <1>11, <1>12, <2>1, <2>3
<1>14. /\ c \in Seq(Config!Provider) /\ Len(c) <= AgentProviderMax /\ Len(c) <= Len(g)
       /\ \A i \in 1 .. Len(c) : c[i] = g[i]
       /\ Len(g) <= AgentProviderMax => c = g
  BY <1>1, <1>6, <1>13, CapOf
<1>15. Len(c) \in Nat
  BY <1>14, LenProperties
<1>16. \A i \in 1 .. Len(c) : i \in 1 .. Len(f) /\ c[i].id = names[row[i]] /\ Models(c[i].models)
  <2>1. \A i \in 1 .. Len(c) : i \in 1 .. Len(f)
    BY <1>11, <1>13, <1>14, <1>15
  <2>2. \A i \in 1 .. Len(f) : names[row[i]] = f[i].id
    BY <1>8, <1>10
  <2>. QED BY <1>13, <1>14, <2>1, <2>2
<1>17. Listing(c)
  <2>1. \A i, j \in 1 .. Len(c) : c[i].id # Bad /\ (c[i].id = c[j].id => i = j)
    BY <1>10, <1>16
  <2>. QED BY <1>14, <1>16, <2>1 DEF Listing
<1>18. Listing(list) => c = list
  <2>1. SUFFICES ASSUME Listing(list) PROVE c = list
    OBVIOUS
  <2>2. Distinct(names)
    BY <1>8, <2>1 DEF Listing, Distinct
  <2>3. f = list
    BY <1>9, <2>2
  <2>4. \A i \in 1 .. Len(list) : g[i] = list[i]
    BY <1>13, <2>1, <2>3 DEF Listing
  <2>5. g = list
    BY <1>13, <2>3, <2>4, SeqEqual
  <2>. QED BY <1>14, <2>1, <2>5 DEF Listing
<1>. QED BY <1>7, <1>17, <1>18

(* A default that is one of the models of the list, or none.               *)
Served(d, list) ==
    \/ d = Config!NoDefault
    \/ \E i \in DOMAIN list : list[i].id = d.id /\ Config!Contains(list[i].models, d.model)

(* normalizeAgentDefault makes a default that is in the list or none, and  *)
(* keeps one that is in the list.                                          *)
LEMMA Defaulted ==
    ASSUME NEW list, Listing(list), NEW d \in Config!Choice
    PROVE  /\ Config!normalizeAgentDefault(d, list) \in Config!Choice
           /\ Served(Config!normalizeAgentDefault(d, list), list)
           /\ d # Config!NoDefault /\ Served(d, list) => Config!normalizeAgentDefault(d, list) = d
<1>. DEFINE named == {i \in DOMAIN list : list[i].id = d.id}
            row    == IF named = {} THEN 1 ELSE Smallest(named)
            keeps == named # {} /\ Config!Contains(list[row].models, d.model)
            r     == Config!normalizeAgentDefault(d, list)
<1>0. /\ list \in Seq(Config!Provider) /\ Len(list) \in Nat /\ DOMAIN list = 1 .. Len(list)
      /\ \A i, j \in 1 .. Len(list) : list[i].id = list[j].id => i = j
      /\ \A i \in 1 .. Len(list) : Models(list[i].models)
  BY LenProperties DEF Listing
<1>1. named \in SUBSET (1 .. Len(list)) /\ \A i \in named : list[i].id = d.id
  BY <1>0
<1>2. \A i, j \in named : i = j
  BY <1>0, <1>1
<1>3. named # {} => Smallest(named) \in named
  <2>1. SUFFICES ASSUME named # {} PROVE Smallest(named) \in named
    OBVIOUS
  <2>. HIDE DEF named
  <2>2. IsFiniteSet(1 .. Len(list))
    BY <1>0, FS_Interval
  <2>3. IsFiniteSet(named)
    BY <1>1, <2>2, FS_Subset
  <2>4. named \in SUBSET Nat
    BY <1>0, <1>1
  <2>. QED BY <2>1, <2>3, <2>4, Extremes
<1>4. r = CASE list = <<>> -> Config!NoDefault
            [] list # <<>> /\ keeps -> d
            [] list # <<>> /\ ~keeps /\ list[row].models # <<>> -> [id |-> list[row].id, model |-> list[row].models[1]]
            [] OTHER -> Config!NoDefault
  BY SetOps DEF Config!normalizeAgentDefault
<1>5. list # <<>> => row \in 1 .. Len(list)
  <2>1. list # <<>> => Len(list) > 0
    BY <1>0, EmptySeq
  <2>2. named # {} => Smallest(named) \in 1 .. Len(list)
    BY <1>1, <1>3
  <2>. HIDE DEF named
  <2>. QED BY <1>0, <2>1, <2>2
<1>6. keeps => row \in named
  BY <1>3
<1>. HIDE DEF named, row, r
<1>7. Config!NoDefault \in Config!Choice
  BY DEF Config!NoDefault, Config!Choice, Config!Word
<1>8. ASSUME list # <<>>, ~keeps, list[row].models # <<>>
      PROVE  /\ [id |-> list[row].id, model |-> list[row].models[1]] \in Config!Choice
             /\ Served([id |-> list[row].id, model |-> list[row].models[1]], list)
  <2>1. row \in 1 .. Len(list)
    BY <1>5, <1>8
  <2>2. list[row] \in Config!Provider
    BY <1>0, <2>1, ElementOfSeq
  <2>3. list[row].models \in Seq(Config!Word)
    BY <2>2 DEF Config!Provider
  <2>4. 1 \in DOMAIN list[row].models /\ list[row].models[1] \in Config!Word
    <3>1. Len(list[row].models) \in Nat /\ Len(list[row].models) > 0
      BY <1>8, <2>3, EmptySeq, LenProperties
    <3>2. 1 \in 1 .. Len(list[row].models)
      BY <3>1
    <3>. QED BY <2>3, <3>2, ElementOfSeq, LenProperties
  <2>5. PICK w : w = list[row].models[1]
    OBVIOUS
  <2>6. Config!Contains(list[row].models, w)
    BY <2>4, <2>5 DEF Config!Contains
  <2>7. list[row].id \in Config!Word
    BY <2>2 DEF Config!Provider
  <2>. QED BY <1>0, <2>1, <2>4, <2>5, <2>6, <2>7 DEF Served, Config!Choice
<1>9. ASSUME keeps PROVE Served(d, list)
  <2>1. row \in DOMAIN list /\ list[row].id = d.id
    BY <1>0, <1>1, <1>6, <1>9
  <2>. QED BY <1>9, <2>1 DEF Served
<1>10. r \in Config!Choice /\ Served(r, list)
  <2>1. r \in {Config!NoDefault, d, [id |-> list[row].id, model |-> list[row].models[1]]}
    BY <1>4
  <2>2. Served(Config!NoDefault, list)
    BY DEF Served
  <2>3. r = Config!NoDefault \/ (r = d /\ keeps)
          \/ (list # <<>> /\ ~keeps /\ list[row].models # <<>> /\ r = [id |-> list[row].id, model |-> list[row].models[1]])
    BY <1>4
  <2>. QED BY <1>7, <1>8, <1>9, <2>2, <2>3
<1>11. ASSUME d # Config!NoDefault, Served(d, list) PROVE r = d
  <2>1. PICK i \in DOMAIN list : list[i].id = d.id /\ Config!Contains(list[i].models, d.model)
    BY <1>11 DEF Served
  <2>2. i \in named
    BY <2>1 DEF named
  <2>3. row = i
    <3>1. named # {} /\ row = Smallest(named)
      BY <2>2 DEF row
    <3>. QED BY <1>2, <1>3, <2>2, <3>1
  <2>4. keeps
    BY <2>1, <2>2, <2>3
  <2>5. list # <<>>
    BY <1>0, <2>1
  <2>. QED BY <1>4, <2>4, <2>5
<1>. QED BY <1>10, <1>11 DEF r

(* The empty list and the provider of an older version are such lists.     *)
LEMMA FewListings ==
    /\ Listing(<<>>)
    /\ \A url : Listing(<<Config!synthesiseLegacyProvider(url)>>)
<1>1. AgentProviderMax \in Nat \ {0} /\ AgentModelsMax \in Nat \ {0}
  BY SettingsAssumption
<1>2. Listing(<<>>)
  <2>1. <<>> \in Seq(Config!Provider) /\ Len(<<>>) = 0
    BY EmptySeq
  <2>. QED BY <1>1, <2>1 DEF Listing
<1>3. ASSUME NEW url PROVE Listing(<<Config!synthesiseLegacyProvider(url)>>)
  <2>1. "legacy" \in Config!Word /\ "model" \in Config!Word /\ "legacy" # Bad /\ "model" # Bad
    BY SettingsAssumption DEF Config!Word
  <2>2. PICK ms : ms = <<"model">>
    OBVIOUS
  <2>3. ms \in Seq(Config!Word) /\ Len(ms) = 1 /\ ms[1] = "model" /\ DOMAIN ms = {1}
    BY <2>1, <2>2
  <2>4. Models(ms)
    BY <1>1, <2>1, <2>3 DEF Models, Distinct
  <2>5. PICK p : p = Config!synthesiseLegacyProvider(url)
    OBVIOUS
  <2>6. p \in Config!Provider /\ p.id = "legacy" /\ p.models = ms
    BY <2>1, <2>2, <2>3, <2>5 DEF Config!synthesiseLegacyProvider, Config!Provider
  <2>7. PICK list : list = <<p>>
    OBVIOUS
  <2>8. list \in Seq(Config!Provider) /\ Len(list) = 1 /\ list[1] = p
    BY <2>6, <2>7
  <2>9. \A i \in 1 .. Len(list) : i = 1
    BY <2>8
  <2>10. \A i \in 1 .. Len(list) : list[i].id # Bad /\ Models(list[i].models)
    BY <2>1, <2>4, <2>6, <2>8, <2>9
  <2>11. Len(list) <= AgentProviderMax
    BY <1>1, <2>8
  <2>12. Listing(list)
    BY <2>8, <2>9, <2>10, <2>11 DEF Listing
  <2>. QED BY <2>5, <2>7, <2>12
<1>. QED BY <1>2, <1>3

(* Settings that Get shows, and that a Set writes.                         *)
Shown(s) ==
    /\ s = [language |-> s.language, size |-> s.size, window |-> s.window, url |-> s.url,
            providers |-> s.providers, default |-> s.default]
    /\ s.language \in {"en", "zh"} /\ Sized(s.size) /\ Windowed(s.window)
    /\ s.url \in Seq(Config!Word) /\ Steady(s.url)
    /\ Listing(s.providers) /\ s.default \in Config!Choice /\ Served(s.default, s.providers)

(* The fields of what is shown have their types.                           *)
LEMMA ShownFields ==
    ASSUME NEW s, Shown(s)
    PROVE  /\ s.language \in Config!Word /\ s.size \in Int /\ s.window \in Int /\ s.url \in Seq(Config!Word)
           /\ s.providers \in Seq(Config!Provider) /\ s.default \in Config!Choice
<1>1. {"en", "zh"} \subseteq Config!Word
  BY SettingsAssumption DEF Config!Word
<1>2. s.size \in Int /\ s.window \in Int
  BY Bounds DEF Shown, Sized, Windowed
<1>3. s.providers \in Seq(Config!Provider)
  BY DEF Shown, Listing
<1>4. s.url \in Seq(Config!Word) /\ s.language \in {"en", "zh"} /\ s.default \in Config!Choice
  BY DEF Shown
<1>. QED BY <1>1, <1>2, <1>3, <1>4

(* The settings made of normal parts are shown.                            *)
LEMMA Made ==
    ASSUME NEW language, NEW points, NEW window, NEW url, NEW list, NEW d,
           points \in Int \/ points = NaN, window \in Int \/ window = NaN,
           url \in Seq(Config!Word), Listing(list), d \in Config!Choice,
           NEW s, s = [language |-> Config!normalizeLanguage(language), size |-> Config!normalizeFontSize(points),
                       window |-> Config!normalizeContextWindow(window), url |-> Config!normalizeURL(url),
                       providers |-> list, default |-> Config!normalizeAgentDefault(d, list)]
    PROVE  /\ Shown(s)
           /\ language \in {"en", "zh"} => s.language = language
           /\ Sized(points) => s.size = points
           /\ Windowed(window) => s.window = window
           /\ Steady(url) /\ Config!Last(url) # "space" => s.url = url
           /\ d # Config!NoDefault /\ Served(d, list) => s.default = d
<1>1. Config!normalizeLanguage(language) \in {"en", "zh"}
      /\ (language \in {"en", "zh"} => Config!normalizeLanguage(language) = language)
  BY DEF Config!normalizeLanguage, Config!DefaultLanguage
<1>2. Sized(Config!normalizeFontSize(points)) /\ (Sized(points) => Config!normalizeFontSize(points) = points)
  BY Scalars
<1>3. Windowed(Config!normalizeContextWindow(window))
      /\ (Windowed(window) => Config!normalizeContextWindow(window) = window)
  BY Scalars
<1>4. Config!normalizeURL(url) \in Seq(Config!Word) /\ Steady(Config!normalizeURL(url))
      /\ (Steady(url) /\ Config!Last(url) # "space" => Config!normalizeURL(url) = url)
  BY URLs DEF Steady
<1>5. /\ Config!normalizeAgentDefault(d, list) \in Config!Choice
      /\ Served(Config!normalizeAgentDefault(d, list), list)
      /\ d # Config!NoDefault /\ Served(d, list) => Config!normalizeAgentDefault(d, list) = d
  BY Defaulted
<1>6. /\ s.language = Config!normalizeLanguage(language) /\ s.size = Config!normalizeFontSize(points)
      /\ s.window = Config!normalizeContextWindow(window) /\ s.url = Config!normalizeURL(url)
      /\ s.providers = list /\ s.default = Config!normalizeAgentDefault(d, list)
  OBVIOUS
<1>7. s = [language |-> s.language, size |-> s.size, window |-> s.window, url |-> s.url,
            providers |-> s.providers, default |-> s.default]
  BY <1>6
<1>8. Shown(s)
  BY <1>1, <1>2, <1>3, <1>4, <1>5, <1>6, <1>7 DEF Shown
<1>. QED BY <1>1, <1>2, <1>3, <1>4, <1>5, <1>6, <1>8

(* Get shows valid settings, whatever the file holds.                      *)
LEMMA Reads ==
    ASSUME NEW f \in Config!SettingsFiles
    PROVE  Shown(Config!Get(f))
<1>1. CASE f.is = "object"
  <2>1. PICK raw : raw = f.raw
    OBVIOUS
  <2>2. raw \in Config!RawSettings
    BY <2>1 DEF Config!SettingsFiles
  <2>3. /\ raw.size \in Config!Scalar /\ raw.window \in Config!Scalar /\ raw.url \in Seq(Config!Word)
        /\ raw.has \in {"list", "junk", "absent"} /\ raw.providers \in Seq(Config!Provider)
        /\ raw.default \in Config!Choice
    BY <2>2 DEF Config!RawSettings
  <2>4. Listing(Config!Listed(raw))
    <3>1. raw.has = "list" => Config!Listed(raw) = Config!normalizeProviderList(raw.providers)
      BY DEF Config!Listed
    <3>2. raw.has = "junk" => Config!Listed(raw) = <<>>
      BY DEF Config!Listed
    <3>3. raw.has = "absent" => Config!Listed(raw) = <<Config!synthesiseLegacyProvider(raw.url)>>
      BY DEF Config!Listed
    <3>. QED BY <2>3, <3>1, <3>2, <3>3, ProviderLists, FewListings
  <2>5. PICK list : list = Config!Listed(raw)
    OBVIOUS
  <2>6. PICK points, window : points = Config!coerceNumber(raw.size) /\ window = Config!coerceNumber(raw.window)
    OBVIOUS
  <2>7. (points \in Int \/ points = NaN) /\ (window \in Int \/ window = NaN)
    BY <2>3, <2>6, Coerced
  <2>8. Config!Get(f) = [language |-> Config!normalizeLanguage(raw.language), size |-> Config!normalizeFontSize(points),
                  window |-> Config!normalizeContextWindow(window), url |-> Config!normalizeURL(raw.url),
                  providers |-> list, default |-> Config!normalizeAgentDefault(raw.default, list)]
    BY <1>1, <2>1, <2>5, <2>6 DEF Config!Get, Config!normalizeSettings
  <2>. QED BY <2>3, <2>4, <2>5, <2>7, <2>8, Made
<1>2. CASE f.is # "object"
  <2>1. Config!Get(f) = Config!Defaults
    BY <1>2 DEF Config!Get
  <2>2. Sized(Config!DefaultFontSize) /\ Windowed(0)
    BY Bounds DEF Sized, Windowed
  <2>3. Config!NoDefault \in Config!Choice
    BY DEF Config!NoDefault, Config!Choice, Config!Word
  <2>4. PICK d : d = Config!Defaults
    OBVIOUS
  <2>5. /\ d = [language |-> d.language, size |-> d.size, window |-> d.window, url |-> d.url,
                providers |-> d.providers, default |-> d.default]
        /\ d.language = "zh" /\ d.size = Config!DefaultFontSize /\ d.window = 0 /\ d.url = Config!DefaultURL
        /\ d.providers = <<>> /\ d.default = Config!NoDefault
    BY <2>4 DEF Config!Defaults, Config!DefaultLanguage
  <2>6. Served(d.default, d.providers)
    BY <2>5 DEF Served
  <2>. QED BY <2>1, <2>2, <2>3, <2>4, <2>5, <2>6, URLs, FewListings DEF Shown
<1>. QED BY <1>1, <1>2

(* What is read of the settings that were written.                         *)
LEMMA ReadsBack ==
    ASSUME NEW s, Shown(s), NEW g, g = Config!Get(Config!Object(s))
    PROVE  /\ Config!Object(s) \in Config!SettingsFiles /\ Shown(g)
           /\ g.language = s.language /\ g.size = s.size /\ g.window = s.window /\ g.providers = s.providers
           /\ s.default # Config!NoDefault => g.default = s.default
           /\ Config!Last(s.url) # "space" => g.url = s.url
<1>1. PICK raw : raw = Config!Object(s).raw
  OBVIOUS
<1>2. /\ raw = [language |-> s.language, size |-> Config!Number(s.size), window |-> Config!Number(s.window),
                url |-> s.url, has |-> "list", providers |-> s.providers, default |-> s.default]
      /\ Config!Object(s) = [is |-> "object", raw |-> raw]
  BY <1>1 DEF Config!Object
<1>3. /\ s.language \in Config!Word /\ s.size \in Int /\ s.window \in Int /\ s.url \in Seq(Config!Word)
      /\ s.providers \in Seq(Config!Provider) /\ s.default \in Config!Choice
  BY ShownFields
<1>4. Config!Number(s.size) \in Config!Scalar /\ Config!Number(s.window) \in Config!Scalar
  BY <1>3 DEF Config!Number, Config!Scalar
<1>5. raw \in Config!RawSettings
  BY <1>2, <1>3, <1>4 DEF Config!RawSettings
<1>6. Config!Object(s) \in Config!SettingsFiles
  BY <1>2, <1>5 DEF Config!SettingsFiles
<1>7. s.language \in {"en", "zh"} /\ Sized(s.size) /\ Windowed(s.window) /\ Steady(s.url)
      /\ Listing(s.providers) /\ Served(s.default, s.providers)
  BY DEF Shown
<1>8. Config!Listed(raw) = s.providers
  <2>1. Config!Listed(raw) = Config!normalizeProviderList(s.providers)
    BY <1>2 DEF Config!Listed
  <2>. QED BY <1>3, <1>7, <2>1, ProviderLists
<1>9. Config!coerceNumber(raw.size) = s.size /\ Config!coerceNumber(raw.window) = s.window
  BY <1>2, Coerced
<1>10. g = [language |-> Config!normalizeLanguage(s.language), size |-> Config!normalizeFontSize(s.size),
            window |-> Config!normalizeContextWindow(s.window), url |-> Config!normalizeURL(s.url),
            providers |-> s.providers, default |-> Config!normalizeAgentDefault(s.default, s.providers)]
  <2>1. g = Config!normalizeSettings(raw)
    BY <1>2 DEF Config!Get
  <2>2. raw.language = s.language /\ raw.url = s.url /\ raw.default = s.default
    BY <1>2
  <2>. QED BY <1>8, <1>9, <2>1, <2>2 DEF Config!normalizeSettings
<1>11. g.providers = s.providers
  BY <1>10
<1>12. /\ Shown(g)
       /\ g.language = s.language /\ g.size = s.size /\ g.window = s.window
       /\ s.default # Config!NoDefault => g.default = s.default
       /\ Config!Last(s.url) # "space" => g.url = s.url
  BY <1>3, <1>7, <1>10, Made
<1>. QED BY <1>6, <1>11, <1>12

(* A patch over what is shown.                                             *)
LEMMA Merges ==
    ASSUME NEW s, Shown(s), NEW patch, Config!IsPatch(patch), NEW m, m = Config!Merged(s, patch)
    PROVE  /\ Shown(m)
           /\ "language" \notin DOMAIN patch => m.language = s.language
           /\ "size" \notin DOMAIN patch => m.size = s.size
           /\ "window" \notin DOMAIN patch => m.window = s.window
           /\ "providers" \notin DOMAIN patch => m.providers = s.providers
           /\ "url" \notin DOMAIN patch /\ Config!Last(s.url) # "space" => m.url = s.url
           /\ "default" \notin DOMAIN patch /\ "providers" \notin DOMAIN patch /\ s.default # Config!NoDefault
                => m.default = s.default
<1>1. PICK all : all = Config!Over(s, patch)
  OBVIOUS
<1>2. Config!Fields = {"language", "size", "window", "url", "providers", "default"}
  BY DEF Config!Fields, Config!Defaults
<1>3. ASSUME NEW f \in Config!Fields PROVE all[f] = IF f \in DOMAIN patch THEN patch[f] ELSE s[f]
  BY <1>1 DEF Config!Over
<1>4. /\ s.language \in Config!Word /\ s.size \in Int /\ s.window \in Int /\ s.url \in Seq(Config!Word)
      /\ s.providers \in Seq(Config!Provider) /\ s.default \in Config!Choice
  BY ShownFields
<1>5. ASSUME NEW f \in DOMAIN patch PROVE patch[f] \in Config!Values[f]
  BY DEF Config!IsPatch
<1>6. /\ Config!Values["language"] = Config!Word /\ Config!Values["size"] = Int /\ Config!Values["window"] = Int
      /\ Config!Values["url"] = Seq(Config!Word) /\ Config!Values["providers"] = Seq(Config!Provider)
      /\ Config!Values["default"] = Config!Choice
  BY DEF Config!Values
<1>7. /\ all.language = IF "language" \in DOMAIN patch THEN patch["language"] ELSE s.language
      /\ all.size = IF "size" \in DOMAIN patch THEN patch["size"] ELSE s.size
      /\ all.window = IF "window" \in DOMAIN patch THEN patch["window"] ELSE s.window
      /\ all.url = IF "url" \in DOMAIN patch THEN patch["url"] ELSE s.url
      /\ all.providers = IF "providers" \in DOMAIN patch THEN patch["providers"] ELSE s.providers
      /\ all.default = IF "default" \in DOMAIN patch THEN patch["default"] ELSE s.default
  BY <1>2, <1>3
<1>8. /\ all.size \in Int /\ all.window \in Int /\ all.url \in Seq(Config!Word)
      /\ all.providers \in Seq(Config!Provider) /\ all.default \in Config!Choice
  <2>1. all.size \in Int
    BY <1>4, <1>5, <1>6, <1>7
  <2>2. all.window \in Int
    BY <1>4, <1>5, <1>6, <1>7
  <2>3. all.url \in Seq(Config!Word)
    BY <1>4, <1>5, <1>6, <1>7
  <2>4. all.providers \in Seq(Config!Provider)
    BY <1>4, <1>5, <1>6, <1>7
  <2>5. all.default \in Config!Choice
    BY <1>4, <1>5, <1>6, <1>7
  <2>. QED BY <2>1, <2>2, <2>3, <2>4, <2>5
<1>9. PICK list : list = IF "providers" \in DOMAIN patch THEN Config!normalizeProviderList(all.providers) ELSE all.providers
  OBVIOUS
<1>10. Listing(list) /\ ("providers" \notin DOMAIN patch => list = s.providers)
  <2>1. Listing(Config!normalizeProviderList(all.providers))
    BY <1>8, ProviderLists
  <2>2. Listing(s.providers)
    BY DEF Shown
  <2>. QED BY <1>7, <1>9, <2>1, <2>2
<1>11. m = [language |-> Config!normalizeLanguage(all.language), size |-> Config!normalizeFontSize(all.size),
            window |-> Config!normalizeContextWindow(all.window), url |-> Config!normalizeURL(all.url),
            providers |-> list, default |-> Config!normalizeAgentDefault(all.default, list)]
  BY <1>1, <1>9 DEF Config!Merged
<1>12. /\ Shown(m)
       /\ all.language \in {"en", "zh"} => m.language = all.language
       /\ Sized(all.size) => m.size = all.size
       /\ Windowed(all.window) => m.window = all.window
       /\ Steady(all.url) /\ Config!Last(all.url) # "space" => m.url = all.url
       /\ all.default # Config!NoDefault /\ Served(all.default, list) => m.default = all.default
  BY <1>8, <1>10, <1>11, Made
<1>13. m.providers = list
  BY <1>11
<1>14. s.language \in {"en", "zh"} /\ Sized(s.size) /\ Windowed(s.window) /\ Steady(s.url) /\ Served(s.default, s.providers)
  BY DEF Shown
<1>. QED BY <1>7, <1>10, <1>12, <1>13, <1>14

(* What is shown is valid.                                                 *)
LEMMA ShownValid ==
    ASSUME NEW s, Shown(s)
    PROVE  Config!Valid(s)
<1>1. /\ s.language \in {"en", "zh"} /\ Sized(s.size) /\ Windowed(s.window)
      /\ Listing(s.providers) /\ Served(s.default, s.providers)
  BY DEF Shown
<1>2. DOMAIN s.providers = 1 .. Len(s.providers) /\ Len(s.providers) <= AgentProviderMax
  BY <1>1, LenProperties DEF Listing
<1>3. \A i, j \in DOMAIN s.providers : s.providers[i].id = s.providers[j].id => i = j
  BY <1>1, <1>2 DEF Listing
<1>. QED BY <1>1, <1>2, <1>3 DEF Config!Valid, Sized, Windowed, Served

(* What a call k that is about to write carries, over the file f.          *)
Carries(k, f) ==
    /\ k = [at |-> "write", patch |-> k.patch, next |-> k.next, late |-> k.late] /\ k.late \in BOOLEAN
    /\ Shown(k.next)
    /\ ~k.late => \E p \in Patches : k.patch = DOMAIN p /\ k.next = Config!Merged(Config!Get(f), p)

(* What holds of the settings file and of the calls on it: who is about to *)
(* write has the lock of its process, and unless another process came in   *)
(* between, it carries the settings of this file and its patch.            *)
SetInv ==
    /\ file \in Config!SettingsFiles
    /\ lock = [p \in Processes |-> lock[p]]
    /\ setCall = [c \in Config!Setters |-> setCall[c]]
    /\ \A c \in Config!Setters :
         setCall[c] = Config!Idle \/ (lock[c[1]] = c[2] /\ Carries(setCall[c], file))

(* It holds at first.                                                      *)
LEMMA SetBegins == Config!Init => SetInv
BY SettingsAssumption DEF Config!Init, SetInv

(* Every step keeps it.                                                    *)
LEMMA SetSteps == SetInv /\ Config!Next => SetInv'
<1>. SUFFICES ASSUME SetInv, Config!Next PROVE SetInv'
  OBVIOUS
<1>0. /\ \A c \in Config!Setters : c = <<c[1], c[2]>> /\ c[1] \in Processes /\ c[2] \in Callers /\ c[2] # Bad
      /\ \A k, f : Carries(k, f) => k.at = "write" /\ k # Config!Idle
      /\ Config!Idle.at = "idle"
  BY SettingsAssumption DEF Config!Setters, Carries, Config!Idle
<1>1. ASSUME NEW c \in Config!Setters, NEW patch \in Patches, Config!SetReads(c, patch)
      PROVE  SetInv'
  <2>1. /\ setCall[c].at = "idle" /\ lock[c[1]] = Bad
        /\ lock' = [lock EXCEPT ![c[1]] = c[2]]
        /\ setCall' = [setCall EXCEPT ![c] = [at |-> "write", patch |-> DOMAIN patch,
                                              next |-> Config!Merged(Config!Get(file), patch), late |-> FALSE]]
        /\ file' = file
    BY <1>1 DEF Config!SetReads, Config!Free
  <2>2. Shown(Config!Merged(Config!Get(file), patch))
    BY Reads, Merges, SettingsAssumption DEF SetInv
  <2>3. Carries(setCall'[c], file)
    <3>1. setCall'[c] = [at |-> "write", patch |-> DOMAIN patch,
                         next |-> Config!Merged(Config!Get(file), patch), late |-> FALSE]
      BY <2>1 DEF SetInv
    <3>. QED BY <2>2, <3>1 DEF Carries
  <2>4. lock'[c[1]] = c[2]
    BY <1>0, <2>1 DEF SetInv
  <2>5. ASSUME NEW d \in Config!Setters, d # c
        PROVE  setCall'[d] = Config!Idle \/ (lock'[d[1]] = d[2] /\ Carries(setCall'[d], file))
    <3>1. setCall'[d] = setCall[d]
      BY <2>1, <2>5 DEF SetInv
    <3>2. CASE setCall[d] = Config!Idle
      BY <3>1, <3>2
    <3>3. CASE lock[d[1]] = d[2] /\ Carries(setCall[d], file)
      <4>1. d[1] # c[1]
        BY <1>0, <2>1, <3>3
      <4>2. lock'[d[1]] = lock[d[1]]
        BY <1>0, <2>1, <4>1 DEF SetInv
      <4>. QED BY <3>1, <3>3, <4>2
    <3>. QED BY <3>2, <3>3 DEF SetInv
  <2>6. /\ lock' = [p \in Processes |-> lock'[p]]
        /\ setCall' = [d \in Config!Setters |-> setCall'[d]]
    BY <2>1 DEF SetInv
  <2>. QED BY <2>1, <2>3, <2>4, <2>5, <2>6 DEF SetInv
<1>2. ASSUME NEW c \in Config!Setters, Config!SetWrites(c)
      PROVE  SetInv'
  <2>1. /\ setCall[c].at = "write"
        /\ file' = Config!Object(setCall[c].next)
        /\ setCall' = [d \in Config!Setters |->
                         CASE d = c -> Config!Idle
                           [] d # c /\ setCall[d].at = "write" /\ d[1] # c[1] -> [setCall[d] EXCEPT !.late = TRUE]
                           [] OTHER -> setCall[d]]
        /\ lock' = [lock EXCEPT ![c[1]] = Bad]
    BY <1>2 DEF Config!SetWrites, Config!Returns
  <2>2. lock[c[1]] = c[2] /\ Carries(setCall[c], file)
    BY <1>0, <2>1 DEF SetInv
  <2>3. file' \in Config!SettingsFiles
    BY <2>1, <2>2, ReadsBack DEF Carries
  <2>4. ASSUME NEW d \in Config!Setters
        PROVE  setCall'[d] = Config!Idle \/ (lock'[d[1]] = d[2] /\ Carries(setCall'[d], file'))
    <3>1. CASE d = c
      BY <2>1, <3>1
    <3>2. CASE d # c /\ setCall[d] = Config!Idle
      BY <1>0, <2>1, <3>2
    <3>3. CASE d # c /\ lock[d[1]] = d[2] /\ Carries(setCall[d], file)
      <4>1. d[1] # c[1]
        BY <1>0, <2>2, <3>3
      <4>2. setCall'[d] = [setCall[d] EXCEPT !.late = TRUE]
        BY <1>0, <2>1, <3>3, <4>1
      <4>3. Carries(setCall'[d], file')
        <5>1. PICK k : k = setCall[d] /\ Carries(k, file)
          BY <3>3
        <5>2. PICK a, n, v : k = [at |-> "write", patch |-> a, next |-> n, late |-> v]
          BY <5>1 DEF Carries
        <5>3. PICK l : l = [k EXCEPT !.late = TRUE]
          OBVIOUS
        <5>4. l = [at |-> "write", patch |-> a, next |-> n, late |-> TRUE]
          BY <5>2, <5>3
        <5>5. Shown(n)
          BY <5>1, <5>2 DEF Carries
        <5>6. Carries(l, file')
          BY <5>4, <5>5 DEF Carries
        <5>. QED BY <4>2, <5>1, <5>3, <5>6
      <4>4. lock'[d[1]] = lock[d[1]]
        BY <1>0, <2>1, <4>1 DEF SetInv
      <4>. QED BY <3>3, <4>3, <4>4
    <3>. QED BY <3>1, <3>2, <3>3 DEF SetInv
  <2>5. /\ lock' = [p \in Processes |-> lock'[p]]
        /\ setCall' = [d \in Config!Setters |-> setCall'[d]]
    BY <2>1 DEF SetInv
  <2>. QED BY <2>3, <2>4, <2>5 DEF SetInv
<1>3. ASSUME NEW c \in Config!Setters, Config!SetFails(c)
      PROVE  SetInv'
  <2>1. /\ setCall[c].at = "write" /\ file' = file
        /\ setCall' = [setCall EXCEPT ![c] = Config!Idle]
        /\ lock' = [lock EXCEPT ![c[1]] = Bad]
    BY <1>3 DEF Config!SetFails, Config!Returns
  <2>2. lock[c[1]] = c[2]
    BY <1>0, <2>1 DEF SetInv
  <2>3. ASSUME NEW d \in Config!Setters
        PROVE  setCall'[d] = Config!Idle \/ (lock'[d[1]] = d[2] /\ Carries(setCall'[d], file'))
    <3>1. CASE d = c
      BY <2>1, <3>1 DEF SetInv
    <3>2. CASE d # c /\ setCall[d] = Config!Idle
      BY <2>1, <3>2 DEF SetInv
    <3>3. CASE d # c /\ lock[d[1]] = d[2] /\ Carries(setCall[d], file)
      <4>1. d[1] # c[1]
        BY <1>0, <2>2, <3>3
      <4>2. setCall'[d] = setCall[d]
        BY <2>1, <3>3 DEF SetInv
      <4>3. lock'[d[1]] = lock[d[1]]
        BY <1>0, <2>1, <4>1 DEF SetInv
      <4>. QED BY <2>1, <3>3, <4>2, <4>3
    <3>. QED BY <3>1, <3>2, <3>3 DEF SetInv
  <2>4. /\ lock' = [p \in Processes |-> lock'[p]]
        /\ setCall' = [d \in Config!Setters |-> setCall'[d]]
    BY <2>1 DEF SetInv
  <2>. QED BY <2>1, <2>3, <2>4 DEF SetInv
<1>. QED BY <1>1, <1>2, <1>3 DEF Config!Next

(* A write by c of what it made of the file it finds.                      *)
LEMMA WriteLeaves ==
    ASSUME SetInv, NEW c \in Config!Setters, Config!SetWrites(c), ~setCall[c].late,
           NEW f \in Config!Fields, f \notin setCall[c].patch
    PROVE  \/ Config!Get(file')[f] = Config!Get(file)[f]
           \/ Config!Unstable(f, Config!Get(file))
           \/ f = "default" /\ "providers" \in setCall[c].patch
<1>1. setCall[c].at = "write" /\ file' = Config!Object(setCall[c].next)
  BY DEF Config!SetWrites
<1>2. Carries(setCall[c], file)
  BY <1>1 DEF SetInv, Config!Idle
<1>3. PICK p \in Patches : setCall[c].patch = DOMAIN p /\ setCall[c].next = Config!Merged(Config!Get(file), p)
  BY <1>2 DEF Carries
<1>4. PICK s, m, g : s = Config!Get(file) /\ m = setCall[c].next /\ g = Config!Get(Config!Object(m))
  OBVIOUS
<1>5. Shown(s)
  BY <1>4, Reads DEF SetInv
<1>6. /\ Shown(m)
      /\ "language" \notin DOMAIN p => m.language = s.language
      /\ "size" \notin DOMAIN p => m.size = s.size
      /\ "window" \notin DOMAIN p => m.window = s.window
      /\ "providers" \notin DOMAIN p => m.providers = s.providers
      /\ "url" \notin DOMAIN p /\ Config!Last(s.url) # "space" => m.url = s.url
      /\ "default" \notin DOMAIN p /\ "providers" \notin DOMAIN p /\ s.default # Config!NoDefault
           => m.default = s.default
  <2>1. Config!IsPatch(p) /\ m = Config!Merged(s, p)
    BY <1>3, <1>4, SettingsAssumption
  <2>. QED BY <1>5, <2>1, Merges
<1>7. /\ g.language = m.language /\ g.size = m.size /\ g.window = m.window /\ g.providers = m.providers
      /\ m.default # Config!NoDefault => g.default = m.default
      /\ Config!Last(m.url) # "space" => g.url = m.url
  BY <1>4, <1>6, ReadsBack
<1>8. f \in {"language", "size", "window", "url", "providers", "default"}
  BY DEF Config!Fields, Config!Defaults
<1>9. f \notin DOMAIN p
  BY <1>3
<1>10. g[f] = s[f] \/ Config!Unstable(f, s) \/ (f = "default" /\ "providers" \in DOMAIN p)
  <2>1. CASE f = "language"
    BY <1>6, <1>7, <1>9, <2>1
  <2>2. CASE f = "size"
    BY <1>6, <1>7, <1>9, <2>2
  <2>3. CASE f = "window"
    BY <1>6, <1>7, <1>9, <2>3
  <2>4. CASE f = "providers"
    BY <1>6, <1>7, <1>9, <2>4
  <2>5. CASE f = "url"
    BY <1>6, <1>7, <1>9, <2>5 DEF Config!Unstable
  <2>6. CASE f = "default"
    BY <1>6, <1>7, <1>9, <2>6 DEF Config!Unstable
  <2>. QED BY <1>8, <2>1, <2>2, <2>3, <2>4, <2>5, <2>6
<1>. QED BY <1>1, <1>3, <1>4, <1>10

(* No write changes what is shown of a setting it does not name.           *)
LEMMA OthersStay == SetInv /\ Config!Next => Config!KeepsOthers
<1>. SUFFICES ASSUME SetInv, Config!Next, NEW c \in Config!Setters, Config!Writes(c), ~setCall[c].late,
                     NEW f \in Config!Fields \ setCall[c].patch
              PROVE  \/ Config!Get(file')[f] = Config!Get(file)[f]
                     \/ Config!Unstable(f, Config!Get(file))
                     \/ f = "default" /\ "providers" \in setCall[c].patch
  BY DEF Config!KeepsOthers
<1>1. setCall[c].at = "write" /\ setCall'[c].at = "idle" /\ file' # file
  BY DEF Config!Writes
<1>2. PICK d \in Config!Setters : Config!SetWrites(d)
  BY <1>1 DEF Config!Next, Config!SetFails, Config!SetReads
<1>3. d = c
  <2>1. SUFFICES ASSUME d # c PROVE FALSE
    OBVIOUS
  <2>2. Carries(setCall[c], file)
    BY <1>1 DEF SetInv, Config!Idle
  <2>3. setCall'[c] = [setCall[c] EXCEPT !.late = TRUE] \/ setCall'[c] = setCall[c]
    BY <1>2, <2>1 DEF Config!SetWrites
  <2>4. setCall'[c].at = "write"
    BY <1>1, <2>2, <2>3 DEF Carries
  <2>. QED BY <1>1, <2>4
<1>. QED BY <1>2, <1>3, WriteLeaves

SetFocus == focus = "settings" => SetInv

(* The settings and the calls on them: the inductive invariant.            *)
THEOREM SettingsInvariant == StoresSpec => []SetFocus
<1>1. StoresInit => SetFocus
  BY SetBegins DEF StoresInit, SetInit, SetFocus
<1>2. SetFocus /\ [Keyring \/ HostFile \/ ProviderList \/ SettingsFile \/ Transcript]_allVars => SetFocus'
  <2>. SUFFICES ASSUME SetFocus, [Keyring \/ HostFile \/ ProviderList \/ SettingsFile \/ Transcript]_allVars
                PROVE  SetFocus'
    OBVIOUS
  <2>1. CASE SettingsFile
    BY <2>1, SetSteps DEF SettingsFile, SetFocus
  <2>2. CASE Keyring \/ HostFile \/ ProviderList \/ Transcript
    BY <2>2 DEF Keyring, HostFile, ProviderList, Transcript, SetFocus
  <2>3. CASE UNCHANGED allVars
    BY <2>3 DEF allVars, setVars, SetFocus, SetInv
  <2>. QED BY <2>1, <2>2, <2>3
<1>. QED BY <1>1, <1>2, PTL DEF StoresSpec

(* What Get shows is valid whatever the file holds, so is what a call is   *)
(* about to write, and a Set changes nothing but what its patch names,     *)
(* though the default follows the providers (settings.go:142-143, 201-204, *)
(* 239-247).                                                               *)
THEOREM SettingsSafe == StoresSpec => SettingsKept
<1>. DEFINE Stays == focus = "settings" => Config!KeepsOthers
<1>1. SetFocus => (focus = "settings" => Config!ShownIsValid)
  <2>. SUFFICES ASSUME SetInv PROVE Config!ShownIsValid
    BY DEF SetFocus
  <2>1. Config!Valid(Config!Get(file))
    BY Reads, ShownValid DEF SetInv
  <2>2. ASSUME NEW c \in Config!Setters, setCall[c].at = "write" PROVE Config!Valid(setCall[c].next)
    BY <2>2, ShownValid DEF SetInv, Carries, Config!Idle
  <2>. QED BY <2>1, <2>2 DEF Config!ShownIsValid
<1>2. SetFocus /\ [Keyring \/ HostFile \/ ProviderList \/ SettingsFile \/ Transcript]_allVars => [Stays]_allVars
  <2>. SUFFICES ASSUME SetInv, focus = "settings",
                       Keyring \/ HostFile \/ ProviderList \/ SettingsFile \/ Transcript
                PROVE  Config!KeepsOthers
    BY DEF SetFocus
  <2>1. SettingsFile
    BY DEF Keyring, HostFile, ProviderList, SettingsFile, Transcript
  <2>. QED BY <2>1, OthersStay DEF SettingsFile
<1>. HIDE DEF Stays
<1>3. StoresSpec => [](focus = "settings" => Config!ShownIsValid)
  BY <1>1, SettingsInvariant, PTL
<1>4. StoresSpec => [][Stays]_allVars
  BY <1>2, SettingsInvariant, PTL DEF StoresSpec
<1>. QED BY <1>3, <1>4 DEF SettingsKept, Stays

-----------------------------------------------------------------------------
(* Transcripts: when every result follows its call and every call has its  *)
(* results, and that cuts, joins and compactions keep it so.               *)

Tool(m) == m.role = "tool"

Asks(m) == m.role = "assistant" /\ m.calls > 0

(* The messages of a transcript: the model's are of size one.              *)
Messages == {m \in [role: {"system", "user", "assistant", "tool"}, calls: 0 .. MaxCalls,
                    call: 0 .. MaxCalls, size: Sizes \cup {1, Summary, NoteSize}] : Asks(m) => m.size = 1}

(* Every result has its call, as many messages before it as its number.    *)
Owned(msgs) ==
    \A i \in 1 .. Len(msgs) : Tool(msgs[i]) =>
      /\ msgs[i].call \in 1 .. i - 1
      /\ Asks(msgs[i - msgs[i].call]) /\ msgs[i].call <= msgs[i - msgs[i].call].calls

(* What follows a call are its results in their order.                     *)
InPlace(msgs) ==
    \A i \in 1 .. Len(msgs), k \in 1 .. MaxCalls :
      Asks(msgs[i]) /\ k <= msgs[i].calls /\ i + k <= Len(msgs) => Tool(msgs[i + k]) /\ msgs[i + k].call = k

Partial(msgs) == msgs \in Seq(Messages) /\ Owned(msgs) /\ InPlace(msgs)

(* And no result is missing.                                               *)
Complete(msgs) == \A i \in 1 .. Len(msgs) : Asks(msgs[i]) => i + msgs[i].calls <= Len(msgs)

Linked(msgs) == Partial(msgs) /\ Complete(msgs)

(* No summary in it, and none but at the front.                            *)
NoSummary(msgs) == \A i \in 1 .. Len(msgs) : msgs[i].role # "system"

SummaryFirst(msgs) == \A i \in 2 .. Len(msgs) : msgs[i].role # "system"

(* What is known of each message of a transcript.                          *)
LEMMA Elements ==
    ASSUME NEW msgs \in Seq(Messages)
    PROVE  /\ Len(msgs) \in Nat /\ DOMAIN msgs = 1 .. Len(msgs)
           /\ \A i \in 1 .. Len(msgs) : /\ msgs[i] \in Messages /\ msgs[i].calls \in 0 .. MaxCalls
                                        /\ msgs[i].call \in 0 .. MaxCalls
                                        /\ Asks(msgs[i]) => ~Tool(msgs[i]) /\ msgs[i].calls > 0
<1>1. Len(msgs) \in Nat /\ DOMAIN msgs = 1 .. Len(msgs) /\ \A i \in 1 .. Len(msgs) : msgs[i] \in Messages
  BY LenProperties
<1>2. ASSUME NEW m \in Messages
      PROVE  m.calls \in 0 .. MaxCalls /\ m.call \in 0 .. MaxCalls /\ (Asks(m) => ~Tool(m) /\ m.calls > 0)
  BY DEF Messages, Asks, Tool
<1>. QED BY <1>1, <1>2

(* The sizes of the messages, and what the model's count.                  *)
LEMMA Weights ==
    ASSUME NEW msgs \in Seq(Messages), NEW i \in 1 .. Len(msgs)
    PROVE  msgs[i].size \in Nat /\ (Asks(msgs[i]) => msgs[i].size = 1)
<1>1. msgs[i] \in Messages
  BY Elements
<1>2. ASSUME NEW m \in Messages PROVE m.size \in Nat /\ (Asks(m) => m.size = 1)
  <2>1. PICK w : w = m.size
    OBVIOUS
  <2>2. w \in Sizes \/ w = 1 \/ w = Summary \/ w = NoteSize
    BY <2>1 DEF Messages
  <2>3. w \in Nat
    <3>1. Sizes \subseteq Nat /\ Summary \in Nat /\ NoteSize \in Nat
      BY TranscriptAssumption
    <3>2. w = 1 => w \in Nat
      OBVIOUS
    <3>. QED BY <2>2, <3>1, <3>2, Zenon
  <2>. QED BY <2>1, <2>3 DEF Messages
<1>. QED BY <1>1, <1>2

(* The words of this module and those of AgentTranscript.                  *)
LEMMA Same == \A m : (Talk!IsTool(m) <=> Tool(m)) /\ (Talk!Calls(m) <=> Asks(m))
BY DEF Talk!IsTool, Talk!Calls, Tool, Asks

(* The operators that AgentTranscript brings with it.                      *)
LEMMA SameOps ==
    ASSUME NEW S
    PROVE  Talk!Max(S) = Largest(S) /\ Talk!Min(S) = Smallest(S) /\ Talk!Ascending(S) = Ascending(S)
<1>1. Talk!Max(S) = Largest(S)
  BY DEF Talk!Max, Largest
<1>2. Talk!Min(S) = Smallest(S)
  BY DEF Talk!Min, Smallest
<1>3. Talk!Ascending(S) = Ascending(S)
  BY Zenon DEF Talk!Ascending, Ascending, Talk!Rank, Rank, Talk!Cardinality, Cardinality
<1>. QED BY <1>1, <1>2, <1>3

(* What is left of a transcript.                                           *)
LEMMA Rest ==
    ASSUME NEW msgs \in Seq(Messages), NEW n \in 0 .. Len(msgs)
    PROVE  /\ Talk!After(msgs, n) \in Seq(Messages) /\ Len(Talk!After(msgs, n)) = Len(msgs) - n
           /\ \A i \in 1 .. Len(msgs) - n : Talk!After(msgs, n)[i] = msgs[n + i]
<1>1. Len(msgs) \in Nat /\ \A i \in n + 1 .. Len(msgs) : msgs[i] \in Messages
  BY Elements
<1>2. /\ SubSeq(msgs, n + 1, Len(msgs)) \in Seq(Messages)
      /\ Len(SubSeq(msgs, n + 1, Len(msgs))) = IF n + 1 <= Len(msgs) THEN Len(msgs) - (n + 1) + 1 ELSE 0
      /\ \A i \in 1 .. Len(msgs) - (n + 1) + 1 : SubSeq(msgs, n + 1, Len(msgs))[i] = msgs[(n + 1) + i - 1]
  BY <1>1, SubSeqProperties
<1>3. \A i \in 1 .. Len(msgs) - n : SubSeq(msgs, n + 1, Len(msgs))[i] = msgs[n + i]
  BY <1>1, <1>2
<1>. QED BY <1>1, <1>2, <1>3 DEF Talk!After

(* What is left when a transcript is cut twice.                            *)
LEMMA RestOfRest ==
    ASSUME NEW msgs \in Seq(Messages), NEW n \in 0 .. Len(msgs), NEW k \in 0 .. Len(msgs) - n
    PROVE  Talk!After(Talk!After(msgs, n), k) = Talk!After(msgs, n + k)
<1>. DEFINE a == Talk!After(msgs, n)
            b == Talk!After(a, k)
            c == Talk!After(msgs, n + k)
<1>1. Len(msgs) \in Nat /\ n + k \in 0 .. Len(msgs)
  BY Elements
<1>2. a \in Seq(Messages) /\ Len(a) = Len(msgs) - n /\ \A i \in 1 .. Len(msgs) - n : a[i] = msgs[n + i]
  BY Rest
<1>3. k \in 0 .. Len(a)
  BY <1>1, <1>2
<1>4. b \in Seq(Messages) /\ Len(b) = Len(a) - k /\ \A i \in 1 .. Len(a) - k : b[i] = a[k + i]
  BY <1>2, <1>3, Rest
<1>5. c \in Seq(Messages) /\ Len(c) = Len(msgs) - (n + k) /\ \A i \in 1 .. Len(msgs) - (n + k) : c[i] = msgs[n + k + i]
  BY <1>1, Rest
<1>6. Len(b) = Len(c) /\ \A i \in 1 .. Len(b) : b[i] = c[i]
  BY <1>1, <1>2, <1>4, <1>5
<1>. QED BY <1>4, <1>5, <1>6, SeqEqual

(* A transcript cut before anything but a result stays in order.           *)
LEMMA Cut ==
    ASSUME NEW msgs, Partial(msgs), NEW n \in 0 .. Len(msgs), n < Len(msgs) => ~Tool(msgs[n + 1])
    PROVE  /\ Partial(Talk!After(msgs, n)) /\ Len(Talk!After(msgs, n)) = Len(msgs) - n
           /\ Complete(msgs) => Complete(Talk!After(msgs, n))
           /\ NoSummary(msgs) => NoSummary(Talk!After(msgs, n))
           /\ SummaryFirst(msgs) => SummaryFirst(Talk!After(msgs, n)) /\ (n > 0 => NoSummary(Talk!After(msgs, n)))
<1>. DEFINE t == Talk!After(msgs, n)
            L == Len(msgs)
<1>0. msgs \in Seq(Messages) /\ L \in Nat /\ Owned(msgs) /\ InPlace(msgs)
  BY Elements DEF Partial
<1>1. t \in Seq(Messages) /\ Len(t) = L - n /\ \A i \in 1 .. L - n : t[i] = msgs[n + i] /\ n + i \in 1 .. L
  BY <1>0, Rest
<1>2. Owned(t)
  <2>. SUFFICES ASSUME NEW i \in 1 .. Len(t), Tool(t[i])
                PROVE  t[i].call \in 1 .. i - 1 /\ Asks(t[i - t[i].call]) /\ t[i].call <= t[i - t[i].call].calls
    BY DEF Owned
  <2>1. PICK p \in 1 .. L : p = n + i /\ t[i] = msgs[p] /\ n < p
    BY <1>0, <1>1
  <2>2. PICK c \in 1 .. p - 1 : c = msgs[p].call /\ Asks(msgs[p - c]) /\ c <= msgs[p - c].calls
    BY <1>0, <2>1 DEF Owned
  <2>3. PICK o \in 1 .. L : o = p - c /\ o + c = p
    <3>1. p \in Int /\ c \in Int /\ p <= L /\ 1 <= c /\ c <= p - 1 /\ L \in Int
      BY <1>0
    <3>2. p - c \in 1 .. L /\ p - c + c = p
      BY <3>1
    <3>. QED BY <3>2
  <2>4. msgs[o].calls \in 0 .. MaxCalls
    BY <1>0, Elements
  <2>5. o > n
    <3>1. SUFFICES ASSUME o <= n PROVE FALSE
      OBVIOUS
    <3>2. PICK k \in 1 .. MaxCalls : o + k = n + 1 /\ k <= msgs[o].calls
      <4>1. n + 1 - o \in Nat /\ n + 1 - o >= 1 /\ n + 1 - o <= c
        BY <2>1, <2>3, <3>1
      <4>4. msgs[o].calls \in Nat /\ msgs[o].calls <= MaxCalls /\ c <= msgs[o].calls
        BY <2>2, <2>3, <2>4, TranscriptAssumption
      <4>2. n + 1 - o \in 1 .. MaxCalls
        BY <4>1, <4>4, TranscriptAssumption
      <4>3. n + 1 - o <= msgs[o].calls /\ o + (n + 1 - o) = n + 1
        BY <4>1, <4>4
      <4>. QED BY <4>2, <4>3
    <3>3. n < L /\ o + k <= L
      BY <1>0, <2>1, <3>2
    <3>4. Tool(msgs[o + k])
      BY <1>0, <2>2, <2>3, <3>2, <3>3 DEF InPlace
    <3>. QED BY <3>2, <3>3, <3>4
  <2>6. c \in 1 .. i - 1 /\ i - c \in 1 .. L - n /\ n + (i - c) = o
    BY <1>0, <1>1, <2>1, <2>3, <2>5
  <2>7. t[i - c] = msgs[o]
    BY <1>1, <2>6
  <2>. QED BY <2>1, <2>2, <2>3, <2>6, <2>7
<1>3. InPlace(t)
  <2>. SUFFICES ASSUME NEW i \in 1 .. Len(t), NEW k \in 1 .. MaxCalls, Asks(t[i]), k <= t[i].calls, i + k <= Len(t)
                PROVE  Tool(t[i + k]) /\ t[i + k].call = k
    BY DEF InPlace
  <2>1. PICK p \in 1 .. L : p = n + i /\ t[i] = msgs[p]
    BY <1>0, <1>1
  <2>2. i + k \in 1 .. L - n /\ n + (i + k) = p + k /\ p + k <= L
    BY <1>0, <1>1, <2>1
  <2>3. t[i + k] = msgs[p + k]
    BY <1>1, <2>2
  <2>. QED BY <1>0, <2>1, <2>2, <2>3 DEF InPlace
<1>4. Complete(msgs) => Complete(t)
  <2>. SUFFICES ASSUME Complete(msgs), NEW i \in 1 .. Len(t), Asks(t[i]) PROVE i + t[i].calls <= Len(t)
    BY DEF Complete
  <2>1. t[i] = msgs[n + i] /\ n + i \in 1 .. L
    BY <1>1
  <2>2. msgs[n + i].calls \in Nat /\ n + i + msgs[n + i].calls <= L
    BY <1>0, <2>1, Elements DEF Complete
  <2>. QED BY <1>0, <1>1, <2>1, <2>2
<1>5. NoSummary(msgs) => NoSummary(t)
  BY <1>1 DEF NoSummary
<1>6. SummaryFirst(msgs) => SummaryFirst(t) /\ (n > 0 => NoSummary(t))
  <2>1. \A i \in 2 .. Len(t) : t[i] = msgs[n + i] /\ n + i \in 2 .. L
    BY <1>0, <1>1
  <2>2. n > 0 => \A i \in 1 .. Len(t) : t[i] = msgs[n + i] /\ n + i \in 2 .. L
    BY <1>0, <1>1
  <2>. QED BY <2>1, <2>2 DEF SummaryFirst, NoSummary
<1>. QED BY <1>1, <1>2, <1>3, <1>4, <1>5, <1>6 DEF Partial

(* The cap, and the results at the front of what it leaves.                *)
LEMMA Leading ==
    ASSUME NEW msgs \in Seq(Messages)
    PROVE  /\ Talk!LeadingTools(msgs) \in 0 .. Len(msgs)
           /\ \A k \in 1 .. Talk!LeadingTools(msgs) : Tool(msgs[k])
           /\ Talk!LeadingTools(msgs) < Len(msgs) => ~Tool(msgs[Talk!LeadingTools(msgs) + 1])
           /\ \A n \in 0 .. Len(msgs) : (\A k \in 1 .. n : Tool(msgs[k])) => n <= Talk!LeadingTools(msgs)
<1>. DEFINE S == {n \in 0 .. Len(msgs) : \A k \in 1 .. n : Talk!IsTool(msgs[k])}
            x == Largest(S)
<1>1. Len(msgs) \in Nat
  BY Elements
<1>2. S \in SUBSET Nat /\ IsFiniteSet(S) /\ 0 \in S
  <2>1. IsFiniteSet(0 .. Len(msgs)) /\ S \in SUBSET (0 .. Len(msgs))
    BY <1>1, FS_Interval
  <2>. QED BY <1>1, <2>1, FS_Subset
<1>3. x \in S /\ \A y \in S : y <= x
  <2>. HIDE DEF S
  <2>. QED BY <1>2, Extremes
<1>4. Talk!LeadingTools(msgs) = x
  BY SameOps DEF Talk!LeadingTools
<1>5. x \in 0 .. Len(msgs) /\ \A k \in 1 .. x : Tool(msgs[k])
  BY <1>3, Same
<1>6. ASSUME NEW n \in 0 .. Len(msgs), \A k \in 1 .. n : Tool(msgs[k]) PROVE n <= x
  <2>1. n \in S
    BY <1>6, Same
  <2>. QED BY <1>3, <2>1
<1>7. ASSUME x < Len(msgs), Tool(msgs[x + 1]) PROVE FALSE
  <2>. HIDE DEF x
  <2>1. x + 1 \in 0 .. Len(msgs) /\ \A k \in 1 .. x + 1 : k = x + 1 \/ k \in 1 .. x
    BY <1>1, <1>5, <1>7
  <2>2. \A k \in 1 .. x + 1 : Tool(msgs[k])
    BY <1>5, <1>7, <2>1
  <2>. QED BY <1>1, <1>5, <1>6, <2>1, <2>2
<1>. HIDE DEF x
<1>. QED BY <1>4, <1>5, <1>6, <1>7

(* The cap on the history leaves the end of a transcript.                  *)
LEMMA CapCuts ==
    ASSUME NEW msgs \in Seq(Messages)
    PROVE  \E n \in 0 .. Len(msgs) : /\ Talk!Capped(msgs) = Talk!After(msgs, n) /\ Len(msgs) - n <= MaxHistory
                                     /\ Len(msgs) <= MaxHistory => n = 0
<1>1. Len(msgs) \in Nat /\ MaxHistory \in Nat
  BY Elements, TranscriptAssumption
<1>2. CASE Len(msgs) > MaxHistory
  BY <1>1, <1>2 DEF Talk!Capped
<1>3. CASE ~(Len(msgs) > MaxHistory)
  <2>1. Talk!After(msgs, 0) = msgs
    BY SubSeqFull DEF Talk!After
  <2>. QED BY <1>1, <1>3, <2>1 DEF Talk!Capped
<1>. QED BY <1>2, <1>3

(* trimHistory leaves the end of a transcript, from before no result.      *)
LEMMA TrimCuts ==
    ASSUME NEW msgs \in Seq(Messages)
    PROVE  \E n \in 0 .. Len(msgs) :
             /\ Talk!trimHistory(msgs) = Talk!After(msgs, n)
             /\ n < Len(msgs) => ~Tool(msgs[n + 1])
             /\ Len(msgs) - n <= MaxHistory
<1>1. Len(msgs) \in Nat
  BY Elements
<1>2. PICK n \in 0 .. Len(msgs) : Talk!Capped(msgs) = Talk!After(msgs, n) /\ Len(msgs) - n <= MaxHistory
  BY CapCuts
<1>. DEFINE t == Talk!After(msgs, n)
            k == Talk!LeadingTools(t)
<1>3. t \in Seq(Messages) /\ Len(t) = Len(msgs) - n /\ \A i \in 1 .. Len(msgs) - n : t[i] = msgs[n + i]
  BY Rest
<1>4. k \in 0 .. Len(t) /\ (k < Len(t) => ~Tool(t[k + 1]))
  BY <1>3, Leading
<1>. HIDE DEF k
<1>5. k \in 0 .. Len(msgs) - n /\ n + k \in 0 .. Len(msgs) /\ Len(msgs) - (n + k) <= MaxHistory
  BY <1>1, <1>2, <1>3, <1>4, TranscriptAssumption
<1>6. Talk!trimHistory(msgs) = Talk!After(msgs, n + k)
  BY <1>2, <1>5, RestOfRest DEF Talk!trimHistory, k
<1>7. n + k < Len(msgs) => ~Tool(msgs[n + k + 1])
  <2>1. n + k < Len(msgs) => k < Len(t) /\ k + 1 \in 1 .. Len(msgs) - n /\ n + (k + 1) = n + k + 1
    BY <1>1, <1>3, <1>4
  <2>. QED BY <1>3, <1>4, <2>1
<1>. QED BY <1>5, <1>6, <1>7

(* trimHistory keeps a transcript in order and within the cap.             *)
LEMMA TrimKeeps ==
    ASSUME NEW msgs, Partial(msgs)
    PROVE  /\ Partial(Talk!trimHistory(msgs)) /\ Len(Talk!trimHistory(msgs)) <= MaxHistory
           /\ Complete(msgs) => Complete(Talk!trimHistory(msgs))
           /\ NoSummary(msgs) => NoSummary(Talk!trimHistory(msgs))
           /\ SummaryFirst(msgs) => SummaryFirst(Talk!trimHistory(msgs))
<1>1. PICK n \in 0 .. Len(msgs) : /\ Talk!trimHistory(msgs) = Talk!After(msgs, n)
                                  /\ n < Len(msgs) => ~Tool(msgs[n + 1])
                                  /\ Len(msgs) - n <= MaxHistory
  BY TrimCuts DEF Partial
<1>. QED BY <1>1, Cut

(* The messages of two transcripts, one behind the other.                  *)
LEMMA Joined ==
    ASSUME NEW a \in Seq(Messages), NEW b \in Seq(Messages)
    PROVE  /\ a \o b \in Seq(Messages) /\ Len(a \o b) = Len(a) + Len(b)
           /\ \A i \in 1 .. Len(a) : (a \o b)[i] = a[i]
           /\ \A j \in 1 .. Len(b) : (a \o b)[Len(a) + j] = b[j]
           /\ \A i \in 1 .. Len(a) + Len(b) : i \in 1 .. Len(a) \/ \E j \in 1 .. Len(b) : i = Len(a) + j
<1>1. Len(a) \in Nat /\ Len(b) \in Nat
  BY Elements
<1>2. /\ a \o b \in Seq(Messages) /\ Len(a \o b) = Len(a) + Len(b)
      /\ \A i \in 1 .. Len(a) + Len(b) : (a \o b)[i] = IF i <= Len(a) THEN a[i] ELSE b[i - Len(a)]
  BY ConcatProperties
<1>3. ASSUME NEW j \in 1 .. Len(b) PROVE (a \o b)[Len(a) + j] = b[j]
  <2>1. Len(a) + j \in 1 .. Len(a) + Len(b) /\ ~(Len(a) + j <= Len(a)) /\ Len(a) + j - Len(a) = j
    BY <1>1
  <2>. QED BY <1>2, <2>1
<1>4. \A i \in 1 .. Len(a) : i \in 1 .. Len(a) + Len(b) /\ i <= Len(a)
  BY <1>1
<1>5. ASSUME NEW i \in 1 .. Len(a) + Len(b), i \notin 1 .. Len(a) PROVE \E j \in 1 .. Len(b) : i = Len(a) + j
  <2>1. i - Len(a) \in 1 .. Len(b) /\ i = Len(a) + (i - Len(a))
    BY <1>1, <1>5
  <2>. QED BY <2>1
<1>. QED BY <1>2, <1>3, <1>4, <1>5

(* A transcript that asks nothing more and one that follows it.            *)
LEMMA Join ==
    ASSUME NEW a, Linked(a), NEW b, Partial(b)
    PROVE  /\ Partial(a \o b) /\ Len(a \o b) = Len(a) + Len(b)
           /\ Complete(b) => Linked(a \o b)
           /\ NoSummary(a) /\ NoSummary(b) => NoSummary(a \o b)
           /\ SummaryFirst(a) /\ NoSummary(b) => SummaryFirst(a \o b)
<1>. DEFINE c == a \o b
            n == Len(a)
            l == Len(b)
<1>0. /\ a \in Seq(Messages) /\ n \in Nat /\ Owned(a) /\ InPlace(a) /\ Complete(a)
      /\ b \in Seq(Messages) /\ l \in Nat /\ Owned(b) /\ InPlace(b)
  BY Elements DEF Partial, Linked
<1>1. /\ c \in Seq(Messages) /\ Len(c) = n + l
      /\ \A i \in 1 .. n : c[i] = a[i] /\ \A j \in 1 .. l : c[n + j] = b[j]
      /\ \A i \in 1 .. n + l : i \in 1 .. n \/ \E j \in 1 .. l : i = n + j
  <2>1. /\ c \in Seq(Messages) /\ Len(c) = n + l
        /\ \A i \in 1 .. n : c[i] = a[i]
        /\ \A j \in 1 .. l : c[n + j] = b[j]
        /\ \A i \in 1 .. n + l : i \in 1 .. n \/ \E j \in 1 .. l : i = n + j
    BY <1>0, Joined
  <2>. QED BY <2>1
<1>b. \A j \in 1 .. l : c[n + j] = b[j]
  BY <1>0, Joined
<1>. HIDE DEF c
<1>2. Owned(c)
  <2>. SUFFICES ASSUME NEW i \in 1 .. n + l, Tool(c[i])
                PROVE  c[i].call \in 1 .. i - 1 /\ Asks(c[i - c[i].call]) /\ c[i].call <= c[i - c[i].call].calls
    BY <1>1 DEF Owned
  <2>1. CASE i \in 1 .. n
    <3>1. c[i] = a[i] /\ a[i].call \in 1 .. i - 1 /\ i - a[i].call \in 1 .. n
      BY <1>0, <1>1, <2>1 DEF Owned
    <3>. QED BY <1>0, <1>1, <2>1, <3>1 DEF Owned
  <2>2. CASE \E j \in 1 .. l : i = n + j
    <3>1. PICK j \in 1 .. l : i = n + j
      BY <2>2
    <3>2. PICK k \in 1 .. j - 1 : c[i] = b[j] /\ k = b[j].call /\ Asks(b[j - k]) /\ k <= b[j - k].calls
      BY <1>0, <1>b, <3>1 DEF Owned
    <3>3. k \in 1 .. i - 1 /\ i - k = n + (j - k) /\ j - k \in 1 .. l
      BY <1>0, <3>1
    <3>4. c[i - k] = b[j - k]
      BY <1>b, <3>3
    <3>. QED BY <3>2, <3>3, <3>4
  <2>. QED BY <1>1, <2>1, <2>2
<1>3. InPlace(c)
  <2>. SUFFICES ASSUME NEW i \in 1 .. n + l, NEW k \in 1 .. MaxCalls, Asks(c[i]), k <= c[i].calls, i + k <= n + l
                PROVE  Tool(c[i + k]) /\ c[i + k].call = k
    BY <1>1 DEF InPlace
  <2>1. CASE i \in 1 .. n
    <3>1. c[i] = a[i] /\ i + a[i].calls <= n /\ a[i].calls \in Nat
      BY <1>0, <1>1, <2>1, Elements DEF Complete
    <3>2. i + k \in 1 .. n /\ i + k <= n
      BY <1>0, <2>1, <3>1, TranscriptAssumption
    <3>3. c[i + k] = a[i + k]
      BY <1>1, <3>2
    <3>. QED BY <1>0, <2>1, <3>1, <3>2, <3>3 DEF InPlace
  <2>2. CASE \E j \in 1 .. l : i = n + j
    <3>1. PICK j \in 1 .. l : i = n + j
      BY <2>2
    <3>2. c[i] = b[j]
      BY <1>b, <3>1
    <3>3. j + k \in 1 .. l /\ j + k <= l /\ i + k = n + (j + k)
      BY <1>0, <3>1, TranscriptAssumption
    <3>4. c[i + k] = b[j + k]
      BY <1>b, <3>3
    <3>. QED BY <1>0, <3>2, <3>3, <3>4 DEF InPlace
  <2>. QED BY <1>1, <2>1, <2>2
<1>4. Complete(b) => Complete(c)
  <2>. SUFFICES ASSUME Complete(b), NEW i \in 1 .. n + l, Asks(c[i]) PROVE i + c[i].calls <= n + l
    BY <1>1 DEF Complete
  <2>1. CASE i \in 1 .. n
    <3>1. c[i] = a[i] /\ i + a[i].calls <= n /\ a[i].calls \in Nat
      BY <1>0, <1>1, <2>1, Elements DEF Complete
    <3>. QED BY <1>0, <3>1
  <2>2. CASE \E j \in 1 .. l : i = n + j
    <3>1. PICK j \in 1 .. l : i = n + j
      BY <2>2
    <3>2. c[i] = b[j] /\ j + b[j].calls <= l /\ b[j].calls \in Nat
      BY <1>0, <1>b, <3>1, Elements DEF Complete
    <3>. QED BY <1>0, <3>1, <3>2
  <2>. QED BY <1>1, <2>1, <2>2
<1>5. NoSummary(b) => \A j \in 1 .. l : c[n + j].role # "system"
  BY <1>b DEF NoSummary
<1>6. NoSummary(a) => \A i \in 1 .. n : c[i].role # "system"
  BY <1>1 DEF NoSummary
<1>7. SummaryFirst(a) => \A i \in 1 .. n : i >= 2 => c[i].role # "system"
  BY <1>1 DEF SummaryFirst
<1>8. NoSummary(a) /\ NoSummary(b) => NoSummary(c)
  BY <1>1, <1>5, <1>6 DEF NoSummary
<1>9. SummaryFirst(a) /\ NoSummary(b) => SummaryFirst(c)
  <2>. SUFFICES ASSUME SummaryFirst(a), NoSummary(b), NEW i \in 2 .. n + l PROVE c[i].role # "system"
    BY <1>1 DEF SummaryFirst
  <2>1. i \in 1 .. n + l /\ i >= 2
    OBVIOUS
  <2>. QED BY <1>1, <1>5, <1>7, <2>1
<1>. QED BY <1>1, <1>2, <1>3, <1>4, <1>8, <1>9 DEF Partial, Linked, c

(* A message of its own: a prompt, a summary, an answer.                   *)
LEMMA Single ==
    ASSUME NEW m \in Messages, ~Tool(m)
    PROVE  /\ Partial(<<m>>) /\ Len(<<m>>) = 1 /\ SummaryFirst(<<m>>)
           /\ ~Asks(m) => Linked(<<m>>)
           /\ m.role # "system" => NoSummary(<<m>>)
<1>. DEFINE s == <<m>>
<1>1. s \in Seq(Messages) /\ Len(s) = 1 /\ s[1] = m
  OBVIOUS
<1>. HIDE DEF s
<1>2. \A i \in 1 .. Len(s) : s[i] = m
  BY <1>1
<1>3. Owned(s)
  BY <1>2 DEF Owned
<1>4. InPlace(s)
  <2>1. \A i \in 1 .. Len(s), k \in 1 .. MaxCalls : ~(i + k <= Len(s))
    BY <1>1, TranscriptAssumption
  <2>. QED BY <2>1 DEF InPlace
<1>5. ~Asks(m) => Complete(s)
  BY <1>2 DEF Complete
<1>6. SummaryFirst(s)
  BY <1>1 DEF SummaryFirst
<1>7. m.role # "system" => NoSummary(s)
  BY <1>2 DEF NoSummary
<1>. QED BY <1>1, <1>3, <1>4, <1>5, <1>6, <1>7 DEF Partial, Linked, s

(* The empty transcript is in order.                                       *)
LEMMA Nothing == Linked(<<>>) /\ NoSummary(<<>>) /\ SummaryFirst(<<>>) /\ <<>> \in Seq(Messages)
<1>1. <<>> \in Seq(Messages) /\ Len(<<>>) = 0
  OBVIOUS
<1>2. 1 .. Len(<<>>) = {} /\ 2 .. Len(<<>>) = {}
  BY <1>1
<1>. QED BY <1>1, <1>2 DEF Linked, Partial, Owned, InPlace, Complete, NoSummary, SummaryFirst

(* The last n messages of b are those of a.                                *)
SameEnd(a, b, n) ==
    /\ n <= Len(a) /\ n <= Len(b)
    /\ \A k \in 0 .. n - 1 : b[Len(b) - k] = a[Len(a) - k]

(* Every message of b but a note stands for one of a that is at least as   *)
(* large.                                                                  *)
Shrinks(a, b) ==
    \E g \in [1 .. Len(b) -> 1 .. Len(a)] :
      /\ \A i, j \in 1 .. Len(b) : g[i] = g[j] => i = j
      /\ \A i \in 1 .. Len(b) : b[i] # Talk!Note => b[i].size <= a[g[i]].size

(* Where a compaction splits a transcript: before no result.               *)
LEMMA Split ==
    ASSUME NEW msgs \in Seq(Messages), NEW keep \in Nat, keep >= 1, NEW rounds,
           NEW n, n = Talk!splitForCompression(msgs, keep, rounds)
    PROVE  /\ n \in 0 .. Len(msgs) /\ (n > 0 => n < Len(msgs) /\ ~Tool(msgs[n + 1]))
           /\ \A i \in Talk!toolRounds(msgs) : Talk!Later(Talk!toolRounds(msgs), i) < rounds => n <= i - 1
<1>. DEFINE L == Len(msgs)
            start == L - Smallest({keep, L})
            B == {k \in 0 .. start : k = 0 \/ ~Talk!IsTool(msgs[k + 1])}
            back == Largest(B)
            R == {i \in {j \in Talk!toolRounds(msgs) : Talk!Later(Talk!toolRounds(msgs), j) < rounds} : TRUE}
            F == {back} \cup {i - 1 : i \in R}
<1>1. L \in Nat /\ DOMAIN msgs = 1 .. L
  BY Elements
<1>2. start \in 0 .. L /\ (L > 0 => start < L)
  <2>. DEFINE T == {keep, L}
  <2>1. T \in SUBSET Nat /\ IsFiniteSet(T) /\ T # {}
    <3>0. keep + L \in Nat /\ T \in SUBSET (0 .. keep + L)
      BY <1>1
    <3>1. IsFiniteSet(0 .. keep + L) /\ T \in SUBSET (0 .. keep + L)
      BY <3>0, FS_Interval
    <3>. QED BY <1>1, <3>1, FS_Subset
  <2>2. Smallest(T) \in T /\ \A y \in T : Smallest(T) <= y
    BY <2>1, Extremes
  <2>3. Smallest(T) \in {keep, L} /\ Smallest(T) <= L
    BY <2>2
  <2>. QED BY <1>1, <2>3
<1>. HIDE DEF start
<1>3. back \in B
  <2>1. B \in SUBSET (0 .. start) /\ 0 \in B /\ IsFiniteSet(0 .. start)
    BY <1>2, FS_Interval
  <2>2. IsFiniteSet(B) /\ B # {}
    BY <2>1, FS_Subset
  <2>3. B \in SUBSET Nat
    OBVIOUS
  <2>. HIDE DEF B
  <2>. QED BY <2>2, <2>3, Extremes
<1>4. back \in 0 .. L /\ (back > 0 => back < L /\ ~Tool(msgs[back + 1]))
  BY <1>1, <1>2, <1>3, Same
<1>. HIDE DEF back
<1>5. ASSUME NEW i \in R PROVE i - 1 \in 0 .. L /\ i - 1 < L /\ ~Tool(msgs[(i - 1) + 1])
  <2>1. i \in 1 .. L /\ Asks(msgs[i])
    BY <1>1, Same DEF Talk!toolRounds
  <2>2. (i - 1) + 1 = i /\ i - 1 \in 0 .. L /\ i - 1 < L
    BY <1>1, <2>1
  <2>. QED BY <2>1, <2>2 DEF Asks, Tool
<1>a. \A i \in Talk!toolRounds(msgs) : Talk!Later(Talk!toolRounds(msgs), i) < rounds => i - 1 \in F
  OBVIOUS
<1>. HIDE DEF R
<1>6. ASSUME NEW k \in F PROVE k \in 0 .. L /\ (k > 0 => k < L /\ ~Tool(msgs[k + 1]))
  BY <1>4, <1>5
<1>7. Smallest(F) \in F /\ \A k \in F : Smallest(F) <= k
  <2>0. back \in F
    OBVIOUS
  <2>. HIDE DEF F
  <2>1. F \in SUBSET (0 .. L) /\ F # {} /\ IsFiniteSet(0 .. L)
    <3>1. IsFiniteSet(0 .. L)
      BY <1>1, FS_Interval
    <3>. QED BY <1>6, <2>0, <3>1
  <2>2. F \in SUBSET Nat
    BY <2>1
  <2>3. IsFiniteSet(F)
    BY <2>1, FS_Subset
  <2>. QED BY <2>1, <2>2, <2>3, Extremes
<1>8. n = Smallest(F)
  BY SameOps DEF Talk!splitForCompression, start, back, R
<1>9. \A i \in Talk!toolRounds(msgs) : Talk!Later(Talk!toolRounds(msgs), i) < rounds => n <= i - 1
  <2>. HIDE DEF F
  <2>. QED BY <1>a, <1>7, <1>8
<1>. QED BY <1>6, <1>7, <1>8, <1>9

(* A summary in place of the front.                                        *)
LEMMA Compacting ==
    ASSUME NEW msgs, Linked(msgs), SummaryFirst(msgs), NEW n \in 1 .. Len(msgs), n < Len(msgs) => ~Tool(msgs[n + 1])
    PROVE  /\ Linked(Talk!Compacted(msgs, n)) /\ SummaryFirst(Talk!Compacted(msgs, n))
           /\ Len(Talk!Compacted(msgs, n)) <= Len(msgs)
<1>. DEFINE s == Talk!SummaryMessage
            t == Talk!After(msgs, n)
<1>1. s \in Messages /\ ~Tool(s) /\ ~Asks(s)
  BY TranscriptAssumption DEF Talk!SummaryMessage, Talk!Message, Messages, Tool, Asks
<1>2. Linked(<<s>>) /\ SummaryFirst(<<s>>) /\ Len(<<s>>) = 1
  BY <1>1, Single
<1>3. Len(msgs) \in Nat /\ n \in 0 .. Len(msgs) /\ n > 0
  BY Elements DEF Linked, Partial
<1>4. Partial(t) /\ Complete(t) /\ NoSummary(t) /\ Len(t) = Len(msgs) - n
  BY <1>3, Cut DEF Linked
<1>. HIDE DEF s, t
<1>5. Linked(<<s>> \o t) /\ SummaryFirst(<<s>> \o t) /\ Len(<<s>> \o t) = 1 + (Len(msgs) - n)
  BY <1>2, <1>4, Join
<1>. QED BY <1>3, <1>5 DEF Talk!Compacted, s, t

(* Older results are dropped together with the calls they answer.          *)
LEMMA Dropping ==
    ASSUME NEW msgs, Linked(msgs), SummaryFirst(msgs), NEW rounds
    PROVE  /\ Linked(Talk!dropOldToolResults(msgs, rounds)) /\ SummaryFirst(Talk!dropOldToolResults(msgs, rounds))
           /\ Len(Talk!dropOldToolResults(msgs, rounds)) <= Len(msgs)
           /\ Shrinks(msgs, Talk!dropOldToolResults(msgs, rounds))
           /\ \A x \in 1 .. Len(msgs) :
                (\A i \in Talk!toolRounds(msgs) :
                   Talk!Later(Talk!toolRounds(msgs), i) >= rounds => i + msgs[i].calls < x)
                  => SameEnd(msgs, Talk!dropOldToolResults(msgs, rounds), Len(msgs) - x + 1)
<1>. DEFINE L == Len(msgs)
            old == {i \in Talk!toolRounds(msgs) : Talk!Later(Talk!toolRounds(msgs), i) >= rounds}
            gone == UNION {i + 1 .. i + msgs[i].calls : i \in old}
            K == DOMAIN msgs \ gone
            index == Ascending(K)
            r == [n \in DOMAIN index |-> IF index[n] \in old THEN Talk!Note ELSE msgs[index[n]]]
            C == Cardinality(K)
<1>0. /\ msgs \in Seq(Messages) /\ L \in Nat /\ Owned(msgs) /\ InPlace(msgs) /\ Complete(msgs)
      /\ DOMAIN msgs = 1 .. L
  BY Elements DEF Linked, Partial
<1>b. PICK N \in Nat : N = Len(msgs)
  <2>1. L \in Nat
    BY <1>0, Zenon
  <2>. QED BY <2>1, Zenon
<1>1. Talk!dropOldToolResults(msgs, rounds) = r
  BY SameOps DEF Talk!dropOldToolResults
<1>2. Talk!Note \in Messages /\ ~Tool(Talk!Note) /\ ~Asks(Talk!Note) /\ Talk!Note.role # "system"
  BY TranscriptAssumption DEF Talk!Note, Talk!Answer, Talk!Message, Messages, Tool, Asks
<1>3. ASSUME NEW i \in old PROVE i \in 1 .. L /\ Asks(msgs[i])
  BY <1>0, Same DEF Talk!toolRounds
<1>a. old = {i \in Talk!toolRounds(msgs) : Talk!Later(Talk!toolRounds(msgs), i) >= rounds}
  OBVIOUS
<1>. HIDE DEF old
<1>4. ASSUME NEW j \in gone PROVE \E i \in old, d \in 1 .. MaxCalls : /\ d <= msgs[i].calls /\ j = i + d
                                                                     /\ j \in 1 .. L
                                                                     /\ Tool(msgs[j]) /\ msgs[j].call = d
  <2>1. PICK i \in old : j \in i + 1 .. i + msgs[i].calls
    OBVIOUS
  <2>2. i \in 1 .. L /\ Asks(msgs[i])
    BY <1>3
  <2>3. msgs[i].calls \in Nat /\ msgs[i].calls <= MaxCalls /\ i + msgs[i].calls <= L /\ i \in Nat /\ MaxCalls \in Nat
    BY <1>0, <2>2, Elements, TranscriptAssumption DEF Complete
  <2>4. PICK d \in 1 .. MaxCalls : j = i + d /\ d <= msgs[i].calls /\ i + d <= L /\ j \in 1 .. L
    <3>1. PICK w \in Nat : w = msgs[i].calls
      BY <2>3
    <3>2. w <= MaxCalls /\ i + w <= N /\ i \in Nat /\ MaxCalls \in Nat
      BY <1>b, <2>3, <3>1
    <3>3. j \in i + 1 .. i + w
      BY <2>1, <3>1
    <3>4. j - i \in 1 .. MaxCalls /\ j = i + (j - i) /\ j - i <= w /\ j <= N /\ j \in 1 .. N
      BY <3>2, <3>3
    <3>. QED BY <1>b, <3>1, <3>4
  <2>5. Tool(msgs[i + d]) /\ msgs[i + d].call = d
    BY <1>0, <2>2, <2>4 DEF InPlace
  <2>. QED BY <2>4, <2>5
<1>. HIDE DEF gone
<1>5. K \in SUBSET Nat /\ IsFiniteSet(K) /\ K \in SUBSET (1 .. L) /\ C \in Nat /\ C <= L
  <2>1. K \in SUBSET (1 .. L) /\ IsFiniteSet(1 .. L) /\ Cardinality(1 .. L) = L
    <3>1. K \in SUBSET (1 .. L)
      BY <1>0
    <3>2. 1 \in Int /\ N \in Int /\ (IF 1 > N THEN 0 ELSE N - 1 + 1) = N
      BY <1>b
    <3>3. IsFiniteSet(1 .. N) /\ Cardinality(1 .. N) = (IF 1 > N THEN 0 ELSE N - 1 + 1)
      BY <3>2, FS_Interval
    <3>. QED BY <1>b, <3>1, <3>2, <3>3
  <2>2. IsFiniteSet(K) /\ C <= L
    BY <2>1, FS_Subset
  <2>. QED BY <2>1, <2>2, FS_CardinalityType
<1>6. /\ index \in [1 .. C -> K] /\ \A n \in 1 .. C : Rank(K, index[n]) = n
      /\ \A k \in K : Rank(K, k) \in 1 .. C /\ index[Rank(K, k)] = k
      /\ \A m, n \in 1 .. C : m < n => index[m] < index[n]
  BY <1>5, Ascends
(* What belongs together is kept or dropped together.                      *)
<1>7. ASSUME NEW k \in K, Asks(msgs[k]), k \notin old, NEW c \in Nat, c <= msgs[k].calls
      PROVE  k + 1 .. k + c \subseteq K
  <2>0. k \in 1 .. L
    BY <1>5
  <2>1. msgs[k].calls \in 0 .. MaxCalls /\ k + msgs[k].calls <= L
    BY <1>0, <1>7, <2>0, Elements DEF Complete
  <2>. SUFFICES ASSUME NEW j \in k + 1 .. k + c PROVE j \in K
    OBVIOUS
  <2>2. PICK d \in 1 .. MaxCalls : j = k + d /\ d <= msgs[k].calls /\ k + d <= L /\ j \in 1 .. L
    <3>1. k \in Nat /\ msgs[k].calls \in Nat /\ msgs[k].calls <= MaxCalls /\ MaxCalls \in Nat
      BY <2>0, <2>1, TranscriptAssumption
    <3>2. j - k \in 1 .. MaxCalls /\ j = k + (j - k) /\ j - k <= msgs[k].calls /\ j <= L /\ j \in 1 .. L
      BY <1>0, <1>7, <2>0, <2>1, <3>1
    <3>. QED BY <3>2
  <2>3. Tool(msgs[j]) /\ msgs[j].call = d
    BY <1>0, <1>7, <2>0, <2>2 DEF InPlace
  <2>4. j \notin gone
    <3>1. SUFFICES ASSUME j \in gone PROVE FALSE
      OBVIOUS
    <3>2. PICK i \in old : j = i + d
      BY <1>4, <2>3, <3>1
    <3>3. i \in Int /\ k \in Int
      BY <1>3, <2>0
    <3>4. i = k
      BY <2>2, <3>2, <3>3
    <3>. QED BY <1>7, <3>4
  <2>. QED BY <1>0, <2>2, <2>4
<1>8. ASSUME NEW k \in K, Tool(msgs[k])
      PROVE  \E c \in 1 .. k - 1 : /\ c = msgs[k].call /\ k - c \in K /\ k - c \notin old /\ Asks(msgs[k - c])
                                   /\ c <= msgs[k - c].calls
  <2>0. k \in 1 .. L
    BY <1>5
  <2>1. PICK c \in 1 .. k - 1 : c = msgs[k].call /\ Asks(msgs[k - c]) /\ c <= msgs[k - c].calls
    BY <1>0, <1>8, <2>0 DEF Owned
  <2>2. PICK o \in 1 .. L : o = k - c /\ k = o + c
    <3>1. k - c \in 1 .. L /\ k = (k - c) + c
      BY <1>0, <2>0
    <3>. QED BY <3>1
  <2>3. o \notin gone
    <3>1. ~Tool(msgs[o])
      BY <2>1, <2>2 DEF Asks, Tool
    <3>. QED BY <1>4, <3>1
  <2>4. o \notin old
    <3>1. SUFFICES ASSUME o \in old PROVE FALSE
      OBVIOUS
    <3>2. msgs[o].calls \in Nat
      BY <1>0, <2>2, Elements
    <3>3. k \in o + 1 .. o + msgs[o].calls
      <4>1. PICK w \in Nat : w = msgs[o].calls
        BY <3>2
      <4>2. c <= w /\ k = o + c
        BY <2>1, <2>2, <4>1
      <4>3. k \in Nat /\ c \in 1 .. k - 1
        BY <1>5
      <4>4. c \in Nat /\ c >= 1 /\ o \in Nat
        BY <1>b, <2>2, <4>3
      <4>5. o + c \in o + 1 .. o + w
        BY <4>2, <4>4
      <4>. QED BY <4>1, <4>2, <4>5
    <3>4. k \in gone
      BY <3>1, <3>3 DEF gone
    <3>. QED BY <3>4
  <2>. QED BY <1>0, <2>1, <2>2, <2>3, <2>4
<1>9. ASSUME NEW k \in K, NEW c \in Nat, k + 1 .. k + c \subseteq K
      PROVE  Rank(K, k) + c \in 1 .. C /\ index[Rank(K, k) + c] = k + c /\ k + c \in K
  <2>0. k \in Nat
    BY <1>5
  <2>1. k + c \in K
    <3>1. CASE c = 0
      BY <2>0, <3>1
    <3>2. CASE c # 0
      BY <1>9, <2>0, <3>2
    <3>. QED BY <3>1, <3>2
  <2>. HIDE DEF K
  <2>2. Rank(K, k + c) = Rank(K, k) + c
    BY <1>5, <1>9, Neighbours
  <2>. QED BY <1>6, <2>1, <2>2
<1>. HIDE DEF K, C, index
<1>10. /\ r \in Seq(Messages) /\ Len(r) = C
       /\ \A n \in 1 .. C : r[n] = IF index[n] \in old THEN Talk!Note ELSE msgs[index[n]]
  <2>1. ASSUME NEW n \in 1 .. C PROVE (IF index[n] \in old THEN Talk!Note ELSE msgs[index[n]]) \in Messages
    BY <1>0, <1>2, <1>5, <1>6, Elements
  <2>2. DOMAIN index = 1 .. C
    BY <1>6
  <2>3. r \in [1 .. C -> Messages]
    BY <2>1, <2>2
  <2>. QED BY <1>5, <2>2, <2>3, SeqDef
<1>. HIDE DEF r
<1>11. ASSUME NEW n \in 1 .. C, Tool(r[n]) \/ Asks(r[n])
       PROVE  index[n] \in K /\ index[n] \notin old /\ r[n] = msgs[index[n]] /\ Rank(K, index[n]) = n
  BY <1>2, <1>6, <1>10, <1>11
<1>12. Owned(r)
  <2>. SUFFICES ASSUME NEW n \in 1 .. C, Tool(r[n])
                PROVE  r[n].call \in 1 .. n - 1 /\ Asks(r[n - r[n].call]) /\ r[n].call <= r[n - r[n].call].calls
    BY <1>10 DEF Owned
  <2>1. PICK k \in K : k = index[n] /\ r[n] = msgs[k] /\ Rank(K, k) = n
    BY <1>11
  <2>2. PICK c \in 1 .. k - 1 : /\ c = msgs[k].call /\ k - c \in K /\ k - c \notin old /\ Asks(msgs[k - c])
                                /\ c <= msgs[k - c].calls
    BY <1>8, <2>1
  <2>3. PICK o \in K : o = k - c
    BY <2>2
  <2>4. c \in Nat /\ c >= 1 /\ o + c = k
    <3>1. k \in Nat
      BY <1>5
    <3>2. c \in Nat /\ c >= 1 /\ (k - c) + c = k
      BY <3>1
    <3>. QED BY <2>3, <3>2
  <2>5. o + 1 .. o + c \subseteq K
    BY <1>7, <2>2, <2>3, <2>4
  <2>6. index[Rank(K, o) + c] = k /\ Rank(K, o) \in 1 .. C /\ index[Rank(K, o)] = o /\ Rank(K, o) + c \in 1 .. C
    BY <1>6, <1>9, <2>4, <2>5
  <2>7. Rank(K, o) + c = n
    BY <1>6, <2>1, <2>6
  <2>8. n - c = Rank(K, o) /\ c \in 1 .. n - 1 /\ n - c \in 1 .. C
    BY <1>5, <2>4, <2>6, <2>7
  <2>9. r[n - c] = msgs[o]
    BY <1>10, <2>2, <2>3, <2>6, <2>8
  <2>. QED BY <2>1, <2>2, <2>3, <2>8, <2>9
<1>13. ASSUME NEW n \in 1 .. C, Asks(r[n]), NEW c \in Nat, c <= r[n].calls
       PROVE  n + c \in 1 .. C /\ index[n + c] = index[n] + c /\ index[n] + c \in K /\ index[n] + c <= L
  <2>1. index[n] \in K /\ index[n] \notin old /\ r[n] = msgs[index[n]] /\ Rank(K, index[n]) = n
    BY <1>11, <1>13
  <2>2. index[n] + 1 .. index[n] + c \subseteq K
    BY <1>7, <1>13, <2>1
  <2>3. n + c \in 1 .. C /\ index[n + c] = index[n] + c /\ index[n] + c \in K
    BY <1>9, <2>1, <2>2
  <2>4. index[n] + c \in 1 .. L
    BY <1>5, <2>3
  <2>. QED BY <1>0, <2>3, <2>4
<1>14. InPlace(r)
  <2>. SUFFICES ASSUME NEW n \in 1 .. C, NEW c \in 1 .. MaxCalls, Asks(r[n]), c <= r[n].calls, n + c <= C
                PROVE  Tool(r[n + c]) /\ r[n + c].call = c
    BY <1>10 DEF InPlace
  <2>1. index[n] \in K /\ r[n] = msgs[index[n]] /\ index[n] \in 1 .. L
    BY <1>5, <1>11
  <2>2. n + c \in 1 .. C /\ index[n + c] = index[n] + c /\ index[n] + c <= L
    BY <1>13
  <2>3. Tool(msgs[index[n] + c]) /\ msgs[index[n] + c].call = c
    BY <1>0, <2>1, <2>2 DEF InPlace
  <2>4. index[n + c] \notin old
    <3>1. ~Asks(msgs[index[n + c]])
      BY <2>2, <2>3 DEF Asks, Tool
    <3>. QED BY <1>3, <3>1
  <2>5. r[n + c] = msgs[index[n] + c]
    BY <1>10, <2>2, <2>4
  <2>. QED BY <2>3, <2>5
<1>15. Complete(r)
  <2>. SUFFICES ASSUME NEW n \in 1 .. C, Asks(r[n]) PROVE n + r[n].calls <= C
    BY <1>10 DEF Complete
  <2>1. r[n].calls \in Nat
    BY <1>10, Elements
  <2>2. n + r[n].calls \in 1 .. C
    BY <1>13, <2>1
  <2>. QED BY <2>2
<1>16. SummaryFirst(r)
  <2>. SUFFICES ASSUME NEW n \in 2 .. C PROVE r[n].role # "system"
    BY <1>10 DEF SummaryFirst
  <2>1. n \in 1 .. C /\ 1 \in 1 .. C /\ 1 < n
    BY <1>5
  <2>2. index[1] \in K /\ index[n] \in K /\ index[1] < index[n]
    BY <1>6, <2>1
  <2>3. index[1] \in 1 .. L /\ index[n] \in 1 .. L
    BY <1>5, <2>2
  <2>4. index[n] \in 2 .. L
    BY <1>0, <2>2, <2>3
  <2>. QED BY <1>2, <1>10, <2>1, <2>4 DEF SummaryFirst
<1>17. Shrinks(msgs, r)
  <2>1. index \in [1 .. Len(r) -> 1 .. L]
    BY <1>5, <1>6, <1>10
  <2>2. ASSUME NEW m \in 1 .. C, NEW n \in 1 .. C, index[m] = index[n] PROVE m = n
    <3>1. Rank(K, index[m]) = m /\ Rank(K, index[n]) = n
      BY <1>6
    <3>. QED BY <2>2, <3>1
  <2>3. ASSUME NEW n \in 1 .. C, r[n] # Talk!Note PROVE r[n].size <= msgs[index[n]].size
    <3>1. PICK i \in 1 .. L : i = index[n]
      BY <1>5, <1>6
    <3>2. msgs[i].size \in Nat
      BY <1>0, Weights
    <3>3. r[n] = msgs[i]
      BY <1>10, <2>3, <3>1
    <3>. QED BY <3>1, <3>2, <3>3
  <2>. QED BY <1>10, <2>1, <2>2, <2>3 DEF Shrinks
<1>18. ASSUME NEW x \in 1 .. L, \A i \in old : i + msgs[i].calls < x PROVE SameEnd(msgs, r, L - x + 1)
  <2>1. ASSUME NEW j \in x .. L PROVE j \in K /\ j \notin old
    <3>1. j \in 1 .. L
      BY <1>0
    <3>2. \A i \in old : i \in Nat /\ msgs[i].calls \in Nat /\ i + msgs[i].calls < j
      <4>1. ASSUME NEW i \in old PROVE i \in Nat /\ msgs[i].calls \in Nat /\ i + msgs[i].calls < j
        <5>1. i \in 1 .. L /\ msgs[i].calls \in Nat
          BY <1>0, <1>3, Elements
        <5>. QED BY <1>18, <5>1
      <4>. QED BY <4>1
    <3>3. j \notin gone
      <4>1. ASSUME j \in gone PROVE FALSE
        <5>1. PICK i \in old, d \in 1 .. MaxCalls : d <= msgs[i].calls /\ j = i + d
          BY <1>4, <4>1
        <5>2. d \in Nat
          BY TranscriptAssumption
        <5>. QED BY <3>2, <5>1, <5>2
      <4>. QED BY <4>1
    <3>4. j \notin old
      BY <3>1, <3>2
    <3>. QED BY <1>0, <3>1, <3>3, <3>4 DEF K
  <2>2. PICK p \in Nat : p = Rank(K, x) /\ 1 <= p
    <3>1. x \in K
      BY <1>0, <2>1
    <3>. QED BY <1>5, <1>6, <3>1
  <2>3. PICK y \in Nat : y = L - x /\ x + y = L
    <3>1. L - x \in Nat /\ x + (L - x) = L
      BY <1>0
    <3>. QED BY <3>1
  <2>4. ASSUME NEW c \in 0 .. y PROVE p + c \in 1 .. C /\ index[p + c] = x + c /\ x + c \notin old
    <3>1. x \in K /\ x + c \notin old
      BY <1>0, <2>1, <2>3
    <3>2. x + 1 .. x + c \subseteq K
      <4>1. \A j \in x + 1 .. x + c : j \in x .. L
        BY <1>0, <2>3
      <4>. QED BY <2>1, <4>1
    <3>. QED BY <1>9, <2>2, <3>1, <3>2
  <2>5. p + y = C
    <3>1. p + y \in 1 .. C /\ index[p + y] = L
      <4>1. y \in 0 .. y
        OBVIOUS
      <4>2. p + y \in 1 .. C /\ index[p + y] = x + y
        BY <2>4, <4>1
      <4>. QED BY <2>3, <4>2
    <3>2. C \in 1 .. C
      BY <1>5, <3>1
    <3>3. index[C] \in 1 .. L
      BY <1>5, <1>6, <3>2
    <3>4. p + y < C => index[p + y] < index[C]
      BY <1>6, <3>1, <3>2
    <3>5. ~(p + y < C)
      BY <1>0, <3>1, <3>3, <3>4
    <3>. QED BY <1>5, <3>1, <3>5
  <2>6. ASSUME NEW k \in 0 .. y PROVE r[C - k] = msgs[L - k]
    <3>1. y - k \in 0 .. y
      OBVIOUS
    <3>2. p + (y - k) = C - k
      BY <2>5
    <3>3. x + (y - k) = L - k
      BY <2>3
    <3>4. C - k \in 1 .. C /\ index[C - k] = L - k /\ L - k \notin old
      BY <2>4, <3>1, <3>2, <3>3
    <3>. QED BY <1>10, <3>4
  <2>7. L - x + 1 <= L /\ L - x + 1 <= C /\ (L - x + 1) - 1 = y
    BY <1>0, <1>5, <2>2, <2>3, <2>5
  <2>. QED BY <1>10, <2>6, <2>7 DEF SameEnd
<1>. QED BY <1>1, <1>a, <1>5, <1>10, <1>12, <1>14, <1>15, <1>16, <1>17, <1>18 DEF Linked, Partial

(* An answer that still waits for results.                                 *)
Waits(msgs, i) == i \in 1 .. Len(msgs) /\ Asks(msgs[i]) /\ i + msgs[i].calls > Len(msgs)

(* It is the last that asks for any.                                       *)
LEMMA LastOne ==
    ASSUME NEW msgs, Partial(msgs), NEW i, Waits(msgs, i)
    PROVE  /\ \A j \in i + 1 .. Len(msgs) : Tool(msgs[j]) /\ msgs[j].call = j - i
           /\ \A j \in 1 .. Len(msgs) : Asks(msgs[j]) => j <= i /\ (j # i => j + msgs[j].calls <= Len(msgs))
           /\ Talk!Max({j \in DOMAIN msgs : Talk!Calls(msgs[j])}) = i
<1>. DEFINE L == Len(msgs)
            A == {j \in DOMAIN msgs : Talk!Calls(msgs[j])}
<1>0. /\ msgs \in Seq(Messages) /\ L \in Nat /\ DOMAIN msgs = 1 .. L /\ Owned(msgs) /\ InPlace(msgs)
      /\ i \in 1 .. L /\ Asks(msgs[i]) /\ i + msgs[i].calls > L
      /\ \A j \in 1 .. L : msgs[j].calls \in Nat /\ msgs[j].calls <= MaxCalls
  BY Elements, TranscriptAssumption DEF Partial, Waits
<1>1. ASSUME NEW o \in 1 .. L, Asks(msgs[o]), NEW j \in o + 1 .. L, j <= o + msgs[o].calls
      PROVE  Tool(msgs[j]) /\ msgs[j].call = j - o
  <2>1. PICK k \in 1 .. MaxCalls : k = j - o /\ j = o + k /\ k <= msgs[o].calls /\ o + k <= L
    <3>1. msgs[o].calls \in Nat /\ msgs[o].calls <= MaxCalls
      BY <1>0
    <3>2. j - o \in 1 .. MaxCalls /\ j = o + (j - o) /\ j - o <= msgs[o].calls /\ j <= L
      BY <1>0, <1>1, <3>1, TranscriptAssumption
    <3>. QED BY <3>2
  <2>. QED BY <1>0, <1>1, <2>1 DEF InPlace
<1>2. \A j \in i + 1 .. L : Tool(msgs[j]) /\ msgs[j].call = j - i
  <2>1. \A j \in i + 1 .. L : j <= i + msgs[i].calls
    BY <1>0
  <2>. QED BY <1>0, <1>1, <2>1
<1>3. ASSUME NEW j \in 1 .. L, Asks(msgs[j]) PROVE j <= i
  <2>1. j > i => j \in i + 1 .. L
    BY <1>0
  <2>. QED BY <1>0, <1>2, <1>3, <2>1 DEF Asks, Tool
<1>4. ASSUME NEW j \in 1 .. L, Asks(msgs[j]), j # i PROVE j + msgs[j].calls <= L
  <2>1. SUFFICES ASSUME j + msgs[j].calls > L PROVE FALSE
    BY <1>0
  <2>2. j <= i
    BY <1>3, <1>4
  <2>3. i \in j + 1 .. L /\ i <= j + msgs[j].calls
    BY <1>0, <1>4, <2>1, <2>2
  <2>4. Tool(msgs[i])
    BY <1>1, <1>4, <2>3
  <2>. QED BY <1>0, <2>4 DEF Asks, Tool
<1>5. Largest(A) = i
  <2>1. A \in SUBSET (1 .. L) /\ i \in A /\ \A j \in A : j <= i
    BY <1>0, <1>3, Same
  <2>. HIDE DEF A
  <2>2. A \in SUBSET Nat /\ IsFiniteSet(A) /\ A # {}
    <3>1. IsFiniteSet(1 .. L)
      BY <1>0, FS_Interval
    <3>2. IsFiniteSet(A)
      BY <2>1, <3>1, FS_Subset
    <3>. QED BY <2>1, <3>2
  <2>3. Largest(A) \in A /\ i <= Largest(A)
    BY <2>1, <2>2, Extremes
  <2>4. Largest(A) \in Nat /\ Largest(A) <= i /\ i \in Nat
    BY <2>1, <2>2, <2>3
  <2>. QED BY <2>3, <2>4
<1>. QED BY <1>2, <1>3, <1>4, <1>5, SameOps

(* Results for it, in their order.                                         *)
LEMMA Filled ==
    ASSUME NEW msgs, Partial(msgs), NEW i, Waits(msgs, i),
           NEW e \in Seq(Messages), i + msgs[i].calls >= Len(msgs) + Len(e),
           \A n \in 1 .. Len(e) : Tool(e[n]) /\ e[n].call = Len(msgs) - i + n
    PROVE  /\ Partial(msgs \o e) /\ Len(msgs \o e) = Len(msgs) + Len(e)
           /\ (msgs \o e)[i] = msgs[i]
           /\ i + msgs[i].calls = Len(msgs) + Len(e) => Complete(msgs \o e)
           /\ NoSummary(msgs) => NoSummary(msgs \o e)
           /\ SummaryFirst(msgs) => SummaryFirst(msgs \o e)
<1>. DEFINE c == msgs \o e
            L == Len(msgs)
            l == Len(e)
<1>0. /\ msgs \in Seq(Messages) /\ L \in Nat /\ l \in Nat /\ Owned(msgs) /\ InPlace(msgs)
      /\ i \in 1 .. L /\ Asks(msgs[i]) /\ msgs[i].calls \in Nat
  BY Elements, TranscriptAssumption DEF Partial, Waits
<1>1. /\ c \in Seq(Messages) /\ Len(c) = L + l
      /\ \A j \in 1 .. L : c[j] = msgs[j]
      /\ \A n \in 1 .. l : c[L + n] = e[n]
      /\ \A j \in 1 .. L + l : j \in 1 .. L \/ \E n \in 1 .. l : j = L + n
  BY <1>0, Joined
<1>b. \A n \in 1 .. l : c[L + n] = e[n]
  BY <1>1
<1>c. ASSUME NEW n \in 1 .. l
      PROVE  Tool(c[L + n]) /\ ~Asks(c[L + n]) /\ c[L + n].role # "system" /\ c[L + n].call = L - i + n
  BY <1>b DEF Tool, Asks
<1>. HIDE DEF c
<1>2. Owned(c)
  <2>. SUFFICES ASSUME NEW j \in 1 .. L + l, Tool(c[j])
                PROVE  c[j].call \in 1 .. j - 1 /\ Asks(c[j - c[j].call]) /\ c[j].call <= c[j - c[j].call].calls
    BY <1>1 DEF Owned
  <2>1. CASE j \in 1 .. L
    <3>1. c[j] = msgs[j] /\ msgs[j].call \in 1 .. j - 1 /\ j - msgs[j].call \in 1 .. L
      BY <1>0, <1>1, <2>1 DEF Owned
    <3>. QED BY <1>0, <1>1, <2>1, <3>1 DEF Owned
  <2>2. CASE \E n \in 1 .. l : j = L + n
    <3>1. PICK n \in 1 .. l : j = L + n
      BY <2>2
    <3>2. c[j].call = L - i + n
      BY <1>c, <3>1
    <3>3. L - i + n \in 1 .. j - 1 /\ j - (L - i + n) = i /\ L - i + n <= msgs[i].calls
      BY <1>0, <3>1
    <3>4. c[i] = msgs[i]
      BY <1>0, <1>1
    <3>. QED BY <1>0, <3>2, <3>3, <3>4
  <2>. QED BY <1>1, <2>1, <2>2
<1>3. InPlace(c)
  <2>. SUFFICES ASSUME NEW j \in 1 .. L + l, NEW k \in 1 .. MaxCalls, Asks(c[j]), k <= c[j].calls, j + k <= L + l
                PROVE  Tool(c[j + k]) /\ c[j + k].call = k
    BY <1>1 DEF InPlace
  <2>0. k \in Nat /\ k >= 1
    BY TranscriptAssumption
  <2>1. j \in 1 .. L /\ c[j] = msgs[j]
    BY <1>1, <1>c
  <2>2. CASE j + k <= L
    <3>1. j + k \in 1 .. L /\ j + k <= L
      <4>1. j \in Nat /\ j >= 1
        BY <2>1
      <4>. QED BY <1>0, <2>0, <2>2, <4>1
    <3>2. c[j + k] = msgs[j + k]
      BY <1>1, <3>1
    <3>. QED BY <1>0, <2>1, <3>1, <3>2 DEF InPlace
  <2>3. CASE ~(j + k <= L)
    <3>1. j = i
      <4>1. msgs[j].calls \in Nat
        BY <1>0, <2>1, Elements, TranscriptAssumption
      <4>2. ~(j + msgs[j].calls <= L)
        BY <1>0, <2>1, <2>3, <4>1, TranscriptAssumption
      <4>. QED BY <2>1, <4>2, LastOne
    <3>2. PICK n \in 1 .. l : j + k = L + n
      <4>1. j + k \in 1 .. L + l /\ j + k \notin 1 .. L
        BY <1>0, <2>1, <2>3, TranscriptAssumption
      <4>. QED BY <1>1, <4>1
    <3>3. L - i + n = k
      <4>1. L \in Int /\ i \in Int /\ n \in Int /\ k \in Int /\ i + k = L + n
        BY <1>0, <2>0, <3>1, <3>2
      <4>. QED BY <4>1
    <3>. QED BY <1>c, <3>2, <3>3
  <2>. QED BY <2>2, <2>3
<1>4. ASSUME i + msgs[i].calls = L + l PROVE Complete(c)
  <2>. SUFFICES ASSUME NEW j \in 1 .. L + l, Asks(c[j]) PROVE j + c[j].calls <= L + l
    BY <1>1 DEF Complete
  <2>1. j \in 1 .. L /\ c[j] = msgs[j]
    BY <1>1, <1>c
  <2>2. j # i => j + msgs[j].calls <= L
    BY <2>1, LastOne
  <2>3. msgs[j].calls \in Nat
    BY <1>0, <2>1, Elements, TranscriptAssumption
  <2>. QED BY <1>0, <1>4, <2>1, <2>2, <2>3
<1>5. \A n \in 1 .. l : c[L + n].role # "system"
  BY <1>c
<1>6. NoSummary(msgs) => NoSummary(c)
  <2>1. NoSummary(msgs) => \A j \in 1 .. L : c[j].role # "system"
    BY <1>1 DEF NoSummary
  <2>. QED BY <1>1, <1>5, <2>1 DEF NoSummary
<1>7. SummaryFirst(msgs) => SummaryFirst(c)
  <2>1. SummaryFirst(msgs) => \A j \in 1 .. L : j >= 2 => c[j].role # "system"
    BY <1>1 DEF SummaryFirst
  <2>. SUFFICES ASSUME SummaryFirst(msgs), NEW j \in 2 .. L + l PROVE c[j].role # "system"
    BY <1>1 DEF SummaryFirst
  <2>2. j \in 1 .. L + l /\ j >= 2
    OBVIOUS
  <2>. QED BY <1>1, <1>5, <2>1, <2>2
<1>8. c[i] = msgs[i]
  BY <1>0, <1>1
<1>. QED BY <1>1, <1>2, <1>3, <1>4, <1>6, <1>7, <1>8 DEF Partial, c

(* compress keeps a transcript in order and within the cap.                *)
LEMMA Compresses ==
    ASSUME NEW h, Linked(h), SummaryFirst(h), Len(h) <= MaxHistory
    PROVE  /\ Linked(Talk!compress(h)) /\ SummaryFirst(Talk!compress(h)) /\ Len(Talk!compress(h)) <= MaxHistory
<1>. DEFINE first  == Talk!splitForCompression(h, KeepMessages, KeepRounds)
            once   == Talk!Compacted(h, first)
            second == Talk!splitForCompression(once, KeepMessages \div 2, 1)
            twice  == IF second > 0 THEN Talk!Compacted(once, second) ELSE once
            less   == Talk!dropOldToolResults(twice, 1)
            Good(m) == Linked(m) /\ SummaryFirst(m) /\ Len(m) <= MaxHistory
<1>0. MaxHistory \in Nat /\ KeepMessages \in Nat /\ KeepMessages >= 1
      /\ KeepMessages \div 2 \in Nat /\ KeepMessages \div 2 >= 1
  BY TranscriptAssumption
<1>1. ASSUME NEW m, Linked(m), SummaryFirst(m) PROVE Good(Talk!trimHistory(m))
  BY <1>1, TrimKeeps DEF Linked
<1>2. ASSUME NEW m, Good(m), NEW n \in Nat, n > 0, n <= Len(m), n < Len(m) => ~Tool(m[n + 1]) PROVE Good(Talk!Compacted(m, n))
  <2>1. Len(m) \in Nat /\ n \in 1 .. Len(m)
    BY <1>2, Elements DEF Linked, Partial
  <2>2. /\ Linked(Talk!Compacted(m, n)) /\ SummaryFirst(Talk!Compacted(m, n)) /\ Len(Talk!Compacted(m, n)) <= Len(m)
    BY <1>2, <2>1, Compacting
  <2>3. Len(Talk!Compacted(m, n)) \in Nat
    BY <2>2, Elements DEF Linked, Partial
  <2>. QED BY <1>0, <1>2, <2>1, <2>2, <2>3
<1>3. ASSUME NEW m, Good(m), NEW k PROVE Good(Talk!dropOldToolResults(m, k))
  <2>1. /\ Linked(Talk!dropOldToolResults(m, k)) /\ SummaryFirst(Talk!dropOldToolResults(m, k))
        /\ Len(Talk!dropOldToolResults(m, k)) <= Len(m)
    BY <1>3, Dropping
  <2>2. Len(m) \in Nat /\ Len(Talk!dropOldToolResults(m, k)) \in Nat
    BY <1>3, <2>1, Elements DEF Linked, Partial
  <2>. QED BY <1>0, <1>3, <2>1, <2>2
<1>4. ASSUME NEW m, Good(m), NEW keep \in Nat, keep >= 1, NEW k
      PROVE  LET n == Talk!splitForCompression(m, keep, k)
             IN  n \in Nat /\ n <= Len(m) /\ (n > 0 => n < Len(m) /\ ~Tool(m[n + 1]))
  BY <1>4, Split DEF Linked, Partial
<1>5. Good(h)
  OBVIOUS
<1>6. first \in Nat /\ first <= Len(h) /\ (first > 0 => first < Len(h) /\ ~Tool(h[first + 1]))
  BY <1>0, <1>4, <1>5
<1>. HIDE DEF Good, first
<1>7. CASE first = 0
  <2>1. Talk!compress(h) = Talk!trimHistory(h)
    BY <1>7 DEF Talk!compress, first
  <2>. QED BY <1>1, <2>1 DEF Good
<1>8. CASE first # 0
  <2>1. Good(once)
    BY <1>2, <1>5, <1>6, <1>8
  <2>. HIDE DEF once
  <2>2. second \in Nat /\ second <= Len(once) /\ (second > 0 => second < Len(once) /\ ~Tool(once[second + 1]))
    BY <1>0, <1>4, <2>1
  <2>. HIDE DEF second
  <2>3. Good(twice)
    BY <1>2, <2>1, <2>2
  <2>. HIDE DEF twice
  <2>4. Good(less)
    BY <1>3, <2>3
  <2>. HIDE DEF less
  <2>5. Good(Talk!trimHistory(less))
    BY <1>1, <2>4 DEF Good
  <2>6. Talk!compress(h) \in {once, twice, less, Talk!trimHistory(less)}
    <3>1. first > 0
      BY <1>6, <1>8
    <3>. QED BY <1>8, <3>1 DEF Talk!compress, first, once, second, twice, less
  <2>7. Good(Talk!compress(h))
    BY <2>1, <2>3, <2>4, <2>5, <2>6
  <2>. QED BY <2>7 DEF Good
<1>. QED BY <1>7, <1>8

(* reconcile answers what is open, so that every call has its results.     *)
LEMMA Reconciles ==
    ASSUME NEW msgs, Partial(msgs), SummaryFirst(msgs), Len(msgs) <= MaxHistory
    PROVE  /\ Linked(Talk!reconcile(msgs)) /\ SummaryFirst(Talk!reconcile(msgs))
           /\ Len(Talk!reconcile(msgs)) <= MaxHistory
<1>. DEFINE L == Len(msgs)
            asking == {i \in DOMAIN msgs : Talk!Calls(msgs[i])}
            last == Largest(asking)
            w == msgs[last].calls
            done == {m.call : m \in {msgs[i] : i \in {j \in last + 1 .. L : Talk!IsTool(msgs[j])}}}
            open == Ascending(1 .. w \ done)
            e == [n \in DOMAIN open |-> Talk!Result(open[n], 1)]
<1>0. /\ msgs \in Seq(Messages) /\ L \in Nat /\ DOMAIN msgs = 1 .. L /\ Owned(msgs) /\ InPlace(msgs)
      /\ \A j \in 1 .. L : msgs[j].calls \in Nat /\ msgs[j].calls <= MaxCalls
  BY Elements, TranscriptAssumption DEF Partial
<1>1. asking = {i \in 1 .. L : Asks(msgs[i])}
  BY <1>0, Same
<1>2. CASE asking = {}
  <2>1. Talk!reconcile(msgs) = msgs
    BY <1>2 DEF Talk!reconcile
  <2>2. Complete(msgs)
    BY <1>1, <1>2 DEF Complete
  <2>. QED BY <2>1, <2>2 DEF Linked
<1>3. CASE asking # {}
  <2>1. Talk!reconcile(msgs) = Talk!trimHistory(msgs \o e)
    BY <1>3, SameOps DEF Talk!reconcile
  <2>2. last \in 1 .. L /\ Asks(msgs[last]) /\ w \in Nat /\ \A j \in 1 .. L : Asks(msgs[j]) => j <= last
    <3>1. asking \in SUBSET Nat /\ IsFiniteSet(asking)
      <4>0. IsFiniteSet(1 .. L)
        BY <1>0, FS_Interval
      <4>1. IsFiniteSet(1 .. L) /\ asking \in SUBSET (1 .. L)
        BY <1>1, <4>0
      <4>. HIDE DEF asking
      <4>2. IsFiniteSet(asking)
        BY <4>1, FS_Subset
      <4>. QED BY <4>1, <4>2
    <3>2. last \in asking /\ \A j \in asking : j <= last
      <4>. HIDE DEF asking
      <4>. QED BY <1>3, <3>1, Extremes
    <3>. QED BY <1>0, <1>1, <3>2
  <2>. HIDE DEF last, asking
  <2>3. ASSUME NEW k \in 1 .. w, last + k <= L PROVE k \in done
    <3>1. k \in 1 .. MaxCalls /\ last + k \in last + 1 .. L /\ k <= w
      BY <1>0, <2>2, <2>3, TranscriptAssumption
    <3>2. Tool(msgs[last + k]) /\ msgs[last + k].call = k
      BY <1>0, <2>2, <2>3, <3>1 DEF InPlace
    <3>3. Talk!IsTool(msgs[last + k])
      BY <3>2, Same
    <3>. QED BY <3>1, <3>2, <3>3
  <2>4. CASE last + w <= L
    <3>1. 1 .. w \ done = {}
      <4>1. \A k \in 1 .. w : last + k <= L
        BY <1>0, <2>2, <2>4
      <4>. QED BY <2>3, <4>1
    <3>2. Ascending({}) = <<>>
      <4>1. Ascending({}) = [n \in 1 .. 0 |-> CHOOSE k \in {} : Rank({}, k) = n]
        BY FS_EmptySet DEF Ascending
      <4>2. 1 .. 0 = {}
        OBVIOUS
      <4>. QED BY <4>1, <4>2
    <3>3. e = <<>>
      <4>1. open = <<>>
        BY <3>1, <3>2
      <4>. HIDE DEF open
      <4>2. DOMAIN open = {}
        BY <4>1
      <4>. QED BY <4>2
    <3>. HIDE DEF e
    <3>4. msgs \o <<>> = msgs
      BY <1>0, ConcatEmptySeq
    <3>5. Complete(msgs)
      <4>. SUFFICES ASSUME NEW j \in 1 .. L, Asks(msgs[j]) PROVE j + msgs[j].calls <= L
        BY DEF Complete
      <4>1. SUFFICES ASSUME j + msgs[j].calls > L PROVE FALSE
        BY <1>0
      <4>2. Waits(msgs, j)
        BY <4>1 DEF Waits
      <4>3. last <= j /\ j <= last
        BY <2>2, <4>2, LastOne
      <4>4. last = j
        BY <2>2, <4>3
      <4>. QED BY <1>0, <2>2, <2>4, <4>1, <4>4
    <3>6. Talk!reconcile(msgs) = Talk!trimHistory(msgs)
      BY <2>1, <3>3, <3>4
    <3>. QED BY <3>5, <3>6, TrimKeeps DEF Linked
  <2>5. CASE ~(last + w <= L)
    <3>1. Waits(msgs, last)
      BY <1>0, <2>2, <2>5 DEF Waits
    <3>2. PICK g \in Nat : g = L - last /\ g < w
      <4>1. L - last \in Nat /\ L - last < w
        BY <1>0, <2>2, <2>5
      <4>. QED BY <4>1
    <3>3. done = 1 .. g
      <4>1. \A j \in last + 1 .. L : Talk!IsTool(msgs[j]) /\ msgs[j].call = j - last
        BY <3>1, LastOne, Same
      <4>2. ASSUME NEW k \in done PROVE k \in 1 .. g
        <5>1. PICK j \in last + 1 .. L : k = msgs[j].call
          OBVIOUS
        <5>2. k = j - last
          BY <4>1, <5>1
        <5>. QED BY <1>0, <2>2, <3>2, <5>2
      <4>3. ASSUME NEW k \in 1 .. g PROVE k \in done
        <5>1. k \in 1 .. w /\ last + k <= L
          BY <1>0, <2>2, <3>2
        <5>. QED BY <2>3, <5>1
      <4>. QED BY <4>2, <4>3
    <3>4. 1 .. w \ done = g + 1 .. w
      BY <2>2, <3>2, <3>3
    <3>5. open = [n \in 1 .. w - g |-> g + n]
      <4>1. g + 1 \in Nat /\ w \in Nat /\ g + 1 <= w + 1 /\ w + 1 - (g + 1) = w - g
        BY <2>2, <3>2
      <4>2. open = [n \in 1 .. w + 1 - (g + 1) |-> (g + 1) + n - 1]
        BY <3>4, <4>1, OfInterval
      <4>3. \A n \in 1 .. w - g : (g + 1) + n - 1 = g + n
        BY <3>2
      <4>. QED BY <4>1, <4>2, <4>3
    <3>. HIDE DEF open
    <3>6. e = [n \in 1 .. w - g |-> Talk!Result(g + n, 1)]
      BY <3>5
    <3>. HIDE DEF e
    <3>7. /\ e \in Seq(Messages) /\ Len(e) = w - g
          /\ \A n \in 1 .. Len(e) : Tool(e[n]) /\ e[n].call = L - last + n
      <4>1. w - g \in Nat
        BY <2>2, <3>2
      <4>2. ASSUME NEW n \in 1 .. w - g
            PROVE  /\ Talk!Result(g + n, 1) \in Messages /\ Tool(Talk!Result(g + n, 1))
                   /\ Talk!Result(g + n, 1).call = L - last + n
        <5>1. w <= MaxCalls /\ MaxCalls \in Nat
          BY <1>0, <2>2, TranscriptAssumption
        <5>2. g + n \in 0 .. MaxCalls /\ 0 \in 0 .. MaxCalls /\ g + n = L - last + n
          BY <2>2, <3>2, <5>1
        <5>. QED BY <5>2 DEF Talk!Result, Talk!Message, Messages, Tool
      <4>3. e \in [1 .. w - g -> Messages]
        BY <3>6, <4>2
      <4>4. e \in Seq(Messages) /\ Len(e) = w - g
        BY <4>1, <4>3, SeqDef
      <4>. QED BY <3>6, <4>2, <4>4
    <3>8. last + w = L + Len(e)
      BY <1>0, <2>2, <3>2, <3>7
    <3>9. Partial(msgs \o e) /\ Complete(msgs \o e) /\ SummaryFirst(msgs \o e)
      <4>1. last + w >= L + Len(e)
        BY <1>0, <2>2, <3>8
      <4>. QED BY <3>1, <3>7, <3>8, <4>1, Filled
    <3>. QED BY <2>1, <3>9, TrimKeeps DEF Linked
  <2>. QED BY <2>4, <2>5
<1>. QED BY <1>2, <1>3

(* A transcript in order, without a summary, is one a provider accepts.    *)
LEMMA Acceptable ==
    ASSUME NEW msgs, Linked(msgs), NoSummary(msgs)
    PROVE  Talk!Accepted(msgs)
<1>. DEFINE L == Len(msgs)
<1>0. /\ msgs \in Seq(Messages) /\ L \in Nat /\ DOMAIN msgs = 1 .. L /\ Owned(msgs) /\ InPlace(msgs) /\ Complete(msgs)
      /\ \A j \in 1 .. L : msgs[j].calls \in Nat /\ msgs[j].calls <= MaxCalls
  BY Elements, TranscriptAssumption DEF Partial, Linked
<1>1. ASSUME NEW o \in 1 .. L, Asks(msgs[o]), NEW j \in o + 1 .. L, j <= o + msgs[o].calls
      PROVE  Tool(msgs[j]) /\ msgs[j].call = j - o
  <2>1. PICK k \in 1 .. MaxCalls : k = j - o /\ j = o + k /\ k <= msgs[o].calls /\ o + k <= L
    <3>1. msgs[o].calls \in Nat /\ msgs[o].calls <= MaxCalls
      BY <1>0
    <3>2. j - o \in 1 .. MaxCalls /\ j = o + (j - o) /\ j - o <= msgs[o].calls /\ j <= L
      BY <1>0, <1>1, <3>1, TranscriptAssumption
    <3>. QED BY <3>2
  <2>. QED BY <1>0, <1>1, <2>1 DEF InPlace
<1>2. ASSUME NEW j \in 1 .. L, Tool(msgs[j])
      PROVE  \E o \in 1 .. L : o < j /\ Asks(msgs[o]) /\ j <= o + msgs[o].calls /\ msgs[j].call = j - o
  <2>1. PICK c \in 1 .. j - 1 : c = msgs[j].call /\ Asks(msgs[j - c]) /\ c <= msgs[j - c].calls
    BY <1>0, <1>2 DEF Owned
  <2>2. j - c \in 1 .. L /\ j - c < j /\ c = j - (j - c)
    BY <1>0
  <2>3. msgs[j - c].calls \in Nat
    BY <1>0, <2>2
  <2>. HIDE DEF L
  <2>4. j <= (j - c) + msgs[j - c].calls
    BY <2>1, <2>2, <2>3
  <2>. QED BY <2>1, <2>2, <2>4
<1>3. ASSUME NEW i \in 1 .. L, Asks(msgs[i]) PROVE Talk!Answered(msgs, i)
  <2>. DEFINE t == Talk!After(msgs, i)
              w == msgs[i].calls
              x == Talk!LeadingTools(t)
  <2>0. w \in Nat /\ i + w <= L /\ i \in 0 .. L
    BY <1>0, <1>3 DEF Complete
  <2>1. t \in Seq(Messages) /\ Len(t) = L - i /\ \A k \in 1 .. L - i : t[k] = msgs[i + k]
    BY <1>0, <2>0, Rest
  <2>2. /\ x \in 0 .. L - i /\ \A k \in 1 .. x : Tool(t[k])
        /\ \A n \in 0 .. L - i : (\A k \in 1 .. n : Tool(t[k])) => n <= x
    BY <2>1, Leading
  <2>. HIDE DEF t, x
  <2>3. \A k \in 1 .. w : Tool(msgs[i + k]) /\ msgs[i + k].call = k
    <3>. SUFFICES ASSUME NEW k \in 1 .. w PROVE Tool(msgs[i + k]) /\ msgs[i + k].call = k
      OBVIOUS
    <3>1. i + k \in i + 1 .. L /\ i + k <= i + w /\ (i + k) - i = k
      BY <1>0, <2>0
    <3>. QED BY <1>1, <1>3, <3>1
  <2>4. w <= x
    <3>1. \A k \in 1 .. w : Tool(t[k])
      <4>1. \A k \in 1 .. w : k \in 1 .. L - i
        BY <1>0, <2>0
      <4>. QED BY <2>1, <2>3, <4>1
    <3>2. w \in 0 .. L - i
      BY <1>0, <2>0
    <3>. QED BY <2>2, <3>1, <3>2
  <2>5. x <= w
    <3>1. SUFFICES ASSUME x > w PROVE FALSE
      BY <2>0, <2>2
    <3>2. PICK j \in 1 .. L : j = i + (w + 1)
      <4>1. i + (w + 1) \in 1 .. L
        BY <1>0, <2>0, <2>2, <3>1
      <4>. QED BY <4>1
    <3>3. Tool(msgs[j])
      <4>1. w + 1 \in 1 .. x /\ w + 1 \in 1 .. L - i
        BY <1>0, <2>0, <2>2, <3>1
      <4>. QED BY <2>1, <2>2, <3>2, <4>1
    <3>4. PICK o \in 1 .. L : o < j /\ Asks(msgs[o]) /\ j <= o + msgs[o].calls
      BY <1>2, <3>3
    <3>5. CASE o = i
      BY <2>0, <3>2, <3>4, <3>5
    <3>6. CASE o < i
      <4>1. msgs[o].calls \in Nat
        BY <1>0
      <4>2. i \in o + 1 .. L /\ i <= o + msgs[o].calls
        BY <1>0, <2>0, <3>2, <3>4, <3>6, <4>1
      <4>. QED BY <1>1, <1>3, <3>4, <4>2 DEF Asks, Tool
    <3>7. CASE o > i
      <4>1. o \in i + 1 .. L /\ o <= i + w
        BY <1>0, <2>0, <3>2, <3>4, <3>7
      <4>. QED BY <1>1, <1>3, <3>4, <4>1 DEF Asks, Tool
    <3>. QED BY <1>0, <3>5, <3>6, <3>7
  <2>6. Talk!ToolsAfter(msgs, i) = w
    <3>1. x = w
      BY <2>0, <2>2, <2>4, <2>5
    <3>. QED BY <3>1 DEF Talk!ToolsAfter, x, t
  <2>7. {msgs[j].call : j \in i + 1 .. i + w} = 1 .. w
    <3>1. \A j \in i + 1 .. i + w : \E k \in 1 .. w : j = i + k
      <4>1. \A j \in i + 1 .. i + w : j - i \in 1 .. w /\ j = i + (j - i)
        BY <2>0
      <4>. QED BY <4>1
    <3>2. \A k \in 1 .. w : i + k \in i + 1 .. i + w
      BY <2>0
    <3>3. \A j \in i + 1 .. i + w : msgs[j].call \in 1 .. w
      BY <2>3, <3>1
    <3>4. \A k \in 1 .. w : \E j \in i + 1 .. i + w : msgs[j].call = k
      BY <2>3, <3>2
    <3>. QED BY <3>3, <3>4
  <2>. QED BY <2>6, <2>7 DEF Talk!Answered
<1>4. ASSUME NEW i \in 1 .. L, Tool(msgs[i]) PROVE i > 1 /\ (Asks(msgs[i - 1]) \/ Tool(msgs[i - 1]))
  <2>1. PICK o \in 1 .. L : o < i /\ Asks(msgs[o]) /\ i <= o + msgs[o].calls
    BY <1>2, <1>4
  <2>2. i > 1
    BY <1>0, <2>1
  <2>3. CASE o = i - 1
    BY <2>1, <2>2, <2>3
  <2>4. CASE o # i - 1
    <3>1. msgs[o].calls \in Nat
      BY <1>0
    <3>2. i - 1 \in o + 1 .. L /\ i - 1 <= o + msgs[o].calls
      BY <1>0, <2>1, <2>4, <3>1
    <3>3. Tool(msgs[i - 1])
      BY <1>1, <2>1, <3>2
    <3>. QED BY <2>2, <3>3
  <2>. QED BY <2>3, <2>4
<1>. QED BY <1>0, <1>3, <1>4, Same DEF Talk!Accepted, NoSummary

(* What modelInput makes of a transcript in order.                         *)
LEMMA Views ==
    ASSUME NEW msgs, Linked(msgs), SummaryFirst(msgs)
    PROVE  Linked(Talk!Spoken(msgs)) /\ NoSummary(Talk!Spoken(msgs))
<1>0. msgs \in Seq(Messages) /\ Len(msgs) \in Nat /\ Owned(msgs)
  BY Elements DEF Linked, Partial
<1>1. CASE msgs # <<>> /\ msgs[1].role = "system"
  <2>1. Talk!Spoken(msgs) = Talk!After(msgs, 1) /\ Len(msgs) > 0
    <3>1. Tail(msgs) = SubSeq(msgs, 2, Len(msgs)) /\ Len(Tail(msgs)) = Len(msgs) - 1
      BY <1>0, <1>1, TailIsSubSeq, HeadTailProperties
    <3>2. Len(msgs) # 0
      BY <1>0, <1>1, EmptySeq
    <3>. QED BY <1>0, <1>1, <3>1, <3>2 DEF Talk!Spoken, Talk!After
  <2>2. 1 < Len(msgs) => ~Tool(msgs[2])
    <3>1. SUFFICES ASSUME 1 < Len(msgs), Tool(msgs[2]) PROVE FALSE
      OBVIOUS
    <3>2. 2 \in 1 .. Len(msgs)
      BY <1>0, <3>1
    <3>3. msgs[2].call \in 1 .. 1 /\ Asks(msgs[2 - msgs[2].call])
      BY <1>0, <3>1, <3>2 DEF Owned
    <3>4. Asks(msgs[1])
      BY <3>3
    <3>. QED BY <1>1, <3>4 DEF Asks
  <2>3. 1 \in 0 .. Len(msgs) /\ (1 < Len(msgs) => ~Tool(msgs[1 + 1]))
    BY <1>0, <2>1, <2>2
  <2>. QED BY <2>1, <2>3, Cut DEF Linked
<1>2. CASE ~(msgs # <<>> /\ msgs[1].role = "system")
  <2>1. Talk!Spoken(msgs) = msgs
    BY <1>2 DEF Talk!Spoken
  <2>2. NoSummary(msgs)
    <3>. SUFFICES ASSUME NEW i \in 1 .. Len(msgs) PROVE msgs[i].role # "system"
      BY DEF NoSummary
    <3>1. i = 1 \/ i \in 2 .. Len(msgs)
      BY <1>0
    <3>2. msgs # <<>>
      BY <1>0, EmptySeq
    <3>. QED BY <1>2, <3>1, <3>2 DEF SummaryFirst
  <2>. QED BY <2>1, <2>2
<1>. QED BY <1>1, <1>2

(* What holds of a conversation and the run in it.                         *)
TalkInv ==
    /\ Linked(messages) /\ SummaryFirst(messages) /\ Len(messages) <= MaxHistory
    /\ Partial(produced) /\ NoSummary(produced)
    /\ phase \in {"idle", "prepare", "model", "tools", "end"}
    /\ compression \in BOOLEAN /\ prompts \in 0 .. MaxPrompts
    /\ phase \in {"idle", "prepare"} => produced = <<>>
    /\ phase = "model" => Complete(produced)
    /\ phase = "tools" => \E i \in 1 .. Len(produced) : Waits(produced, i)

(* It holds at first.                                                      *)
LEMMA TalkBegins == Talk!Init => TalkInv
<1>. SUFFICES ASSUME Talk!Init PROVE TalkInv
  OBVIOUS
<1>1. messages = <<>> /\ produced = <<>> /\ phase = "idle" /\ compression = FALSE /\ prompts = 0
  BY DEF Talk!Init
<1>2. Linked(messages) /\ SummaryFirst(messages) /\ Len(messages) <= MaxHistory /\ Linked(produced) /\ NoSummary(produced)
  <2>1. Len(<<>>) = 0 /\ 0 <= MaxHistory
    BY TranscriptAssumption
  <2>. QED BY <1>1, <2>1, Nothing
<1>3. prompts \in 0 .. MaxPrompts /\ compression \in BOOLEAN
  <2>1. 0 \in 0 .. MaxPrompts
    BY TranscriptAssumption
  <2>2. FALSE \in BOOLEAN
    OBVIOUS
  <2>. QED BY <1>1, <2>1, <2>2, Zenon
<1>4. phase = "model" => FALSE
  BY <1>1
<1>5. phase = "tools" => FALSE
  BY <1>1
<1>6. Partial(produced) /\ NoSummary(produced)
  BY <1>2 DEF Linked
<1>. QED BY <1>1, <1>2, <1>3, <1>4, <1>5, <1>6 DEF TalkInv

(* A prompt keeps it.                                                      *)
LEMMA PromptKeeps == TalkInv /\ Talk!Prompt => TalkInv'
<1>. SUFFICES ASSUME TalkInv, Talk!Prompt PROVE TalkInv'
  OBVIOUS
<1>. DEFINE u == Talk!UserMessage
            m == Append(messages, u)
<1>1. u \in Messages /\ ~Tool(u) /\ ~Asks(u) /\ u.role # "system"
  BY TranscriptAssumption DEF Talk!UserMessage, Talk!Message, Messages, Tool, Asks
<1>2. Linked(<<u>>) /\ NoSummary(<<u>>)
  BY <1>1, Single
<1>3. m = messages \o <<u>>
  BY <1>1, AppendIsConcat DEF TalkInv, Linked, Partial
<1>4. Linked(m) /\ SummaryFirst(m)
  BY <1>2, <1>3, Join DEF TalkInv, Linked
<1>. HIDE DEF m
<1>5. Linked(Talk!trimHistory(m)) /\ SummaryFirst(Talk!trimHistory(m)) /\ Len(Talk!trimHistory(m)) <= MaxHistory
  BY <1>4, TrimKeeps DEF Linked
<1>6. messages' = Talk!trimHistory(m) /\ phase' = "prepare" /\ produced' = produced /\ compression' \in BOOLEAN
      /\ produced = <<>> /\ prompts' \in 0 .. MaxPrompts
  BY TranscriptAssumption DEF Talk!Prompt, TalkInv, m
<1>. QED BY <1>5, <1>6, Nothing DEF TalkInv, Linked

(* prepareContext keeps it.                                                *)
LEMMA PrepareKeeps == TalkInv /\ Talk!prepareContext => TalkInv'
<1>. SUFFICES ASSUME TalkInv, Talk!prepareContext PROVE TalkInv'
  OBVIOUS
<1>1. messages' \in {messages, Talk!compress(messages)}
  BY DEF Talk!prepareContext
<1>2. Linked(messages') /\ SummaryFirst(messages') /\ Len(messages') <= MaxHistory
  BY <1>1, Compresses DEF TalkInv
<1>3. phase' = "model" /\ produced' = produced /\ compression' = compression /\ prompts' = prompts /\ produced = <<>>
  BY DEF Talk!prepareContext, TalkInv
<1>. QED BY <1>2, <1>3, Nothing DEF TalkInv, Linked

(* An answer of the model keeps it.                                        *)
LEMMA AnswerKeeps == TalkInv /\ Talk!ModelAnswers => TalkInv'
<1>. SUFFICES ASSUME TalkInv, Talk!ModelAnswers PROVE TalkInv'
  OBVIOUS
<1>1. PICK n \in 0 .. MaxCalls : /\ produced' = Append(produced, Talk!Answer(n))
                                 /\ phase' = IF n = 0 THEN "end" ELSE "tools"
  BY DEF Talk!ModelAnswers
<1>2. PICK a : a = Talk!Answer(n)
  OBVIOUS
<1>3. a \in Messages /\ ~Tool(a) /\ a.role # "system" /\ a.calls = n /\ (Asks(a) <=> n # 0)
  BY <1>2, TranscriptAssumption DEF Talk!Answer, Talk!Message, Messages, Tool, Asks
<1>4. Linked(produced) /\ NoSummary(produced) /\ Len(produced) \in Nat /\ produced \in Seq(Messages)
  BY Elements DEF Talk!ModelAnswers, TalkInv, Linked, Partial
<1>5. Partial(<<a>>) /\ NoSummary(<<a>>) /\ Len(<<a>>) = 1
  BY <1>3, Single
<1>6. produced' = produced \o <<a>>
  BY <1>1, <1>2, <1>3, <1>4, AppendIsConcat
<1>7. Partial(produced') /\ NoSummary(produced') /\ Len(produced') = Len(produced) + 1
  BY <1>4, <1>5, <1>6, Join
<1>8. n # 0 => Waits(produced', Len(produced'))
  <2>1. produced'[Len(produced) + 1] = a
    BY <1>1, <1>2, <1>4
  <2>. QED BY <1>3, <1>4, <1>7, <2>1 DEF Waits
<1>9. n # 0 => Len(produced') \in 1 .. Len(produced')
  BY <1>4, <1>7
<1>10. UNCHANGED <<messages, compression, prompts>>
  BY DEF Talk!ModelAnswers
<1>. QED BY <1>1, <1>7, <1>8, <1>9, <1>10 DEF TalkInv

(* The next result of the answer that waits is in its place.               *)
LEMMA OneMore ==
    ASSUME NEW msgs, Partial(msgs), NoSummary(msgs), NEW i, Waits(msgs, i),
           NEW r \in Messages, Tool(r), r.call = Len(msgs) - i + 1
    PROVE  /\ Partial(Append(msgs, r)) /\ NoSummary(Append(msgs, r))
           /\ r.call = msgs[i].calls => Complete(Append(msgs, r))
           /\ r.call # msgs[i].calls => Waits(Append(msgs, r), i)
<1>1. msgs \in Seq(Messages) /\ Len(msgs) \in Nat /\ i \in 1 .. Len(msgs) /\ Asks(msgs[i])
  BY Elements DEF Partial, Waits
<1>2. msgs[i].calls \in Nat /\ i + msgs[i].calls > Len(msgs)
  BY <1>1, Elements, TranscriptAssumption DEF Waits
<1>3. PICK e : e = <<r>>
  OBVIOUS
<1>4. e \in Seq(Messages) /\ Len(e) = 1 /\ e[1] = r /\ Append(msgs, r) = msgs \o e
  BY <1>1, <1>3, AppendIsConcat
<1>5. \A n \in 1 .. Len(e) : Tool(e[n]) /\ e[n].call = Len(msgs) - i + n
  BY <1>4
<1>6. i + msgs[i].calls >= Len(msgs) + Len(e)
  BY <1>1, <1>2, <1>4
<1>7. /\ Partial(msgs \o e) /\ NoSummary(msgs \o e) /\ Len(msgs \o e) = Len(msgs) + Len(e)
      /\ (msgs \o e)[i] = msgs[i]
      /\ i + msgs[i].calls = Len(msgs) + Len(e) => Complete(msgs \o e)
  <2>1. /\ Partial(msgs \o e) /\ Len(msgs \o e) = Len(msgs) + Len(e)
        /\ (msgs \o e)[i] = msgs[i]
        /\ i + msgs[i].calls = Len(msgs) + Len(e) => Complete(msgs \o e)
        /\ NoSummary(msgs) => NoSummary(msgs \o e)
    <3>1. e \in Seq(Messages)
      BY <1>4
    <3>2. (msgs \o e)[i] = msgs[i]
      BY <3>1, <1>5, <1>6, Filled, Zenon
    <3>3. Partial(msgs \o e) /\ (NoSummary(msgs) => NoSummary(msgs \o e))
      BY <3>1, <1>5, <1>6, Filled
    <3>4. i + msgs[i].calls = Len(msgs) + Len(e) => Complete(msgs \o e)
      BY <3>1, <1>5, <1>6, Filled
    <3>5. Len(msgs \o e) = Len(msgs) + Len(e)
      BY <3>1, <1>1, Joined
    <3>. QED BY <3>2, <3>3, <3>4, <3>5, Zenon
  <2>. QED BY <2>1
<1>8. r.call = msgs[i].calls => i + msgs[i].calls = Len(msgs) + Len(e)
  BY <1>1, <1>2, <1>4
<1>9. r.call # msgs[i].calls => i + msgs[i].calls > Len(msgs) + Len(e)
  BY <1>1, <1>2, <1>4
<1>10. i \in 1 .. Len(msgs) + Len(e)
  BY <1>1, <1>4
<1>. QED BY <1>1, <1>4, <1>7, <1>8, <1>9, <1>10 DEF Waits

(* A result of a tool keeps it.                                            *)
LEMMA ToolKeeps == TalkInv /\ Talk!ToolAnswers => TalkInv'
<1>. SUFFICES ASSUME TalkInv, Talk!ToolAnswers PROVE TalkInv'
  OBVIOUS
<1>1. PICK i \in 1 .. Len(produced) : Waits(produced, i)
  BY DEF TalkInv, Talk!ToolAnswers
<1>2. Partial(produced) /\ NoSummary(produced) /\ Len(produced) \in Nat /\ produced \in Seq(Messages)
  BY Elements DEF TalkInv, Partial
<1>3. Talk!Max({j \in DOMAIN produced : Talk!Calls(produced[j])}) = i
  BY <1>1, <1>2, LastOne
<1>. DEFINE call == Len(produced) - i + 1
<1>4. PICK bytes \in Sizes : /\ produced' = Append(produced, Talk!Result(call, bytes))
                            /\ phase' = IF call = produced[i].calls THEN "model" ELSE "tools"
  BY <1>3 DEF Talk!ToolAnswers
<1>5. produced[i].calls \in Nat /\ produced[i].calls <= MaxCalls /\ MaxCalls \in Nat
      /\ i + produced[i].calls > Len(produced) /\ i \in 1 .. Len(produced)
  BY <1>1, <1>2, Elements, TranscriptAssumption DEF Waits
<1>6. call \in 0 .. MaxCalls /\ 0 \in 0 .. MaxCalls
  BY <1>2, <1>5
<1>7. PICK r : r = Talk!Result(call, bytes)
  OBVIOUS
<1>8. r \in Messages /\ Tool(r) /\ r.call = call
  <2>. HIDE DEF call
  <2>. QED BY <1>6, <1>7 DEF Talk!Result, Talk!Message, Messages, Tool, Asks
<1>9. PICK c : c = Append(produced, r)
  OBVIOUS
<1>10. /\ Partial(c) /\ NoSummary(c)
       /\ r.call = produced[i].calls => Complete(c)
       /\ r.call # produced[i].calls => Waits(c, i)
  <2>1. r.call = Len(produced) - i + 1
    BY <1>8
  <2>. HIDE DEF call
  <2>. QED BY <1>1, <1>2, <1>8, <1>9, <2>1, OneMore
<1>11. produced' = c /\ UNCHANGED <<messages, compression, prompts>>
  BY <1>4, <1>7, <1>9 DEF Talk!ToolAnswers
<1>. HIDE DEF call
<1>12. phase' = "model" => Complete(produced')
  BY <1>4, <1>8, <1>10, <1>11
<1>13. phase' = "tools" => Waits(produced', i) /\ i \in 1 .. Len(produced')
  BY <1>4, <1>8, <1>10, <1>11 DEF Waits
<1>. QED BY <1>4, <1>10, <1>11, <1>12, <1>13 DEF TalkInv

(* The end of a run keeps it.                                              *)
LEMMA FoldKeeps == TalkInv /\ Talk!Folds => TalkInv'
<1>. SUFFICES ASSUME TalkInv, Talk!Folds PROVE TalkInv'
  OBVIOUS
<1>. DEFINE m == messages \o produced
            x == IF produced = <<>> THEN messages ELSE Talk!trimHistory(m)
<1>1. Linked(messages) /\ SummaryFirst(messages) /\ Len(messages) <= MaxHistory /\ Partial(produced) /\ NoSummary(produced)
  BY DEF TalkInv
<1>2. Partial(m) /\ SummaryFirst(m)
  BY <1>1, Join
<1>. HIDE DEF m
<1>3. Partial(x) /\ SummaryFirst(x) /\ Len(x) <= MaxHistory
  BY <1>1, <1>2, TrimKeeps DEF Linked
<1>4. messages' = Talk!reconcile(x) /\ produced' = <<>> /\ phase' = "idle" /\ UNCHANGED <<compression, prompts>>
  BY DEF Talk!Folds, m
<1>. HIDE DEF x
<1>5. Linked(messages') /\ SummaryFirst(messages') /\ Len(messages') <= MaxHistory
  BY <1>3, <1>4, Reconciles
<1>. QED BY <1>4, <1>5, Nothing DEF TalkInv, Linked

(* Every step keeps it.                                                    *)
LEMMA TalkSteps == TalkInv /\ Talk!Next => TalkInv'
<1>. SUFFICES ASSUME TalkInv, Talk!Next PROVE TalkInv'
  OBVIOUS
<1>1. CASE Talk!Prompt
  BY <1>1, PromptKeeps
<1>2. CASE Talk!prepareContext
  BY <1>2, PrepareKeeps
<1>3. CASE Talk!ModelAnswers
  BY <1>3, AnswerKeeps
<1>4. CASE Talk!ToolAnswers
  BY <1>4, ToolKeeps
<1>5. CASE Talk!Stops
  BY <1>5 DEF Talk!Stops, TalkInv
<1>6. CASE Talk!Folds
  BY <1>6, FoldKeeps
<1>7. CASE Talk!Clear
  BY <1>7, Nothing, TranscriptAssumption DEF Talk!Clear, TalkInv, Linked
<1>. QED BY <1>1, <1>2, <1>3, <1>4, <1>5, <1>6, <1>7 DEF Talk!Next

(* It makes every request one that a provider accepts.                     *)
LEMMA RequestFits == TalkInv => Talk!RequestsAccepted
<1>. SUFFICES ASSUME TalkInv PROVE Talk!RequestsAccepted
  OBVIOUS
<1>1. Talk!TypeOK
  <2>. DEFINE Records == [role: {"system", "user", "assistant", "tool"}, calls: 0 .. MaxCalls,
                          call: 0 .. MaxCalls, size: Sizes \cup {1, Summary, NoteSize}]
  <2>1. Messages \subseteq Records
    BY DEF Messages
  <2>. HIDE DEF Records
  <2>2. \A msgs \in Seq(Messages) : msgs \in Seq(Records)
    <3>1. ASSUME NEW msgs \in Seq(Messages) PROVE msgs \in Seq(Records)
      <4>1. msgs \in [1 .. Len(msgs) -> Messages] /\ Len(msgs) \in Nat
        BY LenProperties
      <4>2. msgs \in [1 .. Len(msgs) -> Records]
        BY <2>1, <4>1
      <4>. QED BY <4>1, <4>2, SeqDef
    <3>. QED BY <3>1
  <2>3. messages \in Seq(Records) /\ produced \in Seq(Records)
    BY <2>2 DEF TalkInv, Linked, Partial
  <2>. QED BY <2>3 DEF TalkInv, Talk!TypeOK, Records
<1>2. ASSUME phase = "model" PROVE Talk!Accepted(Talk!View)
  <2>. DEFINE all == Talk!Spoken(messages) \o produced
  <2>1. Linked(Talk!Spoken(messages)) /\ NoSummary(Talk!Spoken(messages)) /\ Linked(produced) /\ NoSummary(produced)
    BY <1>2, Views DEF TalkInv, Linked
  <2>2. Linked(all) /\ NoSummary(all)
    BY <2>1, Join DEF Linked
  <2>. HIDE DEF all
  <2>3. Linked(Talk!trimHistory(all)) /\ NoSummary(Talk!trimHistory(all))
    BY <2>2, TrimKeeps DEF Linked
  <2>4. Talk!View \in {all, Talk!trimHistory(all)}
    BY DEF Talk!View, all
  <2>. QED BY <2>2, <2>3, <2>4, Acceptable
<1>. QED BY <1>1, <1>2 DEF Talk!RequestsAccepted

TalkFocus == focus = "transcript" => TalkInv

(* The transcript and the run are always in order: the inductive           *)
(* invariant.                                                              *)
THEOREM TranscriptInvariant == StoresSpec => []TalkFocus
<1>1. StoresInit => TalkFocus
  BY TalkBegins DEF StoresInit, TalkInit, TalkFocus
<1>2. TalkFocus /\ [Keyring \/ HostFile \/ ProviderList \/ SettingsFile \/ Transcript]_allVars => TalkFocus'
  <2>. SUFFICES ASSUME TalkFocus, [Keyring \/ HostFile \/ ProviderList \/ SettingsFile \/ Transcript]_allVars
                PROVE  TalkFocus'
    OBVIOUS
  <2>1. CASE Transcript
    BY <2>1, TalkSteps DEF Transcript, TalkFocus
  <2>2. CASE Keyring \/ HostFile \/ ProviderList \/ SettingsFile
    BY <2>2 DEF Keyring, HostFile, ProviderList, SettingsFile, TalkFocus
  <2>3. CASE UNCHANGED allVars
    BY <2>3 DEF allVars, talkVars, TalkFocus, TalkInv, Waits
  <2>. QED BY <2>1, <2>2, <2>3
<1>. QED BY <1>1, <1>2, PTL DEF StoresSpec

(* Whatever was cut, compacted, dropped or stopped before, no provider is  *)
(* sent a tool result without its call or a call without its results       *)
(* (agent.go:458-462, 494-496, context.go:404-407).                        *)
THEOREM EveryRequestAccepted == StoresSpec => []RequestsAccepted
<1>1. TalkFocus => RequestsAccepted
  BY RequestFits DEF TalkFocus, RequestsAccepted
<1>. QED BY <1>1, TranscriptInvariant, PTL
-----------------------------------------------------------------------------
(* What a compaction keeps of a transcript.                                *)

(* How many messages at its end: the last complete round and what follows, *)
(* or the last message.                                                    *)
Back(msgs) ==
    IF Talk!toolRounds(msgs) = {} THEN 1 ELSE Len(msgs) - Largest(Talk!toolRounds(msgs)) + 1

(* The rounds of a transcript, and the last of them.                       *)
LEMMA Rounds ==
    ASSUME NEW msgs \in Seq(Messages)
    PROVE  /\ Talk!toolRounds(msgs) \in SUBSET (1 .. Len(msgs))
           /\ \A i \in Talk!toolRounds(msgs) : Asks(msgs[i])
           /\ Talk!toolRounds(msgs) # {} =>
                /\ Largest(Talk!toolRounds(msgs)) \in Talk!toolRounds(msgs)
                /\ \A i \in Talk!toolRounds(msgs) : i <= Largest(Talk!toolRounds(msgs))
           /\ Len(msgs) > 0 => Back(msgs) \in 1 .. Len(msgs)
<1>1. Len(msgs) \in Nat /\ DOMAIN msgs = 1 .. Len(msgs)
  BY Elements
<1>2. PICK R : R = Talk!toolRounds(msgs)
  OBVIOUS
<1>3. R \in SUBSET (1 .. Len(msgs)) /\ \A i \in R : Asks(msgs[i])
  BY <1>1, <1>2, Same DEF Talk!toolRounds
<1>4. R \in SUBSET Nat /\ IsFiniteSet(R)
  <2>1. IsFiniteSet(1 .. Len(msgs))
    BY <1>1, FS_Interval
  <2>2. IsFiniteSet(R)
    BY <1>3, <2>1, FS_Subset
  <2>. QED BY <1>1, <1>3, <2>2
<1>5. R # {} => Largest(R) \in R /\ \A i \in R : i <= Largest(R)
  BY <1>4, Extremes
<1>6. Len(msgs) > 0 => Back(msgs) \in 1 .. Len(msgs)
  <2>1. CASE R = {}
    BY <1>1, <1>2, <2>1 DEF Back
  <2>2. CASE R # {}
    <3>1. PICK x \in 1 .. Len(msgs) : x = Largest(R)
      BY <1>3, <1>5, <2>2
    <3>2. Back(msgs) = Len(msgs) - x + 1
      BY <1>2, <2>2, <3>1 DEF Back
    <3>. QED BY <1>1, <3>2
  <2>. QED BY <2>1, <2>2
<1>. QED BY <1>2, <1>3, <1>5, <1>6

(* What a summary stands in front of.                                      *)
LEMMA Fronted ==
    ASSUME NEW msgs \in Seq(Messages), NEW n \in 0 .. Len(msgs), NEW c, c = Talk!Compacted(msgs, n)
    PROVE  /\ c \in Seq(Messages) /\ Len(c) = Len(msgs) - n + 1
           /\ c[1] = Talk!SummaryMessage /\ ~Asks(c[1])
           /\ \A i \in 1 .. Len(msgs) - n : c[i + 1] = msgs[n + i]
           /\ \A i \in 0 .. Len(msgs) - n : Talk!After(c, i + 1) = Talk!After(msgs, n + i)
<1>. DEFINE t == Talk!After(msgs, n)
<1>1. PICK s : s = <<Talk!SummaryMessage>>
  OBVIOUS
<1>2. Talk!SummaryMessage \in Messages /\ ~Asks(Talk!SummaryMessage)
  BY TranscriptAssumption DEF Talk!SummaryMessage, Talk!Message, Messages, Asks
<1>3. s \in Seq(Messages) /\ Len(s) = 1 /\ s[1] = Talk!SummaryMessage
  BY <1>1, <1>2
<1>4. Len(msgs) \in Nat
  BY Elements
<1>5. t \in Seq(Messages) /\ Len(t) = Len(msgs) - n /\ \A i \in 1 .. Len(msgs) - n : t[i] = msgs[n + i]
  BY Rest
<1>6. c = s \o t
  BY <1>1 DEF Talk!Compacted
<1>. HIDE DEF t
<1>7. /\ c \in Seq(Messages) /\ Len(c) = Len(s) + Len(t)
      /\ \A i \in 1 .. Len(s) : c[i] = s[i]
      /\ \A j \in 1 .. Len(t) : c[Len(s) + j] = t[j]
  <2>1. /\ s \o t \in Seq(Messages) /\ Len(s \o t) = Len(s) + Len(t)
        /\ \A i \in 1 .. Len(s) : (s \o t)[i] = s[i]
        /\ \A j \in 1 .. Len(t) : (s \o t)[Len(s) + j] = t[j]
    BY <1>3, <1>5, Joined
  <2>. QED BY <1>6, <2>1, Zenon
<1>8. c[1] = Talk!SummaryMessage
  BY <1>3, <1>7
<1>9. Len(c) = Len(msgs) - n + 1 /\ \A i \in 1 .. Len(msgs) - n : c[i + 1] = msgs[n + i]
  <2>1. Len(c) = Len(msgs) - n + 1
    BY <1>3, <1>4, <1>5, <1>7
  <2>2. ASSUME NEW i \in 1 .. Len(msgs) - n PROVE c[i + 1] = msgs[n + i]
    <3>1. 1 + i = i + 1
      OBVIOUS
    <3>2. c[1 + i] = t[i]
      BY <1>3, <1>5, <1>7
    <3>. QED BY <1>5, <3>1, <3>2
  <2>. QED BY <2>1, <2>2
<1>10. ASSUME NEW i \in 0 .. Len(msgs) - n PROVE Talk!After(c, i + 1) = Talk!After(msgs, n + i)
  <2>1. i + 1 \in 0 .. Len(c) /\ n + i \in 0 .. Len(msgs) /\ Len(c) - (i + 1) = Len(msgs) - (n + i)
    BY <1>4, <1>9
  <2>2. PICK a, b : a = Talk!After(c, i + 1) /\ b = Talk!After(msgs, n + i)
    OBVIOUS
  <2>3. a \in Seq(Messages) /\ Len(a) = Len(c) - (i + 1) /\ \A k \in 1 .. Len(c) - (i + 1) : a[k] = c[i + 1 + k]
    BY <1>7, <2>1, <2>2, Rest
  <2>4. b \in Seq(Messages) /\ Len(b) = Len(msgs) - (n + i) /\ \A k \in 1 .. Len(msgs) - (n + i) : b[k] = msgs[n + i + k]
    BY <2>1, <2>2, Rest
  <2>5. ASSUME NEW k \in 1 .. Len(b) PROVE a[k] = b[k]
    <3>1. i + k \in 1 .. Len(msgs) - n /\ i + k + 1 = i + 1 + k /\ n + (i + k) = n + i + k
      <4>1. i \in Nat /\ n \in Nat /\ k \in 1 .. Len(msgs) - (n + i)
        BY <1>4, <2>4
      <4>. QED BY <1>4, <4>1
    <3>2. c[i + 1 + k] = msgs[n + i + k]
      BY <1>9, <3>1
    <3>. QED BY <2>1, <2>3, <2>4, <3>2
  <2>6. a = b
    BY <2>1, <2>3, <2>4, <2>5, SeqEqual
  <2>. QED BY <2>2, <2>6
<1>. QED BY <1>2, <1>7, <1>8, <1>9, <1>10

(* The rounds after a cut are the rounds of what it leaves.                *)
LEMMA RoundsStay ==
    ASSUME NEW msgs \in Seq(Messages), NEW n \in 0 .. Len(msgs), NEW c, c = Talk!Compacted(msgs, n)
    PROVE  /\ 1 \notin Talk!toolRounds(c)
           /\ \A i \in 1 .. Len(msgs) - n : i + 1 \in Talk!toolRounds(c) <=> n + i \in Talk!toolRounds(msgs)
<1>1. /\ c \in Seq(Messages) /\ Len(c) = Len(msgs) - n + 1 /\ ~Asks(c[1])
      /\ \A i \in 1 .. Len(msgs) - n : c[i + 1] = msgs[n + i]
      /\ \A i \in 0 .. Len(msgs) - n : Talk!After(c, i + 1) = Talk!After(msgs, n + i)
  BY Fronted
<1>2. Len(msgs) \in Nat /\ DOMAIN msgs = 1 .. Len(msgs) /\ DOMAIN c = 1 .. Len(c)
  BY <1>1, Elements
<1>3. 1 \notin Talk!toolRounds(c)
  BY <1>1, Same DEF Talk!toolRounds
<1>4. ASSUME NEW i \in 1 .. Len(msgs) - n
      PROVE  i + 1 \in Talk!toolRounds(c) <=> n + i \in Talk!toolRounds(msgs)
  <2>1. i + 1 \in DOMAIN c /\ n + i \in DOMAIN msgs /\ i \in 0 .. Len(msgs) - n
    BY <1>1, <1>2
  <2>2. c[i + 1] = msgs[n + i] /\ Talk!ToolsAfter(c, i + 1) = Talk!ToolsAfter(msgs, n + i)
    BY <1>1, <2>1 DEF Talk!ToolsAfter
  <2>. QED BY <2>1, <2>2 DEF Talk!toolRounds
<1>. QED BY <1>3, <1>4

(* A cut before the last round keeps the end, and the round is still last. *)
LEMMA CompactKeeps ==
    ASSUME NEW msgs \in Seq(Messages), Len(msgs) > 0, NEW n \in 0 .. Len(msgs) - Back(msgs),
           NEW c, c = Talk!Compacted(msgs, n)
    PROVE  SameEnd(msgs, c, Back(msgs)) /\ Back(c) = Back(msgs)
<1>1. PICK B, L \in Nat : L = Len(msgs) /\ B = Back(msgs) /\ B \in 1 .. L /\ n \in 0 .. L - B
  <2>1. Len(msgs) \in Nat
    BY Elements
  <2>. QED BY <2>1, Rounds
<1>2. n \in 0 .. L /\ n < L
  BY <1>1
<1>3. /\ c \in Seq(Messages) /\ Len(c) = L - n + 1
      /\ \A i \in 1 .. L - n : c[i + 1] = msgs[n + i]
  BY <1>1, <1>2, Fronted
<1>4. /\ 1 \notin Talk!toolRounds(c)
      /\ \A i \in 1 .. L - n : i + 1 \in Talk!toolRounds(c) <=> n + i \in Talk!toolRounds(msgs)
  BY <1>1, <1>2, RoundsStay
<1>5. PICK R, S : R = Talk!toolRounds(msgs) /\ S = Talk!toolRounds(c)
  OBVIOUS
<1>6. /\ R \in SUBSET (1 .. L) /\ S \in SUBSET (1 .. Len(c))
      /\ R # {} => Largest(R) \in R /\ \A i \in R : i <= Largest(R)
      /\ S # {} => Largest(S) \in S /\ \A i \in S : i <= Largest(S)
  BY <1>1, <1>3, <1>5, Rounds
<1>7. ASSUME NEW j \in S PROVE j \in Nat /\ j - 1 \in 1 .. L - n /\ n + (j - 1) \in R
  <2>1. j \in 1 .. L - n + 1 /\ j # 1
    BY <1>3, <1>4, <1>5, <1>6
  <2>2. j - 1 \in 1 .. L - n /\ (j - 1) + 1 = j
    BY <1>1, <2>1
  <2>. QED BY <1>4, <1>5, <2>1, <2>2
<1>8. Back(c) = B
  <2>1. CASE R = {}
    <3>1. S = {}
      BY <1>7, <2>1
    <3>. QED BY <1>1, <1>5, <2>1, <3>1 DEF Back
  <2>2. CASE R # {}
    <3>1. PICK x \in R : x = Largest(R) /\ \A i \in R : i <= x
      BY <1>6, <2>2
    <3>2. x \in 1 .. L /\ B = L - x + 1
      BY <1>1, <1>5, <1>6, <2>2, <3>1 DEF Back
    <3>3. x - n \in 1 .. L - n /\ n + (x - n) = x
      BY <1>1, <3>2
    <3>4. x - n + 1 \in S
      BY <1>4, <1>5, <3>3
    <3>5. PICK y \in S : y = Largest(S) /\ \A i \in S : i <= y
      BY <1>6, <3>4
    <3>6. y \in Nat /\ n + (y - 1) <= x
      BY <1>7, <3>1, <3>5
    <3>7. x - n + 1 <= y
      BY <3>4, <3>5
    <3>8. y = x - n + 1
      BY <1>1, <3>2, <3>6, <3>7
    <3>9. Back(c) = Len(c) - y + 1
      BY <1>5, <3>4, <3>5 DEF Back
    <3>. QED BY <1>1, <1>3, <3>2, <3>8, <3>9
  <2>. QED BY <2>1, <2>2
<1>9. SameEnd(msgs, c, B)
  <2>1. B <= L /\ B <= Len(c)
    BY <1>1, <1>3
  <2>2. ASSUME NEW k \in 0 .. B - 1 PROVE c[Len(c) - k] = msgs[L - k]
    <3>1. L - n - k \in 1 .. L - n /\ (L - n - k) + 1 = Len(c) - k /\ n + (L - n - k) = L - k
      BY <1>1, <1>3
    <3>. QED BY <1>3, <3>1
  <2>. QED BY <1>1, <2>1, <2>2 DEF SameEnd
<1>. QED BY <1>1, <1>8, <1>9

(* The last round has none after it.                                       *)
LEMMA LastRoundIsLast ==
    ASSUME NEW msgs \in Seq(Messages), NEW i \in Talk!toolRounds(msgs)
    PROVE  /\ i = Largest(Talk!toolRounds(msgs)) => Talk!Later(Talk!toolRounds(msgs), i) = 0
           /\ Talk!Later(Talk!toolRounds(msgs), i) >= 1 => i < Largest(Talk!toolRounds(msgs))
<1>1. PICK R : R = Talk!toolRounds(msgs)
  OBVIOUS
<1>2. R \in SUBSET (1 .. Len(msgs)) /\ Largest(R) \in R /\ \A j \in R : j <= Largest(R)
  BY <1>1, Rounds
<1>3. PICK x \in R : x = Largest(R)
  BY <1>2
<1>4. \A j \in R : j \in Nat
  BY <1>2
<1>5. Talk!Later(R, i) = Cardinality({j \in R : j > i})
  BY Zenon DEF Talk!Later, Talk!Cardinality, Cardinality
<1>6. ASSUME i = x PROVE Talk!Later(R, i) = 0
  <2>1. ASSUME NEW j \in R, j > i PROVE FALSE
    <3>1. j \in Nat /\ x \in Nat /\ j <= x
      BY <1>2, <1>3, <1>4
    <3>. QED BY <1>6, <2>1, <3>1
  <2>2. {j \in R : j > i} = {}
    BY <2>1
  <2>. QED BY <1>5, <2>2, FS_EmptySet
<1>7. i \in R /\ i <= x
  BY <1>1, <1>2, <1>3
<1>8. Talk!Later(R, i) >= 1 => i < x
  BY <1>3, <1>4, <1>6, <1>7
<1>. QED BY <1>1, <1>3, <1>6, <1>8

(* A compaction splits before the last round and the last message.         *)
LEMMA SplitKeeps ==
    ASSUME NEW msgs \in Seq(Messages), Len(msgs) > 0, NEW keep \in Nat, keep >= 1, NEW rounds \in Nat, rounds >= 1
    PROVE  Talk!splitForCompression(msgs, keep, rounds) \in 0 .. Len(msgs) - Back(msgs)
<1>1. PICK n : n = Talk!splitForCompression(msgs, keep, rounds)
  OBVIOUS
<1>2. /\ n \in 0 .. Len(msgs) /\ (n > 0 => n < Len(msgs))
      /\ \A i \in Talk!toolRounds(msgs) : Talk!Later(Talk!toolRounds(msgs), i) < rounds => n <= i - 1
  BY <1>1, Split
<1>3. Len(msgs) \in Nat
  BY Elements
<1>4. CASE Talk!toolRounds(msgs) = {}
  BY <1>1, <1>2, <1>3, <1>4 DEF Back
<1>5. CASE Talk!toolRounds(msgs) # {}
  <2>1. PICK x \in Talk!toolRounds(msgs) : x = Largest(Talk!toolRounds(msgs)) /\ x \in 1 .. Len(msgs)
    BY <1>5, Rounds
  <2>2. n <= x - 1
    <3>1. Talk!Later(Talk!toolRounds(msgs), x) = 0
      BY <2>1, LastRoundIsLast
    <3>. QED BY <1>2, <3>1
  <2>3. Back(msgs) = Len(msgs) - x + 1
    BY <1>5, <2>1 DEF Back
  <2>. QED BY <1>1, <1>2, <1>3, <2>1, <2>2, <2>3
<1>. QED BY <1>4, <1>5

(* Dropping the results of older rounds keeps the end.                     *)
LEMMA DropKeeps ==
    ASSUME NEW msgs, Linked(msgs), SummaryFirst(msgs), Len(msgs) > 0
    PROVE  SameEnd(msgs, Talk!dropOldToolResults(msgs, 1), Back(msgs))
<1>0. msgs \in Seq(Messages) /\ InPlace(msgs) /\ Complete(msgs) /\ Len(msgs) \in Nat
  BY Elements DEF Linked, Partial
<1>1. PICK x \in 1 .. Len(msgs) : x = Len(msgs) - Back(msgs) + 1 /\ Back(msgs) = Len(msgs) - x + 1
  <2>1. Back(msgs) \in 1 .. Len(msgs)
    BY <1>0, Rounds
  <2>2. Len(msgs) - Back(msgs) + 1 \in 1 .. Len(msgs)
        /\ Back(msgs) = Len(msgs) - (Len(msgs) - Back(msgs) + 1) + 1
    BY <1>0, <2>1
  <2>. QED BY <2>2
<1>2. ASSUME NEW i \in Talk!toolRounds(msgs), Talk!Later(Talk!toolRounds(msgs), i) >= 1
      PROVE  i + msgs[i].calls < x
  <2>1. i \in 1 .. Len(msgs) /\ Asks(msgs[i]) /\ msgs[i].calls \in Nat /\ msgs[i].calls <= MaxCalls
    BY <1>0, Rounds, Elements, TranscriptAssumption
  <2>2. x = Largest(Talk!toolRounds(msgs)) /\ Asks(msgs[x])
    <3>1. PICK y \in 1 .. Len(msgs) : y = Largest(Talk!toolRounds(msgs)) /\ Asks(msgs[y])
      BY <1>0, Rounds
    <3>2. Back(msgs) = Len(msgs) - y + 1
      BY <3>1 DEF Back
    <3>3. x = y
      BY <1>0, <1>1, <3>2
    <3>. QED BY <3>1, <3>3
  <2>3. i < x
    BY <1>0, <1>2, <2>2, LastRoundIsLast
  <2>4. SUFFICES ASSUME i + msgs[i].calls >= x PROVE FALSE
    BY <2>1
  <2>5. PICK k \in 1 .. MaxCalls : i + k = x /\ k <= msgs[i].calls
    <3>1. x - i \in 1 .. MaxCalls /\ i + (x - i) = x /\ x - i <= msgs[i].calls
      BY <2>1, <2>3, <2>4, TranscriptAssumption
    <3>. QED BY <3>1
  <2>6. Tool(msgs[x])
    <3>1. i + k <= Len(msgs)
      BY <2>5
    <3>2. Tool(msgs[i + k])
      BY <1>0, <2>1, <2>5, <3>1 DEF InPlace
    <3>. QED BY <2>5, <3>2
  <2>. QED BY <2>2, <2>6 DEF Asks, Tool
<1>. QED BY <1>1, <1>2, Dropping

-----------------------------------------------------------------------------
(* How large a compaction makes a transcript.                              *)
Units(msgs) == UNION {{i} \X (1 .. msgs[i].size) : i \in 1 .. Len(msgs)}

(* The units of a transcript are pairs of a message and a number.          *)
LEMMA Sums ==
    ASSUME NEW msgs \in Seq(Messages)
    PROVE  /\ IsFiniteSet(Units(msgs))
           /\ Talk!Total(msgs) = Cardinality(Units(msgs)) /\ Talk!Total(msgs) \in Nat
           /\ \A i \in 1 .. Len(msgs) : \A k \in 1 .. msgs[i].size : <<i, k>> \in Units(msgs)
           /\ \A u \in Units(msgs) : \E i \in 1 .. Len(msgs), k \in Nat : k \in 1 .. msgs[i].size /\ u = <<i, k>>
<1>. DEFINE L == Len(msgs)
            Part(i) == {i} \X (1 .. msgs[i].size)
            f == [i \in 1 .. L |-> Part(i)]
            F == {Part(i) : i \in 1 .. L}
<1>1. L \in Nat /\ DOMAIN msgs = 1 .. L
  BY Elements
<1>2. ASSUME NEW i \in 1 .. L PROVE IsFiniteSet(Part(i))
  <2>1. msgs[i].size \in Nat
    BY Weights
  <2>2. PICK w \in Nat : w = msgs[i].size
    BY <2>1
  <2>3. IsFiniteSet({i})
    BY FS_Singleton
  <2>4. IsFiniteSet(1 .. w)
    BY FS_Interval
  <2>. QED BY <2>2, <2>3, <2>4, FS_Product
<1>3. IsFiniteSet(F)
  <2>1. f \in Surjection(1 .. L, F)
    BY DEF Surjection
  <2>2. IsFiniteSet(1 .. L)
    BY <1>1, FS_Interval
  <2>. HIDE DEF f, F
  <2>. QED BY <2>1, <2>2, FS_Surjection
<1>4. IsFiniteSet(UNION F)
  <2>1. \A T \in F : IsFiniteSet(T)
    BY <1>2
  <2>. HIDE DEF F
  <2>. QED BY <1>3, <2>1, FS_UNION
<1>5. Units(msgs) = UNION F
  BY DEF Units
<1>6. Talk!Total(msgs) = Cardinality(Units(msgs))
  <2>1. Talk!Units(msgs) = Units(msgs)
    BY <1>1 DEF Talk!Units, Units
  <2>2. Talk!Total(msgs) = Talk!Cardinality(Units(msgs))
    BY <2>1 DEF Talk!Total
  <2>. QED BY <2>2, Zenon DEF Talk!Cardinality, Cardinality
<1>7. Cardinality(Units(msgs)) \in Nat
  BY <1>4, <1>5, FS_CardinalityType
<1>8. \A i \in 1 .. L : \A k \in 1 .. msgs[i].size : <<i, k>> \in Units(msgs)
  BY DEF Units
<1>9. \A u \in Units(msgs) : \E i \in 1 .. L, k \in Nat : k \in 1 .. msgs[i].size /\ u = <<i, k>>
  BY DEF Units
<1>. QED BY <1>4, <1>5, <1>6, <1>7, <1>8, <1>9

(* A transcript holds so many notes.                                       *)
LEMMA NoteCount ==
    ASSUME NEW msgs \in Seq(Messages)
    PROVE  /\ Talk!Notes(msgs) = {i \in 1 .. Len(msgs) : msgs[i] = Talk!Note}
           /\ IsFiniteSet(Talk!Notes(msgs))
           /\ Talk!Cardinality(Talk!Notes(msgs)) = Cardinality(Talk!Notes(msgs))
           /\ Cardinality(Talk!Notes(msgs)) \in Nat
           /\ NoteSize * Cardinality(Talk!Notes(msgs)) \in Nat
<1>1. Len(msgs) \in Nat /\ DOMAIN msgs = 1 .. Len(msgs)
  BY Elements
<1>2. Talk!Notes(msgs) = {i \in 1 .. Len(msgs) : msgs[i] = Talk!Note}
  BY <1>1 DEF Talk!Notes
<1>3. PICK S : S = Talk!Notes(msgs)
  OBVIOUS
<1>4. IsFiniteSet(S)
  <2>1. IsFiniteSet(1 .. Len(msgs)) /\ S \subseteq 1 .. Len(msgs)
    BY <1>1, <1>2, <1>3, FS_Interval
  <2>. QED BY <2>1, FS_Subset
<1>5. PICK n \in Nat : n = Cardinality(S)
  BY <1>4, FS_CardinalityType
<1>6. Talk!Cardinality(S) = Cardinality(S)
  BY Zenon DEF Talk!Cardinality, Cardinality
<1>7. NoteSize * n \in Nat
  BY TranscriptAssumption
<1>. QED BY <1>2, <1>3, <1>4, <1>5, <1>6, <1>7

(* What stands for messages that are larger is smaller, but for its notes. *)
LEMMA Lighter ==
    ASSUME NEW a \in Seq(Messages), NEW b \in Seq(Messages), Shrinks(a, b)
    PROVE  Talk!Total(b) <= Talk!Total(a) + NoteSize * Cardinality(Talk!Notes(b))
<1>1. PICK g \in [1 .. Len(b) -> 1 .. Len(a)] :
        /\ \A i, j \in 1 .. Len(b) : g[i] = g[j] => i = j
        /\ \A i \in 1 .. Len(b) : b[i] # Talk!Note => b[i].size <= a[g[i]].size
  BY DEF Shrinks
<1>2. PICK D : D = Talk!Notes(b)
  OBVIOUS
<1>3. D = {i \in 1 .. Len(b) : b[i] = Talk!Note} /\ IsFiniteSet(D) /\ Cardinality(D) \in Nat
  BY <1>2, NoteCount
(* The units of the notes are set apart from those of a.                   *)
<1>. DEFINE N == D \X (1 .. NoteSize)
            S == {0} \X N
            f == [u \in Units(b) |-> IF u[1] \in D THEN <<0, u>> ELSE <<g[u[1]], u[2]>>]
<1>4. IsFiniteSet(S) /\ Cardinality(S) = NoteSize * Cardinality(D)
  <2>1. PICK w \in Nat : w = NoteSize
    BY TranscriptAssumption
  <2>2. IsFiniteSet(1 .. w) /\ Cardinality(1 .. w) = w
    <3>1. 1 \in Int /\ w \in Int /\ (IF 1 > w THEN 0 ELSE w - 1 + 1) = w
      OBVIOUS
    <3>2. IsFiniteSet(1 .. w) /\ Cardinality(1 .. w) = (IF 1 > w THEN 0 ELSE w - 1 + 1)
      BY <3>1, FS_Interval
    <3>. QED BY <3>1, <3>2
  <2>3. IsFiniteSet(N) /\ Cardinality(N) = Cardinality(D) * w
    BY <1>3, <2>1, <2>2, FS_Product
  <2>4. IsFiniteSet({0}) /\ Cardinality({0}) = 1
    BY FS_Singleton
  <2>. HIDE DEF N
  <2>5. IsFiniteSet(S) /\ Cardinality(S) = 1 * Cardinality(N) /\ Cardinality(N) \in Nat
    BY <2>3, <2>4, FS_Product, FS_CardinalityType
  <2>6. PICK d \in Nat : d = Cardinality(D)
    BY <1>3
  <2>7. 1 * Cardinality(N) = Cardinality(N)
    BY <2>5
  <2>8. d * w = w * d
    OBVIOUS
  <2>. HIDE DEF S
  <2>9. Cardinality(S) = d * w
    BY <2>3, <2>5, <2>6, <2>7
  <2>. QED BY <2>1, <2>5, <2>6, <2>8, <2>9
<1>5. ASSUME NEW i \in 1 .. Len(b), NEW k \in 1 .. b[i].size
      PROVE  /\ i \in D => <<0, <<i, k>>>> \in S
             /\ i \notin D => <<g[i], k>> \in Units(a) /\ g[i] \in Nat /\ g[i] >= 1
  <2>1. CASE i \in D
    <3>1. b[i].size = NoteSize
      BY <1>3, <2>1 DEF Talk!Note, Talk!Message
    <3>. QED BY <2>1, <3>1
  <2>2. CASE i \notin D
    <3>1. g[i] \in 1 .. Len(a) /\ b[i].size <= a[g[i]].size
      BY <1>1, <1>3, <2>2
    <3>2. b[i].size \in Nat /\ a[g[i]].size \in Nat /\ Len(a) \in Nat
      BY <3>1, Weights, Elements
    <3>3. k \in 1 .. a[g[i]].size
      BY <3>1, <3>2
    <3>. QED BY <2>2, <3>1, <3>2, <3>3, Sums
  <2>. QED BY <2>1, <2>2
<1>. HIDE DEF S
<1>6. ASSUME NEW u \in Units(b) PROVE f[u] \in S \cup Units(a)
  <2>1. PICK i \in 1 .. Len(b), k \in Nat : k \in 1 .. b[i].size /\ u = <<i, k>>
    BY Sums
  <2>2. f[u] = IF i \in D THEN <<0, <<i, k>>>> ELSE <<g[i], k>>
    BY <2>1
  <2>. QED BY <1>5, <2>1, <2>2
<1>7. ASSUME NEW u \in Units(b), NEW v \in Units(b), f[u] = f[v] PROVE u = v
  <2>1. PICK i \in 1 .. Len(b), k \in Nat : k \in 1 .. b[i].size /\ u = <<i, k>>
    BY Sums
  <2>2. PICK j \in 1 .. Len(b), l \in Nat : l \in 1 .. b[j].size /\ v = <<j, l>>
    BY Sums
  <2>3. /\ f[u] = IF i \in D THEN <<0, u>> ELSE <<g[i], k>>
        /\ f[v] = IF j \in D THEN <<0, v>> ELSE <<g[j], l>>
    BY <2>1, <2>2
  <2>4. f[u] = f[v]
    BY <1>7
  <2>5. i \notin D => g[i] # 0
    <3>1. i \notin D => g[i] \in Nat /\ g[i] >= 1
      BY <1>5, <2>1, Zenon
    <3>. QED BY <3>1
  <2>6. j \notin D => g[j] # 0
    <3>1. j \notin D => g[j] \in Nat /\ g[j] >= 1
      BY <1>5, <2>2, Zenon
    <3>. QED BY <3>1
  <2>. HIDE DEF f
  <2>7. CASE i \in D
    <3>1. f[u] = <<0, u>>
      BY <2>3, <2>7
    <3>2. j \in D
      <4>1. SUFFICES ASSUME j \notin D PROVE FALSE
        OBVIOUS
      <4>2. <<0, u>> = <<g[j], l>>
        BY <2>3, <2>4, <3>1, <4>1
      <4>. QED BY <2>6, <4>1, <4>2
    <3>3. <<0, u>> = <<0, v>>
      BY <2>3, <2>4, <3>1, <3>2
    <3>. QED BY <3>3
  <2>8. CASE i \notin D
    <3>1. f[u] = <<g[i], k>>
      BY <2>3, <2>8
    <3>2. j \notin D
      <4>1. SUFFICES ASSUME j \in D PROVE FALSE
        OBVIOUS
      <4>2. <<0, v>> = <<g[i], k>>
        BY <2>3, <2>4, <3>1, <4>1
      <4>. QED BY <2>5, <2>8, <4>2
    <3>3. <<g[i], k>> = <<g[j], l>>
      BY <2>3, <2>4, <3>1, <3>2
    <3>4. g[i] = g[j] /\ k = l
      BY <3>3
    <3>. QED BY <1>1, <2>1, <2>2, <3>4
  <2>. QED BY <2>7, <2>8
<1>8. f \in Injection(Units(b), S \cup Units(a))
  <2>1. f \in [Units(b) -> S \cup Units(a)]
    BY <1>6
  <2>. HIDE DEF f
  <2>. QED BY <1>7, <2>1 DEF Injection, IsInjective
<1>. HIDE DEF f
<1>9. /\ IsFiniteSet(S \cup Units(a))
      /\ Cardinality(S \cup Units(a)) = Cardinality(S) + Talk!Total(a) - Cardinality(S \cap Units(a))
  BY <1>4, Sums, FS_Union
<1>10. Cardinality(S \cap Units(a)) \in Nat /\ Cardinality(S) \in Nat
  <2>1. IsFiniteSet(S \cap Units(a))
    BY <1>4, FS_Subset
  <2>. QED BY <1>4, <2>1, FS_CardinalityType
<1>11. Talk!Total(b) <= Cardinality(S \cup Units(a))
  BY <1>8, <1>9, Sums, FS_Injection
<1>12. Talk!Total(b) \in Nat /\ Talk!Total(a) \in Nat
  BY Sums
<1>13. Talk!Total(b) <= Talk!Total(a) + Cardinality(S)
  BY <1>9, <1>10, <1>11, <1>12
<1>. QED BY <1>2, <1>4, <1>13

(* What is left of a transcript is not larger.                             *)
LEMMA RestIsLighter ==
    ASSUME NEW msgs \in Seq(Messages), NEW n \in 0 .. Len(msgs)
    PROVE  Talk!Total(Talk!After(msgs, n)) <= Talk!Total(msgs)
<1>1. PICK t : t = Talk!After(msgs, n)
  OBVIOUS
<1>2. t \in Seq(Messages) /\ Len(t) = Len(msgs) - n /\ \A i \in 1 .. Len(msgs) - n : t[i] = msgs[n + i]
  BY <1>1, Rest
<1>3. Len(msgs) \in Nat
  BY Elements
<1>. DEFINE f == [u \in Units(t) |-> <<n + u[1], u[2]>>]
<1>4. ASSUME NEW u \in Units(t) PROVE f[u] \in Units(msgs)
  <2>1. PICK i \in 1 .. Len(t), k \in Nat : k \in 1 .. t[i].size /\ u = <<i, k>>
    BY <1>2, Sums
  <2>2. t[i] = msgs[n + i] /\ n + i \in 1 .. Len(msgs)
    BY <1>2, <1>3
  <2>3. <<n + i, k>> \in Units(msgs)
    BY <2>1, <2>2, Sums
  <2>. QED BY <2>1, <2>3
<1>5. ASSUME NEW u \in Units(t), NEW v \in Units(t), f[u] = f[v] PROVE u = v
  <2>1. PICK i \in 1 .. Len(t), k \in Nat : k \in 1 .. t[i].size /\ u = <<i, k>>
    BY <1>2, Sums
  <2>2. PICK j \in 1 .. Len(t), l \in Nat : l \in 1 .. t[j].size /\ v = <<j, l>>
    BY <1>2, Sums
  <2>3. n + i = n + j /\ k = l
    BY <1>5, <2>1, <2>2
  <2>4. i = j
    BY <2>3
  <2>. QED BY <2>1, <2>2, <2>3, <2>4
<1>6. f \in Injection(Units(t), Units(msgs))
  <2>1. f \in [Units(t) -> Units(msgs)]
    BY <1>4
  <2>. HIDE DEF f
  <2>. QED BY <1>5, <2>1 DEF Injection, IsInjective
<1>. HIDE DEF f
<1>. QED BY <1>1, <1>2, <1>6, Sums, FS_Injection

(* A summary adds its own size to what is left.                            *)
LEMMA SummaryAdds ==
    ASSUME NEW msgs \in Seq(Messages), NEW n \in 0 .. Len(msgs)
    PROVE  Talk!Total(Talk!Compacted(msgs, n)) <= Talk!Total(Talk!After(msgs, n)) + Summary
<1>1. PICK c, t : c = Talk!Compacted(msgs, n) /\ t = Talk!After(msgs, n)
  OBVIOUS
<1>2. t \in Seq(Messages) /\ Len(t) = Len(msgs) - n /\ \A i \in 1 .. Len(msgs) - n : t[i] = msgs[n + i]
  BY <1>1, Rest
<1>3. /\ c \in Seq(Messages) /\ Len(c) = Len(msgs) - n + 1 /\ c[1] = Talk!SummaryMessage
      /\ \A i \in 1 .. Len(msgs) - n : c[i + 1] = msgs[n + i]
  BY <1>1, Fronted
<1>4. Len(msgs) \in Nat /\ c[1].size = Summary /\ Summary \in Nat
  BY <1>3, Elements, TranscriptAssumption DEF Talk!SummaryMessage, Talk!Message
<1>. DEFINE S == {0} \X (1 .. Summary)
            f == [u \in Units(c) |-> <<u[1] - 1, u[2]>>]
<1>5. IsFiniteSet(S) /\ Cardinality(S) = Summary
  <2>1. IsFiniteSet({0}) /\ Cardinality({0}) = 1
    BY FS_Singleton
  <2>2. IsFiniteSet(1 .. Summary) /\ Cardinality(1 .. Summary) = Summary
    <3>1. PICK w \in Nat : w = Summary
      BY <1>4
    <3>2. 1 \in Int /\ w \in Int /\ (IF 1 > w THEN 0 ELSE w - 1 + 1) = w
      OBVIOUS
    <3>3. IsFiniteSet(1 .. w) /\ Cardinality(1 .. w) = (IF 1 > w THEN 0 ELSE w - 1 + 1)
      BY <3>2, FS_Interval
    <3>. QED BY <3>1, <3>2, <3>3
  <2>. QED BY <1>4, <2>1, <2>2, FS_Product
<1>6. ASSUME NEW i \in 1 .. Len(c), NEW k \in 1 .. c[i].size PROVE <<i - 1, k>> \in S \cup Units(t)
  <2>1. CASE i = 1
    BY <1>4, <2>1
  <2>2. CASE i # 1
    <3>1. i - 1 \in 1 .. Len(t) /\ (i - 1) + 1 = i
      BY <1>2, <1>3, <1>4, <2>2
    <3>2. c[i] = t[i - 1]
      BY <1>2, <1>3, <3>1
    <3>. QED BY <1>2, <3>1, <3>2, Sums
  <2>. QED BY <2>1, <2>2
<1>. HIDE DEF S
<1>7. ASSUME NEW u \in Units(c) PROVE f[u] \in S \cup Units(t)
  <2>1. PICK i \in 1 .. Len(c), k \in Nat : k \in 1 .. c[i].size /\ u = <<i, k>>
    BY <1>3, Sums
  <2>2. f[u] = <<i - 1, k>>
    BY <2>1
  <2>. QED BY <1>6, <2>1, <2>2
<1>8. ASSUME NEW u \in Units(c), NEW v \in Units(c), f[u] = f[v] PROVE u = v
  <2>1. PICK i \in 1 .. Len(c), k \in Nat : k \in 1 .. c[i].size /\ u = <<i, k>>
    BY <1>3, Sums
  <2>2. PICK j \in 1 .. Len(c), l \in Nat : l \in 1 .. c[j].size /\ v = <<j, l>>
    BY <1>3, Sums
  <2>3. i - 1 = j - 1 /\ k = l
    BY <1>8, <2>1, <2>2
  <2>4. i = j
    BY <2>3
  <2>. QED BY <2>1, <2>2, <2>3, <2>4
<1>9. f \in Injection(Units(c), S \cup Units(t))
  <2>1. f \in [Units(c) -> S \cup Units(t)]
    BY <1>7
  <2>. QED BY <1>8, <2>1 DEF Injection, IsInjective
<1>. HIDE DEF f
<1>10. /\ IsFiniteSet(S \cup Units(t))
       /\ Cardinality(S \cup Units(t)) = Summary + Talk!Total(t) - Cardinality(S \cap Units(t))
  BY <1>2, <1>5, Sums, FS_Union
<1>11. Cardinality(S \cap Units(t)) \in Nat
  <2>1. IsFiniteSet(S \cap Units(t))
    BY <1>5, FS_Subset
  <2>. QED BY <2>1, FS_CardinalityType
<1>12. Talk!Total(c) <= Cardinality(S \cup Units(t))
  BY <1>3, <1>9, <1>10, Sums, FS_Injection
<1>13. Talk!Total(c) \in Nat /\ Talk!Total(t) \in Nat
  BY <1>2, <1>3, Sums
<1>. QED BY <1>1, <1>4, <1>10, <1>11, <1>12, <1>13

(* A transcript in order that fits is trimmed to itself.                   *)
LEMMA TrimFits ==
    ASSUME NEW msgs, Partial(msgs), Len(msgs) <= MaxHistory
    PROVE  Talk!trimHistory(msgs) = msgs
<1>1. msgs \in Seq(Messages) /\ Len(msgs) \in Nat /\ Owned(msgs)
  BY Elements DEF Partial
<1>2. Talk!After(msgs, 0) = msgs
  BY <1>1, SubSeqFull DEF Talk!After
<1>3. Talk!Capped(msgs) = msgs
  <2>1. ~(Len(msgs) > MaxHistory)
    BY <1>1, TranscriptAssumption
  <2>. QED BY <2>1 DEF Talk!Capped
<1>4. Talk!LeadingTools(msgs) = 0
  <2>1. /\ Talk!LeadingTools(msgs) \in 0 .. Len(msgs)
        /\ \A k \in 1 .. Talk!LeadingTools(msgs) : Tool(msgs[k])
    BY <1>1, Leading
  <2>2. SUFFICES ASSUME Talk!LeadingTools(msgs) # 0 PROVE FALSE
    OBVIOUS
  <2>3. 1 \in 1 .. Len(msgs) /\ Tool(msgs[1])
    BY <1>1, <2>1, <2>2
  <2>4. msgs[1].call \in 1 .. 1 - 1
    BY <1>1, <2>3 DEF Owned
  <2>. QED BY <2>4
<1>. QED BY <1>2, <1>3, <1>4 DEF Talk!trimHistory

(* Keeping an end twice is keeping it.                                     *)
LEMMA EndOfEnd ==
    ASSUME NEW a, NEW b, NEW c, NEW n, SameEnd(a, b, n), SameEnd(b, c, n)
    PROVE  SameEnd(a, c, n)
BY DEF SameEnd

(* A compaction keeps the end, and adds at most a summary and the notes.   *)
LEMMA CompressKeeps ==
    ASSUME NEW h, Linked(h), SummaryFirst(h), Len(h) <= MaxHistory
    PROVE  \/ Talk!compress(h) = h
           \/ /\ Len(h) > 0 /\ SameEnd(h, Talk!compress(h), Back(h))
              /\ Len(Talk!compress(h)) <= Len(h)
              /\ Talk!Total(Talk!compress(h))
                   <= Talk!Total(h) + Summary + NoteSize * Cardinality(Talk!Notes(Talk!compress(h)))
<1>. DEFINE first  == Talk!splitForCompression(h, KeepMessages, KeepRounds)
            once   == Talk!Compacted(h, first)
            second == Talk!splitForCompression(once, KeepMessages \div 2, 1)
            twice  == IF second > 0 THEN Talk!Compacted(once, second) ELSE once
            less   == Talk!dropOldToolResults(twice, 1)
            Good(m) == /\ Linked(m) /\ SummaryFirst(m) /\ Len(m) > 0 /\ Len(m) <= Len(h)
                       /\ SameEnd(h, m, Back(h)) /\ Back(m) = Back(h)
                       /\ Talk!Total(m) <= Talk!Total(h) + Summary
<1>0. /\ MaxHistory \in Nat /\ KeepMessages \in Nat /\ KeepMessages >= 1
      /\ KeepMessages \div 2 \in Nat /\ KeepMessages \div 2 >= 1 /\ KeepRounds \in Nat /\ KeepRounds >= 1
      /\ Summary \in Nat
  BY TranscriptAssumption
<1>1. h \in Seq(Messages) /\ Len(h) \in Nat /\ Partial(h) /\ Talk!Total(h) \in Nat
  BY Elements, Sums DEF Linked, Partial
<1>2. first \in 0 .. Len(h) /\ (first > 0 => first < Len(h) /\ ~Tool(h[first + 1]))
  BY <1>0, <1>1, Split
<1>3. Len(h) > 0 => first \in 0 .. Len(h) - Back(h)
  BY <1>0, <1>1, SplitKeeps
<1>. HIDE DEF first
<1>4. CASE first = 0
  <2>1. Talk!compress(h) = Talk!trimHistory(h)
    BY <1>4 DEF Talk!compress, first
  <2>. QED BY <1>1, <2>1, TrimFits
<1>5. CASE first # 0
  <2>0. Len(h) > 0 /\ first \in 1 .. Len(h) /\ first \in 0 .. Len(h) - Back(h) /\ Back(h) \in 1 .. Len(h)
    BY <1>1, <1>2, <1>3, <1>5, Rounds
  <2>1. /\ Linked(once) /\ SummaryFirst(once) /\ Len(once) <= Len(h)
    BY <1>2, <2>0, Compacting
  <2>2. /\ once \in Seq(Messages) /\ Len(once) = Len(h) - first + 1
        /\ \A i \in 0 .. Len(h) - first : Talk!After(once, i + 1) = Talk!After(h, first + i)
    BY <1>1, <2>0, Fronted
  <2>3. SameEnd(h, once, Back(h)) /\ Back(once) = Back(h)
    BY <1>1, <2>0, CompactKeeps
  <2>4. Talk!Total(once) <= Talk!Total(h) + Summary
    <3>1. Talk!Total(once) <= Talk!Total(Talk!After(h, first)) + Summary
      BY <1>1, <1>2, SummaryAdds
    <3>2. Talk!Total(Talk!After(h, first)) <= Talk!Total(h)
      BY <1>1, <1>2, RestIsLighter
    <3>3. Talk!Total(once) \in Nat /\ Talk!Total(Talk!After(h, first)) \in Nat
      BY <1>1, <1>2, <2>2, Rest, Sums
    <3>. QED BY <1>0, <1>1, <3>1, <3>2, <3>3
  <2>5. Good(once)
    BY <1>1, <1>2, <2>0, <2>1, <2>2, <2>3, <2>4
  <2>. HIDE DEF once, Good
  <2>6. /\ second \in 0 .. Len(once) /\ (second > 0 => second < Len(once) /\ ~Tool(once[second + 1]))
        /\ second \in 0 .. Len(once) - Back(once)
    <3>1. Len(once) > 0
      BY <2>5 DEF Good
    <3>2. second \in 0 .. Len(once) /\ (second > 0 => second < Len(once) /\ ~Tool(once[second + 1]))
      BY <1>0, <2>2, Split
    <3>3. second \in 0 .. Len(once) - Back(once)
      <4>1. 1 \in Nat /\ 1 >= 1
        OBVIOUS
      <4>. QED BY <1>0, <2>2, <3>1, <4>1, SplitKeeps
    <3>. QED BY <3>2, <3>3
  <2>. HIDE DEF second
  <2>7. ASSUME second > 0 PROVE Good(Talk!Compacted(once, second))
    <3>1. PICK m : m = Talk!Compacted(once, second)
      OBVIOUS
    <3>2. second \in 1 .. Len(once) /\ Len(once) > 0 /\ Len(once) \in Nat
      BY <2>2, <2>5, <2>6, <2>7, Elements DEF Good
    <3>3. Linked(m) /\ SummaryFirst(m) /\ Len(m) <= Len(once)
      BY <2>1, <2>6, <3>1, <3>2, Compacting
    <3>4. SameEnd(once, m, Back(once)) /\ Back(m) = Back(once)
      BY <2>2, <2>6, <3>1, <3>2, CompactKeeps
    <3>5. SameEnd(h, m, Back(h)) /\ Back(m) = Back(h)
      BY <2>3, <3>4, EndOfEnd
    <3>6. m \in Seq(Messages) /\ Len(m) = Len(once) - second + 1
      BY <2>2, <2>6, <3>1, Fronted
    <3>7. Talk!Total(m) <= Talk!Total(h) + Summary
      <4>1. PICK i \in 0 .. Len(h) - first : second = i + 1
        <5>1. second - 1 \in 0 .. Len(h) - first /\ second = (second - 1) + 1
          BY <1>1, <1>2, <2>2, <3>2
        <5>. QED BY <5>1
      <4>2. Talk!After(once, second) = Talk!After(h, first + i) /\ first + i \in 0 .. Len(h)
        BY <1>1, <1>2, <2>2, <4>1
      <4>3. Talk!Total(m) <= Talk!Total(Talk!After(once, second)) + Summary
        BY <2>2, <2>6, <3>1, SummaryAdds
      <4>4. Talk!Total(Talk!After(h, first + i)) <= Talk!Total(h)
        BY <1>1, <4>2, RestIsLighter
      <4>5. Talk!Total(m) \in Nat /\ Talk!Total(Talk!After(h, first + i)) \in Nat
        BY <1>1, <3>6, <4>2, Rest, Sums
      <4>. QED BY <1>0, <1>1, <4>2, <4>3, <4>4, <4>5
    <3>8. Len(m) > 0 /\ Len(m) <= Len(h)
      BY <1>1, <2>1, <2>6, <3>2, <3>6
    <3>. QED BY <3>1, <3>3, <3>5, <3>7, <3>8 DEF Good
  <2>8. Good(twice)
    BY <2>5, <2>7
  <2>. HIDE DEF twice
  <2>9. /\ Linked(less) /\ SummaryFirst(less) /\ Len(less) <= Len(twice)
        /\ Shrinks(twice, less) /\ SameEnd(twice, less, Back(twice))
    BY <2>8, Dropping, DropKeeps DEF Good
  <2>. HIDE DEF less
  <2>. DEFINE Fine(m) == /\ SameEnd(h, m, Back(h)) /\ Len(m) <= Len(h)
                         /\ Talk!Total(m) <= Talk!Total(h) + Summary + NoteSize * Cardinality(Talk!Notes(m))
  <2>10. Fine(less) /\ Len(less) <= MaxHistory
    <3>1. SameEnd(h, less, Back(h))
      BY <2>8, <2>9, EndOfEnd DEF Good
    <3>2. less \in Seq(Messages) /\ twice \in Seq(Messages)
      BY <2>8, <2>9 DEF Good, Linked, Partial
    <3>3. PICK x \in Nat : x = NoteSize * Cardinality(Talk!Notes(less))
      BY <3>2, NoteCount
    <3>4. Talk!Total(less) <= Talk!Total(twice) + x /\ Talk!Total(less) \in Nat /\ Talk!Total(twice) \in Nat
      BY <2>9, <3>2, <3>3, Lighter, Sums
    <3>5. Talk!Total(twice) <= Talk!Total(h) + Summary /\ Len(twice) <= Len(h)
      BY <2>8 DEF Good
    <3>6. Len(less) \in Nat /\ Len(twice) \in Nat
      BY <3>2, Elements
    <3>7. Talk!Total(less) <= Talk!Total(h) + Summary + x
      BY <1>0, <1>1, <3>4, <3>5
    <3>8. Len(less) <= Len(h) /\ Len(less) <= MaxHistory
      BY <1>0, <1>1, <2>9, <3>5, <3>6
    <3>. QED BY <3>1, <3>3, <3>7, <3>8
  <2>13. ASSUME NEW m, Good(m) PROVE Fine(m)
    <3>1. m \in Seq(Messages)
      BY <2>13 DEF Good, Linked, Partial
    <3>2. PICK x \in Nat : x = NoteSize * Cardinality(Talk!Notes(m))
      BY <3>1, NoteCount
    <3>3. Talk!Total(m) \in Nat /\ Talk!Total(m) <= Talk!Total(h) + Summary
      BY <2>13, <3>1, Sums DEF Good
    <3>4. Talk!Total(m) <= Talk!Total(h) + Summary + x
      BY <1>0, <1>1, <3>2, <3>3
    <3>. QED BY <2>13, <3>2, <3>4 DEF Good
  <2>. HIDE DEF Fine
  <2>11. Talk!trimHistory(less) = less
    BY <2>9, <2>10, TrimFits DEF Linked
  <2>12. Talk!compress(h) \in {once, twice, less}
    <3>1. first > 0
      BY <1>2, <1>5
    <3>. QED BY <1>5, <2>11, <3>1 DEF Talk!compress, first, once, second, twice, less
  <2>14. Fine(Talk!compress(h))
    BY <2>5, <2>8, <2>10, <2>12, <2>13
  <2>. QED BY <2>0, <2>14 DEF Fine
<1>. QED BY <1>4, <1>5

(* What is at the end of a transcript is in it.                            *)
LEMMA EndHolds ==
    ASSUME NEW h, Linked(h), Len(h) > 0, NEW m \in Seq(Messages), SameEnd(h, m, Back(h))
    PROVE  Talk!Last(m) = Talk!Last(h) /\ Talk!Within(Talk!LastRound(h), m)
<1>1. h \in Seq(Messages) /\ Len(h) \in Nat /\ Len(m) \in Nat /\ Complete(h)
  BY Elements DEF Linked, Partial
<1>2. PICK B \in 1 .. Len(h) : B = Back(h)
  BY <1>1, Rounds
<1>3. B <= Len(m) /\ \A k \in 0 .. B - 1 : m[Len(m) - k] = h[Len(h) - k]
  BY <1>2 DEF SameEnd
<1>4. Talk!Last(m) = Talk!Last(h)
  <2>1. 0 \in 0 .. B - 1 /\ Len(m) - 0 = Len(m) /\ Len(h) - 0 = Len(h)
    BY <1>1
  <2>. QED BY <1>3, <2>1 DEF Talk!Last
<1>5. PICK part : part = Talk!LastRound(h)
  OBVIOUS
<1>6. CASE Talk!toolRounds(h) = {}
  <2>1. part = <<>>
    BY <1>5, <1>6 DEF Talk!LastRound
  <2>2. 0 \in 0 .. Len(m) - Len(<<>>) /\ SubSeq(m, 0 + 1, 0 + Len(<<>>)) = <<>>
    BY <1>1
  <2>. QED BY <1>4, <1>5, <2>1, <2>2 DEF Talk!Within
<1>7. CASE Talk!toolRounds(h) # {}
  <2>1. PICK i \in 1 .. Len(h) : i = Largest(Talk!toolRounds(h)) /\ Asks(h[i]) /\ B = Len(h) - i + 1
    <3>1. PICK i \in 1 .. Len(h) : i = Largest(Talk!toolRounds(h)) /\ Asks(h[i])
      BY <1>1, <1>7, Rounds
    <3>. QED BY <1>2, <1>7, <3>1 DEF Back
  <2>2. PICK w \in Nat : w = h[i].calls /\ i + w <= Len(h)
    BY <1>1, <2>1, Elements DEF Complete
  <2>3. part = SubSeq(h, i, i + w)
    BY <1>5, <1>7, <2>1, <2>2, SameOps DEF Talk!LastRound
  <2>4. /\ part \in Seq(Messages) /\ Len(part) = w + 1
        /\ \A k \in 1 .. w + 1 : part[k] = h[i + k - 1]
    <3>1. \A j \in i .. i + w : h[j] \in Messages
      BY <1>1, <2>2, Elements
    <3>2. /\ SubSeq(h, i, i + w) \in Seq(Messages)
          /\ Len(SubSeq(h, i, i + w)) = IF i <= i + w THEN i + w - i + 1 ELSE 0
          /\ \A k \in 1 .. i + w - i + 1 : SubSeq(h, i, i + w)[k] = h[i + k - 1]
      BY <3>1, SubSeqProperties
    <3>3. i <= i + w /\ i + w - i + 1 = w + 1
      OBVIOUS
    <3>. QED BY <2>3, <3>2, <3>3
  <2>5. PICK n \in Nat : n = Len(m) - B
    BY <1>1, <1>3
  <2>12. w + 1 <= B /\ B \in Nat /\ i \in Nat /\ i - 1 = Len(h) - B
    <3>1. PICK H \in Nat : H = Len(h)
      BY <1>1
    <3>2. i \in 1 .. H /\ i + w <= H
      BY <2>2, <3>1
    <3>3. B = H - i + 1
      BY <2>1, <3>1
    <3>4. w + 1 <= H - i + 1 /\ H - i + 1 \in Nat /\ i \in Nat /\ i - 1 = H - (H - i + 1)
      BY <3>2
    <3>. QED BY <3>1, <3>3, <3>4
  <2>6. n \in 0 .. Len(m) - Len(part)
    BY <1>1, <2>12, <2>4, <2>5
  <2>7. PICK q : q = SubSeq(m, n + 1, n + Len(part))
    OBVIOUS
  <2>8. /\ q \in Seq(Messages) /\ Len(q) = w + 1
        /\ \A k \in 1 .. w + 1 : q[k] = m[n + k]
    <3>1. n + (w + 1) <= Len(m) /\ n + 1 \in Nat
      BY <1>1, <2>4, <2>6
    <3>2. \A j \in n + 1 .. n + (w + 1) : m[j] \in Messages
      <4>1. \A j \in n + 1 .. n + (w + 1) : j \in 1 .. Len(m)
        BY <1>1, <3>1
      <4>. QED BY <4>1, Elements
    <3>3. /\ SubSeq(m, n + 1, n + (w + 1)) \in Seq(Messages)
          /\ Len(SubSeq(m, n + 1, n + (w + 1))) = IF n + 1 <= n + (w + 1) THEN n + (w + 1) - (n + 1) + 1 ELSE 0
          /\ \A k \in 1 .. n + (w + 1) - (n + 1) + 1 : SubSeq(m, n + 1, n + (w + 1))[k] = m[n + 1 + k - 1]
      BY <3>1, <3>2, SubSeqProperties
    <3>4. n + 1 <= n + (w + 1) /\ n + (w + 1) - (n + 1) + 1 = w + 1
      OBVIOUS
    <3>5. \A k \in 1 .. w + 1 : n + 1 + k - 1 = n + k
      OBVIOUS
    <3>. QED BY <2>4, <2>7, <3>3, <3>4, <3>5
  <2>9. ASSUME NEW k \in 1 .. w + 1 PROVE q[k] = part[k]
    <3>1. B - k \in 0 .. B - 1 /\ Len(m) - (B - k) = n + k /\ Len(h) - (B - k) = i + k - 1
      BY <1>1, <2>12, <2>5
    <3>2. m[n + k] = h[i + k - 1]
      BY <1>3, <3>1
    <3>. QED BY <2>4, <2>8, <3>2
  <2>10. q = part
    BY <2>4, <2>8, <2>9, SeqEqual
  <2>. QED BY <1>4, <1>5, <2>6, <2>7, <2>10 DEF Talk!Within
<1>. QED BY <1>6, <1>7

(* A transcript keeps its own end.                                         *)
LEMMA OwnEnd ==
    ASSUME NEW h, Linked(h), Len(h) > 0
    PROVE  SameEnd(h, h, Back(h))
<1>1. h \in Seq(Messages) /\ Len(h) \in Nat
  BY Elements DEF Linked, Partial
<1>2. Back(h) \in 1 .. Len(h)
  BY <1>1, Rounds
<1>. QED BY <1>1, <1>2 DEF SameEnd

(* The step that compacts keeps the prompt and the last round.             *)
LEMMA Keeping == TalkInv /\ Talk!Next => Talk!KeepsLast
<1>. SUFFICES ASSUME TalkInv, Talk!Next, phase = "prepare", phase' = "model" PROVE Talk!KeepsLast
  BY DEF Talk!KeepsLast, Talk!Compacts
<1>1. Talk!prepareContext
  BY DEF Talk!Next, Talk!Prompt, Talk!ModelAnswers, Talk!ToolAnswers, Talk!Stops, Talk!Folds, Talk!Clear
<1>2. PICK h, m : h = messages /\ m = messages'
  OBVIOUS
<1>3. m = h \/ m = Talk!compress(h)
  BY <1>1, <1>2 DEF Talk!prepareContext
<1>4. /\ Linked(h) /\ SummaryFirst(h) /\ Len(h) <= MaxHistory
      /\ h \in Seq(Messages) /\ Len(h) \in Nat
  BY <1>2, Elements DEF TalkInv, Linked, Partial
<1>5. m \in Seq(Messages)
  BY <1>3, <1>4, Compresses DEF Linked, Partial
<1>6. PICK x \in Nat : x = NoteSize * Cardinality(Talk!Notes(m)) /\ x = NoteSize * Talk!Cardinality(Talk!Notes(m))
  BY <1>5, NoteCount
<1>7. Talk!Total(h) \in Nat /\ Summary \in Nat
  BY <1>4, Sums, TranscriptAssumption
<1>8. CASE m = h
  <2>1. Talk!Within(Talk!LastRound(h), h)
    <3>1. CASE Len(h) > 0
      BY <1>4, <3>1, OwnEnd, EndHolds
    <3>2. CASE Len(h) = 0
      <4>1. Talk!toolRounds(h) = {}
        <5>1. 1 .. Len(h) = {}
          BY <3>2
        <5>. QED BY <1>4, <5>1, Rounds
      <4>2. Talk!LastRound(h) = <<>>
        BY <4>1 DEF Talk!LastRound
      <4>3. 0 \in 0 .. Len(h) - Len(<<>>) /\ SubSeq(h, 0 + 1, 0 + Len(<<>>)) = <<>>
        BY <1>4
      <4>. QED BY <4>2, <4>3 DEF Talk!Within
    <3>. QED BY <1>4, <3>1, <3>2
  <2>2. Talk!Total(h) <= Talk!Total(h) + Summary + x /\ Len(h) <= Len(h)
    BY <1>4, <1>7
  <2>. QED BY <1>2, <1>6, <1>8, <2>1, <2>2 DEF Talk!KeepsLast
<1>9. CASE m # h
  <2>1. /\ Len(h) > 0 /\ SameEnd(h, m, Back(h)) /\ Len(m) <= Len(h)
        /\ Talk!Total(m) <= Talk!Total(h) + Summary + x
    BY <1>3, <1>4, <1>6, <1>9, CompressKeeps
  <2>2. Talk!Last(m) = Talk!Last(h) /\ Talk!Within(Talk!LastRound(h), m)
    BY <1>4, <1>5, <2>1, EndHolds
  <2>. QED BY <1>2, <1>6, <2>1, <2>2 DEF Talk!KeepsLast
<1>. QED BY <1>8, <1>9

(* However often it cuts, drops and caps, a compaction keeps the prompt it *)
(* is made for and the last complete tool round, leaves no more messages   *)
(* than there were, and adds no more text than one summary and the notes   *)
(* that stand for dropped rounds (context.go:169-175, 362-398, 404-441).   *)
THEOREM CompactionsKeep == StoresSpec => CompactionKeeps
<1>. DEFINE Keeps == focus = "transcript" => Talk!KeepsLast
<1>1. TalkFocus /\ [Keyring \/ HostFile \/ ProviderList \/ SettingsFile \/ Transcript]_allVars => [Keeps]_allVars
  <2>. SUFFICES ASSUME TalkInv, focus = "transcript",
                       Keyring \/ HostFile \/ ProviderList \/ SettingsFile \/ Transcript
                PROVE  Talk!KeepsLast
    BY DEF TalkFocus
  <2>1. Transcript
    BY DEF Keyring, HostFile, ProviderList, SettingsFile, Transcript
  <2>. QED BY <2>1, Keeping DEF Transcript
<1>. HIDE DEF Keeps
<1>2. StoresSpec => [][Keeps]_allVars
  BY <1>1, TranscriptInvariant, PTL DEF StoresSpec
<1>. QED BY <1>2 DEF CompactionKeeps, Keeps
================================================================================
