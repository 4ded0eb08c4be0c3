--------------------------- MODULE SignalLogProofs ---------------------------
(***************************************************************************)
(* Theorems about SignalLog, for any items, readings, retention and clock. *)
(***************************************************************************)
EXTENDS SignalLog, FiniteSetTheorems, TLAPS

-----------------------------------------------------------------------------
(* Lines and their places.                                                 *)

(* A later place of a set has a higher rank, below the number of them all. *)
LEMMA RankGrows ==
    ASSUME NEW L \in Nat, NEW S \in SUBSET (1..L)
    PROVE  /\ IsFiniteSet(S) /\ Cardinality(S) \in Nat
           /\ \A k \in S : Rank(k, S) \in 0..(Cardinality(S) - 1)
           /\ \A j, k \in S : j < k <=> Rank(j, S) < Rank(k, S)
  <1> DEFINE Below(k) == {j \in S : j < k}
  <1>1. IsFiniteSet(S) /\ Cardinality(S) \in Nat
    <2>1. IsFiniteSet(1..L)
      BY FS_Interval
    <2>2. IsFiniteSet(S)
      BY <2>1, FS_Subset
    <2> QED
      BY <2>2, FS_CardinalityType
  <1>2. ASSUME NEW k \in S
        PROVE  /\ IsFiniteSet(Below(k)) /\ Cardinality(Below(k)) \in Nat
               /\ Cardinality(Below(k)) < Cardinality(S)
    <2>1. Below(k) \in SUBSET S /\ Below(k) # S
      OBVIOUS
    <2>2. /\ IsFiniteSet(Below(k)) /\ Cardinality(Below(k)) <= Cardinality(S)
          /\ Cardinality(Below(k)) # Cardinality(S)
      BY <1>1, <2>1, FS_Subset
    <2>3. Cardinality(Below(k)) \in Nat
      BY <2>2, FS_CardinalityType
    <2> QED
      BY <1>1, <2>2, <2>3
  <1>3. ASSUME NEW j \in S, NEW k \in S, j < k
        PROVE  Cardinality(Below(j)) < Cardinality(Below(k))
    <2>1. Below(j) \in SUBSET Below(k)
      <3>1. ASSUME NEW i \in S, i < j PROVE i < k
        BY <1>3, <3>1
      <3> QED
        BY <3>1
    <2>2. j \in Below(k) /\ j \notin Below(j)
      BY <1>3
    <2>3. /\ Cardinality(Below(j)) <= Cardinality(Below(k))
          /\ Cardinality(Below(k)) = Cardinality(Below(j)) => Below(j) = Below(k)
      BY <1>2, <2>1, FS_Subset
    <2> QED
      BY <1>2, <2>2, <2>3
  <1>4. \A k \in S : Rank(k, S) = Cardinality(Below(k))
    BY DEF Rank
  <1> HIDE DEF Below
  <1>5. \A k \in S : Rank(k, S) \in 0..(Cardinality(S) - 1)
    BY <1>1, <1>2, <1>4
  <1>6. ASSUME NEW j \in S, NEW k \in S PROVE j < k <=> Rank(j, S) < Rank(k, S)
    <2>1. j < k \/ k < j \/ j = k
      OBVIOUS
    <2>2. /\ j < k => Rank(j, S) < Rank(k, S)
          /\ k < j => Rank(k, S) < Rank(j, S)
      BY <1>3, <1>4
    <2>3. Rank(j, S) \in Nat /\ Rank(k, S) \in Nat
      BY <1>5
    <2> QED
      BY <2>1, <2>2, <2>3
  <1> QED
    BY <1>1, <1>5, <1>6

(* Every number below that of the places is the rank of one.               *)
LEMMA EveryRankIsTaken ==
    ASSUME NEW L \in Nat, NEW S \in SUBSET (1..L), NEW n \in 1..Cardinality(S)
    PROVE  \E k \in S : Rank(k, S) = n - 1
  <1> DEFINE f == [k \in S |-> Rank(k, S) + 1]
  <1>1. IsFiniteSet(S) /\ Cardinality(S) \in Nat
    BY RankGrows
  <1>2. \A k \in S : Rank(k, S) \in 0..(Cardinality(S) - 1)
    BY RankGrows
  <1>3. f \in [S -> 1..Cardinality(S)]
    BY <1>1, <1>2
  <1>4. ASSUME NEW j \in S, NEW k \in S, f[j] = f[k] PROVE j = k
    <2>1. Rank(j, S) = Rank(k, S)
      BY <1>2, <1>4
    <2>2. /\ j < k <=> Rank(j, S) < Rank(k, S)
          /\ k < j <=> Rank(k, S) < Rank(j, S)
      BY RankGrows
    <2>3. ~(j < k) /\ ~(k < j)
      BY <1>1, <1>2, <2>1, <2>2
    <2> QED
      BY <2>3
  <1>5. f \in Injection(S, 1..Cardinality(S))
    BY <1>3, <1>4 DEF Injection, IsInjective
  <1>6. f \in Surjection(S, 1..Cardinality(S))
    <2>1. IsFiniteSet(1..Cardinality(S)) /\ Cardinality(1..Cardinality(S)) = Cardinality(S)
      BY <1>1, FS_Interval
    <2> QED
      BY <1>5, <2>1, FS_Injection
  <1>7. PICK k \in S : f[k] = n
    BY <1>6 DEF Surjection
  <1>8. Rank(k, S) \in Nat /\ f[k] = Rank(k, S) + 1
    BY <1>1, <1>2
  <1>9. Rank(k, S) = n - 1
    BY <1>1, <1>7, <1>8
  <1> QED
    BY <1>9

(* Some place of a set is the last one. *)
LEMMA LastPlace ==
    ASSUME NEW L \in Nat, NEW S \in SUBSET (1..L), S # {}
    PROVE  Max(S) \in S /\ \A k \in S : k <= Max(S)
  <1>1. Cardinality(S) \in Nat \ {0}
    BY RankGrows, FS_EmptySet
  <1>2. Cardinality(S) \in 1..Cardinality(S)
    BY <1>1
  <1>3. PICK k \in S : Rank(k, S) = Cardinality(S) - 1
    BY <1>2, EveryRankIsTaken
  <1>4. ASSUME NEW j \in S PROVE k >= j
    <2>1. Rank(j, S) \in 0..(Cardinality(S) - 1)
      BY RankGrows
    <2>2. ~(Rank(k, S) < Rank(j, S))
      BY <1>1, <1>3, <2>1
    <2>3. ~(k < j)
      BY <2>2, RankGrows
    <2> QED
      BY <2>3
  <1>5. Max(S) \in S /\ \A j \in S : Max(S) >= j
    BY <1>4 DEF Max
  <1> QED
    BY <1>5

(* What is taken from a list of lines are those lines, each of them and    *)
(* nothing else, in the order they were in.                                *)
LEMMA LinesTaken ==
    ASSUME NEW X, NEW lines \in Seq(X), NEW S \in SUBSET (DOMAIN lines)
    PROVE  /\ LinesAt(lines, S) \in Seq(X)
           /\ \A k \in S : \E n \in DOMAIN LinesAt(lines, S) : LinesAt(lines, S)[n] = lines[k]
           /\ \A n \in DOMAIN LinesAt(lines, S) : \E k \in S : LinesAt(lines, S)[n] = lines[k]
           /\ \A m, n \in DOMAIN LinesAt(lines, S) : m < n =>
                  \E j, k \in S : /\ j < k
                                  /\ LinesAt(lines, S)[m] = lines[j]
                                  /\ LinesAt(lines, S)[n] = lines[k]
  <1> DEFINE at(n) == CHOOSE k \in S : Rank(k, S) = n - 1
  <1>1. Len(lines) \in Nat /\ S \in SUBSET (1..Len(lines))
    OBVIOUS
  <1>2. Cardinality(S) \in Nat
    BY <1>1, RankGrows
  <1>3. ASSUME NEW n \in 1..Cardinality(S) PROVE at(n) \in S /\ Rank(at(n), S) = n - 1
    <2>1. \E k \in S : Rank(k, S) = n - 1
      BY <1>1, EveryRankIsTaken
    <2> QED
      BY <2>1
  <1>4. LinesAt(lines, S) = [n \in 1..Cardinality(S) |-> lines[at(n)]]
    BY DEF LinesAt
  <1> HIDE DEF at
  <1>5. ASSUME NEW m \in 1..Cardinality(S), NEW n \in 1..Cardinality(S), m < n
        PROVE  at(m) < at(n)
    <2>1. Rank(at(m), S) < Rank(at(n), S)
      BY <1>2, <1>3, <1>5
    <2> QED
      BY <1>1, <1>3, <2>1, RankGrows
  <1>6. ASSUME NEW k \in S PROVE \E n \in 1..Cardinality(S) : at(n) = k
    <2>1. Rank(k, S) \in 0..(Cardinality(S) - 1)
      BY <1>1, RankGrows
    <2>2. PICK n \in 1..Cardinality(S) : n = Rank(k, S) + 1
      BY <1>2, <2>1
    <2>3. at(n) \in S /\ Rank(at(n), S) = Rank(k, S)
      BY <1>2, <1>3, <2>1, <2>2
    <2>4. /\ at(n) < k <=> Rank(at(n), S) < Rank(k, S)
          /\ k < at(n) <=> Rank(k, S) < Rank(at(n), S)
      BY <1>1, <2>3, RankGrows
    <2>5. at(n) = k
      BY <1>1, <1>2, <2>1, <2>3, <2>4
    <2> QED
      BY <2>5
  <1>7. \A k \in S : lines[k] \in X
    BY <1>1
  <1>8. LinesAt(lines, S) \in Seq(X)
    <2>1. \A n \in 1..Cardinality(S) : lines[at(n)] \in X
      BY <1>3, <1>7
    <2>2. LinesAt(lines, S) \in [1..Cardinality(S) -> X]
      BY <1>4, <2>1
    <2> QED
      BY <1>2, <2>2
  <1>9. DOMAIN LinesAt(lines, S) = 1..Cardinality(S)
    BY <1>4
  <1>10. \A k \in S : \E n \in 1..Cardinality(S) : LinesAt(lines, S)[n] = lines[k]
    BY <1>4, <1>6
  <1>11. \A m, n \in 1..Cardinality(S) : m < n =>
            \E j, k \in S : /\ j < k
                            /\ LinesAt(lines, S)[m] = lines[j]
                            /\ LinesAt(lines, S)[n] = lines[k]
    BY <1>3, <1>4, <1>5
  <1>12. \A n \in 1..Cardinality(S) : \E k \in S : LinesAt(lines, S)[n] = lines[k]
    BY <1>3, <1>4
  <1>13. PICK list : list = LinesAt(lines, S)
    OBVIOUS
  <1> QED
    BY <1>8, <1>9, <1>10, <1>11, <1>12, <1>13

(* A finite set made a list is in it, once each. *)
LEMMA ListOfSet ==
    ASSUME NEW S, IsFiniteSet(S)
    PROVE  /\ SetToSeq(S) \in Seq(S)
           /\ ToSet(SetToSeq(S)) = S
           /\ \A j, k \in DOMAIN SetToSeq(S) : j # k => SetToSeq(S)[j] # SetToSeq(S)[k]
  <1> DEFINE n == Cardinality(S)
  <1>1. n \in Nat /\ ExistsBijection(1..n, S)
    BY FS_CardinalityType
  <1>2. PICK g : g \in Bijection(1..n, S)
    BY <1>1 DEF ExistsBijection
  <1>3. g \in [1..n -> S] /\ IsInjective(g)
    BY <1>2 DEF Bijection, Injection
  <1>4. PICK f \in [1..n -> S] : f = SetToSeq(S) /\ IsInjective(f)
    BY <1>3 DEF SetToSeq
  <1>5. \A a, b \in 1..n : a # b => f[a] # f[b]
    BY <1>4 DEF IsInjective
  <1>6. f \in Injection(1..n, S)
    BY <1>4, <1>5 DEF Injection
  <1>7. f \in Surjection(1..n, S)
    <2>1. IsFiniteSet(1..n) /\ Cardinality(1..n) = n
      BY <1>1, FS_Interval
    <2> QED
      BY <1>6, <2>1, FS_Injection
  <1>8. \A x \in S : \E k \in 1..n : f[k] = x
    BY <1>7 DEF Surjection
  <1>9. f \in Seq(S) /\ DOMAIN f = 1..n
    BY <1>1, <1>4
  <1>10. ToSet(f) = S
    BY <1>8, <1>9 DEF ToSet
  <1> QED
    BY <1>4, <1>5, <1>9, <1>10

Lines == Entries \cup {Torn}

(* Two lists after each other hold what each of them held. *)
LEMMA JoinHolds ==
    ASSUME NEW s \in Seq(Lines), NEW t \in Seq(Lines)
    PROVE  /\ s \o t \in Seq(Lines)
           /\ ToSet(s \o t) = ToSet(s) \cup ToSet(t)
           /\ Entered(s \o t) = Entered(s) \cup Entered(t)
  <1>1. /\ Len(s) \in Nat /\ Len(t) \in Nat
        /\ DOMAIN s = 1..Len(s) /\ DOMAIN t = 1..Len(t)
        /\ s \o t \in Seq(Lines) /\ DOMAIN (s \o t) = 1..(Len(s) + Len(t))
    OBVIOUS
  <1>2. \A k \in 1..(Len(s) + Len(t)) :
           (s \o t)[k] = IF k <= Len(s) THEN s[k] ELSE t[k - Len(s)]
    OBVIOUS
  <1>3. \A k \in DOMAIN s : k \in DOMAIN (s \o t) /\ (s \o t)[k] = s[k]
    BY <1>1, <1>2
  <1>4. \A k \in DOMAIN t : /\ k + Len(s) \in DOMAIN (s \o t)
                            /\ (s \o t)[k + Len(s)] = t[k]
    BY <1>1, <1>2
  <1>5. \A k \in DOMAIN (s \o t) :
           \/ k \in DOMAIN s /\ (s \o t)[k] = s[k]
           \/ k - Len(s) \in DOMAIN t /\ (s \o t)[k] = t[k - Len(s)]
    BY <1>1, <1>2
  <1>6. PICK st : st = s \o t
    OBVIOUS
  <1>7. /\ \A k \in DOMAIN s : k \in DOMAIN st /\ st[k] = s[k]
        /\ \A k \in DOMAIN t : k + Len(s) \in DOMAIN st /\ st[k + Len(s)] = t[k]
        /\ \A k \in DOMAIN st :
             \/ k \in DOMAIN s /\ st[k] = s[k]
             \/ k - Len(s) \in DOMAIN t /\ st[k] = t[k - Len(s)]
    BY <1>3, <1>4, <1>5, <1>6
  <1>8. ToSet(st) = ToSet(s) \cup ToSet(t)
    BY <1>7 DEF ToSet
  <1>9. Entered(st) = Entered(s) \cup Entered(t)
    BY <1>7 DEF Entered, Readable
  <1> QED
    BY <1>1, <1>6, <1>8, <1>9

(* Two lists after each other are empty only if both are. *)
LEMMA NothingJoined ==
    ASSUME NEW s \in Seq(Lines), NEW t \in Seq(Lines), s \o t = <<>>
    PROVE  s = <<>> /\ t = <<>>
  <1>1. Len(s \o t) = Len(s) + Len(t) /\ Len(s) \in Nat /\ Len(t) \in Nat
    OBVIOUS
  <1>2. Len(s) = 0 /\ Len(t) = 0
    BY <1>1
  <1> QED
    BY <1>2

(* What a list of entries holds can all be read. *)
LEMMA EntriesAreEntered ==
    ASSUME NEW s \in Seq(Entries)
    PROVE  s \in Seq(Lines) /\ Entered(s) = ToSet(s) /\ ToSet(s) \in SUBSET Entries
  BY SentinelAssumptions DEF Lines, Entered, Readable, ToSet

(* The lines of new that can be read were in old, in the same order.       *)
Within(new, old) ==
    /\ Entered(new) \subseteq Entered(old)
    /\ \A m, n \in Readable(new) : m < n =>
          \E j, k \in Readable(old) : j < k /\ new[m] = old[j] /\ new[n] = old[k]

(* It is so if each of them has moved by the same number of places.        *)
LEMMA MovedWithin ==
    ASSUME NEW new \in Seq(Lines), NEW old \in Seq(Lines), NEW c \in Nat,
           \A k \in Readable(new) : k + c \in DOMAIN old /\ new[k] = old[k + c]
    PROVE  Within(new, old)
  <1>1. \A k \in Readable(new) : k \in Nat /\ k + c \in Readable(old) /\ new[k] = old[k + c]
    BY DEF Readable
  <1>2. Entered(new) \subseteq Entered(old)
    BY <1>1 DEF Entered
  <1>3. ASSUME NEW m \in Readable(new), NEW n \in Readable(new), m < n
        PROVE  \E j, k \in Readable(old) : j < k /\ new[m] = old[j] /\ new[n] = old[k]
    <2>1. m + c < n + c
      BY <1>1, <1>3
    <2> QED
      BY <1>1, <2>1
  <1> QED
    BY <1>2, <1>3 DEF Within

(* What is within a list that is within another is within that. *)
LEMMA WithinWithin ==
    ASSUME NEW s, NEW t, NEW u, Within(s, t), Within(t, u)
    PROVE  Within(s, u)
  <1>1. ASSUME NEW m \in Readable(s), NEW n \in Readable(s), m < n
        PROVE  \E j, k \in Readable(u) : j < k /\ s[m] = u[j] /\ s[n] = u[k]
    <2>1. PICK j, k \in Readable(t) : j < k /\ s[m] = t[j] /\ s[n] = t[k]
      BY <1>1 DEF Within
    <2>2. PICK a, b \in Readable(u) : a < b /\ t[j] = u[a] /\ t[k] = u[b]
      BY <2>1 DEF Within
    <2> QED
      BY <2>1, <2>2
  <1> QED
    BY <1>1 DEF Within

(* Two lists after each other. *)
LEMMA JoinedWithin ==
    ASSUME NEW s \in Seq(Lines), NEW t \in Seq(Lines),
           NEW u \in Seq(Lines), NEW v \in Seq(Lines), Within(s, u), Within(t, v)
    PROVE  Within(s \o t, u \o v)
  <1>1. Entered(s \o t) \subseteq Entered(u \o v)
    BY JoinHolds DEF Within
  <1>2. PICK st : st = s \o t
    OBVIOUS
  <1>3. PICK uv : uv = u \o v
    OBVIOUS
  <1>4. /\ Len(s) \in Nat /\ Len(u) \in Nat
        /\ DOMAIN s = 1..Len(s) /\ DOMAIN u = 1..Len(u)
        /\ DOMAIN t \in SUBSET (Nat \ {0}) /\ DOMAIN v \in SUBSET (Nat \ {0})
    OBVIOUS
  <1>5. \A k \in DOMAIN st :
           /\ k \in Nat
           /\ \/ k <= Len(s) /\ k \in DOMAIN s /\ st[k] = s[k]
              \/ k > Len(s) /\ k - Len(s) \in DOMAIN t /\ st[k] = t[k - Len(s)]
    BY <1>2
  <1>6. /\ \A k \in DOMAIN u : k \in DOMAIN uv /\ uv[k] = u[k]
        /\ \A k \in DOMAIN v : k + Len(u) \in DOMAIN uv /\ uv[k + Len(u)] = v[k]
    BY <1>3
  <1>7. ASSUME NEW m \in Readable(st), NEW n \in Readable(st), m < n
        PROVE  \E j, k \in Readable(uv) : j < k /\ st[m] = uv[j] /\ st[n] = uv[k]
    <2>1. m \in DOMAIN st /\ n \in DOMAIN st /\ st[m] # Torn /\ st[n] # Torn
      BY DEF Readable
    <2>2. CASE n <= Len(s)
      <3>1. m \in Readable(s) /\ n \in Readable(s) /\ st[m] = s[m] /\ st[n] = s[n]
        BY <1>4, <1>5, <1>7, <2>1, <2>2 DEF Readable
      <3>2. PICK j, k \in Readable(u) : j < k /\ s[m] = u[j] /\ s[n] = u[k]
        BY <1>7, <3>1 DEF Within
      <3> QED
        BY <1>6, <3>1, <3>2 DEF Readable
    <2>3. CASE m > Len(s)
      <3>1. /\ m - Len(s) \in Readable(t) /\ n - Len(s) \in Readable(t)
            /\ m - Len(s) < n - Len(s)
            /\ st[m] = t[m - Len(s)] /\ st[n] = t[n - Len(s)]
        BY <1>4, <1>5, <1>7, <2>1, <2>3 DEF Readable
      <3>2. PICK j, k \in Readable(v) : /\ j < k
                                      /\ t[m - Len(s)] = v[j] /\ t[n - Len(s)] = v[k]
        BY <3>1 DEF Within
      <3>3. j \in DOMAIN v /\ k \in DOMAIN v /\ v[j] # Torn /\ v[k] # Torn
        BY <3>2 DEF Readable
      <3>4. /\ j + Len(u) \in Readable(uv) /\ k + Len(u) \in Readable(uv)
            /\ j + Len(u) < k + Len(u)
            /\ st[m] = uv[j + Len(u)] /\ st[n] = uv[k + Len(u)]
        BY <1>4, <1>6, <3>1, <3>2, <3>3 DEF Readable
      <3> QED
        BY <3>4
    <2>4. CASE m <= Len(s) /\ n > Len(s)
      <3>1. m \in Readable(s) /\ n - Len(s) \in Readable(t)
        BY <1>4, <1>5, <2>1, <2>4 DEF Readable
      <3>2. st[m] = s[m] /\ st[n] = t[n - Len(s)]
        BY <1>4, <1>5, <2>1, <2>4
      <3>3. PICK j \in Readable(u) : u[j] = s[m]
        <4>1. s[m] \in Entered(s)
          BY <3>1 DEF Entered
        <4>2. s[m] \in Entered(u)
          BY <4>1 DEF Within
        <4> QED
          BY <4>2 DEF Entered
      <3>4. PICK k \in Readable(v) : v[k] = t[n - Len(s)]
        <4>1. t[n - Len(s)] \in Entered(t)
          BY <3>1 DEF Entered
        <4>2. t[n - Len(s)] \in Entered(v)
          BY <4>1 DEF Within
        <4> QED
          BY <4>2 DEF Entered
      <3>5. j \in DOMAIN u /\ k \in DOMAIN v /\ u[j] # Torn /\ v[k] # Torn
        BY <3>3, <3>4 DEF Readable
      <3>6. /\ j \in Readable(uv) /\ k + Len(u) \in Readable(uv)
            /\ j < k + Len(u) /\ st[m] = uv[j] /\ st[n] = uv[k + Len(u)]
        BY <1>4, <1>6, <3>2, <3>3, <3>4, <3>5 DEF Readable
      <3> QED
        BY <3>6
    <2> QED
      BY <1>4, <1>5, <2>1, <2>2, <2>3, <2>4
  <1>8. Entered(st) \subseteq Entered(uv)
    BY <1>1, <1>2, <1>3
  <1>9. Within(st, uv)
    BY <1>7, <1>8 DEF Within
  <1> QED
    BY <1>2, <1>3, <1>9

(* A list whose last line was spoilt, and one whose first is gone. *)
LEMMA SpoiltWithin ==
    ASSUME NEW s \in Seq(Lines), s # <<>>
    PROVE  /\ Front(s) \o <<Torn>> \in Seq(Lines) /\ Within(Front(s) \o <<Torn>>, s)
           /\ Tail(s) \in Seq(Lines) /\ Within(Tail(s), s)
  <1>1. Torn \in Lines
    BY DEF Lines
  <1>2. PICK f : f = Front(s) \o <<Torn>>
    OBVIOUS
  <1>3. f \in Seq(Lines) /\ Len(f) = Len(s)
    BY <1>1, <1>2 DEF Front
  <1>4. \A k \in 1..Len(s) : f[k] = IF k < Len(s) THEN s[k] ELSE Torn
    BY <1>1, <1>2 DEF Front
  <1>5. \A k \in Readable(f) : k + 0 \in DOMAIN s /\ f[k] = s[k + 0]
    BY <1>3, <1>4 DEF Readable
  <1>6. Within(f, s)
    BY <1>3, <1>5, MovedWithin
  <1>7. PICK t : t = Tail(s)
    OBVIOUS
  <1>8. t \in Seq(Lines) /\ \A k \in DOMAIN t : k + 1 \in DOMAIN s /\ t[k] = s[k + 1]
    BY <1>7
  <1>9. Within(t, s)
    BY <1>8, MovedWithin DEF Readable
  <1> QED
    BY <1>2, <1>3, <1>6, <1>7, <1>8, <1>9

(* What a write that is cut short leaves of the lines it was given.        *)
LEMMA CutWithin ==
    ASSUME NEW s \in Seq(Entries), NEW n \in 0..(Len(s) - 1),
           NEW tail \in {"none", "fragment", "unended"}
    PROVE  CutShort(s, n, tail) \in Seq(Lines) /\ Within(CutShort(s, n, tail), s)
  <1> DEFINE end == CASE tail = "none" -> <<>>
                      [] tail = "fragment" -> <<Torn>>
                      [] tail = "unended" -> <<s[n + 1]>>
  <1>1. s \in Seq(Lines) /\ Torn \in Lines /\ n \in Nat /\ n < Len(s) /\ Len(s) \in Nat
    BY EntriesAreEntered DEF Lines
  <1>2. \/ end = <<>>
        \/ end = <<Torn>>
        \/ end = <<s[n + 1]>>
    OBVIOUS
  <1>3. PICK cut : cut = SubSeq(s, 1, n)
    OBVIOUS
  <1>4. cut \in Seq(Lines) /\ Len(cut) = n /\ \A k \in 1..n : cut[k] = s[k]
    BY <1>1, <1>3
  <1>5. CutShort(s, n, tail) = cut \o end
    BY <1>3 DEF CutShort
  <1> HIDE DEF end
  <1>6. PICK r : r = cut \o end
    OBVIOUS
  <1>7. s[n + 1] \in Lines
    BY <1>1
  <1>8. /\ r \in Seq(Lines) /\ Len(r) \in {n, n + 1}
        /\ \A k \in 1..n : r[k] = s[k]
        /\ Len(r) = n + 1 => r[n + 1] = Torn \/ r[n + 1] = s[n + 1]
    <2>1. CASE end = <<>>
      <3>1. r = cut
        BY <1>4, <1>6, <2>1
      <3> QED
        BY <1>4, <3>1
    <2>2. ASSUME NEW x \in Lines, end = <<x>>
          PROVE  /\ r \in Seq(Lines) /\ Len(r) = n + 1
                 /\ \A k \in 1..n : r[k] = s[k]
                 /\ r[n + 1] = x
      <3>1. r = Append(cut, x)
        BY <1>4, <1>6, <2>2
      <3> QED
        BY <1>1, <1>4, <3>1
    <2> QED
      BY <1>1, <1>2, <1>7, <2>1, <2>2
  <1>9. \A k \in Readable(r) : k + 0 \in DOMAIN s /\ r[k] = s[k + 0]
    BY <1>1, <1>8 DEF Readable
  <1>10. Within(r, s)
    <2>1. r \in Seq(Lines) /\ s \in Seq(Lines) /\ 0 \in Nat
      BY <1>1, <1>8
    <2> QED
      BY <1>9, <2>1, MovedWithin
  <1> QED
    BY <1>5, <1>6, <1>8, <1>10

(* A prune leaves nothing that was not in the file, and whatever it keeps  *)
(* is in order.                                                            *)
LEMMA PruneWithin ==
    ASSUME NEW S \in SUBSET Readable(file), file \in Seq(Lines)
    PROVE  /\ LinesAt(file, S) \in Seq(Lines) /\ Within(LinesAt(file, S), file)
           /\ Entered(LinesAt(file, S)) = {file[k] : k \in S}
  <1>1. S \in SUBSET (DOMAIN file)
    BY DEF Readable
  <1>2. PICK r : r = LinesAt(file, S)
    OBVIOUS
  <1>3. /\ r \in Seq(Lines)
        /\ \A k \in S : \E n \in DOMAIN r : r[n] = file[k]
        /\ \A n \in DOMAIN r : \E k \in S : r[n] = file[k]
        /\ \A m, n \in DOMAIN r : m < n =>
               \E j, k \in S : j < k /\ r[m] = file[j] /\ r[n] = file[k]
    BY <1>1, <1>2, LinesTaken
  <1>4. \A k \in S : file[k] # Torn
    BY DEF Readable
  <1>5. Readable(r) = DOMAIN r
    <2>1. ASSUME NEW n \in DOMAIN r PROVE r[n] # Torn
      <3>1. PICK k \in S : r[n] = file[k]
        BY <1>3
      <3> QED
        BY <1>4, <3>1
    <2> QED
      BY <2>1 DEF Readable
  <1>6. Entered(r) = {file[k] : k \in S}
    BY <1>3, <1>5 DEF Entered
  <1>7. Within(r, file)
    <2>1. Entered(r) \subseteq Entered(file)
      BY <1>6 DEF Entered
    <2>2. \A m, n \in Readable(r) : m < n =>
             \E j, k \in Readable(file) : j < k /\ r[m] = file[j] /\ r[n] = file[k]
      BY <1>3, <1>5
    <2> QED
      BY <2>1, <2>2 DEF Within
  <1> QED
    BY <1>2, <1>3, <1>6, <1>7

(* Whatever is written, however much of it, after whichever prune: the     *)
(* file is what it was and the lines that were to be written, or less.     *)
LEMMA WrittenWithin ==
    ASSUME file \in Seq(Lines), file = <<>> => ended,
           NEW s \in Seq(Entries), NEW t \in Seq(Lines), Within(t, s), NEW rewritten \in BOOLEAN
    PROVE  /\ Pruned(rewritten) \in Seq(Lines)
           /\ Glued(t, rewritten) \in Seq(Lines)
           /\ Within(Glued(t, rewritten), file \o s)
  <1>1. s \in Seq(Lines) /\ Within(file, file)
    BY EntriesAreEntered DEF Within
  <1> DEFINE kept == {k \in Readable(file) : ~Expired(file[k])}
  <1>2. Pruned(rewritten) = IF rewritten THEN LinesAt(file, kept) ELSE file
    BY DEF Pruned
  <1> HIDE DEF kept
  <1>3. Pruned(rewritten) \in Seq(Lines) /\ Within(Pruned(rewritten), file)
    <2>1. kept \in SUBSET Readable(file)
      BY DEF kept
    <2>2. LinesAt(file, kept) \in Seq(Lines) /\ Within(LinesAt(file, kept), file)
      BY <2>1, PruneWithin
    <2> QED
      BY <1>1, <1>2, <2>2
  <1>4. CASE PrunedEnded(rewritten) \/ t = <<>>
    <2>1. Glued(t, rewritten) = Pruned(rewritten) \o t
      BY <1>4 DEF Glued
    <2> QED
      BY <1>1, <1>3, <2>1, JoinHolds, JoinedWithin
  <1>5. CASE ~(PrunedEnded(rewritten) \/ t = <<>>)
    <2>1. Pruned(rewritten) = file /\ file # <<>> /\ t # <<>>
      BY <1>2, <1>5 DEF PrunedEnded
    <2> DEFINE spoilt == Front(file) \o <<Torn>>
    <2>2. Glued(t, rewritten) = spoilt \o Tail(t)
      BY <1>5, <2>1 DEF Glued
    <2>3. spoilt \in Seq(Lines) /\ Within(spoilt, file)
      BY <2>1, SpoiltWithin
    <2>4. Tail(t) \in Seq(Lines) /\ Within(Tail(t), t)
      BY <2>1, SpoiltWithin
    <2> HIDE DEF spoilt
    <2>5. Within(Tail(t), s)
      BY <2>4, WithinWithin
    <2>6. Within(spoilt \o Tail(t), file \o s) /\ spoilt \o Tail(t) \in Seq(Lines)
      BY <1>1, <2>3, <2>4, <2>5, JoinHolds, JoinedWithin
    <2> QED
      BY <1>3, <2>2, <2>6
  <1> QED
    BY <1>4, <1>5

-----------------------------------------------------------------------------
(* Types.                                                                  *)

(* What a start finds of an item is the last line about it, if there is    *)
(* any.                                                                    *)
LEMMA FoundIsLast ==
    ASSUME NEW lines \in Seq(Lines), NEW i \in Items
    PROVE  /\ About(i, lines) = {} => LastByItem(lines)[i] = NoEntry
           /\ About(i, lines) # {} =>
                \E k \in About(i, lines) :
                    /\ LastByItem(lines)[i] = lines[k]
                    /\ lines[k] \in Entries /\ lines[k].item = i
                    /\ \A j \in About(i, lines) : j <= k
  <1>1. About(i, lines) \in SUBSET (1..Len(lines)) /\ Len(lines) \in Nat
    BY DEF About, Readable
  <1>2. CASE About(i, lines) = {}
    BY <1>2 DEF LastByItem
  <1>3. CASE About(i, lines) # {}
    <2> DEFINE k == Max(About(i, lines))
    <2>1. k \in About(i, lines) /\ \A j \in About(i, lines) : j <= k
      BY <1>1, <1>3, LastPlace
    <2>2. LastByItem(lines)[i] = lines[k]
      BY <1>3 DEF LastByItem
    <2> HIDE DEF k
    <2>3. lines[k] \in Entries /\ lines[k].item = i
      BY <2>1 DEF About, Readable, Lines
    <2> QED
      BY <1>3, <2>1, <2>2, <2>3
  <1> QED
    BY <1>2, <1>3

(* What a section says: at most one entry for an item, of this moment.     *)
LEMMA SaidType ==
    ASSUME TypeOK, now < MaxTime, now' = now + 1,
           NEW i \in Items, NEW r \in Readings \cup {Absent}
    PROVE  /\ Said(i, r) \in SUBSET Entries
           /\ \A e \in Said(i, r) : e.item = i /\ e.at = now + 1
           /\ \A e, f \in Said(i, r) : e = f
  <1>1. now + 1 \in 1..MaxTime
    BY SignalLogAssumptions DEF TypeOK
  <1>2. live[i] \in Readings \cup {Absent} /\ restored[i] \in Entries \cup {NoEntry}
    BY DEF TypeOK
  <1>3. restored[i] # NoEntry => restored[i].reading \in Readings
    BY <1>2 DEF Entries
  <1>4. ASSUME NEW kind \in {"appeared", "changed", "disappeared"}, NEW s \in Readings,
               NEW prev \in Readings \cup {Absent}
        PROVE  /\ Entry(kind, i, s, prev) \in Entries
               /\ Entry(kind, i, s, prev).item = i /\ Entry(kind, i, s, prev).at = now + 1
    BY <1>1 DEF Entry, Entries
  <1>5. ASSUME r # Absent
        PROVE  /\ FirstSighting(i, r) \in SUBSET Entries
               /\ \A e \in FirstSighting(i, r) : e.item = i /\ e.at = now + 1
               /\ \A e, f \in FirstSighting(i, r) : e = f
    BY <1>3, <1>4, <1>5 DEF FirstSighting
  <1>6. CASE live[i] = r
    BY <1>6 DEF Said
  <1>7. CASE live[i] # r /\ live[i] = Absent
    <2>1. Said(i, r) = FirstSighting(i, r)
      BY <1>7 DEF Said
    <2> QED
      BY <1>5, <1>7, <2>1
  <1>8. CASE live[i] # r /\ live[i] # Absent /\ r = Absent
    <2>1. Said(i, r) = {Entry("disappeared", i, live[i], Absent)}
      BY <1>8 DEF Said
    <2> QED
      BY <1>2, <1>4, <1>8, <2>1
  <1>9. CASE live[i] # r /\ live[i] # Absent /\ r # Absent
    <2>1. Said(i, r) = {Entry("changed", i, r, live[i])}
      BY <1>9 DEF Said
    <2> QED
      BY <1>2, <1>4, <1>9, <2>1
  <1> QED
    BY <1>6, <1>7, <1>8, <1>9

New(next) == UNION {Said(i, next[i]) : i \in Items}

(* The entries of one section, finitely many, which it queues.             *)
LEMMA NewType ==
    ASSUME TypeOK, now < MaxTime, now' = now + 1,
           NEW next \in [Items -> Readings \cup {Absent}]
    PROVE  /\ IsFiniteSet(New(next)) /\ New(next) \in SUBSET Entries
           /\ \A e \in New(next) : e.item \in Items /\ e.at = now + 1
           /\ \A i \in Items : \A e \in New(next) : e.item = i <=> e \in Said(i, next[i])
           /\ \A i \in Items : Said(i, next[i]) \in SUBSET New(next)
  <1>1. ASSUME NEW i \in Items
        PROVE  /\ Said(i, next[i]) \in SUBSET Entries
               /\ \A e \in Said(i, next[i]) : e.item = i /\ e.at = now + 1
               /\ \A e, f \in Said(i, next[i]) : e = f
    BY SaidType
  <1>2. \A e \in New(next) : e \in Said(e.item, next[e.item]) /\ e.item \in Items
    BY <1>1 DEF New
  <1>3. New(next) \in SUBSET Entries /\ \A e \in New(next) : e.at = now + 1
    BY <1>1, <1>2
  <1>4. IsFiniteSet(New(next))
    <2> DEFINE f == [e \in New(next) |-> e.item]
    <2>1. f \in [New(next) -> Items]
      BY <1>2
    <2>2. \A e, g \in New(next) : f[e] = f[g] => e = g
      BY <1>1, <1>2
    <2>3. f \in Injection(New(next), Items)
      BY <2>1, <2>2 DEF Injection, IsInjective
    <2> QED
      BY <2>3, SignalLogAssumptions, FS_Injection
  <1> QED
    BY <1>1, <1>2, <1>3, <1>4 DEF New

(* What a section leaves in the queue.                                     *)
LEMMA SectionQueues ==
    ASSUME TypeOK, NEW p \in Procs, NEW next \in [Items -> Readings \cup {Absent}],
           Section(p, next)
    PROVE  /\ pending' \in Seq(Entries)
           /\ ToSet(pending') = ToSet(pending) \cup New(next)
           /\ SetToSeq(New(next)) \in Seq(Entries)
           /\ ToSet(SetToSeq(New(next))) = New(next)
           /\ pending' = pending \o SetToSeq(New(next))
  <1>1. now < MaxTime /\ now' = now + 1 /\ pending' = pending \o SetToSeq(New(next))
    BY DEF Section, New
  <1>2. IsFiniteSet(New(next)) /\ New(next) \in SUBSET Entries
    BY <1>1, NewType
  <1>3. PICK list : list = SetToSeq(New(next))
    OBVIOUS
  <1>4. list \in Seq(Entries) /\ ToSet(list) = New(next)
    BY <1>2, <1>3, ListOfSet
  <1>5. pending \in Seq(Entries)
    BY DEF TypeOK
  <1>6. ToSet(pending \o list) = ToSet(pending) \cup ToSet(list)
    BY <1>4, <1>5, EntriesAreEntered, JoinHolds
  <1>7. pending \o list \in Seq(Entries)
    BY <1>4, <1>5
  <1> QED
    BY <1>1, <1>3, <1>4, <1>6, <1>7

-----------------------------------------------------------------------------
(* What every proof below rests on: the types; a goroutine has a batch     *)
(* while it appends and only then; the file ends in a newline unless a     *)
(* write was cut short; nothing is dated ahead of the clock.               *)
Queue == ToSet(pending) \cup UNION {ToSet(batch[p]) : p \in Procs}

BatchInv == \A p \in Procs : pc[p] = "append" <=> batch[p] # <<>>

EndInv == (intact => ended) /\ (file = <<>> => ended)

TimeInv == \A e \in Entered(file) \cup Queue : e.at <= now

BasicInv == TypeOK /\ BatchInv /\ EndInv /\ TimeInv

(* The type of what waits and of what is written.                          *)
LEMMA QueueType ==
    ASSUME TypeOK
    PROVE  /\ file \in Seq(Lines) /\ Entered(file) \in SUBSET Entries
           /\ pending \in Seq(Entries) /\ ToSet(pending) \in SUBSET Entries
           /\ \A p \in Procs : batch[p] \in Seq(Entries) /\ ToSet(batch[p]) \in SUBSET Entries
           /\ Queue \in SUBSET Entries
  <1>1. file \in Seq(Lines)
    BY DEF TypeOK, Lines
  <1>2. \A k \in DOMAIN file : file[k] \in Lines
    BY <1>1
  <1>3. Entered(file) \in SUBSET Entries
    BY <1>2 DEF Entered, Readable, Lines
  <1>4. pending \in Seq(Entries) /\ \A p \in Procs : batch[p] \in Seq(Entries)
    BY DEF TypeOK
  <1>5. ToSet(pending) \in SUBSET Entries /\ \A p \in Procs : ToSet(batch[p]) \in SUBSET Entries
    BY <1>4, EntriesAreEntered
  <1> QED
    BY <1>1, <1>3, <1>4, <1>5 DEF Queue

(* Times are numbers, and the clock is past them all. *)
LEMMA TimeType ==
    ASSUME BasicInv
    PROVE  /\ now \in Nat /\ Retention \in Nat
           /\ \A e \in Entries : e.at \in Nat /\ e.at >= 1
           /\ Entered(file) \in SUBSET Entries /\ Queue \in SUBSET Entries
           /\ \A e \in Entered(file) \cup Queue : e.at < now + 1
  <1>1. now \in Nat /\ Retention \in Nat
    BY SignalLogAssumptions DEF BasicInv, TypeOK
  <1>2. \A e \in Entries : e.at \in Nat /\ e.at >= 1
    BY SignalLogAssumptions DEF Entries
  <1>3. Entered(file) \in SUBSET Entries /\ Queue \in SUBSET Entries
    BY QueueType DEF BasicInv
  <1>4. \A e \in Entered(file) \cup Queue : e.at < now + 1
    BY <1>1, <1>2, <1>3 DEF BasicInv, TimeInv
  <1> QED
    BY <1>1, <1>2, <1>3, <1>4

(* A write, whole or cut short or not begun, adds to the file lines of the *)
(* batch, in their order and after those that were there.                  *)
Adds(p) ==
    /\ file' \in Seq(Lines)
    /\ Within(file', file \o batch[p])

(* A write that is cut short adds so, and leaves an empty file ended.       *)
LEMMA CutAdds ==
    ASSUME BasicInv, NEW p \in Procs, pc[p] = "append", CutAnywhere(p)
    PROVE  /\ Adds(p) /\ ended' \in BOOLEAN /\ (file' = <<>> => ended')
  <1>1. PICK n \in 0..(Len(batch[p]) - 1), tail \in {"none", "fragment", "unended"} :
            Cut(p, n, tail)
    BY DEF CutAnywhere
  <1>2. PICK rewritten \in Rewrites :
            /\ file' = Glued(CutShort(batch[p], n, tail), rewritten)
            /\ ended' = (tail = "none" /\ (n > 0 \/ PrunedEnded(rewritten)))
    BY <1>1 DEF Cut
  <1>3. rewritten \in BOOLEAN /\ ended' \in BOOLEAN
    BY <1>2 DEF Rewrites, Prunes, PruneDue
  <1>4. file \in Seq(Lines) /\ batch[p] \in Seq(Entries) /\ (file = <<>> => ended)
    BY QueueType DEF BasicInv, EndInv
  <1>5. PICK t : t = CutShort(batch[p], n, tail)
    OBVIOUS
  <1>6. t \in Seq(Lines) /\ Within(t, batch[p])
    BY <1>4, <1>5, CutWithin
  <1>7. /\ Pruned(rewritten) \in Seq(Lines) /\ Glued(t, rewritten) \in Seq(Lines)
        /\ Within(Glued(t, rewritten), file \o batch[p])
    BY <1>3, <1>4, <1>6, WrittenWithin
  <1>8. ASSUME file' = <<>> PROVE ended'
    <2>1. Glued(t, rewritten) = <<>>
      BY <1>2, <1>5, <1>8
    <2>2. PrunedEnded(rewritten) \/ t = <<>>
      <3>1. SUFFICES ASSUME ~PrunedEnded(rewritten), t # <<>> PROVE FALSE
        OBVIOUS
      <3>2. Glued(t, rewritten) = Front(Pruned(rewritten)) \o <<Torn>> \o Tail(t)
        BY <3>1 DEF Glued
      <3>3. Pruned(rewritten) # <<>>
        BY <1>4, <3>1 DEF Pruned, PrunedEnded
      <3>4. PICK spoilt : spoilt = Front(Pruned(rewritten)) \o <<Torn>>
        OBVIOUS
      <3>5. spoilt \in Seq(Lines) /\ Tail(t) \in Seq(Lines)
        BY <1>6, <1>7, <3>1, <3>3, <3>4, SpoiltWithin
      <3>6. Len(spoilt) >= 1
        BY <1>7, <3>3, <3>4 DEF Front
      <3>7. spoilt \o Tail(t) # <<>>
        BY <3>5, <3>6
      <3> QED
        BY <2>1, <3>2, <3>4, <3>7
    <2>3. Glued(t, rewritten) = Pruned(rewritten) \o t
      BY <2>2 DEF Glued
    <2>4. t = <<>> /\ Pruned(rewritten) = <<>>
      BY <1>6, <1>7, <2>1, <2>3, NothingJoined
    <2>5. PrunedEnded(rewritten)
      BY <1>4, <2>4 DEF Pruned, PrunedEnded
    <2>6. tail = "none"
      <3>1. SUFFICES ASSUME tail # "none" PROVE FALSE
        OBVIOUS
      <3>2. PICK x : t = SubSeq(batch[p], 1, n) \o <<x>>
        BY <1>5, <3>1 DEF CutShort
      <3>3. Len(t) = n + 1
        BY <1>4, <3>2
      <3> QED
        BY <2>4, <3>3
    <2> QED
      BY <1>2, <2>5, <2>6
  <1> QED
    BY <1>2, <1>3, <1>5, <1>7, <1>8 DEF Adds

(* So does one that succeeds. *)
LEMMA AppendAdds ==
    ASSUME BasicInv, NEW p \in Procs, AppendBatch(p)
    PROVE  Adds(p)
  <1>1. PICK rewritten \in Rewrites : file' = Glued(batch[p], rewritten)
    BY DEF AppendBatch
  <1>2. rewritten \in BOOLEAN
    BY DEF Rewrites, Prunes, PruneDue
  <1>3. file \in Seq(Lines) /\ batch[p] \in Seq(Entries) /\ (file = <<>> => ended)
    BY QueueType DEF BasicInv, EndInv
  <1>4. batch[p] \in Seq(Lines) /\ Within(batch[p], batch[p])
    BY <1>3, EntriesAreEntered DEF Within
  <1> QED
    BY <1>1, <1>2, <1>3, <1>4, WrittenWithin DEF Adds

(* So does one that fails, or is not begun. *)
LEMMA FailAdds ==
    ASSUME BasicInv, NEW p \in Procs, AppendFails(p)
    PROVE  Adds(p) /\ ended' \in BOOLEAN /\ (file' = <<>> => ended')
  <1>1. pc[p] = "append" /\ (CutAnywhere(p) \/ UNCHANGED <<file, ended>>)
    BY DEF AppendFails
  <1>2. CASE CutAnywhere(p)
    BY <1>1, <1>2, CutAdds
  <1>3. CASE UNCHANGED <<file, ended>>
    <2>1. file \in Seq(Lines) /\ batch[p] \in Seq(Entries)
      BY QueueType DEF BasicInv
    <2>2. batch[p] \in Seq(Lines)
      BY <2>1, EntriesAreEntered
    <2>3. file \o batch[p] \in Seq(Lines)
      BY <2>1, <2>2
    <2>4. PICK all : all = file \o batch[p]
      OBVIOUS
    <2>5. \A k \in Readable(file) : k + 0 \in DOMAIN all /\ file[k] = all[k + 0]
      BY <2>1, <2>2, <2>4 DEF Readable
    <2>6. Within(file, all)
      BY <2>1, <2>3, <2>4, <2>5, MovedWithin
    <2> QED
      BY <1>3, <2>1, <2>4, <2>6 DEF Adds, BasicInv, EndInv, TypeOK
  <1> QED
    BY <1>1, <1>2, <1>3

(* What was added is of the batch. *)
LEMMA AddedIsQueued ==
    ASSUME TypeOK, NEW p \in Procs, Adds(p)
    PROVE  /\ file' \in Seq(Entries \cup {Torn})
           /\ Entered(file') \subseteq Entered(file) \cup ToSet(batch[p])
           /\ Entered(file') \subseteq Entered(file) \cup Queue
  <1>1. file \in Seq(Lines) /\ batch[p] \in Seq(Entries)
    BY QueueType
  <1>2. batch[p] \in Seq(Lines) /\ Entered(batch[p]) = ToSet(batch[p])
    BY <1>1, EntriesAreEntered
  <1>3. Entered(file \o batch[p]) = Entered(file) \cup ToSet(batch[p])
    BY <1>1, <1>2, JoinHolds
  <1>4. Entered(file') \subseteq Entered(file) \cup ToSet(batch[p])
    BY <1>3 DEF Adds, Within
  <1> QED
    BY <1>4 DEF Adds, Lines, Queue

(* The first store of all. *)
LEMMA InitBasic == Init => BasicInv
  <1> SUFFICES ASSUME Init PROVE BasicInv
    OBVIOUS
  <1>1. TypeOK
    BY SignalLogAssumptions DEF Init, TypeOK
  <1>2. BatchInv /\ EndInv
    BY DEF Init, BatchInv, EndInv
  <1>3. TimeInv
    BY DEF Init, TimeInv, Entered, Readable, Queue, ToSet
  <1> QED
    BY <1>1, <1>2, <1>3 DEF BasicInv

(* A section queues what it says, dated now.                               *)
LEMMA SectionBasic ==
    ASSUME BasicInv, NEW p \in Procs, NEW next \in [Items -> Readings \cup {Absent}],
           Section(p, next)
    PROVE  BasicInv' /\ Queue' = Queue \cup New(next)
  <1>1. TypeOK /\ BatchInv /\ EndInv /\ TimeInv
    BY DEF BasicInv
  <1>2. pending' \in Seq(Entries) /\ ToSet(pending') = ToSet(pending) \cup New(next)
    BY <1>1, SectionQueues
  <1>3. /\ pc[p] = "idle" /\ now < MaxTime /\ now' = now + 1 /\ live' = next
        /\ pc' = [pc EXCEPT ![p] = "flush"]
        /\ batch' = batch /\ file' = file /\ ended' = ended /\ intact' = intact
        /\ lastPrune' = lastPrune
    BY DEF Section
  <1>4. restored' \in [Items -> Entries \cup {NoEntry}]
    BY <1>1 DEF Section, TypeOK
  <1>5. now' \in 0..MaxTime /\ now \in 0..MaxTime
    BY <1>1, <1>3, SignalLogAssumptions DEF TypeOK
  <1>6. TypeOK'
    BY <1>1, <1>2, <1>3, <1>4, <1>5 DEF TypeOK
  <1>7. Queue' = Queue \cup New(next)
    BY <1>2, <1>3 DEF Queue
  <1>8. TimeInv'
    <2>1. \A e \in New(next) : e.at = now + 1
      BY <1>1, <1>3, NewType
    <2>2. \A e \in Entered(file) \cup Queue : e.at \in Nat
      BY <1>1, QueueType DEF Entries
    <2>3. \A e \in Entered(file) \cup Queue : e.at <= now + 1
      BY <1>1, <1>5, <2>2 DEF TimeInv
    <2>4. Entered(file)' = Entered(file)
      BY <1>3 DEF Entered, Readable
    <2> QED
      BY <1>3, <1>5, <1>7, <2>1, <2>3, <2>4 DEF TimeInv
  <1>9. BatchInv' /\ EndInv'
    BY <1>1, <1>3 DEF BatchInv, EndInv, TypeOK
  <1> QED
    BY <1>6, <1>7, <1>8, <1>9 DEF BasicInv

(* A drain moves the queue to a batch, and changes nothing that waits.      *)
LEMMA DrainBasic ==
    ASSUME BasicInv, NEW p \in Procs, Drain(p)
    PROVE  /\ BasicInv' /\ Queue' = Queue
           /\ ToSet(batch[p]) = {} /\ ToSet(batch'[p]) = ToSet(pending) /\ ToSet(pending') = {}
           /\ \A q \in Procs \ {p} : batch'[q] = batch[q]
  <1>1. TypeOK /\ BatchInv /\ EndInv /\ TimeInv
    BY DEF BasicInv
  <1>2. /\ batch[p] = <<>> /\ batch'[p] = pending /\ pending' = <<>>
        /\ \A q \in Procs \ {p} : batch'[q] = batch[q]
    BY <1>1 DEF Drain, BatchInv, TypeOK
  <1>3. /\ ToSet(batch[p]) = {} /\ ToSet(batch'[p]) = ToSet(pending) /\ ToSet(pending') = {}
    BY <1>2 DEF ToSet
  <1>4. Queue' = Queue
    BY <1>2, <1>3 DEF Queue
  <1>5. TypeOK'
    BY <1>1 DEF Drain, TypeOK
  <1>6. BatchInv' /\ EndInv'
    BY <1>1, <1>2 DEF Drain, BatchInv, EndInv, TypeOK
  <1>7. TimeInv'
    BY <1>1, <1>4 DEF Drain, TimeInv, Entered, Readable
  <1> QED
    BY <1>2, <1>3, <1>4, <1>5, <1>6, <1>7 DEF BasicInv

(* An append, or one that fails, empties the batch. *)
LEMMA WriteBasic ==
    ASSUME BasicInv, NEW p \in Procs, AppendBatch(p) \/ AppendFails(p)
    PROVE  /\ BasicInv' /\ Adds(p)
           /\ Queue' \subseteq Queue /\ Queue \subseteq Queue' \cup ToSet(batch[p])
           /\ ToSet(batch'[p]) = {} /\ \A q \in Procs \ {p} : batch'[q] = batch[q]
           /\ pending' = pending
  <1>1. TypeOK /\ BatchInv /\ EndInv /\ TimeInv
    BY DEF BasicInv
  <1>2. Adds(p)
    BY AppendAdds, FailAdds
  <1>3. /\ batch' = [batch EXCEPT ![p] = <<>>] /\ pc' = [pc EXCEPT ![p] = "idle"]
        /\ UNCHANGED <<live, restored, pending, now>>
    BY DEF AppendBatch, AppendFails
  <1>4. /\ batch'[p] = <<>> /\ \A q \in Procs \ {p} : batch'[q] = batch[q]
        /\ batch' \in [Procs -> Seq(Entries)]
    BY <1>1, <1>3 DEF TypeOK
  <1>5. ToSet(batch'[p]) = {}
    BY <1>4 DEF ToSet
  <1>6. /\ Queue' \subseteq Queue
        /\ Queue \subseteq Queue' \cup ToSet(batch[p])
    BY <1>3, <1>4, <1>5 DEF Queue
  <1>7. ended' \in BOOLEAN /\ intact' \in BOOLEAN /\ EndInv'
    <2>1. CASE AppendBatch(p)
      BY <1>1, <2>1 DEF AppendBatch, EndInv, TypeOK
    <2>2. CASE AppendFails(p)
      <3>1. ended' \in BOOLEAN /\ (file' = <<>> => ended')
        BY <2>2, FailAdds
      <3> QED
        BY <2>2, <3>1 DEF AppendFails, EndInv
    <2> QED
      BY <2>1, <2>2
  <1>8. lastPrune' \in 0..MaxTime
    BY <1>1 DEF AppendBatch, AppendFails, PruneTime, TypeOK
  <1>9. TypeOK'
    <2>1. file' \in Seq(Entries \cup {Torn})
      BY <1>1, <1>2, AddedIsQueued
    <2>2. pc' \in [Procs -> {"idle", "flush", "append"}]
      BY <1>1, <1>3 DEF TypeOK
    <2> QED
      BY <1>1, <1>3, <1>4, <1>7, <1>8, <2>1, <2>2 DEF TypeOK
  <1>10. BatchInv'
    BY <1>1, <1>3, <1>4 DEF BatchInv, TypeOK
  <1>11. TimeInv'
    <2>1. Entered(file') \subseteq Entered(file) \cup Queue
      BY <1>1, <1>2, AddedIsQueued
    <2>2. Entered(file)' = Entered(file')
      BY DEF Entered, Readable
    <2> QED
      BY <1>1, <1>3, <1>6, <2>1, <2>2 DEF TimeInv
  <1> QED
    BY <1>2, <1>3, <1>4, <1>5, <1>6, <1>7, <1>9, <1>10, <1>11 DEF BasicInv

(* A start, after the process ended between two steps or in a write. *)
LEMMA StartBasic ==
    ASSUME BasicInv, Restart \/ \E p \in Procs : CrashInAppend(p)
    PROVE  /\ BasicInv' /\ Queue' = {}
           /\ StartFrom(file')
           /\ file' \in Seq(Lines)
           /\ file' = file \/ \E p \in Procs : pc[p] = "append" /\ Adds(p)
  <1>1. TypeOK /\ BatchInv /\ EndInv /\ TimeInv
    BY DEF BasicInv
  <1>2. /\ file' \in Seq(Lines) /\ StartFrom(file')
        /\ Entered(file') \subseteq Entered(file) \cup Queue
        /\ ended' \in BOOLEAN /\ intact' \in BOOLEAN /\ EndInv'
        /\ file' = file \/ \E p \in Procs : pc[p] = "append" /\ Adds(p)
    <2>1. CASE Restart
      <3>1. file' = file /\ ended' = ended /\ intact' = intact /\ StartFrom(file)
        BY <2>1 DEF Restart
      <3>2. StartFrom(file')
        BY <3>1
      <3>3. Entered(file') = Entered(file)
        BY <3>1
      <3> QED
        BY <1>1, <3>1, <3>2, <3>3, QueueType DEF EndInv, TypeOK
    <2>2. ASSUME NEW p \in Procs, CrashInAppend(p)
          PROVE  /\ file' \in Seq(Lines) /\ StartFrom(file')
                 /\ Entered(file') \subseteq Entered(file) \cup Queue
                 /\ ended' \in BOOLEAN /\ intact' \in BOOLEAN /\ EndInv'
                 /\ pc[p] = "append" /\ Adds(p)
      <3>1. pc[p] = "append" /\ CutAnywhere(p) /\ StartFrom(file') /\ intact' = FALSE
        BY <2>2 DEF CrashInAppend
      <3>2. Adds(p) /\ ended' \in BOOLEAN /\ (file' = <<>> => ended')
        BY <3>1, CutAdds
      <3> QED
        BY <1>1, <3>1, <3>2, AddedIsQueued DEF EndInv, Adds
    <2> QED
      BY <2>1, <2>2
  <1>3. /\ live' = [i \in Items |-> Absent] /\ restored' = LastByItem(file')
        /\ pending' = <<>> /\ pc' = [p \in Procs |-> "idle"]
        /\ batch' = [p \in Procs |-> <<>>] /\ lastPrune' = 0 /\ now' = now
    BY <1>2 DEF StartFrom
  <1>4. Queue' = {}
    BY <1>3 DEF Queue, ToSet
  <1>5. BatchInv'
    BY <1>3 DEF BatchInv
  <1>6. TimeInv'
    <2>1. Entered(file)' = Entered(file')
      BY DEF Entered, Readable
    <2> QED
      BY <1>1, <1>2, <1>3, <1>4, <2>1 DEF TimeInv
  <1>7. restored' \in [Items -> Entries \cup {NoEntry}]
    <2>1. \A i \in Items : LastByItem(file')[i] \in Entries \cup {NoEntry}
      BY <1>2, FoundIsLast
    <2> QED
      BY <1>3, <2>1 DEF LastByItem
  <1>8. TypeOK'
    BY <1>1, <1>2, <1>3, <1>7, SignalLogAssumptions DEF TypeOK, Lines
  <1> QED
    BY <1>2, <1>4, <1>5, <1>6, <1>8 DEF BasicInv

(* A step that changes nothing. *)
LEMMA StutterBasic ==
    ASSUME BasicInv, UNCHANGED vars
    PROVE  BasicInv'
  BY DEF vars, BasicInv, TypeOK, BatchInv, EndInv, TimeInv, Entered, Readable, Queue

(* Every change of the store is one section. *)
LEMMA ChangeIsSection ==
    ASSUME TypeOK, NEW p \in Procs, Change(p) \/ Read(p)
    PROVE  \E next \in [Items -> Readings \cup {Absent}] : Section(p, next)
  <1>1. CASE Change(p)
    BY <1>1 DEF Change
  <1>2. CASE Read(p)
    <2>1. PICK expired \in SUBSET {i \in Items : live[i] # Absent} :
              Section(p, [i \in Items |-> IF i \in expired THEN Absent ELSE live[i]])
      BY <1>2 DEF Read
    <2>2. [i \in Items |-> IF i \in expired THEN Absent ELSE live[i]]
              \in [Items -> Readings \cup {Absent}]
      BY DEF TypeOK
    <2> QED
      BY <2>1, <2>2
  <1> QED
    BY <1>1, <1>2

(* The kinds of step there are. *)
LEMMA StepKinds ==
    ASSUME TypeOK, [Next]_vars
    PROVE  \/ \E p \in Procs, next \in [Items -> Readings \cup {Absent}] : Section(p, next)
           \/ \E p \in Procs : Drain(p) \/ AppendBatch(p) \/ AppendFails(p)
           \/ Restart \/ \E p \in Procs : CrashInAppend(p)
           \/ UNCHANGED vars
  BY ChangeIsSection DEF Next, AtBound

(* Each step keeps what the proofs rest on. *)
LEMMA StepBasic ==
    ASSUME BasicInv, [Next]_vars
    PROVE  BasicInv'
  <1>1. TypeOK
    BY DEF BasicInv
  <1> QED
    BY <1>1, StepKinds, SectionBasic, DrainBasic, WriteBasic, StartBasic, StutterBasic

(* Types, for any number of goroutines that crash and lose writes at will. *)
THEOREM LogTyped == Spec => []TypeOK
  <1>1. Init => BasicInv
    BY InitBasic
  <1>2. BasicInv /\ [Next]_vars => BasicInv'
    BY StepBasic
  <1>3. BasicInv => TypeOK
    BY DEF BasicInv
  <1> QED
    BY <1>1, <1>2, <1>3, PTL DEF Spec

-----------------------------------------------------------------------------
(* What a write that was cut short costs.                                  *)

(* A spoilt list has lost its last line, and the rest of one its first.    *)
LEMMA SpoiltLoses ==
    ASSUME NEW s \in Seq(Lines), NEW t \in Seq(Entries), s # <<>>, t # <<>>
    PROVE  /\ Entered(s) \subseteq Entered(Front(s) \o <<Torn>>) \cup {Last(s)}
           /\ Tail(t) \in Seq(Entries) /\ ToSet(t) \subseteq ToSet(Tail(t)) \cup {Head(t)}
  <1>1. PICK f : f = Front(s) \o <<Torn>>
    OBVIOUS
  <1>2. Torn \in Lines
    BY DEF Lines
  <1>3. /\ DOMAIN f = 1..Len(s) /\ DOMAIN s = 1..Len(s) /\ Len(s) \in Nat
        /\ \A k \in 1..Len(s) : f[k] = IF k < Len(s) THEN s[k] ELSE Torn
    BY <1>1, <1>2 DEF Front
  <1>4. ASSUME NEW k \in Readable(s) PROVE s[k] \in Entered(f) \cup {Last(s)}
    <2>1. k \in 1..Len(s) /\ s[k] # Torn
      BY <1>3 DEF Readable
    <2>2. CASE k < Len(s)
      <3>1. k \in Readable(f) /\ f[k] = s[k]
        BY <1>3, <2>1, <2>2 DEF Readable
      <3> QED
        BY <3>1 DEF Entered
    <2>3. CASE k = Len(s)
      BY <2>3 DEF Last
    <2>4. k \in Nat /\ k <= Len(s) /\ Len(s) \in Nat
      BY <2>1
    <2> QED
      BY <2>2, <2>3, <2>4
  <1>5. Entered(s) \subseteq Entered(f) \cup {Last(s)}
    BY <1>4 DEF Entered
  <1>6. PICK r : r = Tail(t)
    OBVIOUS
  <1>7. /\ r \in Seq(Entries) /\ Head(t) = t[1]
        /\ \A k \in DOMAIN t : k = 1 \/ (k - 1 \in DOMAIN r /\ t[k] = r[k - 1])
    BY <1>6
  <1>8. ToSet(t) \subseteq ToSet(r) \cup {Head(t)}
    BY <1>7 DEF ToSet
  <1> QED
    BY <1>1, <1>5, <1>6, <1>7, <1>8

(* What an append leaves that the file could be read to hold, if it had a  *)
(* newline at its end or was rewritten.                                    *)
LEMMA AppendExact ==
    ASSUME BasicInv, NEW p \in Procs, AppendBatch(p)
    PROVE  \E rewritten \in BOOLEAN :
              /\ file' = Glued(batch[p], rewritten)
              /\ rewritten =>
                    /\ Retention > 0
                    /\ Entered(file') = {e \in Entered(file) : ~Expired(e)} \cup ToSet(batch[p])
              /\ ~rewritten /\ ended => Entered(file') = Entered(file) \cup ToSet(batch[p])
  <1>1. PICK rewritten \in Rewrites : file' = Glued(batch[p], rewritten)
    BY DEF AppendBatch
  <1>2. rewritten \in BOOLEAN /\ (rewritten => Retention > 0)
    BY <1>1 DEF Rewrites, Prunes, PruneDue
  <1>3. /\ file \in Seq(Lines) /\ batch[p] \in Seq(Lines)
        /\ Entered(batch[p]) = ToSet(batch[p])
    BY QueueType, EntriesAreEntered DEF BasicInv
  <1>4. ASSUME rewritten
        PROVE  Entered(file') = {e \in Entered(file) : ~Expired(e)} \cup ToSet(batch[p])
    <2> DEFINE kept == {k \in Readable(file) : ~Expired(file[k])}
    <2>1. file' = LinesAt(file, kept) \o batch[p]
      BY <1>1, <1>4 DEF Glued, Pruned, PrunedEnded
    <2>2. {file[k] : k \in kept} = {e \in Entered(file) : ~Expired(e)}
      BY DEF Entered
    <2>3. kept \in SUBSET Readable(file)
      OBVIOUS
    <2> HIDE DEF kept
    <2>4. /\ LinesAt(file, kept) \in Seq(Lines)
          /\ Entered(LinesAt(file, kept)) = {file[k] : k \in kept}
      BY <1>3, <2>3, PruneWithin
    <2>5. Entered(file') = Entered(LinesAt(file, kept)) \cup ToSet(batch[p])
      BY <1>3, <2>1, <2>4, JoinHolds
    <2> QED
      BY <2>2, <2>4, <2>5
  <1>5. ASSUME ~rewritten, ended
        PROVE  Entered(file') = Entered(file) \cup ToSet(batch[p])
    <2>1. file' = file \o batch[p]
      BY <1>1, <1>5 DEF Glued, Pruned, PrunedEnded
    <2> QED
      BY <1>3, <2>1, JoinHolds
  <1> QED
    BY <1>1, <1>2, <1>4, <1>5

(* An append keeps what it writes and what is within retention, but for    *)
(* the two lines that are one.                                             *)
LEMMA AppendKeeps ==
    ASSUME BasicInv, NEW p \in Procs, AppendBatch(p)
    PROVE  ToSet(batch[p]) \cup Kept
              \subseteq Entered(file')
                        \cup (IF ended THEN {} ELSE {Head(batch[p]), Last(file)})
  <1>1. PICK rewritten \in BOOLEAN :
            /\ file' = Glued(batch[p], rewritten)
            /\ rewritten =>
                  /\ Retention > 0
                  /\ Entered(file') = {e \in Entered(file) : ~Expired(e)} \cup ToSet(batch[p])
            /\ ~rewritten /\ ended => Entered(file') = Entered(file) \cup ToSet(batch[p])
    BY AppendExact
  <1>2. /\ file \in Seq(Lines) /\ batch[p] \in Seq(Entries) /\ batch[p] # <<>>
        /\ (file = <<>> => ended)
    BY QueueType DEF BasicInv, BatchInv, EndInv, AppendBatch
  <1>3. /\ Kept \subseteq Entered(file)
        /\ Retention > 0 => Kept \subseteq {e \in Entered(file) : ~Expired(e)}
    BY TimeType DEF Kept, Expired
  <1>4. CASE rewritten \/ ended
    BY <1>1, <1>3, <1>4
  <1>5. CASE ~rewritten /\ ~ended
    <2>1. file' = Front(file) \o <<Torn>> \o Tail(batch[p])
      BY <1>1, <1>2, <1>5 DEF Glued, Pruned, PrunedEnded
    <2>2. PICK spoilt : spoilt = Front(file) \o <<Torn>>
      OBVIOUS
    <2>3. spoilt \in Seq(Lines) /\ Entered(file) \subseteq Entered(spoilt) \cup {Last(file)}
      BY <1>2, <1>5, <2>2, SpoiltWithin, SpoiltLoses
    <2>4. /\ Tail(batch[p]) \in Seq(Entries)
          /\ ToSet(batch[p]) \subseteq ToSet(Tail(batch[p])) \cup {Head(batch[p])}
      BY <1>2, <1>5, SpoiltLoses
    <2>5. /\ Tail(batch[p]) \in Seq(Lines)
          /\ Entered(Tail(batch[p])) = ToSet(Tail(batch[p]))
      BY <2>4, EntriesAreEntered
    <2>6. Entered(file') = Entered(spoilt) \cup ToSet(Tail(batch[p]))
      BY <2>1, <2>2, <2>3, <2>5, JoinHolds
    <2> QED
      BY <1>3, <1>5, <2>3, <2>4, <2>6
  <1> QED
    BY <1>4, <1>5

(* One bad line does not hide the rest: whatever was cut short before, by  *)
(* a crash or an error, a write that succeeds keeps all it wrote and all   *)
(* that is within retention, but for the line without a newline and the    *)
(* one glued to it.  For any number of goroutines.                         *)
THEOREM BadLineHidesNoOther == Spec => CutCostsOneWrite
  <1>1. Init => BasicInv
    BY InitBasic
  <1>2. BasicInv /\ [Next]_vars => BasicInv'
    BY StepBasic
  <1>3. BasicInv /\ [Next]_vars =>
            [\A p \in Procs : AppendBatch(p) =>
                ToSet(batch[p]) \cup Kept
                   \subseteq Entered(file')
                             \cup (IF ended THEN {} ELSE {Head(batch[p]), Last(file)})]_vars
    BY AppendKeeps
  <1> QED
    BY <1>1, <1>2, <1>3, PTL DEF Spec, CutCostsOneWrite
-----------------------------------------------------------------------------
(* The order of the entries of an item, for a goroutine that is alone.     *)

(* Of the entries of an item, a later line has a later time.               *)
Ordered(s) ==
    \A j, k \in Readable(s) : j < k /\ s[j].item = s[k].item => s[j].at < s[k].at

(* Of the entries of an item, those of S are older than those of T.        *)
Earlier(S, T) == \A e \in S, f \in T : e.item = f.item => e.at < f.at

(* An order is not lost with lines. *)
LEMMA OrderedWithin ==
    ASSUME NEW new, NEW old, Within(new, old), Ordered(old)
    PROVE  Ordered(new)
  <1>1. ASSUME NEW m \in Readable(new), NEW n \in Readable(new),
               m < n, new[m].item = new[n].item
        PROVE  new[m].at < new[n].at
    <2>1. PICK j, k \in Readable(old) : j < k /\ new[m] = old[j] /\ new[n] = old[k]
      BY <1>1 DEF Within
    <2> QED
      BY <1>1, <2>1 DEF Ordered
  <1> QED
    BY <1>1 DEF Ordered

(* Two lists after each other are in order if the second is later.         *)
LEMMA OrderedJoin ==
    ASSUME NEW s \in Seq(Lines), NEW t \in Seq(Lines), Ordered(s), Ordered(t),
           Earlier(Entered(s), Entered(t))
    PROVE  Ordered(s \o t)
  <1>1. PICK st : st = s \o t
    OBVIOUS
  <1>2. /\ Len(s) \in Nat /\ DOMAIN s = 1..Len(s) /\ DOMAIN t \in SUBSET (Nat \ {0})
    OBVIOUS
  <1>3. \A k \in DOMAIN st :
           /\ k \in Nat
           /\ \/ k <= Len(s) /\ k \in DOMAIN s /\ st[k] = s[k]
              \/ k > Len(s) /\ k - Len(s) \in DOMAIN t /\ st[k] = t[k - Len(s)]
    BY <1>1
  <1>4. ASSUME NEW m \in Readable(st), NEW n \in Readable(st),
               m < n, st[m].item = st[n].item
        PROVE  st[m].at < st[n].at
    <2>1. m \in DOMAIN st /\ n \in DOMAIN st /\ st[m] # Torn /\ st[n] # Torn
      BY DEF Readable
    <2>2. CASE n <= Len(s)
      <3>1. m \in Readable(s) /\ n \in Readable(s) /\ st[m] = s[m] /\ st[n] = s[n]
        BY <1>2, <1>3, <1>4, <2>1, <2>2 DEF Readable
      <3> QED
        BY <1>4, <3>1 DEF Ordered
    <2>3. CASE m > Len(s)
      <3>1. /\ m - Len(s) \in Readable(t) /\ n - Len(s) \in Readable(t)
            /\ m - Len(s) < n - Len(s)
            /\ st[m] = t[m - Len(s)] /\ st[n] = t[n - Len(s)]
        BY <1>2, <1>3, <1>4, <2>1, <2>3 DEF Readable
      <3>2. t[m - Len(s)].item = t[n - Len(s)].item
        BY <1>4, <3>1
      <3>3. t[m - Len(s)].at < t[n - Len(s)].at
        BY <3>1, <3>2 DEF Ordered
      <3> QED
        BY <3>1, <3>3
    <2>4. CASE m <= Len(s) /\ n > Len(s)
      <3>1. m \in Readable(s) /\ n - Len(s) \in Readable(t)
        BY <1>2, <1>3, <2>1, <2>4 DEF Readable
      <3>2. st[m] = s[m] /\ st[n] = t[n - Len(s)]
        BY <1>2, <1>3, <2>1, <2>4
      <3>3. s[m] \in Entered(s) /\ t[n - Len(s)] \in Entered(t)
        BY <3>1 DEF Entered
      <3> QED
        BY <1>4, <3>2, <3>3 DEF Earlier
    <2> QED
      BY <1>2, <1>3, <2>1, <2>2, <2>3, <2>4
  <1> QED
    BY <1>1, <1>4 DEF Ordered

(* So is a list of at most one entry for each item, whatever its order.    *)
LEMMA OrderedSet ==
    ASSUME NEW S \in SUBSET Entries, IsFiniteSet(S),
           \A e, f \in S : e.item = f.item => e = f
    PROVE  Ordered(SetToSeq(S))
  <1>1. PICK s : s = SetToSeq(S)
    OBVIOUS
  <1>2. s \in Seq(S) /\ \A j, k \in DOMAIN s : j # k => s[j] # s[k]
    BY <1>1, ListOfSet
  <1>3. ASSUME NEW j \in Readable(s), NEW k \in Readable(s), j < k PROVE s[j].item # s[k].item
    <2>1. j \in DOMAIN s /\ k \in DOMAIN s /\ j \in Nat /\ k \in Nat
      BY <1>2 DEF Readable
    <2>2. s[j] \in S /\ s[k] \in S /\ s[j] # s[k]
      BY <1>2, <1>3, <2>1
    <2> QED
      BY <2>2
  <1> QED
    BY <1>1, <1>3 DEF Ordered

Alone == \A p, q \in Procs : p = q

(* What is in the file is older than what was drained, and that than what  *)
(* is in the queue.                                                        *)
OrderInv ==
    Alone =>
        /\ Ordered(file) /\ Ordered(pending) /\ Earlier(Entered(file), ToSet(pending))
        /\ \A p \in Procs :
              /\ Ordered(batch[p])
              /\ Earlier(Entered(file), ToSet(batch[p]))
              /\ Earlier(ToSet(batch[p]), ToSet(pending))

(* What is in the file is older than all that waits. *)
LEMMA FileIsEarlier ==
    ASSUME OrderInv, Alone
    PROVE  Earlier(Entered(file), Queue)
  BY DEF OrderInv, Earlier, Queue

(* The empty list. *)
LEMMA NothingOrdered ==
    /\ Ordered(<<>>) /\ Entered(<<>>) = {} /\ ToSet(<<>>) = {}
    /\ \A S : Earlier(S, {}) /\ Earlier({}, S)
  BY DEF Ordered, Readable, Entered, ToSet, Earlier

(* One goroutine has the store to itself, or the process does not end and  *)
(* nothing is dropped for its age.  Without it the file need not be in the *)
(* order of the changes when a start or a prune goes by that order.        *)
Safe == Alone \/ (~Crashes /\ Retention = 0)

(* An item a start found is not in the store, nothing waits to be said of  *)
(* it, and what was found is the newest there is.                          *)
RestoredInv ==
    \A i \in Items : restored[i] # NoEntry =>
        /\ Crashes /\ restored[i].item = i /\ live[i] = Absent
        /\ \A e \in Queue : e.item # i
        /\ \A e \in Entered(file) : e.item = i => e.at <= restored[i].at

(* Order is kept by each kind of step. *)
LEMMA SectionOrdered ==
    ASSUME BasicInv, OrderInv, NEW p \in Procs,
           NEW next \in [Items -> Readings \cup {Absent}], Section(p, next)
    PROVE  OrderInv'
  <1> SUFFICES ASSUME Alone PROVE OrderInv'
    BY DEF OrderInv, Alone
  <1>1. TypeOK /\ TimeInv
    BY DEF BasicInv
  <1>2. /\ pending' = pending \o SetToSeq(New(next))
        /\ ToSet(pending') = ToSet(pending) \cup New(next)
        /\ SetToSeq(New(next)) \in Seq(Entries) /\ ToSet(SetToSeq(New(next))) = New(next)
    BY <1>1, SectionQueues
  <1>3. now < MaxTime /\ now' = now + 1 /\ file' = file /\ batch' = batch
    BY DEF Section
  <1>4. /\ New(next) \in SUBSET Entries /\ IsFiniteSet(New(next))
        /\ \A e \in New(next) : e.item \in Items /\ e.at = now + 1
        /\ \A e, f \in New(next) : e.item = f.item => e = f
    <2>1. /\ New(next) \in SUBSET Entries /\ IsFiniteSet(New(next))
          /\ \A e \in New(next) : e.item \in Items /\ e.at = now + 1
          /\ \A e \in New(next) : e \in Said(e.item, next[e.item])
      BY <1>1, <1>3, NewType
    <2>2. \A i \in Items : \A e, f \in Said(i, next[i]) : e = f
      BY <1>1, <1>3, SaidType
    <2> QED
      BY <2>1, <2>2
  <1>5. \A e \in Entered(file) \cup Queue : e.at < now + 1
    BY TimeType
  <1>6. Earlier(Entered(file) \cup Queue, New(next))
    BY <1>4, <1>5 DEF Earlier
  <1>7. ToSet(pending) \subseteq Queue /\ \A q \in Procs : ToSet(batch[q]) \subseteq Queue
    BY DEF Queue
  <1>8. Ordered(pending')
    <2>1. Ordered(SetToSeq(New(next)))
      BY <1>4, OrderedSet
    <2>2. PICK list : list = SetToSeq(New(next))
      OBVIOUS
    <2>3. /\ list \in Seq(Lines) /\ Entered(list) = New(next)
          /\ pending \in Seq(Lines) /\ Entered(pending) = ToSet(pending)
      BY <1>1, <1>2, <2>2, QueueType, EntriesAreEntered
    <2>4. Earlier(ToSet(pending), New(next))
      BY <1>6, <1>7 DEF Earlier
    <2> QED
      BY <1>2, <2>1, <2>2, <2>3, <2>4, OrderedJoin DEF OrderInv
  <1>9. /\ Earlier(Entered(file), ToSet(pending'))
        /\ \A q \in Procs : Earlier(ToSet(batch[q]), ToSet(pending'))
    BY <1>2, <1>6, <1>7 DEF OrderInv, Earlier
  <1>10. Entered(file)' = Entered(file) /\ Ordered(file)' /\ Ordered(pending)'
    BY <1>3, <1>8 DEF Entered, Readable, Ordered, OrderInv
  <1>11. \A q \in Procs : Ordered(batch[q])'
    BY <1>3 DEF OrderInv, Ordered, Readable
  <1>12. \A q \in Procs : Earlier(Entered(file), ToSet(batch[q]))
    BY DEF OrderInv
  <1> QED
    BY <1>3, <1>9, <1>10, <1>11, <1>12 DEF OrderInv

(* A write takes from the batch, which was later than the file and earlier *)
(* than the queue.                                                         *)
LEMMA AddedOrdered ==
    ASSUME BasicInv, OrderInv, Alone, NEW p \in Procs, Adds(p)
    PROVE  Ordered(file)' /\ Earlier(Entered(file'), ToSet(pending))
  <1>1. /\ file \in Seq(Lines) /\ batch[p] \in Seq(Lines)
        /\ Entered(batch[p]) = ToSet(batch[p])
    BY QueueType, EntriesAreEntered DEF BasicInv
  <1>2. /\ Ordered(file) /\ Ordered(batch[p]) /\ Earlier(Entered(file), ToSet(batch[p]))
        /\ Earlier(Entered(file), ToSet(pending)) /\ Earlier(ToSet(batch[p]), ToSet(pending))
    BY DEF OrderInv
  <1>3. PICK all : all = file \o batch[p]
    OBVIOUS
  <1>4. Ordered(all)
    BY <1>1, <1>2, <1>3, OrderedJoin
  <1>5. PICK new : new = file'
    OBVIOUS
  <1>6. Ordered(new)
    BY <1>3, <1>4, <1>5, OrderedWithin DEF Adds
  <1>7. Ordered(file)'
    BY <1>5, <1>6 DEF Ordered, Readable
  <1>8. Entered(file') \subseteq Entered(file) \cup ToSet(batch[p])
    BY AddedIsQueued DEF BasicInv
  <1> QED
    BY <1>2, <1>7, <1>8 DEF Earlier

(* A drain moves the queue to a batch that was empty. *)
LEMMA DrainOrdered ==
    ASSUME BasicInv, OrderInv, NEW p \in Procs, Drain(p)
    PROVE  OrderInv'
  <1> SUFFICES ASSUME Alone PROVE OrderInv'
    BY DEF OrderInv, Alone
  <1>1. \A q \in Procs : q = p
    BY DEF Alone
  <1>2. file' = file /\ batch'[p] = pending /\ pending' = <<>>
    BY DEF Drain, BasicInv, TypeOK
  <1>3. /\ Ordered(file) /\ Ordered(pending) /\ Earlier(Entered(file), ToSet(pending))
    BY DEF OrderInv
  <1>4. /\ Ordered(file)' /\ Entered(file)' = Entered(file)
        /\ Ordered(pending)' /\ ToSet(pending)' = {} /\ Ordered(batch[p])'
    BY <1>2, <1>3, NothingOrdered DEF Ordered, Entered, Readable, ToSet
  <1>5. Earlier(Entered(file), ToSet(batch[p]))'
    BY <1>2, <1>3, <1>4
  <1>6. /\ Earlier(Entered(file), ToSet(pending))'
        /\ Earlier(ToSet(batch[p]), ToSet(pending))'
    BY <1>4 DEF Earlier
  <1> QED
    BY <1>1, <1>4, <1>5, <1>6 DEF OrderInv

(* A write, whole or not, adds at the end. *)
LEMMA WriteOrdered ==
    ASSUME BasicInv, OrderInv, NEW p \in Procs, AppendBatch(p) \/ AppendFails(p)
    PROVE  OrderInv'
  <1> SUFFICES ASSUME Alone PROVE OrderInv'
    BY DEF OrderInv, Alone
  <1>1. \A q \in Procs : q = p
    BY DEF Alone
  <1>2. batch'[p] = <<>> /\ pending' = pending
    BY DEF AppendBatch, AppendFails, BasicInv, TypeOK
  <1>3. Adds(p)
    BY WriteBasic
  <1>4. Ordered(file)' /\ Earlier(Entered(file'), ToSet(pending))
    BY <1>3, AddedOrdered
  <1>5. Ordered(pending)' /\ Earlier(Entered(file), ToSet(pending))'
    BY <1>2, <1>4 DEF OrderInv, Ordered, Readable, Entered
  <1>6. Ordered(batch[p])' /\ ToSet(batch[p])' = {}
    BY <1>2, NothingOrdered DEF Ordered, Readable
  <1>7. /\ Earlier(Entered(file), ToSet(batch[p]))'
        /\ Earlier(ToSet(batch[p]), ToSet(pending))'
    BY <1>6 DEF Earlier
  <1> QED
    BY <1>1, <1>4, <1>5, <1>6, <1>7 DEF OrderInv

(* A start reads the file it was left. *)
LEMMA StartOrdered ==
    ASSUME BasicInv, OrderInv, Restart \/ \E p \in Procs : CrashInAppend(p)
    PROVE  OrderInv'
  <1> SUFFICES ASSUME Alone PROVE OrderInv'
    BY DEF OrderInv, Alone
  <1>1. StartFrom(file') /\ (file' = file \/ \E p \in Procs : Adds(p))
    BY StartBasic
  <1>2. Ordered(file)'
    <2>1. CASE file' = file
      BY <2>1 DEF OrderInv, Ordered, Readable
    <2>2. CASE \E p \in Procs : Adds(p)
      BY <2>2, AddedOrdered
    <2> QED
      BY <1>1, <2>1, <2>2
  <1>3. pending' = <<>> /\ \A q \in Procs : batch'[q] = <<>>
    BY <1>1 DEF StartFrom
  <1>4. /\ Ordered(pending)' /\ ToSet(pending)' = {}
        /\ \A q \in Procs : Ordered(batch[q])' /\ ToSet(batch[q])' = {}
    BY <1>3, NothingOrdered DEF Ordered, Readable
  <1> QED
    BY <1>2, <1>4 DEF OrderInv, Earlier

(* What a start finds is kept by each kind of step. *)
LEMMA SectionRestored ==
    ASSUME BasicInv, RestoredInv, NEW p \in Procs,
           NEW next \in [Items -> Readings \cup {Absent}], Section(p, next)
    PROVE  RestoredInv'
  <1>1. TypeOK
    BY DEF BasicInv
  <1>2. /\ now < MaxTime /\ now' = now + 1 /\ file' = file /\ live' = next
        /\ restored' = [i \in Items |->
               IF live[i] = Absent /\ next[i] # Absent THEN NoEntry ELSE restored[i]]
    BY DEF Section
  <1>3. Queue' = Queue \cup New(next)
    BY SectionBasic
  <1>4. ASSUME NEW i \in Items, restored'[i] # NoEntry
        PROVE  /\ Crashes /\ restored'[i].item = i /\ live'[i] = Absent
               /\ \A e \in Queue' : e.item # i
               /\ \A e \in Entered(file') : e.item = i => e.at <= restored'[i].at
    <2>1. restored'[i] = restored[i] /\ ~(live[i] = Absent /\ next[i] # Absent)
      BY <1>2, <1>4
    <2>2. /\ Crashes /\ restored[i].item = i /\ live[i] = Absent
          /\ \A e \in Queue : e.item # i
          /\ \A e \in Entered(file) : e.item = i => e.at <= restored[i].at
      BY <1>4, <2>1 DEF RestoredInv
    <2>3. next[i] = Absent
      BY <2>1, <2>2
    <2>4. Said(i, next[i]) = {}
      BY <2>2, <2>3 DEF Said
    <2>5. \A e \in New(next) : e.item # i
      BY <1>1, <1>2, <2>4, NewType
    <2> QED
      BY <1>2, <1>3, <2>1, <2>2, <2>3, <2>5
  <1>5. Entered(file)' = Entered(file')
    BY DEF Entered, Readable
  <1> QED
    BY <1>4, <1>5 DEF RestoredInv

(* A drain says nothing new of an item. *)
LEMMA DrainRestored ==
    ASSUME BasicInv, RestoredInv, NEW p \in Procs, Drain(p)
    PROVE  RestoredInv'
  <1>1. Queue' = Queue
    BY DrainBasic
  <1>2. file' = file /\ live' = live /\ restored' = restored
    BY DEF Drain
  <1>3. Entered(file)' = Entered(file)
    BY <1>2 DEF Entered, Readable
  <1> QED
    BY <1>1, <1>2, <1>3 DEF RestoredInv

(* A write adds nothing about an item of which nothing waits.              *)
LEMMA WriteRestored ==
    ASSUME BasicInv, RestoredInv, NEW p \in Procs, AppendBatch(p) \/ AppendFails(p)
    PROVE  RestoredInv'
  <1>1. Queue' \subseteq Queue /\ Adds(p)
    BY WriteBasic
  <1>2. live' = live /\ restored' = restored
    BY DEF AppendBatch, AppendFails
  <1>3. Entered(file') \subseteq Entered(file) \cup Queue
    BY <1>1, AddedIsQueued DEF BasicInv
  <1>4. Entered(file)' = Entered(file')
    BY DEF Entered, Readable
  <1> QED
    BY <1>1, <1>2, <1>3, <1>4 DEF RestoredInv

(* In a file whose entries are in order the last line of an item is its    *)
(* newest.                                                                 *)
LEMMA LastIsNewest ==
    ASSUME NEW lines \in Seq(Lines), Ordered(lines), NEW i \in Items
    PROVE  /\ \A e \in Entered(lines) : e.item = i =>
                /\ LastByItem(lines)[i] # NoEntry
                /\ e = LastByItem(lines)[i] \/ e.at < LastByItem(lines)[i].at
           /\ LastByItem(lines)[i] # NoEntry =>
                LastByItem(lines)[i] \in Entered(lines) /\ LastByItem(lines)[i].item = i
  <1>1. \A e \in Entered(lines) : e.item = i => \E k \in About(i, lines) : e = lines[k]
    BY DEF About, Entered
  <1>2. CASE About(i, lines) = {}
    <2>1. LastByItem(lines)[i] = NoEntry
      BY <1>2, FoundIsLast
    <2> QED
      BY <1>1, <1>2, <2>1
  <1>3. CASE About(i, lines) # {}
    <2>1. PICK k \in About(i, lines) :
              /\ LastByItem(lines)[i] = lines[k]
              /\ lines[k] \in Entries /\ lines[k].item = i
              /\ \A j \in About(i, lines) : j <= k
      BY <1>3, FoundIsLast
    <2>2. /\ k \in Readable(lines) /\ lines[k] \in Entered(lines)
          /\ lines[k] # NoEntry
      BY <2>1, SentinelAssumptions DEF About, Entered
    <2>3. ASSUME NEW j \in About(i, lines) PROVE lines[j] = lines[k] \/ lines[j].at < lines[k].at
      <3>1. j \in Readable(lines) /\ lines[j].item = lines[k].item /\ j <= k
        BY <2>1 DEF About
      <3>2. j \in Nat /\ k \in Nat
        BY <2>2, <3>1 DEF Readable
      <3>3. j = k \/ j < k
        BY <3>1, <3>2
      <3> QED
        BY <2>2, <3>1, <3>3 DEF Ordered
    <2> QED
      BY <1>1, <2>1, <2>2, <2>3
  <1> QED
    BY <1>2, <1>3

(* A start finds the newest entry of each item. *)
LEMMA StartRestored ==
    ASSUME BasicInv, OrderInv, Alone, Restart \/ \E p \in Procs : CrashInAppend(p)
    PROVE  RestoredInv'
  <1>1. /\ StartFrom(file') /\ file' \in Seq(Lines) /\ Queue' = {} /\ Crashes
    BY StartBasic DEF Restart, CrashInAppend
  <1>2. /\ live' = [i \in Items |-> Absent] /\ restored' = LastByItem(file')
    BY <1>1 DEF StartFrom
  <1>3. PICK lines \in Seq(Lines) : lines = file'
    BY <1>1
  <1>4. Ordered(lines)
    <2>1. OrderInv'
      BY StartOrdered
    <2> QED
      BY <1>3, <2>1 DEF OrderInv, Alone, Ordered, Readable
  <1>5. Entered(file)' = Entered(lines)
    BY <1>3 DEF Entered, Readable
  <1>6. ASSUME NEW i \in Items, LastByItem(lines)[i] # NoEntry
        PROVE  /\ LastByItem(lines)[i].item = i
               /\ \A e \in Entered(lines) : e.item = i => e.at <= LastByItem(lines)[i].at
    <2>1. Entered(lines) \in SUBSET Entries
      <3>1. \A k \in DOMAIN lines : lines[k] \in Lines
        OBVIOUS
      <3> QED
        BY <3>1 DEF Entered, Readable, Lines
    <2>2. /\ LastByItem(lines)[i] \in Entered(lines) /\ LastByItem(lines)[i].item = i
          /\ \A e \in Entered(lines) : e.item = i =>
                e = LastByItem(lines)[i] \/ e.at < LastByItem(lines)[i].at
      BY <1>4, <1>6, LastIsNewest
    <2>3. \A e \in Entries : e.at \in Nat
      BY TimeType
    <2> QED
      BY <2>1, <2>2, <2>3
  <1> QED
    BY <1>1, <1>2, <1>3, <1>5, <1>6 DEF RestoredInv

-----------------------------------------------------------------------------
(* The story of an item: what the log says of it and what waits to be said.*)

Unique(S) == \A e, f \in S : e.at = f.at => e = f

(* Each entry follows from the one before it. *)
Chained(S) ==
    \A e, f \in S :
        e.at < f.at /\ ~(\E g \in S : e.at < g.at /\ g.at < f.at) => Follows(e, f)

Newest(e, S) == e \in S /\ \A f \in S : f.at <= e.at

OfItem(i, S) == {e \in S : e.item = i}

Story(i) == OfItem(i, Entered(file) \cup Queue)

(* How the item stands after entry e. *)
Leaves(i, e) ==
    IF live[i] # Absent THEN e.kind # "disappeared" /\ e.reading = live[i]
    ELSE IF restored[i] # NoEntry THEN e = restored[i]
    ELSE e.kind = "disappeared"

(* The clock has come far enough for an entry to be dropped. *)
Forgotten == Retention > 0 /\ now > Retention + 1

(* The story is without a gap and ends where the item stands; of an item   *)
(* without one nothing is known, or all there was has been dropped.        *)
Tells(i, S) ==
    /\ Unique(S) /\ Chained(S)
    /\ \A e \in S : Newest(e, S) => Leaves(i, e)
    /\ S = {} => (live[i] = Absent /\ restored[i] = NoEntry) \/ Forgotten

StoryInv == intact => \A i \in Items : Tells(i, Story(i))

(* A story goes on with an entry that follows from its newest.             *)
LEMMA StoryGrows ==
    ASSUME NEW S \in SUBSET Entries, NEW n \in Entries, Unique(S), Chained(S),
           \A e \in S : e.at < n.at,
           \A e \in S : Newest(e, S) => Follows(e, n)
    PROVE  Unique(S \cup {n}) /\ Chained(S \cup {n}) /\ \A e \in S : ~Newest(e, S \cup {n})
  <1>1. \A e \in S \cup {n} : e.at \in Nat
    BY SignalLogAssumptions DEF Entries
  <1>2. Unique(S \cup {n})
    BY <1>1 DEF Unique
  <1>3. ASSUME NEW e \in S \cup {n}, NEW f \in S \cup {n}, e.at < f.at,
               ~(\E g \in S \cup {n} : e.at < g.at /\ g.at < f.at)
        PROVE  Follows(e, f)
    <2>1. CASE f = n
      <3>1. e \in S
        BY <1>1, <1>3, <2>1
      <3>2. \A g \in S : g.at <= e.at
        BY <1>1, <1>3, <2>1
      <3> QED
        BY <2>1, <3>1, <3>2 DEF Newest
    <2>2. CASE f # n
      <3>1. e \in S /\ f \in S
        BY <1>1, <1>3, <2>2
      <3> QED
        BY <1>3, <3>1 DEF Chained
    <2> QED
      BY <2>1, <2>2
  <1>4. Chained(S \cup {n})
    BY <1>3 DEF Chained
  <1>5. \A e \in S : ~Newest(e, S \cup {n})
    BY <1>1 DEF Newest
  <1> QED
    BY <1>2, <1>4, <1>5

(* A story told only in part is without a gap if nothing between two of    *)
(* its entries is left out.                                                *)
LEMMA StoryInPart ==
    ASSUME NEW S, NEW T \in SUBSET S, Unique(S), Chained(S),
           \A e, f \in T : \A g \in S : e.at < g.at /\ g.at < f.at => g \in T
    PROVE  Unique(T) /\ Chained(T)
  <1>1. Unique(T)
    BY DEF Unique
  <1>2. ASSUME NEW e \in T, NEW f \in T, e.at < f.at,
               ~(\E g \in T : e.at < g.at /\ g.at < f.at)
        PROVE  Follows(e, f)
    BY <1>2 DEF Chained
  <1>3. Chained(T)
    BY <1>2 DEF Chained
  <1> QED
    BY <1>1, <1>3

(* Some entry of a story is the newest. *)
LEMMA NewestThereIs ==
    ASSUME NEW S \in SUBSET Entries, S # {}
    PROVE  \E e \in S : Newest(e, S)
  <1> DEFINE times == {e.at : e \in S}
  <1>1. MaxTime \in Nat /\ times \in SUBSET (1..MaxTime) /\ times # {}
    BY SignalLogAssumptions DEF Entries
  <1>2. Max(times) \in times /\ \A t \in times : t <= Max(times)
    BY <1>1, LastPlace
  <1>3. PICK e \in S : e.at = Max(times)
    BY <1>2
  <1>4. \A f \in S : f.at <= e.at
    BY <1>2, <1>3
  <1> QED
    BY <1>4 DEF Newest

(* A section continues the story of each item, or leaves it as it was.     *)
LEMMA SaidContinues ==
    ASSUME BasicInv, RestoredInv, NEW p \in Procs, NEW i \in Items,
           NEW next \in [Items -> Readings \cup {Absent}], Section(p, next),
           NEW S \in SUBSET Entries, Tells(i, S), \A e \in S : e.at < now + 1,
           NEW T, T = S \cup Said(i, next[i])
    PROVE  Tells(i, T)'
  <1> DEFINE r == next[i]
  <1>1. /\ now < MaxTime /\ now' = now + 1 /\ live'[i] = r
        /\ restored'[i] = IF live[i] = Absent /\ r # Absent THEN NoEntry ELSE restored[i]
        /\ r \in Readings \cup {Absent} /\ live[i] \in Readings \cup {Absent}
        /\ Absent \notin Readings
    BY SignalLogAssumptions DEF Section, BasicInv, TypeOK
  <1>2. /\ Said(i, r) \in SUBSET Entries
        /\ \A e \in Said(i, r) : e.item = i /\ e.at = now + 1
    BY <1>1, SaidType DEF BasicInv
  <1>3. restored[i] # NoEntry => live[i] = Absent
    BY DEF RestoredInv
  <1>4. Forgotten => Forgotten'
    BY <1>1, TimeType DEF Forgotten
  <1>5. /\ Unique(S) /\ Chained(S)
        /\ \A e \in S : Newest(e, S) => Leaves(i, e)
        /\ S = {} => (live[i] = Absent /\ restored[i] = NoEntry) \/ Forgotten
    BY DEF Tells
  <1>6. T = S \cup Said(i, r)
    OBVIOUS
  <1> HIDE DEF r
  <1>7. ASSUME Said(i, r) = {}
        PROVE  Tells(i, T)'
    <2>1. \/ live[i] = r
          \/ /\ live[i] = Absent /\ r # Absent
             /\ restored[i] # NoEntry /\ restored[i].kind # "disappeared"
             /\ restored[i].reading = r
      BY <1>7 DEF Said, FirstSighting
    <2>2. \A e \in S : Newest(e, S) => Leaves(i, e)'
      BY <1>1, <1>5, <2>1 DEF Leaves
    <2>3. S = {} => (live'[i] = Absent /\ restored'[i] = NoEntry) \/ Forgotten'
      BY <1>1, <1>4, <1>5, <2>1
    <2>4. Tells(i, S)'
      BY <1>5, <2>2, <2>3 DEF Tells
    <2>5. T = S
      BY <1>6, <1>7
    <2> QED
      BY <2>4, <2>5
  <1>8. ASSUME NEW n, Said(i, r) = {n},
               \A e \in S : Newest(e, S) => Follows(e, n),
               Leaves(i, n)'
        PROVE  Tells(i, T)'
    <2>1. n \in Entries /\ \A e \in S : e.at < n.at
      BY <1>2, <1>8
    <2>2. Unique(S \cup {n}) /\ Chained(S \cup {n}) /\ \A e \in S : ~Newest(e, S \cup {n})
      BY <1>5, <1>8, <2>1, StoryGrows
    <2>3. Tells(i, S \cup {n})'
      BY <1>8, <2>2 DEF Tells
    <2>4. T = S \cup {n}
      BY <1>6, <1>8
    <2> QED
      BY <2>3, <2>4
  <1>9. CASE Said(i, r) # {}
    <2>1. CASE live[i] = Absent
      <3>1. r # Absent /\ Said(i, r) = FirstSighting(i, r)
        BY <1>9, <2>1 DEF Said
      <3>2. live'[i] # Absent
        BY <1>1, <3>1
      <3>3. CASE restored[i] = NoEntry \/ restored[i].kind = "disappeared"
        <4>1. PICK n : n = Entry("appeared", i, r, Absent)
          OBVIOUS
        <4>2. Said(i, r) = {n}
          BY <3>1, <3>3, <4>1 DEF FirstSighting
        <4>3. \A e \in S : Newest(e, S) => e.kind = "disappeared"
          BY <1>5, <2>1, <3>3 DEF Leaves
        <4>4. n.kind = "appeared" /\ n.reading = r
          BY <4>1 DEF Entry
        <4>5. \A e \in S : Newest(e, S) => Follows(e, n)
          BY <4>3, <4>4 DEF Follows
        <4>6. Leaves(i, n)'
          BY <1>1, <3>2, <4>4 DEF Leaves
        <4> QED
          BY <1>8, <4>2, <4>5, <4>6
      <3>4. CASE ~(restored[i] = NoEntry \/ restored[i].kind = "disappeared")
        <4>1. PICK n : n = Entry("changed", i, r, restored[i].reading)
          OBVIOUS
        <4>2. Said(i, r) = {n}
          BY <1>9, <3>1, <3>4, <4>1 DEF FirstSighting
        <4>3. \A e \in S : Newest(e, S) => /\ e.kind # "disappeared"
                                           /\ e.reading = restored[i].reading
          BY <1>5, <2>1, <3>4 DEF Leaves
        <4>4. n.kind = "changed" /\ n.reading = r /\ n.prev = restored[i].reading
          BY <4>1 DEF Entry
        <4>5. \A e \in S : Newest(e, S) => Follows(e, n)
          BY <4>3, <4>4 DEF Follows
        <4>6. Leaves(i, n)'
          BY <1>1, <3>2, <4>4 DEF Leaves
        <4> QED
          BY <1>8, <4>2, <4>5, <4>6
      <3> QED
        BY <3>3, <3>4
    <2>2. CASE live[i] # Absent
      <3>1. \A e \in S : Newest(e, S) => e.kind # "disappeared" /\ e.reading = live[i]
        BY <1>5, <2>2 DEF Leaves
      <3>2. restored'[i] = NoEntry
        BY <1>1, <1>3, <2>2
      <3>3. CASE r = Absent
        <4>1. PICK n : n = Entry("disappeared", i, live[i], Absent)
          OBVIOUS
        <4>2. Said(i, r) = {n}
          BY <1>9, <2>2, <3>3, <4>1 DEF Said
        <4>3. n.kind = "disappeared" /\ n.reading = live[i]
          BY <4>1 DEF Entry
        <4>4. \A e \in S : Newest(e, S) => Follows(e, n)
          BY <3>1, <4>3 DEF Follows
        <4>5. Leaves(i, n)'
          BY <1>1, <3>2, <3>3, <4>3 DEF Leaves
        <4> QED
          BY <1>8, <4>2, <4>4, <4>5
      <3>4. CASE r # Absent
        <4>1. PICK n : n = Entry("changed", i, r, live[i])
          OBVIOUS
        <4>2. Said(i, r) = {n}
          BY <1>9, <2>2, <3>4, <4>1 DEF Said
        <4>3. n.kind = "changed" /\ n.reading = r /\ n.prev = live[i]
          BY <4>1 DEF Entry
        <4>4. \A e \in S : Newest(e, S) => Follows(e, n)
          BY <3>1, <4>3 DEF Follows
        <4>5. Leaves(i, n)'
          BY <1>1, <3>4, <4>3 DEF Leaves
        <4> QED
          BY <1>8, <4>2, <4>4, <4>5
      <3> QED
        BY <3>3, <3>4
    <2> QED
      BY <2>1, <2>2
  <1> QED
    BY <1>7, <1>9

(* So the stories go on when the store changes. *)
LEMMA SectionStory ==
    ASSUME BasicInv, RestoredInv, StoryInv, NEW p \in Procs,
           NEW next \in [Items -> Readings \cup {Absent}], Section(p, next)
    PROVE  StoryInv'
  <1> SUFFICES ASSUME intact', NEW i \in Items PROVE Tells(i, Story(i))'
    BY DEF StoryInv
  <1>1. now < MaxTime /\ now' = now + 1 /\ file' = file /\ intact
    BY DEF Section
  <1>2. Queue' = Queue \cup New(next)
    BY SectionBasic
  <1>3. OfItem(i, New(next)) = Said(i, next[i])
    <2>1. /\ \A e \in New(next) : e.item = i <=> e \in Said(i, next[i])
          /\ Said(i, next[i]) \in SUBSET New(next)
      BY <1>1, NewType DEF BasicInv
    <2> QED
      BY <2>1 DEF OfItem
  <1>4. Story(i)' = Story(i) \cup Said(i, next[i])
    BY <1>1, <1>2, <1>3 DEF Story, OfItem, Entered, Readable
  <1>5. Story(i) \in SUBSET Entries /\ \A e \in Story(i) : e.at < now + 1
    BY TimeType DEF Story, OfItem
  <1>6. Tells(i, Story(i))
    BY <1>1 DEF StoryInv
  <1>7. PICK S \in SUBSET Entries : S = Story(i)
    BY <1>5
  <1>8. PICK T : T = Story(i)'
    OBVIOUS
  <1>9. Tells(i, T)'
    BY <1>4, <1>5, <1>6, <1>7, <1>8, SaidContinues
  <1> QED
    BY <1>8, <1>9

(* A drain leaves every story as it was. *)
LEMMA DrainStory ==
    ASSUME BasicInv, StoryInv, NEW p \in Procs, Drain(p)
    PROVE  StoryInv'
  <1>1. Queue' = Queue
    BY DrainBasic
  <1>2. UNCHANGED <<live, restored, file, now, intact>>
    BY DEF Drain
  <1>3. \A i \in Items : Story(i)' = Story(i)
    BY <1>1, <1>2 DEF Story, OfItem, Entered, Readable
  <1>4. ASSUME NEW i \in Items, Tells(i, Story(i)) PROVE Tells(i, Story(i))'
    <2>1. PICK S : S = Story(i)
      OBVIOUS
    <2>2. Tells(i, S)'
      BY <1>2, <1>4, <2>1 DEF Tells, Leaves, Forgotten
    <2> QED
      BY <1>3, <2>1, <2>2
  <1> QED
    BY <1>2, <1>4 DEF StoryInv

(* An append leaves each story as it was, or without its oldest entries.   *)
LEMMA WriteStory ==
    ASSUME BasicInv, Safe, OrderInv, StoryInv, NEW p \in Procs, AppendBatch(p)
    PROVE  StoryInv'
  <1> SUFFICES ASSUME intact', NEW i \in Items PROVE Tells(i, Story(i))'
    BY DEF StoryInv
  <1>1. UNCHANGED <<live, restored, now, intact>>
    BY DEF AppendBatch
  <1>2. ended /\ Tells(i, Story(i))
    BY <1>1 DEF BasicInv, EndInv, StoryInv
  <1>3. PICK rewritten \in BOOLEAN :
            /\ rewritten =>
                  /\ Retention > 0
                  /\ Entered(file') = {e \in Entered(file) : ~Expired(e)} \cup ToSet(batch[p])
            /\ ~rewritten /\ ended => Entered(file') = Entered(file) \cup ToSet(batch[p])
    BY AppendExact
  <1>4. /\ Queue' \subseteq Queue /\ Queue \subseteq Queue' \cup ToSet(batch[p])
        /\ ToSet(batch[p]) \subseteq Queue
    BY WriteBasic DEF Queue
  <1>5. PICK S : S = Story(i)
    OBVIOUS
  <1>6. PICK T : T = Story(i)'
    OBVIOUS
  <1>7. T = OfItem(i, Entered(file') \cup Queue')
    BY <1>6 DEF Story, OfItem, Entered, Readable
  <1>8. \A e : e \in T <=> e \in S /\ (e \in Queue \/ ~rewritten \/ ~Expired(e))
    BY <1>2, <1>3, <1>4, <1>5, <1>7 DEF Story, OfItem
  <1>9. S \in SUBSET Entries /\ \A e \in Entries : e.at \in Nat /\ e.at >= 1
    BY <1>5, TimeType DEF Story, OfItem
  <1>10. \A e \in S : e.item = i /\ (e \in Entered(file) \/ e \in Queue)
    BY <1>5 DEF Story, OfItem
  <1>11. ASSUME NEW g \in S, g \notin T, NEW e \in T PROVE g.at < e.at
    <2>1. rewritten /\ Expired(g) /\ g \in Entered(file)
      BY <1>8, <1>10, <1>11
    <2>2. e \in S /\ e.at \in Nat /\ g.at \in Nat
      BY <1>8, <1>9, <1>11
    <2>3. CASE e \in Queue
      <3>1. Alone
        BY <1>3, <2>1 DEF Safe
      <3>2. Earlier(Entered(file), Queue)
        BY <3>1, FileIsEarlier
      <3> QED
        BY <1>10, <1>11, <2>1, <2>2, <2>3, <3>2 DEF Earlier
    <2>4. CASE e \notin Queue
      <3>1. ~Expired(e)
        BY <1>8, <1>11, <2>1, <2>4
      <3> QED
        BY <2>1, <2>2, <3>1, TimeType DEF Expired
    <2> QED
      BY <2>3, <2>4
  <1>12. T \in SUBSET S
    BY <1>8
  <1>13. \A e \in T : e.at \in Nat
    BY <1>9, <1>12
  <1>14. Unique(T) /\ Chained(T)
    <2>1. \A e, f \in T : \A g \in S : e.at < g.at /\ g.at < f.at => g \in T
      BY <1>9, <1>11, <1>13
    <2> QED
      BY <1>2, <1>5, <1>12, <2>1, StoryInPart DEF Tells
  <1>15. ASSUME NEW e \in T, Newest(e, T) PROVE Leaves(i, e)'
    <2>1. \A f \in S : f.at <= e.at
      <3>1. ASSUME NEW f \in S PROVE f.at <= e.at
        <4>1. e.at \in Nat /\ f.at \in Nat
          BY <1>9, <1>13
        <4>2. CASE f \in T
          BY <1>15, <4>2 DEF Newest
        <4>3. CASE f \notin T
          <5>1. f.at < e.at
            BY <1>11, <4>3
          <5> QED
            BY <4>1, <5>1
        <4> QED
          BY <4>2, <4>3
      <3> QED
        BY <3>1
    <2>2. Newest(e, S)
      BY <1>12, <2>1 DEF Newest
    <2>3. Leaves(i, e)
      BY <1>2, <1>5, <1>12, <2>2 DEF Tells
    <2> QED
      BY <1>1, <2>3 DEF Leaves
  <1>16. ASSUME T = {} PROVE (live'[i] = Absent /\ restored'[i] = NoEntry) \/ Forgotten'
    <2>1. CASE S = {}
      BY <1>1, <1>2, <1>5, <2>1 DEF Tells, Forgotten
    <2>2. ASSUME NEW e \in S PROVE Forgotten'
      <3>1. rewritten /\ Expired(e) /\ e.at \in Nat /\ e.at >= 1
        BY <1>8, <1>9, <1>16
      <3>2. e.at + Retention < now /\ Retention > 0
        BY <1>3, <3>1 DEF Expired
      <3>3. now > Retention + 1
        BY <3>1, <3>2, TimeType
      <3> QED
        BY <1>1, <3>2, <3>3 DEF Forgotten
    <2> QED
      BY <2>1, <2>2
  <1>17. Tells(i, T)'
    BY <1>14, <1>15, <1>16 DEF Tells
  <1> QED
    BY <1>6, <1>17

(* A start goes on from what is in the file, the older part of each story. *)
LEMMA StartStory ==
    ASSUME BasicInv, Alone, OrderInv, StoryInv,
           Restart \/ \E p \in Procs : CrashInAppend(p)
    PROVE  StoryInv'
  <1> SUFFICES ASSUME intact', NEW i \in Items PROVE Tells(i, Story(i))'
    BY DEF StoryInv
  <1>1. /\ file' = file /\ intact
        /\ live' = [j \in Items |-> Absent] /\ restored' = LastByItem(file)
    BY DEF Restart, CrashInAppend, StartFrom
  <1>2. Queue' = {} /\ file \in Seq(Lines)
    BY StartBasic, QueueType DEF BasicInv
  <1>3. Tells(i, Story(i))
    BY <1>1 DEF StoryInv
  <1>4. PICK S : S = Story(i)
    OBVIOUS
  <1>5. PICK T : T = Story(i)'
    OBVIOUS
  <1>6. T = OfItem(i, Entered(file))
    BY <1>1, <1>2, <1>5 DEF Story, OfItem, Entered, Readable
  <1>7. T \in SUBSET S /\ S \in SUBSET Entries /\ \A e \in Entries : e.at \in Nat
    BY <1>4, <1>6, TimeType DEF Story, OfItem
  <1>8. ASSUME NEW g \in S, g \notin T, NEW e \in T PROVE e.at < g.at
    <2>1. g \in Queue /\ g.item = i /\ e \in Entered(file) /\ e.item = i
      BY <1>4, <1>6, <1>8 DEF Story, OfItem
    <2>2. Earlier(Entered(file), Queue)
      BY FileIsEarlier
    <2> QED
      BY <2>1, <2>2 DEF Earlier
  <1>9. Unique(T) /\ Chained(T)
    <2>1. \A e, f \in T : \A g \in S : e.at < g.at /\ g.at < f.at => g \in T
      <3>1. ASSUME NEW f \in T, NEW g \in S, g.at < f.at PROVE g \in T
        BY <1>7, <1>8, <3>1
      <3> QED
        BY <3>1
    <2> QED
      BY <1>3, <1>4, <1>7, <2>1, StoryInPart DEF Tells
  <1>10. /\ \A e \in T : /\ restored'[i] # NoEntry
                         /\ e = restored'[i] \/ e.at < restored'[i].at
         /\ restored'[i] # NoEntry => restored'[i] \in T
    BY <1>1, <1>2, <1>6, LastIsNewest DEF OrderInv, OfItem
  <1>11. ASSUME NEW e \in T, Newest(e, T) PROVE Leaves(i, e)'
    <2>1. restored'[i] \in T /\ restored'[i].at <= e.at
      BY <1>10, <1>11 DEF Newest
    <2>2. e.at \in Nat /\ restored'[i].at \in Nat
      BY <1>7, <2>1
    <2>3. e = restored'[i]
      BY <1>10, <2>1, <2>2
    <2> QED
      BY <1>1, <1>10, <2>3 DEF Leaves
  <1>12. T = {} => live'[i] = Absent /\ restored'[i] = NoEntry
    BY <1>1, <1>10
  <1>13. Tells(i, T)'
    BY <1>9, <1>11, <1>12 DEF Tells
  <1> QED
    BY <1>5, <1>13

-----------------------------------------------------------------------------
(* The inductive invariant of a store whose order can be relied on.        *)
IInv == BasicInv /\ RestoredInv /\ OrderInv /\ StoryInv

(* A first start: no item, no line, no story. *)
LEMMA InitIInv == Init => IInv
  <1> SUFFICES ASSUME Init PROVE IInv
    OBVIOUS
  <1>1. /\ file = <<>> /\ pending = <<>> /\ \A p \in Procs : batch[p] = <<>>
        /\ \A i \in Items : live[i] = Absent /\ restored[i] = NoEntry
    BY DEF Init
  <1>2. OrderInv
    BY <1>1, NothingOrdered DEF OrderInv
  <1>3. RestoredInv
    BY <1>1 DEF RestoredInv
  <1>4. \A i \in Items : Story(i) = {}
    BY <1>1, NothingOrdered DEF Story, OfItem, Queue
  <1>5. StoryInv
    BY <1>1, <1>4 DEF StoryInv, Tells, Unique, Chained
  <1> QED
    BY <1>2, <1>3, <1>5, InitBasic DEF IInv

(* Each step keeps it. *)
LEMMA StepIInv ==
    ASSUME Safe, IInv, [Next]_vars
    PROVE  IInv'
  <1>1. BasicInv /\ RestoredInv /\ OrderInv /\ StoryInv /\ TypeOK
    BY DEF IInv, BasicInv
  <1>2. BasicInv'
    BY <1>1, StepBasic
  <1>3. CASE \E p \in Procs, next \in [Items -> Readings \cup {Absent}] : Section(p, next)
    BY <1>1, <1>2, <1>3, SectionRestored, SectionOrdered, SectionStory DEF IInv
  <1>4. ASSUME NEW p \in Procs, Drain(p) PROVE IInv'
    BY <1>1, <1>2, <1>4, DrainRestored, DrainOrdered, DrainStory DEF IInv
  <1>5. ASSUME NEW p \in Procs, AppendBatch(p) \/ AppendFails(p) PROVE IInv'
    <2>1. RestoredInv' /\ OrderInv'
      BY <1>1, <1>5, WriteRestored, WriteOrdered
    <2>2. StoryInv'
      <3>1. CASE AppendBatch(p)
        BY <1>1, <3>1, WriteStory
      <3>2. CASE AppendFails(p)
        BY <3>2 DEF AppendFails, StoryInv
      <3> QED
        BY <1>5, <3>1, <3>2
    <2> QED
      BY <1>2, <2>1, <2>2 DEF IInv
  <1>6. CASE Restart \/ \E p \in Procs : CrashInAppend(p)
    <2>1. Alone
      BY <1>6 DEF Safe, Restart, CrashInAppend
    <2>2. RestoredInv' /\ OrderInv' /\ StoryInv'
      BY <1>1, <1>6, <2>1, StartRestored, StartOrdered, StartStory
    <2> QED
      BY <1>2, <2>2 DEF IInv
  <1>7. CASE UNCHANGED vars
    <2>1. RestoredInv'
      BY <1>1, <1>7 DEF vars, RestoredInv, Entered, Readable, Queue
    <2>2. OrderInv'
      BY <1>1, <1>7 DEF vars, OrderInv, Ordered, Entered, Readable
    <2>3. StoryInv'
      BY <1>1, <1>7 DEF vars, StoryInv, Tells, Leaves, Forgotten, Story, OfItem,
                        Entered, Readable, Queue
    <2> QED
      BY <1>2, <2>1, <2>2, <2>3 DEF IInv
  <1> QED
    BY <1>1, <1>3, <1>4, <1>5, <1>6, <1>7, StepKinds

(* Once nothing waits, the story of an item is what the log holds of it.   *)
LEMMA LoggedIsStory ==
    ASSUME NEW i \in Items
    PROVE  /\ Logged(i) = OfItem(i, Entered(file))
           /\ Quiet => Logged(i) = Story(i)
  <1>1. Logged(i) = OfItem(i, Entered(file))
    BY DEF Logged, About, OfItem, Entered
  <1>2. Quiet => Queue = {}
    BY NothingOrdered DEF Quiet, Queue
  <1> QED
    BY <1>1, <1>2 DEF Story

(* What is written of an item is its history without a gap, and tells how  *)
(* it stands.                                                              *)
LEMMA StoryIsHistory ==
    ASSUME IInv
    PROVE  HistoryHasNoGap /\ LogTellsTheBoard /\ RestoredIsNewest
  <1>1. ASSUME intact, Quiet, NEW i \in Items
        PROVE  /\ Tells(i, Logged(i)) /\ Logged(i) \in SUBSET Entries
    BY <1>1, LoggedIsStory, TimeType DEF IInv, StoryInv, OfItem
  <1>2. HistoryHasNoGap
    BY <1>1 DEF HistoryHasNoGap, Tells, Chained
  <1>3. ASSUME intact, Quiet, NEW i \in Items, Logged(i) # {}
        PROVE  Leaves(i, NewestOf(i))
    <2>1. PICK e \in Logged(i) : Newest(e, Logged(i))
      BY <1>1, <1>3, NewestThereIs
    <2>2. /\ NewestOf(i) \in Logged(i)
          /\ \A f \in Logged(i) : f.at <= NewestOf(i).at
      BY <2>1 DEF NewestOf, Newest
    <2> QED
      BY <1>1, <1>3, <2>2 DEF Tells, Newest
  <1>4. LogTellsTheBoard
    <2>1. ASSUME intact, Quiet, NEW i \in Items, live[i] # Absent
          PROVE  \/ MayBePruned(i)
                 \/ /\ Logged(i) # {}
                    /\ NewestOf(i).kind # "disappeared"
                    /\ NewestOf(i).reading = live[i]
      BY <1>1, <1>3, <2>1 DEF Tells, Leaves, MayBePruned, Forgotten
    <2>2. ASSUME intact, Quiet, NEW i \in Items, live[i] = Absent, restored[i] = NoEntry
          PROVE  Logged(i) = {} \/ NewestOf(i).kind = "disappeared"
      BY <1>3, <2>2 DEF Leaves
    <2> QED
      BY <2>1, <2>2 DEF LogTellsTheBoard
  <1>5. RestoredIsNewest
    BY LoggedIsStory DEF IInv, RestoredInv, RestoredIsNewest, OfItem
  <1> QED
    BY <1>2, <1>4, <1>5

(* Once all that was queued is written, and unless a write was cut short,  *)
(* the log of an item is its history without a gap.  It holds for a        *)
(* goroutine that has the store to itself, whenever the process ends and   *)
(* whatever is dropped for its age, and for any number of goroutines of    *)
(* one process that keeps all it wrote.  It does not hold of several       *)
(* goroutines that crash or prune: the run LogOrder shows how a start then *)
(* goes by the wrong entry.                                                *)
THEOREM HistoryIsWhole ==
    ASSUME Safe
    PROVE  Spec => []HistoryHasNoGap
  <1>1. Init => IInv
    BY InitIInv
  <1>2. IInv /\ [Next]_vars => IInv'
    BY StepIInv
  <1>3. IInv => HistoryHasNoGap
    BY StoryIsHistory
  <1> QED
    BY <1>1, <1>2, <1>3, PTL DEF Spec

(* Under the same condition the newest entry of an item says how the store *)
(* holds it, or that it left; nothing is said only of an item the store    *)
(* never held, or whose entries are old enough to have been dropped.       *)
THEOREM BoardIsTold ==
    ASSUME Safe
    PROVE  Spec => []LogTellsTheBoard
  <1>1. Init => IInv
    BY InitIInv
  <1>2. IInv /\ [Next]_vars => IInv'
    BY StepIInv
  <1>3. IInv => LogTellsTheBoard
    BY StoryIsHistory
  <1> QED
    BY <1>1, <1>2, <1>3, PTL DEF Spec

(* Under the same condition a start compares each item with the newest     *)
(* entry that was written of it, until the item is reported again; even if *)
(* writes were cut short.                                                  *)
THEOREM StartFindsNewest ==
    ASSUME Safe
    PROVE  Spec => []RestoredIsNewest
  <1>1. Init => IInv
    BY InitIInv
  <1>2. IInv /\ [Next]_vars => IInv'
    BY StepIInv
  <1>3. IInv => RestoredIsNewest
    BY StoryIsHistory
  <1> QED
    BY <1>1, <1>2, <1>3, PTL DEF Spec

=============================================================================
