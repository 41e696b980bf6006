---------------------------- MODULE Merkle_proofs ----------------------------
(***************************************************************************)
(* Facts about lists and about the tree operators that the proofs of the   *)
(* other modules rest on.                                                  *)
(***************************************************************************)
EXTENDS Merkle, FiniteSets, FiniteSetsExt, SequencesExt,
        FiniteSetTheorems, WellFoundedInduction, TLAPS

-----------------------------------------------------------------------------
(* Lists *)

(* A nonempty set of positions has a last one (Max of FiniteSetsExt).      *)
LEMMA MaxIn ==
    ASSUME NEW n \in Nat, NEW I, I \subseteq 1..n, I # {}
    PROVE  Max(I) \in I /\ \A i \in I : i <= Max(I)
<1> DEFINE J == {j \in Nat : n - j \in I}
<1>1. J \subseteq Nat
  OBVIOUS
<1>2. J # {}
  <2>1. PICK i \in I : TRUE
    OBVIOUS
  <2>2. n - i \in Nat /\ n - (n - i) = i
    OBVIOUS
  <2> QED BY <2>1, <2>2
<1>3. PICK m \in J : \A k \in J : ~(<<k, m>> \in OpToRel(<, Nat))
  BY ONLY <1>1, <1>2, WFMin, NatLessThanWellFounded, Zenon
<1>4. \A k \in J : ~ (k < m)
  BY <1>1, <1>3, Zenon DEF OpToRel
<1>5. \A y \in I : n - y \in J /\ y <= n - m
  <2> TAKE y \in I
  <2>1. n - y \in Nat /\ n - (n - y) = y /\ y \in Nat /\ m \in Nat
    BY <1>1
  <2>2. n - y \in J
    BY <2>1
  <2>3. ~(n - y < m)
    BY <2>2, <1>4
  <2> QED BY <2>1, <2>2, <2>3
<1>6. n - m \in I
  OBVIOUS
<1>7. \E x \in I : \A y \in I : x >= y
  BY <1>5, <1>6
<1>8. Max(I) \in I /\ \A y \in I : Max(I) >= y
  BY <1>7 DEF Max
<1> QED BY <1>8

(* Appending to a typed list.                                              *)
LEMMA ListGrows ==
    ASSUME NEW S, NEW s \in Seq(S), NEW x \in S
    PROVE  /\ Append(s, x) \in Seq(S)
           /\ Len(Append(s, x)) = Len(s) + 1 /\ Len(s) \in Nat
           /\ DOMAIN s = 1..Len(s)
           /\ DOMAIN Append(s, x) = 1..(Len(s) + 1)
           /\ Append(s, x)[Len(s) + 1] = x
           /\ \A k \in 1..Len(s) : Append(s, x)[k] = s[k]
OBVIOUS

(* One more finding: all are well exactly if the earlier ones and it are.  *)
LEMMA OneMore ==
    ASSUME NEW s, NEW t, NEW x, s \in Seq(Range(s)), t = Append(s, x)
    PROVE  /\ t \in Seq(Range(t))
           /\ Len(s) \in Nat /\ DOMAIN s = 1..Len(s)
           /\ Len(t) = Len(s) + 1 /\ DOMAIN t = 1..Len(t)
           /\ t[Len(t)] = x /\ \A k \in DOMAIN s : t[k] = s[k]
           /\ (\A k \in DOMAIN t : t[k].ok) => (\A k \in DOMAIN s : s[k].ok) /\ x.ok
<1> DEFINE S == Range(s) \cup {x}
<1>1. s \in Seq(S)
  <2>1. /\ DOMAIN s = 1..Len(s) /\ Len(s) \in Nat
        /\ s = [k \in 1..Len(s) |-> s[k]]
    OBVIOUS
  <2>2. \A k \in 1..Len(s) : s[k] \in S
    BY <2>1 DEF Range
  <2> HIDE DEF S
  <2> QED BY <2>1, <2>2
<1>2. x \in S
  OBVIOUS
<1> HIDE DEF S
<1>3. /\ Len(t) = Len(s) + 1 /\ Len(s) \in Nat
      /\ DOMAIN t = 1..Len(t) /\ DOMAIN s = 1..Len(s)
      /\ t[Len(t)] = x
      /\ \A k \in DOMAIN s : t[k] = s[k]
      /\ t \in Seq(S)
  BY <1>1, <1>2
<1>4. t \in Seq(Range(t))
  BY <1>3 DEF Range
<1>5. ASSUME \A k \in DOMAIN t : t[k].ok
      PROVE  (\A k \in DOMAIN s : s[k].ok) /\ x.ok
  <2>1. x.ok
    BY <1>3, <1>5
  <2>2. ASSUME NEW k \in DOMAIN s PROVE s[k].ok
    BY <1>3, <1>5
  <2> QED BY <2>1, <2>2
<1> QED BY <1>3, <1>4, <1>5

-----------------------------------------------------------------------------
(* Orders of positions *)

(* The numbers up to n are n.                                              *)
LEMMA CountTo ==
    ASSUME NEW n \in Nat
    PROVE  IsFiniteSet(1..n) /\ Cardinality(1..n) = n
  BY FS_Interval

(* The positions before each, in a strict order of I. *)
IsOrder(I, under) ==
    /\ under \in [I -> SUBSET I]
    /\ \A i \in I : i \notin under[i]
    /\ \A i, j \in I : i # j => i \in under[j] \/ j \in under[i]
    /\ \A i, j \in I : i \in under[j] => under[i] \subseteq under[j]

(* c[k] is a position with k - 1 others before it, if there is one. *)
Ranks(I, under, c) ==
    \A k \in 1..Cardinality(I) :
        (\E i \in I : k = 1 + Cardinality(under[i])) =>
            c[k] \in I /\ k = 1 + Cardinality(under[c[k]])

(* c[1], c[2], ... lists I, without repetition. *)
Enumerates(I, c) ==
    /\ IsFiniteSet(I) /\ Cardinality(I) \in Nat
    /\ \A k \in 1..Cardinality(I) : c[k] \in I
    /\ \A i \in I : \E k \in 1..Cardinality(I) : c[k] = i
    /\ \A j, k \in 1..Cardinality(I) : c[j] = c[k] => j = k

(* Positions taken by the number of those before them come in order.       *)
LEMMA InRank ==
    ASSUME NEW n \in Nat, NEW I, I \subseteq 1..n, NEW under, IsOrder(I, under),
           NEW c, Ranks(I, under, c)
    PROVE  /\ Enumerates(I, c)
           /\ \A j, k \in 1..Cardinality(I) : j < k => c[j] \in under[c[k]]
<1> DEFINE m == Cardinality(I)
           rank == [i \in I |-> 1 + Cardinality(under[i])]
<1> USE DEF IsOrder
<1>1. IsFiniteSet(I) /\ m \in Nat
  <2>1. IsFiniteSet(1..n)
    BY CountTo
  <2> QED BY <2>1, FS_Subset, FS_CardinalityType
<1>2. \A i \in I : IsFiniteSet(under[i]) /\ Cardinality(under[i]) \in Nat
  BY <1>1, FS_Subset, FS_CardinalityType
<1>3. ASSUME NEW i \in I, NEW j \in I, i \in under[j]
      PROVE  rank[i] < rank[j]
  <2>1. under[i] \subseteq under[j] \ {i} /\ IsFiniteSet(under[j] \ {i})
        /\ Cardinality(under[j] \ {i}) = Cardinality(under[j]) - 1
    BY <1>2, <1>3, FS_RemoveElement
  <2>2. Cardinality(under[i]) <= Cardinality(under[j] \ {i})
    BY <2>1, FS_Subset
  <2> QED BY <1>2, <2>1, <2>2
<1>4. \A i \in I : rank[i] \in 1..m
  <2> TAKE i \in I
  <2>1. under[i] \subseteq I \ {i} /\ IsFiniteSet(I \ {i}) /\ Cardinality(I \ {i}) = m - 1
    BY <1>1, FS_RemoveElement
  <2>2. Cardinality(under[i]) <= m - 1
    BY <2>1, FS_Subset
  <2> QED BY <1>1, <1>2, <2>2
<1>5. rank \in Injection(I, 1..m)
  <2>1. rank \in [I -> 1..m]
    BY <1>4
  <2>2. ASSUME NEW i \in I, NEW j \in I, rank[i] = rank[j] PROVE i = j
    <3>1. rank[i] \in Int /\ rank[j] \in Int
      BY <1>4
    <3> QED BY <1>3, <2>2, <3>1
  <2> HIDE DEF rank
  <2> QED BY <2>1, <2>2 DEF Injection, IsInjective
<1>6. rank \in Surjection(I, 1..m)
  <2>1. IsFiniteSet(1..m) /\ Cardinality(1..m) = m
    BY <1>1, CountTo
  <2> HIDE DEF rank
  <2> QED BY <1>5, <2>1, FS_Injection
<1>7. \A k \in 1..m : \E i \in I : rank[i] = k
  <2> HIDE DEF rank
  <2> QED BY <1>6 DEF Surjection
<1>8. \A k \in 1..m : c[k] \in I /\ rank[c[k]] = k
  BY <1>7 DEF Ranks
<1>9. \A i \in I : c[rank[i]] = i
  <2> TAKE i \in I
  <2>1. c[rank[i]] \in I /\ rank[c[rank[i]]] = rank[i]
    BY <1>4, <1>8
  <2> HIDE DEF rank
  <2> QED BY <1>5, <2>1 DEF Injection, IsInjective
<1>10. ASSUME NEW j \in 1..m, NEW k \in 1..m, j < k PROVE c[j] \in under[c[k]]
  <2>1. c[j] # c[k] /\ ~(rank[c[k]] < rank[c[j]])
    BY <1>1, <1>8, <1>10
  <2> QED BY <1>3, <1>8, <2>1
<1> HIDE DEF rank
<1>11. Enumerates(I, c)
  BY <1>1, <1>4, <1>8, <1>9 DEF Enumerates
<1> QED BY <1>10, <1>11

(* A list that is concatenated with none is the list.                      *)
LEMMA Evaluated ==
    ASSUME NEW n \in Nat, NEW f, f = [k \in 1..n |-> f[k]]
    PROVE  f \o <<>> = f /\ Len(f) = n /\ DOMAIN f = 1..n
<1> DEFINE S == {f[k] : k \in 1..n}
<1>1. f \in Seq(S)
  OBVIOUS
<1> HIDE DEF S
<1> QED BY <1>1

(* By a numeric key, and by position where keys are equal. *)
Under(I, key, i) == {j \in I : \/ key[j] < key[i]
                               \/ ~(key[i] < key[j]) /\ j < i}

(* c lists I so. *)
EnumeratesByKey(I, key, c) ==
    /\ Enumerates(I, c)
    /\ \A j, k \in 1..Cardinality(I) : j < k =>
          key[c[j]] < key[c[k]] \/ (key[c[j]] = key[c[k]] /\ c[j] < c[k])

(* Ranking by a key, ties by position, lists every position once, keys     *)
(* rising.                                                                 *)
LEMMA ByKey ==
    ASSUME NEW n \in Nat, NEW I, I \subseteq 1..n, NEW key, \A i \in I : key[i] \in Int,
           NEW c,
           \A k \in 1..Cardinality(I) :
               (\E i \in I : k = 1 + Cardinality(Under(I, key, i))) =>
                   c[k] \in I /\ k = 1 + Cardinality(Under(I, key, c[k]))
    PROVE  EnumeratesByKey(I, key, c)
<1>1. PICK under : under = [i \in I |-> Under(I, key, i)]
  OBVIOUS
<1>2. \A i \in I : i \in Int /\ key[i] \in Int
  OBVIOUS
<1>3. /\ under \in [I -> SUBSET I]
      /\ \A i \in I : under[i] = Under(I, key, i)
  <2>1. \A i \in I : Under(I, key, i) \subseteq I
    BY DEF Under
  <2> QED BY <1>1, <2>1
<1>4. IsOrder(I, under)
  <2>1. \A i \in I : i \notin Under(I, key, i)
    BY <1>2 DEF Under
  <2>2. \A i, j \in I : i # j => i \in Under(I, key, j) \/ j \in Under(I, key, i)
    BY <1>2 DEF Under
  <2>3. ASSUME NEW i \in I, NEW j \in I, i \in Under(I, key, j),
               NEW x \in Under(I, key, i)
        PROVE  x \in Under(I, key, j)
    <3>1. /\ key[x] \in Int /\ key[i] \in Int /\ key[j] \in Int
          /\ x \in I /\ x \in Int /\ i \in Int /\ j \in Int
          /\ key[x] < key[i] \/ (~(key[i] < key[x]) /\ x < i)
          /\ key[i] < key[j] \/ (~(key[j] < key[i]) /\ i < j)
      BY <1>2, <2>3 DEF Under
    <3>2. key[x] < key[j] \/ (~(key[j] < key[x]) /\ x < j)
      BY <3>1
    <3> QED BY <3>1, <3>2 DEF Under
  <2> QED BY <1>3, <2>1, <2>2, <2>3 DEF IsOrder
<1>5. Ranks(I, under, c)
  BY <1>3 DEF Ranks
<1>6. /\ Enumerates(I, c)
      /\ \A j, k \in 1..Cardinality(I) : j < k => c[j] \in under[c[k]]
  BY <1>4, <1>5, InRank
<1>7. ASSUME NEW j \in 1..Cardinality(I), NEW k \in 1..Cardinality(I), j < k
      PROVE  key[c[j]] < key[c[k]] \/ (key[c[j]] = key[c[k]] /\ c[j] < c[k])
  <2>1. c[k] \in I /\ c[j] \in I /\ c[j] \in under[c[k]]
    BY <1>6, <1>7 DEF Enumerates
  <2>2. c[j] \in Under(I, key, c[k])
    BY <1>3, <2>1
  <2>3. key[c[j]] \in Int /\ key[c[k]] \in Int
    BY <1>2, <2>1
  <2> QED BY <2>2, <2>3 DEF Under
<1> QED BY <1>6, <1>7 DEF EnumeratesByKey

(* A list filled by arranging positions of s by a key. *)
ArrangedByKey(t, s, I, key) ==
    \E c : /\ EnumeratesByKey(I, key, c)
           /\ t = [k \in 1..Cardinality(I) |-> s[c[k]]]
           /\ Len(t) = Cardinality(I) /\ DOMAIN t = 1..Cardinality(I)

(* So a list filled by that ranking is arranged by the key.                *)
LEMMA Arranging ==
    ASSUME NEW n \in Nat, NEW I, I \subseteq 1..n, NEW key, \A i \in I : key[i] \in Int,
           NEW c,
           \A k \in 1..Cardinality(I) :
               (\E i \in I : k = 1 + Cardinality(Under(I, key, i))) =>
                   c[k] \in I /\ k = 1 + Cardinality(Under(I, key, c[k])),
           NEW s, NEW t, t = [k \in 1..Cardinality(I) |-> s[c[k]]] \o <<>>
    PROVE  ArrangedByKey(t, s, I, key)
<1>1. EnumeratesByKey(I, key, c)
  BY ByKey
<1>2. PICK u : u = [k \in 1..Cardinality(I) |-> s[c[k]]]
  OBVIOUS
<1>3. Cardinality(I) \in Nat
  BY <1>1 DEF EnumeratesByKey, Enumerates
<1>4. u \o <<>> = u /\ Len(u) = Cardinality(I) /\ DOMAIN u = 1..Cardinality(I)
  BY <1>2, <1>3, Evaluated
<1> QED BY <1>1, <1>2, <1>4 DEF ArrangedByKey

(* What holds of 0, and of n + 1 where it holds of n, holds of every number*)
(* (the numbers it holds of are a set, as no backend takes a predicate).   *)
LEMMA Inductive ==
    ASSUME NEW S, 0 \in S, \A n \in Nat : n \in S => n + 1 \in S
    PROVE  \A n \in Nat : n \in S
<1> SUFFICES ASSUME NEW x \in Nat, x \notin S PROVE FALSE
  OBVIOUS
<1> DEFINE J == {n \in Nat : n \notin S}
<1>1. J \subseteq Nat /\ J # {}
  OBVIOUS
<1>2. PICK m \in J : \A k \in J : ~(<<k, m>> \in OpToRel(<, Nat))
  BY ONLY <1>1, WFMin, NatLessThanWellFounded, Zenon
<1>3. \A k \in J : ~ (k < m)
  BY <1>1, <1>2, Zenon DEF OpToRel
<1>4. m \in Nat /\ m \notin S /\ m # 0
  OBVIOUS
<1>5. m - 1 \in Nat /\ m - 1 < m /\ (m - 1) + 1 = m
  BY <1>4
<1>6. m - 1 \in S
  BY <1>3, <1>5
<1> QED BY <1>4, <1>5, <1>6

(* From 1 up to n. *)
LEMMA InductiveTo ==
    ASSUME NEW n \in Nat, NEW S, n > 0 => 1 \in S,
           \A k \in 1..n : k < n /\ k \in S => k + 1 \in S
    PROVE  \A k \in 1..n : k \in S
<1> DEFINE T == {k \in Nat : k \in 1..n => k \in S}
<1>1. 0 \in T
  OBVIOUS
<1>2. ASSUME NEW k \in Nat, k \in T PROVE k + 1 \in T
  <2>1. CASE k = 0
    BY <2>1
  <2>2. CASE k # 0
    BY <1>2, <2>2
  <2> QED BY <2>1, <2>2
<1> HIDE DEF T
<1>3. \A k \in Nat : k \in T
  BY <1>1, <1>2, Inductive
<1> QED BY <1>3 DEF T

(* From n down to 1. *)
LEMMA InductiveDown ==
    ASSUME NEW n \in Nat, NEW S, n \in S,
           \A k \in 2..n : k \in S => k - 1 \in S
    PROVE  \A k \in 1..n : k \in S
<1> DEFINE T == {k \in Nat : n - k \in 1..n => n - k \in S}
<1>1. 0 \in T
  OBVIOUS
<1>2. ASSUME NEW k \in Nat, k \in T PROVE k + 1 \in T
  <2>1. n - (k + 1) \in 1..n => n - k \in 2..n /\ (n - k) - 1 = n - (k + 1)
    OBVIOUS
  <2> QED BY <1>2, <2>1
<1> HIDE DEF T
<1>3. \A k \in Nat : k \in T
  BY <1>1, <1>2, Inductive
<1>4. \A k \in 1..n : n - k \in Nat /\ n - (n - k) = k
  OBVIOUS
<1> QED BY <1>3, <1>4 DEF T

(* Two lists of the same positions, both in one order, are one list.       *)
LEMMA OneOrder ==
    ASSUME NEW I, NEW key, \A i \in I : key[i] \in Int /\ i \in Int,
           NEW c, EnumeratesByKey(I, key, c), NEW d, EnumeratesByKey(I, key, d)
    PROVE  \A k \in 1..Cardinality(I) : c[k] = d[k]
<1> DEFINE n == Cardinality(I)
           S == {k \in 1..n : \A j \in 1..k : c[j] = d[j]}
           Less(x, y) == key[x] < key[y] \/ (key[x] = key[y] /\ x < y)
<1>1. n \in Nat /\ \A k \in 1..n : c[k] \in I /\ d[k] \in I
  BY DEF EnumeratesByKey, Enumerates
<1>2. \A x, y \in I : ~(Less(x, y) /\ (Less(y, x) \/ x = y))
  OBVIOUS
<1>3. \A j, k \in 1..n : j < k => Less(c[j], c[k]) /\ Less(d[j], d[k])
  BY DEF EnumeratesByKey
<1> HIDE DEF Less
<1>4. ASSUME NEW k \in 1..n, \A j \in 1..n : j < k => c[j] = d[j]
      PROVE  c[k] = d[k]
  <2> SUFFICES ASSUME c[k] # d[k] PROVE FALSE
    OBVIOUS
  <2>1. PICK m \in 1..n : d[m] = c[k]
    BY <1>1 DEF EnumeratesByKey, Enumerates
  <2>2. PICK l \in 1..n : c[l] = d[k]
    BY <1>1 DEF EnumeratesByKey, Enumerates
  <2>3. ~(m < k) /\ m # k
    <3>1. m < k => c[m] = c[k]
      BY <1>4, <2>1
    <3>2. ~(m < k)
      BY <1>1, <1>2, <1>3, <3>1
    <3> QED BY <2>1, <3>2
  <2>4. ~(l < k) /\ l # k
    <3>1. l < k => d[l] = d[k]
      BY <1>4, <2>2
    <3>2. ~(l < k)
      BY <1>1, <1>2, <1>3, <3>1
    <3> QED BY <2>2, <3>2
  <2>5. k < m /\ k < l
    BY <2>3, <2>4
  <2>6. Less(d[k], c[k]) /\ Less(c[k], d[k])
    BY <1>3, <2>1, <2>2, <2>5
  <2> QED BY <1>1, <1>2, <2>6
<1>5. n > 0 => 1 \in S
  <2>1. n > 0 => c[1] = d[1]
    BY <1>1, <1>4
  <2> QED BY <1>1, <2>1
<1>6. ASSUME NEW k \in 1..n, k < n, k \in S PROVE k + 1 \in S
  <2>1. k + 1 \in 1..n /\ \A j \in 1..n : j < k + 1 => j \in 1..k
    BY <1>1, <1>6
  <2>2. c[k + 1] = d[k + 1]
    BY <1>4, <1>6, <2>1
  <2>3. \A j \in 1..(k + 1) : j \in 1..k \/ j = k + 1
    OBVIOUS
  <2> QED BY <1>6, <2>1, <2>2, <2>3
<1> HIDE DEF S
<1>7. \A k \in 1..n : k \in S
  BY <1>1, <1>5, <1>6, InductiveTo
<1> QED BY <1>7 DEF S

(* The bodies of the lines at I, in the order of the text. *)
Collected(list, p, I) ==
    \E f : /\ Enumerates(I, f)
           /\ \A j, k \in 1..Cardinality(I) : j < k => f[j] < f[k]
           /\ Len(list) = Cardinality(I) /\ DOMAIN list = 1..Len(list)
           /\ \A k \in 1..Len(list) : list[k] = p[f[k]].body

(* No line is read, none collected.                                        *)
LEMMA NoneCollected == \A p : Collected(<<>>, p, {})
  BY FS_EmptySet DEF Collected, Enumerates

(* One more line is read and its body appended.                            *)
LEMMA OneMoreCollected ==
    ASSUME NEW S, NEW list \in Seq(S), NEW p, NEW I, Collected(list, p, I),
           NEW l \in Nat, \A i \in I : i \in Nat /\ i < l, p[l].body \in S
    PROVE  Collected(Append(list, p[l].body), p, I \cup {l})
<1>1. PICK f : /\ Enumerates(I, f)
               /\ \A j, k \in 1..Cardinality(I) : j < k => f[j] < f[k]
               /\ Len(list) = Cardinality(I) /\ DOMAIN list = 1..Len(list)
               /\ \A k \in 1..Len(list) : list[k] = p[f[k]].body
  BY DEF Collected
<1>2. PICK n, J, x, t : /\ n = Cardinality(I) /\ J = I \cup {l} /\ x = p[l].body
                        /\ t = Append(list, x)
  OBVIOUS
<1>3. n \in Nat /\ IsFiniteSet(I) /\ l \notin I
  BY <1>1, <1>2 DEF Enumerates
<1>4. IsFiniteSet(J) /\ Cardinality(J) = n + 1
  BY <1>2, <1>3, FS_AddElement
<1>5. /\ Len(t) = n + 1 /\ DOMAIN t = 1..(n + 1) /\ t[n + 1] = x
      /\ \A k \in 1..n : t[k] = list[k]
  BY <1>1, <1>2, ListGrows
<1>6. PICK g : g = [k \in 1..(n + 1) |-> IF k = n + 1 THEN l ELSE f[k]]
  OBVIOUS
<1>7. /\ g[n + 1] = l
      /\ \A k \in 1..n : g[k] = f[k] /\ f[k] \in I
      /\ \A k \in 1..(n + 1) : k \in 1..n \/ k = n + 1
  <2>1. \A k \in 1..n : k # n + 1 /\ k \in 1..(n + 1)
    BY <1>3
  <2>2. \A k \in 1..(n + 1) : k \in 1..n \/ k = n + 1
    BY <1>3
  <2> QED BY <1>1, <1>2, <1>3, <1>6, <2>1, <2>2 DEF Enumerates
<1>8. Enumerates(J, g)
  <2>1. \A k \in 1..(n + 1) : g[k] \in J
    BY <1>2, <1>7
  <2>2. \A i \in J : \E k \in 1..(n + 1) : g[k] = i
    <3> TAKE i \in J
    <3>1. CASE i = l
      BY <1>3, <1>7, <3>1
    <3>2. CASE i \in I
      <4>1. PICK k \in 1..n : f[k] = i
        BY <1>1, <1>2, <3>2 DEF Enumerates
      <4> QED BY <1>3, <1>7, <4>1
    <3> QED BY <1>2, <3>1, <3>2
  <2>3. \A j, k \in 1..(n + 1) : g[j] = g[k] => j = k
    BY <1>1, <1>2, <1>3, <1>7 DEF Enumerates
  <2> QED BY <1>3, <1>4, <2>1, <2>2, <2>3 DEF Enumerates
<1>9. \A j, k \in 1..(n + 1) : j < k => g[j] < g[k]
  <2> TAKE j, k \in 1..(n + 1)
  <2> HAVE j < k
  <2>1. j \in 1..n
    BY <1>3
  <2>2. CASE k = n + 1
    BY <1>7, <2>1, <2>2
  <2>3. CASE k \in 1..n
    BY <1>1, <1>2, <1>7, <2>1, <2>3
  <2> QED BY <1>7, <2>2, <2>3
<1>10. \A k \in 1..(n + 1) : t[k] = p[g[k]].body
  BY <1>1, <1>2, <1>5, <1>7
<1>11. Len(t) = Cardinality(J) /\ DOMAIN t = 1..Len(t) /\ Cardinality(J) = n + 1
  BY <1>4, <1>5
<1>12. Collected(t, p, J)
  BY <1>8, <1>9, <1>10, <1>11 DEF Collected
<1> QED BY <1>2, <1>12

(* A list of elements, whatever they are. *)
IsListOf(s) == s \in Seq(Range(s))

(* A list over any set is a list.                                          *)
LEMMA AnyList ==
    ASSUME NEW S, NEW s \in Seq(S)
    PROVE  IsListOf(s) /\ Len(s) \in Nat /\ DOMAIN s = 1..Len(s)
<1>1. /\ Len(s) \in Nat /\ DOMAIN s = 1..Len(s) /\ s = [k \in 1..Len(s) |-> s[k]]
  OBVIOUS
<1>2. \A k \in 1..Len(s) : s[k] \in Range(s)
  BY <1>1 DEF Range
<1>3. s \in Seq(Range(s))
  BY <1>1, <1>2
<1> QED BY <1>1, <1>3 DEF IsListOf

(* Two lists have a set over which both are lists.                         *)
LEMMA TwoLists ==
    ASSUME NEW s, IsListOf(s), NEW t, IsListOf(t)
    PROVE  \E S : s \in Seq(S) /\ t \in Seq(S)
<1>1. PICK S : S = Range(s) \cup Range(t)
  OBVIOUS
<1>2. Range(s) \subseteq S /\ Range(t) \subseteq S
  BY <1>1
<1>3. s \in Seq(S) /\ t \in Seq(S)
  BY <1>2 DEF IsListOf
<1> QED BY <1>3

(* u is s and behind it t. *)
Joined(u, s, t) ==
    /\ Len(s) \in Nat /\ Len(t) \in Nat /\ Len(u) = Len(s) + Len(t)
    /\ DOMAIN s = 1..Len(s) /\ DOMAIN t = 1..Len(t) /\ DOMAIN u = 1..Len(u)
    /\ \A k \in 1..Len(s) : u[k] = s[k]
    /\ \A k \in 1..Len(t) : u[Len(s) + k] = t[k]
    /\ IsListOf(u)

(* Concatenation, element by element.                                      *)
LEMMA Concatenated ==
    ASSUME NEW s, IsListOf(s), NEW t, IsListOf(t)
    PROVE  Joined(s \o t, s, t)
<1>2. PICK u : u = s \o t
  OBVIOUS
<1>1. PICK S : s \in Seq(S) /\ t \in Seq(S)
  BY TwoLists
<1>3. u \in Seq(S) /\ Len(u) = Len(s) + Len(t) /\ Len(s) \in Nat /\ Len(t) \in Nat
  BY <1>1, <1>2
<1>4. \A k \in 1..Len(u) : u[k] = IF k <= Len(s) THEN s[k] ELSE t[k - Len(s)]
  BY <1>1, <1>2
<1>5. \A k \in 1..Len(s) : u[k] = s[k]
  BY <1>3, <1>4
<1>6. \A k \in 1..Len(t) : u[Len(s) + k] = t[k]
  BY <1>3, <1>4
<1>7. IsListOf(u)
  BY <1>3, AnyList
<1>8. Joined(u, s, t)
  BY <1>1, <1>3, <1>5, <1>6, <1>7 DEF Joined
<1> QED BY <1>2, <1>8

(* The same bytes, taken apart in two ways. *)
SameBytes(p, s, q, t) == p \o s = q \o t

(* What SubSeq takes out of a list.                                        *)
LEMMA PartOf ==
    ASSUME NEW S, NEW f \in Seq(S), NEW i \in Nat \ {0}, NEW j \in 0..Len(f)
    PROVE  /\ SubSeq(f, i, j) \in Seq(S)
           /\ Len(SubSeq(f, i, j)) = IF i <= j THEN j - i + 1 ELSE 0
           /\ \A k \in 1..Len(SubSeq(f, i, j)) : SubSeq(f, i, j)[k] = f[i + k - 1]
<1>0. PICK n, h : h = SubSeq(f, i, j) /\ n = (IF i <= j THEN j - i + 1 ELSE 0)
  OBVIOUS
<1>1. h = SubSeq(f, i, j) /\ n = (IF i <= j THEN j - i + 1 ELSE 0) /\ n \in Nat
  BY <1>0
<1>2. /\ Len(h) = n
      /\ \A k \in 1..n : h[k] = f[i + k - 1]
  BY <1>1
<1>3. h = [k \in 1..n |-> f[i + k - 1]]
  BY <1>1
<1>4. \A k \in 1..n : i + k - 1 \in 1..Len(f)
  BY <1>1
<1>5. \A k \in 1..n : f[i + k - 1] \in S
  BY <1>4
<1>6. h \in Seq(S)
  BY <1>1, <1>3, <1>5
<1> QED BY <1>1, <1>2, <1>6

(* A list with an entry more.                                              *)
LEMMA Inserted ==
    ASSUME NEW S, NEW f \in Seq(S), NEW x \in S, NEW i \in 1..(Len(f) + 1)
    PROVE  InsertAt(f, i, x) \in Seq(S)
<1>1. i - 1 \in 0..Len(f) /\ i \in Nat \ {0} /\ Len(f) \in 0..Len(f)
  OBVIOUS
<1>2. PICK g, h : g = SubSeq(f, 1, i - 1) /\ h = SubSeq(f, i, Len(f))
  OBVIOUS
<1>3. g \in Seq(S) /\ h \in Seq(S)
  BY <1>1, <1>2, PartOf
<1>4. (g \o <<x>>) \o h \in Seq(S)
  BY <1>3
<1> QED BY <1>2, <1>4 DEF InsertAt

(* A list with an entry less. *)
LEMMA Removed ==
    ASSUME NEW S, NEW f \in Seq(S), NEW i \in DOMAIN f, NEW g, g = RemoveAt(f, i)
    PROVE  /\ g \in Seq(S) /\ Len(g) < Len(f)
           /\ \A j \in DOMAIN g : \E m \in DOMAIN f : g[j] = f[m]
<1>1. PICK n, h, k, u, v : /\ n = Len(f) /\ h = i - 1 /\ k = i + 1
                           /\ u = SubSeq(f, 1, i - 1) /\ v = SubSeq(f, i + 1, Len(f))
  OBVIOUS
<1>2. n \in Nat /\ DOMAIN f = 1..n
  BY <1>1
<1>3. /\ h \in 0..n /\ k \in Nat \ {0} /\ n \in 0..n /\ 1 \in Nat \ {0}
      /\ k = h + 2 /\ h + 1 \in 1..n
  BY <1>1, <1>2
<1>4. /\ u \in Seq(S) /\ Len(u) = IF 1 <= h THEN h - 1 + 1 ELSE 0
      /\ \A j \in 1..Len(u) : u[j] = f[1 + j - 1]
  <2>1. PICK w : w = SubSeq(f, 1, h)
    OBVIOUS
  <2>2. u = w /\ h \in 0..Len(f) /\ 1 \in Nat \ {0}
    BY <1>1, <1>3, <2>1
  <2>3. /\ w \in Seq(S) /\ Len(w) = IF 1 <= h THEN h - 1 + 1 ELSE 0
        /\ \A j \in 1..Len(w) : w[j] = f[1 + j - 1]
    BY <2>1, <2>2, PartOf
  <2> QED BY <2>2, <2>3
<1>5. /\ v \in Seq(S) /\ Len(v) = IF k <= n THEN n - k + 1 ELSE 0
      /\ \A j \in 1..Len(v) : v[j] = f[k + j - 1]
  <2>1. PICK w : w = SubSeq(f, k, n)
    OBVIOUS
  <2>2. v = w /\ n \in 0..Len(f) /\ k \in Nat \ {0}
    BY <1>1, <1>3, <2>1
  <2>3. /\ w \in Seq(S) /\ Len(w) = IF k <= n THEN n - k + 1 ELSE 0
        /\ \A j \in 1..Len(w) : w[j] = f[k + j - 1]
    BY <2>1, <2>2, PartOf
  <2> QED BY <2>2, <2>3
<1>6. Len(u) = h /\ Len(v) = n - k + 1
  BY <1>2, <1>3, <1>4, <1>5
<1>7. g = u \o v /\ g \in Seq(S)
  <2>1. u \o v \in Seq(S)
    BY <1>4, <1>5
  <2> QED BY <1>1, <2>1 DEF RemoveAt
<1>8. /\ Len(g) = n - 1 /\ DOMAIN g = 1..(n - 1)
      /\ \A j \in 1..Len(u) : g[j] = u[j]
      /\ \A j \in 1..Len(v) : g[Len(u) + j] = v[j]
  <2>1. Joined(g, u, v)
    BY <1>4, <1>5, <1>7, AnyList, Concatenated
  <2>2. Len(u) + Len(v) = n - 1
    BY <1>2, <1>3, <1>6
  <2> QED BY <2>1, <2>2 DEF Joined
<1>9. ASSUME NEW j \in DOMAIN g PROVE \E m \in DOMAIN f : g[j] = f[m]
  <2>1. j \in 1..(n - 1)
    BY <1>8
  <2>2. CASE j <= h
    <3>1. j \in 1..Len(u) /\ 1 + j - 1 = j /\ j \in 1..n
      BY <1>2, <1>3, <1>6, <2>1, <2>2
    <3> QED BY <1>2, <1>4, <1>8, <3>1
  <2>3. CASE ~(j <= h)
    <3>1. PICK q : q = j - h
      OBVIOUS
    <3>2. q \in 1..Len(v) /\ j = Len(u) + q /\ k + q - 1 \in 1..n
      BY <1>2, <1>3, <1>6, <2>1, <2>3, <3>1
    <3>3. g[j] = f[k + q - 1]
      BY <1>5, <1>8, <3>2
    <3> QED BY <1>2, <3>2, <3>3
  <2> QED BY <2>2, <2>3
<1>10. Len(g) < Len(f)
  <2>1. Len(g) = n - 1
    BY <1>8
  <2> QED BY <1>1, <1>2, <2>1
<1> QED BY <1>7, <1>9, <1>10

(* A list cut short. *)
LEMMA CutOff ==
    ASSUME NEW S, NEW f \in Seq(S), NEW m \in 0..(Len(f) - 2), NEW g, g = SubSeq(f, 1, m)
    PROVE  /\ g \in Seq(S) /\ Len(g) < Len(f)
           /\ \A j \in DOMAIN g : \E k \in DOMAIN f : g[j] = f[k]
<1>1. PICK n : n = Len(f)
  OBVIOUS
<1>2. m \in 0..n /\ m < n /\ 1 \in Nat \ {0} /\ n \in Nat /\ DOMAIN f = 1..n
  BY <1>1
<1>3. /\ Len(g) = IF 1 <= m THEN m - 1 + 1 ELSE 0
      /\ \A j \in 1..Len(g) : g[j] = f[1 + j - 1]
      /\ g \in Seq(S)
  BY <1>1, <1>2, PartOf
<1>4. Len(g) = m /\ DOMAIN g = 1..m
  BY <1>2, <1>3
<1>5. ASSUME NEW j \in DOMAIN g PROVE \E k \in DOMAIN f : g[j] = f[k]
  <2>1. j \in 1..Len(g) /\ 1 + j - 1 = j /\ j \in 1..n
    BY <1>2, <1>4
  <2> QED BY <1>2, <1>3, <2>1
<1> QED BY <1>1, <1>2, <1>3, <1>4, <1>5

(* A list with two entries changed over. *)
LEMMA Swapped ==
    ASSUME NEW S, NEW f \in Seq(S), NEW i \in DOMAIN f, NEW j \in DOMAIN f
    PROVE  [f EXCEPT ![i] = f[j], ![j] = f[i]] \in Seq(S)
<1>1. PICK h : h = [f EXCEPT ![i] = f[j]]
  OBVIOUS
<1>2. h \in Seq(S) /\ DOMAIN h = DOMAIN f
  BY <1>1
<1>3. [h EXCEPT ![j] = f[i]] \in Seq(S)
  BY <1>2
<1> QED BY <1>1, <1>3

(* A list without its last entry. *)
LEMMA FrontAndLast ==
    ASSUME NEW S, NEW f \in Seq(S), f # <<>>
    PROVE  Front(f) \in Seq(S) /\ Len(Front(f)) = Len(f) - 1 /\ Last(f) \in S
<1>1. PICK n : n = Len(f)
  OBVIOUS
<1>2. n \in Nat /\ n > 0 /\ DOMAIN f = 1..n
  BY <1>1
<1>3. Last(f) \in S
  BY <1>1, <1>2 DEF Last
<1>4. /\ SubSeq(f, 1, n - 1) \in Seq(S)
      /\ Len(SubSeq(f, 1, n - 1)) = IF 1 <= n - 1 THEN n - 1 - 1 + 1 ELSE 0
  <2>1. n - 1 \in 0..n /\ 1 \in Nat \ {0}
    BY <1>2
  <2> QED BY <1>1, <2>1, PartOf
<1>5. Front(f) = SubSeq(f, 1, n - 1)
  BY <1>1 DEF Front
<1>6. (IF 1 <= n - 1 THEN n - 1 - 1 + 1 ELSE 0) = n - 1
  BY <1>2
<1> QED BY <1>1, <1>3, <1>4, <1>5, <1>6

(* Two concatenations with heads of one element each.                      *)
LEMMA CancelHead ==
    ASSUME NEW p, IsListOf(p), NEW q, IsListOf(q), Len(p) = 1, Len(q) = 1,
           NEW s, IsListOf(s), NEW t, IsListOf(t), SameBytes(p, s, q, t)
    PROVE  p = q /\ s = t
<1>1. PICK u : u = p \o s /\ u = q \o t
  BY DEF SameBytes
<1>a. Joined(u, p, s) /\ Joined(u, q, t)
  <2>1. Joined(p \o s, p, s)
    BY Concatenated
  <2>2. Joined(q \o t, q, t)
    BY Concatenated
  <2> QED BY <1>1, <2>1, <2>2
<1>2. /\ Len(s) \in Nat /\ Len(t) \in Nat
      /\ Len(u) = Len(p) + Len(s) /\ Len(u) = Len(q) + Len(t)
      /\ \A k \in 1..Len(p) : u[k] = p[k]
      /\ \A k \in 1..Len(q) : u[k] = q[k]
      /\ \A k \in 1..Len(s) : u[Len(p) + k] = s[k]
      /\ \A k \in 1..Len(t) : u[Len(q) + k] = t[k]
  BY <1>a DEF Joined
<1>3. Len(s) = Len(t) /\ 1 \in 1..Len(p) /\ 1 \in 1..Len(q)
  BY <1>2
<1>4. Len(s) = Len(t) /\ p[1] = q[1]
  BY <1>2, <1>3
<1>5. PICK S : p \in Seq(S) /\ q \in Seq(S)
  BY TwoLists
<1>6. PICK T : s \in Seq(T) /\ t \in Seq(T)
  BY TwoLists
<1>7. p = q
  BY <1>4, <1>5
<1>8. \A k \in 1..Len(s) : s[k] = t[k]
  BY <1>2, <1>3, <1>4
<1> QED BY <1>4, <1>6, <1>7, <1>8

(* Of the list, in the order c, the m-th alone is of B. *)
OnlyOne(list, c, m, B) == \A k \in 1..Len(list) : list[c[k]] \in B <=> k = m

(* T are the lines of I with a body of B. *)
WithBody(T, p, I, B) == T \subseteq I /\ \A i \in I : i \in T <=> p[i].body \in B

(* Of lines collected in a list that c puts in order, one has a body of B. *)
LEMMA OneLine ==
    ASSUME NEW list, NEW p, NEW I, Collected(list, p, I), Len(list) \in Nat,
           NEW c, Enumerates(DOMAIN list, c), NEW m \in 1..Len(list),
           NEW B, OnlyOne(list, c, m, B), NEW T, WithBody(T, p, I, B)
    PROVE  Cardinality(T) = 1
<1>1. PICK f : /\ Enumerates(I, f)
               /\ Len(list) = Cardinality(I) /\ DOMAIN list = 1..Len(list)
               /\ \A k \in 1..Len(list) : list[k] = p[f[k]].body
  BY DEF Collected
<1>2. PICK n : n = Len(list)
  OBVIOUS
<1>3. Cardinality(1..n) = n
  BY <1>2, CountTo
<1>4. /\ \A k \in 1..n : f[k] \in I /\ c[k] \in 1..n
      /\ \A i \in I : \E k \in 1..n : f[k] = i
      /\ \A j \in 1..n : \E k \in 1..n : c[k] = j
  <2>1. Cardinality(I) = n /\ DOMAIN list = 1..n
    BY <1>1, <1>2
  <2>2. /\ \A k \in 1..n : f[k] \in I
        /\ \A i \in I : \E k \in 1..n : f[k] = i
    BY <1>1, <2>1 DEF Enumerates
  <2>3. Enumerates(1..n, c)
    BY <2>1
  <2>4. /\ \A k \in 1..n : c[k] \in 1..n
        /\ \A j \in 1..n : \E k \in 1..n : c[k] = j
    BY <1>3, <2>3 DEF Enumerates
  <2> QED BY <2>2, <2>4
<1>5. PICK i : i = f[c[m]]
  OBVIOUS
<1>6. i \in I /\ p[i].body \in B
  BY <1>1, <1>2, <1>4, <1>5 DEF OnlyOne
<1>7. ASSUME NEW j \in I, p[j].body \in B PROVE j = i
  <2>1. PICK h \in 1..n : f[h] = j
    BY <1>4
  <2>2. PICK k \in 1..n : c[k] = h
    BY <1>4
  <2>3. list[c[k]] \in B
    BY <1>1, <1>2, <1>7, <2>1, <2>2
  <2> QED BY <1>2, <1>5, <2>1, <2>2, <2>3 DEF OnlyOne
<1>8. T = {i}
  BY <1>6, <1>7 DEF WithBody
<1> QED BY <1>8, FS_Singleton

(* A set that n positions list without repetition has n elements.          *)
LEMMA ListedOnce ==
    ASSUME NEW n \in Nat, NEW I, NEW d,
           \A k \in 1..n : d[k] \in I, \A i \in I : \E k \in 1..n : d[k] = i,
           \A j, k \in 1..n : d[j] = d[k] => j = k
    PROVE  Enumerates(I, d) /\ Cardinality(I) = n
<1>1. PICK f : f = [k \in 1..n |-> d[k]]
  OBVIOUS
<1>2. f \in Bijection(1..n, I)
  BY <1>1 DEF Bijection, Injection, Surjection, IsInjective
<1>3. ExistsBijection(1..n, I)
  BY <1>2 DEF ExistsBijection
<1>4. IsFiniteSet(I) /\ Cardinality(I) = n
  <2>1. IsFiniteSet(1..n) /\ Cardinality(1..n) = n
    BY CountTo
  <2> QED BY <1>3, <2>1, FS_Bijection
<1> QED BY <1>4 DEF Enumerates

(* t takes the entries of the list at R, in the order of the list. *)
InListOrder(t, list, R) == ArrangedByKey(t, list, R, [i \in DOMAIN list |-> 0])

Selection(t, list, R) == R \subseteq DOMAIN list /\ InListOrder(t, list, R)

(* t is s and one entry more. *)
OneLonger(t, s) ==
    /\ Len(s) \in Nat /\ DOMAIN s = 1..Len(s)
    /\ Len(t) = Len(s) + 1 /\ DOMAIN t = 1..Len(t)
    /\ \A k \in 1..Len(s) : t[k] = s[k]

(* A selection from a list that got an entry more: the same where it is    *)
(* not selected, otherwise with it at the end.                             *)
LEMMA SelectionGrows ==
    ASSUME NEW s, NEW t, OneLonger(t, s), NEW R, NEW a, Selection(a, s, R),
           NEW T, NEW b, InListOrder(b, t, T)
    PROVE  /\ T = R => b = a
           /\ T = R \cup {Len(t)} => OneLonger(b, a)
<1>1. PICK m, key : m = Len(s) /\ key = [i \in DOMAIN t |-> 0]
  OBVIOUS
<1>2. /\ m \in Nat /\ DOMAIN s = 1..m /\ Len(t) = m + 1 /\ DOMAIN t = 1..(m + 1)
      /\ \A k \in 1..m : t[k] = s[k] /\ k \in 1..(m + 1)
      /\ \A i \in 1..(m + 1) : key[i] = 0 /\ i \in Int
      /\ R \subseteq 1..m
  BY <1>1 DEF OneLonger, Selection
<1>3. PICK old, c : /\ old = [i \in DOMAIN s |-> 0]
                    /\ EnumeratesByKey(R, old, c)
                    /\ a = [k \in 1..Cardinality(R) |-> s[c[k]]]
                    /\ Len(a) = Cardinality(R) /\ DOMAIN a = 1..Cardinality(R)
  BY DEF Selection, InListOrder, ArrangedByKey
<1>4. PICK d : /\ EnumeratesByKey(T, key, d)
               /\ b = [k \in 1..Cardinality(T) |-> t[d[k]]]
               /\ Len(b) = Cardinality(T) /\ DOMAIN b = 1..Cardinality(T)
  BY <1>1 DEF InListOrder, ArrangedByKey
<1>5. PICK n : n = Cardinality(R)
  OBVIOUS
<1>6. /\ n \in Nat /\ IsFiniteSet(R) /\ \A k \in 1..n : c[k] \in R
      /\ \A i \in R : \E k \in 1..n : c[k] = i
      /\ \A j, k \in 1..n : c[j] = c[k] => j = k
  BY <1>3, <1>5 DEF EnumeratesByKey, Enumerates
<1>7. \A k \in 1..n : c[k] \in 1..m
  BY <1>2, <1>6
<1>8. \A j, k \in 1..n : j < k => c[j] < c[k]
  <2>1. \A k \in 1..n : old[c[k]] = 0
    BY <1>2, <1>3, <1>7
  <2>2. \A j, k \in 1..n : j < k => old[c[j]] < old[c[k]] \/ (old[c[j]] = old[c[k]] /\ c[j] < c[k])
    BY <1>3, <1>5 DEF EnumeratesByKey
  <2> QED BY <2>1, <2>2
<1>9. ASSUME T = R PROVE b = a
  <2>1. EnumeratesByKey(R, key, c)
    <3>1. \A k \in 1..n : key[c[k]] = 0
      BY <1>2, <1>7
    <3> QED BY <1>5, <1>6, <1>8, <3>1 DEF EnumeratesByKey, Enumerates
  <2>2. \A i \in R : key[i] \in Int /\ i \in Int
    BY <1>1, <1>2
  <2>3. \A k \in 1..n : c[k] = d[k]
    <3>1. EnumeratesByKey(R, key, d)
      BY <1>4, <1>9
    <3>2. \A k \in 1..Cardinality(R) : c[k] = d[k]
      BY ONLY <2>1, <2>2, <3>1, OneOrder
    <3> QED BY <1>5, <3>2
  <2>4. \A k \in 1..n : t[d[k]] = s[c[k]]
    BY <1>2, <1>7, <2>3
  <2> QED BY <1>3, <1>4, <1>5, <1>9, <2>4
<1>10. ASSUME T = R \cup {m + 1} PROVE OneLonger(b, a)
  <2>1. m + 1 \notin R
    BY <1>1, <1>2
  <2>2. Cardinality(T) = n + 1 /\ IsFiniteSet(T)
    BY <1>5, <1>6, <1>10, <2>1, FS_AddElement
  <2>3. PICK e : e = [k \in 1..(n + 1) |-> IF k = n + 1 THEN m + 1 ELSE c[k]]
    OBVIOUS
  <2>4. e[n + 1] = m + 1 /\ \A k \in 1..n : e[k] = c[k] /\ k \in 1..(n + 1) /\ k # n + 1
    BY <1>6, <2>3
  <2>5. \A k \in 1..(n + 1) : k \in 1..n \/ k = n + 1
    BY <1>6
  <2>6. \A k \in 1..(n + 1) : e[k] \in T /\ e[k] \in 1..(m + 1)
    BY <1>2, <1>6, <1>7, <1>10, <2>4, <2>5
  <2>7. \A i \in T : \E k \in 1..(n + 1) : e[k] = i
    <3>1. n + 1 \in 1..(n + 1)
      BY <1>6
    <3> QED BY <1>6, <1>10, <2>4, <3>1
  <2>8. \A j, k \in 1..(n + 1) : j < k => e[j] < e[k]
    <3> SUFFICES ASSUME NEW j \in 1..(n + 1), NEW k \in 1..(n + 1), j < k PROVE e[j] < e[k]
      OBVIOUS
    <3>1. j \in 1..n /\ e[j] = c[j] /\ c[j] \in 1..m
      BY <1>6, <1>7, <2>4
    <3>2. CASE k = n + 1
      BY <1>2, <2>4, <3>1, <3>2
    <3>3. CASE k # n + 1
      BY <1>8, <2>4, <2>5, <3>1, <3>3
    <3> QED BY <3>2, <3>3
  <2>9. \A j, k \in 1..(n + 1) : e[j] = e[k] => j = k
    <3> SUFFICES ASSUME NEW j \in 1..(n + 1), NEW k \in 1..(n + 1), e[j] = e[k] PROVE j = k
      OBVIOUS
    <3>1. ~(j < k) /\ ~(k < j)
      BY <1>2, <2>6, <2>8
    <3> QED BY <1>6, <3>1
  <2>10. EnumeratesByKey(T, key, e)
    <3>1. \A k \in 1..(n + 1) : key[e[k]] = 0
      BY <1>2, <2>6
    <3>2. n + 1 \in Nat
      BY <1>6
    <3> QED BY <2>2, <2>6, <2>7, <2>8, <2>9, <3>1, <3>2 DEF EnumeratesByKey, Enumerates
  <2>11. \A i \in T : key[i] \in Int /\ i \in Int
    BY <1>1, <1>2, <1>10
  <2>12. \A k \in 1..(n + 1) : d[k] = e[k]
    BY <1>4, <2>2, <2>10, <2>11, OneOrder
  <2>13. Len(b) = n + 1 /\ DOMAIN b = 1..(n + 1) /\ \A k \in 1..(n + 1) : b[k] = t[e[k]]
    BY <1>4, <2>2, <2>12
  <2>14. \A k \in 1..n : b[k] = a[k]
    BY <1>2, <1>3, <1>5, <1>7, <2>4, <2>13
  <2> QED BY <1>3, <1>5, <1>6, <2>13, <2>14 DEF OneLonger
<1> QED BY <1>2, <1>9, <1>10

(* I are lines of the text. *)
Positions(I, p) == \E n \in Nat : DOMAIN p = 1..n /\ I \subseteq 1..n

(* t are the bodies of the lines u. *)
BodiesOf(t, u) ==
    /\ Len(t) = Len(u) /\ DOMAIN t = DOMAIN u /\ DOMAIN u = 1..Len(u)
    /\ \A k \in DOMAIN u : t[k] = u[k].body

(* R are the entries of the list that are of B. *)
Matching(R, list, B) ==
    R \subseteq DOMAIN list /\ \A k \in DOMAIN list : k \in R <=> list[k] \in B

(* Of a list collected from the lines of I, the entries with a body of B,  *)
(* and of the text, the lines of I with such a body: the same, in the same *)
(* order.                                                                  *)
LEMMA SameSelection ==
    ASSUME NEW list, NEW p, NEW I, Collected(list, p, I), Positions(I, p),
           NEW B, NEW R, Matching(R, list, B), NEW L, WithBody(L, p, I, B),
           NEW t, InListOrder(t, list, R), NEW u, InListOrder(u, p, L)
    PROVE  BodiesOf(t, u)
<1>1. PICK f : /\ Enumerates(I, f)
               /\ \A j, k \in 1..Cardinality(I) : j < k => f[j] < f[k]
               /\ Len(list) = Cardinality(I) /\ DOMAIN list = 1..Len(list)
               /\ \A k \in 1..Len(list) : list[k] = p[f[k]].body
  BY DEF Collected
<1>2. PICK key, zero : /\ key = [i \in DOMAIN list |-> 0]
                       /\ zero = [i \in DOMAIN p |-> 0]
  OBVIOUS
<1>3. PICK c : /\ EnumeratesByKey(R, key, c)
               /\ t = [k \in 1..Cardinality(R) |-> list[c[k]]]
               /\ Len(t) = Cardinality(R) /\ DOMAIN t = 1..Cardinality(R)
  BY <1>2 DEF InListOrder, ArrangedByKey
<1>4. PICK d : /\ EnumeratesByKey(L, zero, d)
               /\ u = [k \in 1..Cardinality(L) |-> p[d[k]]]
               /\ Len(u) = Cardinality(L) /\ DOMAIN u = 1..Cardinality(L)
  BY <1>2 DEF InListOrder, ArrangedByKey
<1>5. PICK n, m : n = Cardinality(R) /\ m = Cardinality(I)
  OBVIOUS
<1>6. /\ n \in Nat /\ m \in Nat
      /\ \A k \in 1..n : c[k] \in R
      /\ \A i \in R : \E k \in 1..n : c[k] = i
      /\ \A j, k \in 1..n : c[j] = c[k] => j = k
      /\ \A k \in 1..m : f[k] \in I
      /\ \A i \in I : \E k \in 1..m : f[k] = i
      /\ \A j, k \in 1..m : f[j] = f[k] => j = k
      /\ \A j, k \in 1..m : j < k => f[j] < f[k]
  BY <1>1, <1>3, <1>5 DEF EnumeratesByKey, Enumerates
<1>7. \A j, k \in 1..n : j < k => c[j] < c[k]
  <2> TAKE j, k \in 1..n
  <2> HAVE j < k
  <2>1. key[c[j]] < key[c[k]] \/ (key[c[j]] = key[c[k]] /\ c[j] < c[k])
    BY <1>3, <1>5 DEF EnumeratesByKey
  <2>2. key[c[j]] = 0 /\ key[c[k]] = 0
    BY <1>2, <1>6 DEF Matching
  <2> QED BY <2>1, <2>2
<1>8. PICK e : e = [k \in 1..n |-> f[c[k]]]
  OBVIOUS
<1>9. \A k \in 1..n : /\ c[k] \in R /\ c[k] \in 1..m /\ e[k] = f[c[k]]
                      /\ e[k] \in I /\ list[c[k]] = p[e[k]].body
  BY <1>1, <1>5, <1>6, <1>8 DEF Matching
<1>10. Enumerates(L, e) /\ Cardinality(L) = n
  <2>1. \A k \in 1..n : e[k] \in L
    BY <1>9 DEF WithBody, Matching
  <2>2. \A i \in L : \E k \in 1..n : e[k] = i
    <3> TAKE i \in L
    <3>1. PICK h \in 1..m : f[h] = i
      BY <1>6 DEF WithBody
    <3>2. list[h] \in B
      BY <1>1, <1>5, <3>1 DEF WithBody
    <3>3. PICK k \in 1..n : c[k] = h
      BY <1>1, <1>5, <1>6, <3>2 DEF Matching
    <3> QED BY <1>9, <3>1, <3>3
  <2>3. ASSUME NEW j \in 1..n, NEW k \in 1..n, e[j] = e[k] PROVE j = k
    <3>1. f[c[j]] = f[c[k]] /\ c[j] \in 1..m /\ c[k] \in 1..m
      BY <1>9, <2>3
    <3>2. c[j] = c[k]
      BY <1>6, <3>1
    <3> QED BY <1>6, <3>2
  <2>4. n \in Nat
    BY <1>6
  <2> QED BY ONLY <2>1, <2>2, <2>3, <2>4, ListedOnce
<1>11. \A i \in L : zero[i] = 0 /\ zero[i] \in Int /\ i \in Int
  BY <1>2 DEF WithBody, Positions
<1>12. EnumeratesByKey(L, zero, e)
  <2> SUFFICES ASSUME NEW j \in 1..n, NEW k \in 1..n, j < k
               PROVE  zero[e[j]] = zero[e[k]] /\ e[j] < e[k]
    BY <1>10 DEF EnumeratesByKey
  <2>1. e[j] < e[k]
    BY <1>6, <1>7, <1>9
  <2>2. e[j] \in L /\ e[k] \in L
    BY <1>10 DEF Enumerates
  <2> QED BY <1>11, <2>1, <2>2
<1>13. \A k \in 1..n : e[k] = d[k]
  BY <1>4, <1>10, <1>11, <1>12, OneOrder
<1> QED BY <1>3, <1>4, <1>5, <1>9, <1>10, <1>13 DEF BodiesOf

-----------------------------------------------------------------------------
(* Sequences whose elements belong to no fixed set (digests are terms): a  *)
(* function on 1..n is a sequence of length n.                             *)

IsSeq(s) == Len(s) \in Nat /\ s = [i \in 1..Len(s) |-> s[i]]

(* A function on 1..n is a sequence of length n.                           *)
LEMMA SeqOfFunction ==
    ASSUME NEW n \in Nat, NEW s, s = [i \in 1..n |-> s[i]]
    PROVE  IsSeq(s) /\ Len(s) = n
  <1>1. s \in Seq({s[i] : i \in 1..n}) /\ Len(s) = n
    OBVIOUS
  <1>. QED BY <1>1 DEF IsSeq

(* Every sequence of the standard module is one in the sense of IsSeq.     *)
LEMMA SeqIsSeq ==
    ASSUME NEW S, NEW s \in Seq(S)
    PROVE  IsSeq(s)
  BY DEF IsSeq

(* A sequence is one over the set of its own elements.                     *)
LEMMA SeqInOwnRange ==
    ASSUME NEW s, IsSeq(s)
    PROVE  s \in Seq({s[i] : i \in 1..Len(s)})
  BY DEF IsSeq

(* What Append does to any sequence, of elements of any kind.              *)
LEMMA AppendSeq ==
    ASSUME NEW s, IsSeq(s), NEW e
    PROVE  /\ IsSeq(Append(s, e))
           /\ Len(Append(s, e)) = Len(s) + 1
           /\ \A i \in 1..Len(s) : Append(s, e)[i] = s[i]
           /\ Append(s, e)[Len(s) + 1] = e
  <1>. DEFINE S == {s[i] : i \in 1..Len(s)} \cup {e}
  <1>1. s \in Seq({s[i] : i \in 1..Len(s)}) /\ Len(s) \in Nat
    BY SeqInOwnRange DEF IsSeq
  <1>2. s \in Seq(S) /\ e \in S
    BY <1>1
  <1>. HIDE DEF S
  <1>3. Append(s, e) \in Seq(S)
    BY <1>2
  <1>4. IsSeq(Append(s, e))
    BY <1>3, SeqIsSeq
  <1>5. /\ Len(Append(s, e)) = Len(s) + 1
        /\ \A i \in 1..Len(s) : Append(s, e)[i] = s[i]
        /\ Append(s, e)[Len(s) + 1] = e
    BY <1>2
  <1>. QED BY <1>4, <1>5

(* A path extended by the one entry a level contributes, or by none. *)
LEMMA ConcatSeq ==
    ASSUME NEW s, IsSeq(s), NEW t, IsSeq(t)
    PROVE  /\ IsSeq(s \o t)
           /\ Len(s \o t) = Len(s) + Len(t)
           /\ \A i \in 1..Len(s) : (s \o t)[i] = s[i]
           /\ \A i \in 1..Len(t) : (s \o t)[Len(s) + i] = t[i]
  <1>. DEFINE S == {s[i] : i \in 1..Len(s)} \cup {t[i] : i \in 1..Len(t)}
  <1>1. s \in Seq({s[i] : i \in 1..Len(s)}) /\ Len(s) \in Nat
    BY SeqInOwnRange DEF IsSeq
  <1>2. t \in Seq({t[i] : i \in 1..Len(t)}) /\ Len(t) \in Nat
    BY SeqInOwnRange DEF IsSeq
  <1>3. s \in Seq(S) /\ t \in Seq(S)
    BY <1>1, <1>2
  <1>. HIDE DEF S
  <1>4. s \o t \in Seq(S)
    BY <1>3
  <1>5. IsSeq(s \o t)
    BY <1>4, SeqIsSeq
  <1>6. /\ Len(s \o t) = Len(s) + Len(t)
        /\ \A i \in 1..Len(s) : (s \o t)[i] = s[i]
        /\ \A i \in 1..Len(t) : (s \o t)[Len(s) + i] = t[i]
    BY <1>1, <1>2, <1>3
  <1>. QED BY <1>5, <1>6

-----------------------------------------------------------------------------
(* The hash layer: constructors are injective and never collide. *)

(* leaf_hash and node_hash are injective, never take one for the other and *)
(* never give the root of the empty batch (crypto.rs:249-263).             *)
LEMMA HashFacts ==
    /\ \A x, y : LeafHash(x) = LeafHash(y) => x = y
    /\ \A w, x, y, u : NodeHash(w, x) = NodeHash(y, u) => w = y /\ x = u
    /\ \A x, y, u : LeafHash(x) # NodeHash(y, u)
    /\ \A x : LeafHash(x) # EmptyRoot
    /\ \A x, y : NodeHash(x, y) # EmptyRoot
  BY DEF LeafHash, NodeHash, EmptyRoot, Sha256, MERKLE_LEAF_TAG, MERKLE_NODE_TAG

(* The leaf level has one node for each leaf (crypto.rs:175).              *)
LEMMA LeafLevelShape ==
    ASSUME NEW s, IsSeq(s)
    PROVE  /\ IsSeq(LeafLevel(s))
           /\ Len(LeafLevel(s)) = Len(s)
           /\ \A i \in 1..Len(s) : LeafLevel(s)[i] = LeafHash(s[i])
  <1>1. LeafLevel(s) = [i \in 1..Len(s) |-> LeafLevel(s)[i]] /\ Len(s) \in Nat
    BY DEF LeafLevel, IsSeq
  <1>2. \A i \in 1..Len(s) : LeafLevel(s)[i] = LeafHash(s[i])
    BY DEF LeafLevel
  <1>. QED BY <1>1, <1>2, SeqOfFunction

(* One round of merkle_root halves the level, rounding up                  *)
(* (crypto.rs:177-194).                                                    *)
LEMMA ParentsShape ==
    ASSUME NEW l, IsSeq(l)
    PROVE  /\ IsSeq(Parents(l))
           /\ Len(Parents(l)) = DivCeil2(Len(l))
           /\ \A k \in 1..DivCeil2(Len(l)) :
                 Parents(l)[k] = IF 2*k <= Len(l) THEN NodeHash(l[2*k - 1], l[2*k])
                                                  ELSE l[2*k - 1]
  <1>1. DivCeil2(Len(l)) \in Nat
    BY DEF DivCeil2, IsSeq
  <1>2. Parents(l) = [k \in 1..DivCeil2(Len(l)) |-> Parents(l)[k]]
    BY DEF Parents
  <1>3. \A k \in 1..DivCeil2(Len(l)) :
            Parents(l)[k] = IF 2*k <= Len(l) THEN NodeHash(l[2*k - 1], l[2*k])
                                             ELSE l[2*k - 1]
    BY DEF Parents
  <1>. QED BY <1>1, <1>2, <1>3, SeqOfFunction

(* Where node i of a level goes: its parent's position, and what the       *)
(* parent is made of.  i is 0-based, as in the code.                       *)
LEMMA ParentOf ==
    ASSUME NEW l, IsSeq(l), Len(l) > 1, NEW i \in 0..(Len(l) - 1)
    PROVE  /\ DivCeil2(Len(l)) \in 1..(Len(l) - 1)
           /\ i \div 2 \in 0..(DivCeil2(Len(l)) - 1)
           /\ i % 2 \in {0, 1}
           /\ i % 2 = 0 /\ i + 1 >= Len(l) =>
                 Parents(l)[(i \div 2) + 1] = l[i + 1]
           /\ i % 2 = 0 /\ i + 1 < Len(l) =>
                 Parents(l)[(i \div 2) + 1] = NodeHash(l[i + 1], l[i + 2])
           /\ i % 2 = 1 =>
                 Parents(l)[(i \div 2) + 1] = NodeHash(l[i], l[i + 1])
  <1>1. Len(l) \in Nat
    BY DEF IsSeq
  <1>2. DivCeil2(Len(l)) \in 1..(Len(l) - 1)
    BY <1>1 DEF DivCeil2
  <1>3. i \div 2 \in 0..(DivCeil2(Len(l)) - 1)
    BY <1>1 DEF DivCeil2
  <1>4. i % 2 \in {0, 1}
    OBVIOUS
  <1>. DEFINE k == (i \div 2) + 1
  <1>5. k \in 1..DivCeil2(Len(l))
    BY <1>2, <1>3
  <1>6. Parents(l)[k] = IF 2*k <= Len(l) THEN NodeHash(l[2*k - 1], l[2*k])
                                         ELSE l[2*k - 1]
    BY <1>5, ParentsShape
  <1>7. i % 2 = 0 => 2*k - 1 = i + 1 /\ 2*k = i + 2
    OBVIOUS
  <1>8. i % 2 = 1 => 2*k - 1 = i /\ 2*k = i + 1
    OBVIOUS
  <1>. HIDE DEF k
  <1>9. ASSUME i % 2 = 0, i + 1 >= Len(l)
        PROVE  Parents(l)[k] = l[i + 1]
    BY <1>1, <1>6, <1>7, <1>9
  <1>10. ASSUME i % 2 = 0, i + 1 < Len(l)
         PROVE  Parents(l)[k] = NodeHash(l[i + 1], l[i + 2])
    BY <1>1, <1>6, <1>7, <1>10
  <1>11. ASSUME i % 2 = 1
         PROVE  Parents(l)[k] = NodeHash(l[i], l[i + 1])
    BY <1>1, <1>6, <1>8, <1>11
  <1>. QED BY <1>2, <1>3, <1>4, <1>9, <1>10, <1>11 DEF k

(* What Sibling contributes to a path: nothing for a promoted node, its    *)
(* neighbour for any other (crypto.rs:225-235).                            *)
LEMMA SiblingShape ==
    ASSUME NEW l, IsSeq(l), NEW i \in 0..(Len(l) - 1)
    PROVE  /\ IsSeq(Sibling(l, i))
           /\ i % 2 = 0 /\ i + 1 >= Len(l) => Len(Sibling(l, i)) = 0
           /\ ~(i % 2 = 0 /\ i + 1 >= Len(l)) =>
                 /\ Len(Sibling(l, i)) = 1
                 /\ Sibling(l, i)[1] = IF i % 2 = 1 THEN l[i] ELSE l[i + 2]
  <1>1. Len(l) \in Nat /\ (i % 2 = 0 \/ i % 2 = 1)
    BY DEF IsSeq
  <1>2. \A x : IsSeq(<<x>>) /\ Len(<<x>>) = 1 /\ <<x>>[1] = x
    <2>. SUFFICES ASSUME NEW x PROVE IsSeq(<<x>>) /\ Len(<<x>>) = 1 /\ <<x>>[1] = x
      OBVIOUS
    <2>1. <<x>> \in Seq({x})
      OBVIOUS
    <2>. QED BY <2>1, SeqIsSeq
  <1>3. IsSeq(<<>>) /\ Len(<<>>) = 0
    <2>1. <<>> \in Seq({})
      OBVIOUS
    <2>. QED BY <2>1, SeqIsSeq
  <1>4. CASE i % 2 = 1
    <2>1. Sibling(l, i) = <<l[i]>>
      BY <1>4 DEF Sibling
    <2>. QED BY <1>2, <1>4, <2>1
  <1>5. CASE i % 2 = 0 /\ i + 1 < Len(l)
    <2>1. Sibling(l, i) = <<l[i + 2]>>
      BY <1>5 DEF Sibling
    <2>. QED BY <1>1, <1>2, <1>5, <2>1
  <1>6. CASE i % 2 = 0 /\ ~(i + 1 < Len(l))
    <2>1. Sibling(l, i) = <<>>
      BY <1>6 DEF Sibling
    <2>. QED BY <1>1, <1>3, <1>6, <2>1
  <1>. QED BY <1>1, <1>4, <1>5, <1>6

-----------------------------------------------------------------------------
(* The loops as functions of the round *)

(* The levels up to the n-th round. *)
LevelsTo(g, n, leaves) ==
    g = [k \in 0..n |-> IF k = 0 THEN LeafLevel(leaves) ELSE Parents(g[k-1])]

(* Rounds of the loop one after another agree on the levels they share.    *)
LEMMA LevelsAgree ==
    ASSUME NEW leaves, NEW m \in Nat, NEW g, LevelsTo(g, m, leaves),
           NEW n \in Nat, NEW h, LevelsTo(h, n, leaves)
    PROVE  \A k \in Nat : k <= m /\ k <= n => g[k] = h[k]
<1>1. PICK S : S = {k \in Nat : k <= m /\ k <= n => g[k] = h[k]}
  OBVIOUS
<1>2. 0 \in S
  BY <1>1 DEF LevelsTo
<1>3. ASSUME NEW k \in Nat, k \in S PROVE k + 1 \in S
  <2> SUFFICES ASSUME k + 1 <= m, k + 1 <= n PROVE g[k+1] = h[k+1]
    BY <1>1
  <2>1. g[k] = h[k]
    BY <1>1, <1>3
  <2>2. k + 1 \in 0..m /\ k + 1 \in 0..n /\ k + 1 # 0 /\ k + 1 - 1 = k
    OBVIOUS
  <2>3. g[k+1] = Parents(g[k])
    BY <2>2 DEF LevelsTo
  <2>4. h[k+1] = Parents(h[k])
    BY <2>2 DEF LevelsTo
  <2> QED BY <2>1, <2>3, <2>4
<1> QED BY <1>1, <1>2, <1>3, Inductive

(* There are levels up to every round.                                     *)
LEMMA LevelsExist == \A leaves : \A n \in Nat : \E g : LevelsTo(g, n, leaves)
<1> SUFFICES ASSUME NEW leaves PROVE \A n \in Nat : \E g : LevelsTo(g, n, leaves)
  OBVIOUS
<1>1. PICK S : S = {n \in Nat : \E g : LevelsTo(g, n, leaves)}
  OBVIOUS
<1>2. 0 \in S
  <2>1. PICK g : g = [k \in 0..0 |-> LeafLevel(leaves)]
    OBVIOUS
  <2>2. \A k \in 0..0 : k = 0
    OBVIOUS
  <2>3. LevelsTo(g, 0, leaves)
    BY <2>1, <2>2 DEF LevelsTo
  <2> QED BY <1>1, <2>3
<1>3. ASSUME NEW n \in Nat, n \in S PROVE n + 1 \in S
  <2>1. PICK g : LevelsTo(g, n, leaves)
    BY <1>1, <1>3
  <2>2. PICK h : h = [k \in 0..(n + 1) |-> IF k = n + 1 THEN Parents(g[n]) ELSE g[k]]
    OBVIOUS
  <2>3. \A k \in 0..n : g[k] = IF k = 0 THEN LeafLevel(leaves) ELSE Parents(g[k-1])
    BY <2>1 DEF LevelsTo
  <2>4. \A k \in 0..n : k \in 0..(n + 1) /\ k # n + 1
    OBVIOUS
  <2>5. \A k \in 0..n : h[k] = g[k]
    BY <2>2, <2>4
  <2>6. ASSUME NEW k \in 0..(n + 1)
        PROVE  h[k] = IF k = 0 THEN LeafLevel(leaves) ELSE Parents(h[k-1])
    <3>1. CASE k = n + 1
      <4>1. k # 0 /\ k - 1 = n /\ n \in 0..n
        BY <3>1
      <4> QED BY <2>2, <2>5, <3>1, <4>1
    <3>2. CASE k # n + 1
      <4>1. k \in 0..n /\ (k # 0 => k - 1 \in 0..n)
        BY <3>2
      <4> QED BY <2>3, <2>5, <4>1
    <3> QED BY <3>1, <3>2
  <2>7. LevelsTo(h, n + 1, leaves)
    BY <2>2, <2>6 DEF LevelsTo
  <2> QED BY <1>1, <2>7
<1>4. \A n \in Nat : n \in S
  BY <1>2, <1>3, Inductive
<1> QED BY <1>1, <1>4

(* A round of merkle_root after another (crypto.rs:176-195).               *)
LEMMA LevelsUnfold ==
    ASSUME NEW leaves
    PROVE  /\ LevelsOf(leaves)[0] = LeafLevel(leaves)
           /\ \A k \in Nat : LevelsOf(leaves)[k+1] = Parents(LevelsOf(leaves)[k])
<1>1. PICK f : f = [n \in Nat |-> (CHOOSE g : LevelsTo(g, n, leaves))[n]]
  OBVIOUS
<1>2. ASSUME NEW n \in Nat PROVE f[n] = IF n = 0 THEN LeafLevel(leaves) ELSE Parents(f[n-1])
  <2>1. PICK g : g = CHOOSE x : LevelsTo(x, n, leaves)
    OBVIOUS
  <2>2. LevelsTo(g, n, leaves) /\ f[n] = g[n]
    BY <1>1, <2>1, LevelsExist
  <2>3. n \in 0..n
    OBVIOUS
  <2>4. g[n] = IF n = 0 THEN LeafLevel(leaves) ELSE Parents(g[n-1])
    BY <2>2, <2>3 DEF LevelsTo
  <2>5. ASSUME n # 0 PROVE f[n-1] = g[n-1]
    <3>1. PICK m : m = n - 1
      OBVIOUS
    <3>2. m \in Nat /\ m <= n /\ m <= m
      BY <2>5, <3>1
    <3>3. PICK h : h = CHOOSE g_ : LevelsTo(g_, m, leaves)
      OBVIOUS
    <3>4. LevelsTo(h, m, leaves) /\ f[m] = h[m]
      BY <1>1, <3>2, <3>3, LevelsExist
    <3> QED BY <2>2, <3>1, <3>2, <3>4, LevelsAgree
  <2> QED BY <2>2, <2>4, <2>5
<1>3. f = [k \in Nat |-> IF k = 0 THEN LeafLevel(leaves) ELSE Parents(f[k-1])]
  BY <1>1, <1>2
<1>4. LevelsOf(leaves) =
          [k \in Nat |-> IF k = 0 THEN LeafLevel(leaves) ELSE Parents(LevelsOf(leaves)[k-1])]
  BY <1>3 DEF LevelsOf
<1>5. PICK l : l = LevelsOf(leaves)
  OBVIOUS
<1>6. l = [k \in Nat |-> IF k = 0 THEN LeafLevel(leaves) ELSE Parents(l[k-1])]
  BY <1>4, <1>5
<1>7. \A k \in Nat : k + 1 \in Nat /\ k + 1 # 0 /\ k + 1 - 1 = k
  OBVIOUS
<1>8. \A k \in Nat : l[k+1] = Parents(l[k])
  BY <1>6, <1>7
<1> QED BY <1>5, <1>6, <1>8

(* The numbers of nodes up to the n-th round. *)
NodesTo(g, n, total) ==
    g = [k \in 0..n |-> IF k = 0 THEN total ELSE DivCeil2(g[k-1])]

(* Two countings agree on the rounds they share.                           *)
LEMMA NodesAgree ==
    ASSUME NEW total, NEW m \in Nat, NEW g, NodesTo(g, m, total),
           NEW n \in Nat, NEW h, NodesTo(h, n, total)
    PROVE  \A k \in Nat : k <= m /\ k <= n => g[k] = h[k]
<1>1. PICK S : S = {k \in Nat : k <= m /\ k <= n => g[k] = h[k]}
  OBVIOUS
<1>2. 0 \in S
  BY <1>1 DEF NodesTo
<1>3. ASSUME NEW k \in Nat, k \in S PROVE k + 1 \in S
  <2> SUFFICES ASSUME k + 1 <= m, k + 1 <= n PROVE g[k+1] = h[k+1]
    BY <1>1
  <2>1. g[k] = h[k]
    BY <1>1, <1>3
  <2>2. k + 1 \in 0..m /\ k + 1 \in 0..n /\ k + 1 # 0 /\ k + 1 - 1 = k
    OBVIOUS
  <2>3. g[k+1] = DivCeil2(g[k])
    BY <2>2 DEF NodesTo
  <2>4. h[k+1] = DivCeil2(h[k])
    BY <2>2 DEF NodesTo
  <2> QED BY <2>1, <2>3, <2>4
<1> QED BY <1>1, <1>2, <1>3, Inductive

(* There is a count up to every round.                                     *)
LEMMA NodesExist == \A total : \A n \in Nat : \E g : NodesTo(g, n, total)
<1> SUFFICES ASSUME NEW total PROVE \A n \in Nat : \E g : NodesTo(g, n, total)
  OBVIOUS
<1>1. PICK S : S = {n \in Nat : \E g : NodesTo(g, n, total)}
  OBVIOUS
<1>2. 0 \in S
  <2>1. PICK g : g = [k \in 0..0 |-> total]
    OBVIOUS
  <2>2. \A k \in 0..0 : k = 0
    OBVIOUS
  <2>3. NodesTo(g, 0, total)
    BY <2>1, <2>2 DEF NodesTo
  <2> QED BY <1>1, <2>3
<1>3. ASSUME NEW n \in Nat, n \in S PROVE n + 1 \in S
  <2>1. PICK g : NodesTo(g, n, total)
    BY <1>1, <1>3
  <2>2. PICK h : h = [k \in 0..(n + 1) |-> IF k = n + 1 THEN DivCeil2(g[n]) ELSE g[k]]
    OBVIOUS
  <2>3. \A k \in 0..n : g[k] = IF k = 0 THEN total ELSE DivCeil2(g[k-1])
    BY <2>1 DEF NodesTo
  <2>4. \A k \in 0..n : k \in 0..(n + 1) /\ k # n + 1
    OBVIOUS
  <2>5. \A k \in 0..n : h[k] = g[k]
    BY <2>2, <2>4
  <2>6. ASSUME NEW k \in 0..(n + 1)
        PROVE  h[k] = IF k = 0 THEN total ELSE DivCeil2(h[k-1])
    <3>1. CASE k = n + 1
      <4>1. k # 0 /\ k - 1 = n /\ n \in 0..n
        BY <3>1
      <4> QED BY <2>2, <2>5, <3>1, <4>1
    <3>2. CASE k # n + 1
      <4>1. k \in 0..n /\ (k # 0 => k - 1 \in 0..n)
        BY <3>2
      <4> QED BY <2>3, <2>5, <4>1
    <3> QED BY <3>1, <3>2
  <2>7. NodesTo(h, n + 1, total)
    BY <2>2, <2>6 DEF NodesTo
  <2> QED BY <1>1, <2>7
<1>4. \A n \in Nat : n \in S
  BY <1>2, <1>3, Inductive
<1> QED BY <1>1, <1>4

(* Each round leaves half the nodes, rounded up (crypto.rs:320).           *)
LEMMA NodesUnfold ==
    ASSUME NEW total
    PROVE  /\ NodesAfter(total)[0] = total
           /\ \A k \in Nat : NodesAfter(total)[k+1] = DivCeil2(NodesAfter(total)[k])
<1>1. PICK f : f = [n \in Nat |-> (CHOOSE g : NodesTo(g, n, total))[n]]
  OBVIOUS
<1>2. ASSUME NEW n \in Nat PROVE f[n] = IF n = 0 THEN total ELSE DivCeil2(f[n-1])
  <2>1. PICK g : g = CHOOSE x : NodesTo(x, n, total)
    OBVIOUS
  <2>2. NodesTo(g, n, total) /\ f[n] = g[n]
    BY <1>1, <2>1, NodesExist
  <2>3. n \in 0..n
    OBVIOUS
  <2>4. g[n] = IF n = 0 THEN total ELSE DivCeil2(g[n-1])
    BY <2>2, <2>3 DEF NodesTo
  <2>5. ASSUME n # 0 PROVE f[n-1] = g[n-1]
    <3>1. PICK m : m = n - 1
      OBVIOUS
    <3>2. m \in Nat /\ m <= n /\ m <= m
      BY <2>5, <3>1
    <3>3. PICK h : h = CHOOSE g_ : NodesTo(g_, m, total)
      OBVIOUS
    <3>4. NodesTo(h, m, total) /\ f[m] = h[m]
      BY <1>1, <3>2, <3>3, NodesExist
    <3> QED BY <2>2, <3>1, <3>2, <3>4, NodesAgree
  <2> QED BY <2>2, <2>4, <2>5
<1>3. f = [k \in Nat |-> IF k = 0 THEN total ELSE DivCeil2(f[k-1])]
  BY <1>1, <1>2
<1>4. NodesAfter(total) =
          [k \in Nat |-> IF k = 0 THEN total ELSE DivCeil2(NodesAfter(total)[k-1])]
  BY <1>3 DEF NodesAfter
<1>5. PICK l : l = NodesAfter(total)
  OBVIOUS
<1>6. l = [k \in Nat |-> IF k = 0 THEN total ELSE DivCeil2(l[k-1])]
  BY <1>4, <1>5
<1>7. \A k \in Nat : k + 1 \in Nat /\ k + 1 # 0 /\ k + 1 - 1 = k
  OBVIOUS
<1>8. \A k \in Nat : l[k+1] = DivCeil2(l[k])
  BY <1>6, <1>7
<1> QED BY <1>5, <1>6, <1>8

(* The fold up to its n-th turn. *)
FoldsTo(g, n, leaf, i, c, path) ==
    g = [k \in 0..n |-> IF k = 0 THEN StartFold(leaf, i, c) ELSE Turn(g[k-1], path)]

(* Two folds of one proof agree on the turns they share.                   *)
LEMMA FoldsAgree ==
    ASSUME NEW leaf, NEW i, NEW c, NEW path, NEW m \in Nat, NEW g, FoldsTo(g, m, leaf, i, c, path),
           NEW n \in Nat, NEW h, FoldsTo(h, n, leaf, i, c, path)
    PROVE  \A k \in Nat : k <= m /\ k <= n => g[k] = h[k]
<1>1. PICK S : S = {k \in Nat : k <= m /\ k <= n => g[k] = h[k]}
  OBVIOUS
<1>2. 0 \in S
  BY <1>1 DEF FoldsTo
<1>3. ASSUME NEW k \in Nat, k \in S PROVE k + 1 \in S
  <2> SUFFICES ASSUME k + 1 <= m, k + 1 <= n PROVE g[k+1] = h[k+1]
    BY <1>1
  <2>1. g[k] = h[k]
    BY <1>1, <1>3
  <2>2. k + 1 \in 0..m /\ k + 1 \in 0..n /\ k + 1 # 0 /\ k + 1 - 1 = k
    OBVIOUS
  <2>3. g[k+1] = Turn(g[k], path)
    BY <2>2 DEF FoldsTo
  <2>4. h[k+1] = Turn(h[k], path)
    BY <2>2 DEF FoldsTo
  <2> QED BY <2>1, <2>3, <2>4
<1> QED BY <1>1, <1>2, <1>3, Inductive

(* There is a fold up to every turn.                                       *)
LEMMA FoldsExist == \A leaf, i, c, path : \A n \in Nat : \E g : FoldsTo(g, n, leaf, i, c, path)
<1> SUFFICES ASSUME NEW leaf, NEW i, NEW c, NEW path PROVE \A n \in Nat : \E g : FoldsTo(g, n, leaf, i, c, path)
  OBVIOUS
<1>1. PICK S : S = {n \in Nat : \E g : FoldsTo(g, n, leaf, i, c, path)}
  OBVIOUS
<1>2. 0 \in S
  <2>1. PICK g : g = [k \in 0..0 |-> StartFold(leaf, i, c)]
    OBVIOUS
  <2>2. \A k \in 0..0 : k = 0
    OBVIOUS
  <2>3. FoldsTo(g, 0, leaf, i, c, path)
    BY <2>1, <2>2 DEF FoldsTo
  <2> QED BY <1>1, <2>3
<1>3. ASSUME NEW n \in Nat, n \in S PROVE n + 1 \in S
  <2>1. PICK g : FoldsTo(g, n, leaf, i, c, path)
    BY <1>1, <1>3
  <2>2. PICK h : h = [k \in 0..(n + 1) |-> IF k = n + 1 THEN Turn(g[n], path) ELSE g[k]]
    OBVIOUS
  <2>3. \A k \in 0..n : g[k] = IF k = 0 THEN StartFold(leaf, i, c) ELSE Turn(g[k-1], path)
    BY <2>1 DEF FoldsTo
  <2>4. \A k \in 0..n : k \in 0..(n + 1) /\ k # n + 1
    OBVIOUS
  <2>5. \A k \in 0..n : h[k] = g[k]
    BY <2>2, <2>4
  <2>6. ASSUME NEW k \in 0..(n + 1)
        PROVE  h[k] = IF k = 0 THEN StartFold(leaf, i, c) ELSE Turn(h[k-1], path)
    <3>1. CASE k = n + 1
      <4>1. k # 0 /\ k - 1 = n /\ n \in 0..n
        BY <3>1
      <4> QED BY <2>2, <2>5, <3>1, <4>1
    <3>2. CASE k # n + 1
      <4>1. k \in 0..n /\ (k # 0 => k - 1 \in 0..n)
        BY <3>2
      <4> QED BY <2>3, <2>5, <4>1
    <3> QED BY <3>1, <3>2
  <2>7. FoldsTo(h, n + 1, leaf, i, c, path)
    BY <2>2, <2>6 DEF FoldsTo
  <2> QED BY <1>1, <2>7
<1>4. \A n \in Nat : n \in S
  BY <1>2, <1>3, Inductive
<1> QED BY <1>1, <1>4

(* One turn of the fold after another (crypto.rs:297-321).                 *)
LEMMA FoldsUnfold ==
    ASSUME NEW leaf, NEW i, NEW c, NEW path
    PROVE  /\ FoldsOf(leaf, i, c, path)[0] = StartFold(leaf, i, c)
           /\ \A k \in Nat : FoldsOf(leaf, i, c, path)[k+1] = Turn(FoldsOf(leaf, i, c, path)[k], path)
<1>1. PICK f : f = [n \in Nat |-> (CHOOSE g : FoldsTo(g, n, leaf, i, c, path))[n]]
  OBVIOUS
<1>2. ASSUME NEW n \in Nat PROVE f[n] = IF n = 0 THEN StartFold(leaf, i, c) ELSE Turn(f[n-1], path)
  <2>1. PICK g : g = CHOOSE x : FoldsTo(x, n, leaf, i, c, path)
    OBVIOUS
  <2>2. FoldsTo(g, n, leaf, i, c, path) /\ f[n] = g[n]
    BY <1>1, <2>1, FoldsExist
  <2>3. n \in 0..n
    OBVIOUS
  <2>4. g[n] = IF n = 0 THEN StartFold(leaf, i, c) ELSE Turn(g[n-1], path)
    BY <2>2, <2>3 DEF FoldsTo
  <2>5. ASSUME n # 0 PROVE f[n-1] = g[n-1]
    <3>1. PICK m : m = n - 1
      OBVIOUS
    <3>2. m \in Nat /\ m <= n /\ m <= m
      BY <2>5, <3>1
    <3>3. PICK h : h = CHOOSE g_ : FoldsTo(g_, m, leaf, i, c, path)
      OBVIOUS
    <3>4. FoldsTo(h, m, leaf, i, c, path) /\ f[m] = h[m]
      BY <1>1, <3>2, <3>3, FoldsExist
    <3> QED BY <2>2, <3>1, <3>2, <3>4, FoldsAgree
  <2> QED BY <2>2, <2>4, <2>5
<1>3. f = [k \in Nat |-> IF k = 0 THEN StartFold(leaf, i, c) ELSE Turn(f[k-1], path)]
  BY <1>1, <1>2
<1>4. FoldsOf(leaf, i, c, path) =
          [k \in Nat |-> IF k = 0 THEN StartFold(leaf, i, c) ELSE Turn(FoldsOf(leaf, i, c, path)[k-1], path)]
  BY <1>3 DEF FoldsOf
<1>5. PICK l : l = FoldsOf(leaf, i, c, path)
  OBVIOUS
<1>6. l = [k \in Nat |-> IF k = 0 THEN StartFold(leaf, i, c) ELSE Turn(l[k-1], path)]
  BY <1>4, <1>5
<1>7. \A k \in Nat : k + 1 \in Nat /\ k + 1 # 0 /\ k + 1 - 1 = k
  OBVIOUS
<1>8. \A k \in Nat : l[k+1] = Turn(l[k], path)
  BY <1>6, <1>7
<1> QED BY <1>5, <1>6, <1>8

(* The paths up to the n-th round. *)
PathsTo(g, n, levels, i) ==
    g = [k \in 0..n |-> IF k = 0 THEN StartPath(i) ELSE Extended(g[k-1], levels[k-1])]

(* Two runs of the loop agree on the rounds they share.                    *)
LEMMA PathsAgree ==
    ASSUME NEW levels, NEW i, NEW m \in Nat, NEW g, PathsTo(g, m, levels, i),
           NEW n \in Nat, NEW h, PathsTo(h, n, levels, i)
    PROVE  \A k \in Nat : k <= m /\ k <= n => g[k] = h[k]
<1>1. PICK S : S = {k \in Nat : k <= m /\ k <= n => g[k] = h[k]}
  OBVIOUS
<1>2. 0 \in S
  BY <1>1 DEF PathsTo
<1>3. ASSUME NEW k \in Nat, k \in S PROVE k + 1 \in S
  <2> SUFFICES ASSUME k + 1 <= m, k + 1 <= n PROVE g[k+1] = h[k+1]
    BY <1>1
  <2>1. g[k] = h[k]
    BY <1>1, <1>3
  <2>2. k + 1 \in 0..m /\ k + 1 \in 0..n /\ k + 1 # 0 /\ k + 1 - 1 = k
    OBVIOUS
  <2>3. g[k+1] = Extended(g[k], levels[k])
    BY <2>2 DEF PathsTo
  <2>4. h[k+1] = Extended(h[k], levels[k])
    BY <2>2 DEF PathsTo
  <2> QED BY <2>1, <2>3, <2>4
<1> QED BY <1>1, <1>2, <1>3, Inductive

(* There is a path up to every round.                                      *)
LEMMA PathsExist == \A levels, i : \A n \in Nat : \E g : PathsTo(g, n, levels, i)
<1> SUFFICES ASSUME NEW levels, NEW i PROVE \A n \in Nat : \E g : PathsTo(g, n, levels, i)
  OBVIOUS
<1>1. PICK S : S = {n \in Nat : \E g : PathsTo(g, n, levels, i)}
  OBVIOUS
<1>2. 0 \in S
  <2>1. PICK g : g = [k \in 0..0 |-> StartPath(i)]
    OBVIOUS
  <2>2. \A k \in 0..0 : k = 0
    OBVIOUS
  <2>3. PathsTo(g, 0, levels, i)
    BY <2>1, <2>2 DEF PathsTo
  <2> QED BY <1>1, <2>3
<1>3. ASSUME NEW n \in Nat, n \in S PROVE n + 1 \in S
  <2>1. PICK g : PathsTo(g, n, levels, i)
    BY <1>1, <1>3
  <2>2. PICK h : h = [k \in 0..(n + 1) |-> IF k = n + 1 THEN Extended(g[n], levels[n]) ELSE g[k]]
    OBVIOUS
  <2>3. \A k \in 0..n : g[k] = IF k = 0 THEN StartPath(i) ELSE Extended(g[k-1], levels[k-1])
    BY <2>1 DEF PathsTo
  <2>4. \A k \in 0..n : k \in 0..(n + 1) /\ k # n + 1
    OBVIOUS
  <2>5. \A k \in 0..n : h[k] = g[k]
    BY <2>2, <2>4
  <2>6. ASSUME NEW k \in 0..(n + 1)
        PROVE  h[k] = IF k = 0 THEN StartPath(i) ELSE Extended(h[k-1], levels[k-1])
    <3>1. CASE k = n + 1
      <4>1. k # 0 /\ k - 1 = n /\ n \in 0..n
        BY <3>1
      <4> QED BY <2>2, <2>5, <3>1, <4>1
    <3>2. CASE k # n + 1
      <4>1. k \in 0..n /\ (k # 0 => k - 1 \in 0..n)
        BY <3>2
      <4> QED BY <2>3, <2>5, <4>1
    <3> QED BY <3>1, <3>2
  <2>7. PathsTo(h, n + 1, levels, i)
    BY <2>2, <2>6 DEF PathsTo
  <2> QED BY <1>1, <2>7
<1>4. \A n \in Nat : n \in S
  BY <1>2, <1>3, Inductive
<1> QED BY <1>1, <1>4

(* One round of merkle_audit_path after another (crypto.rs:220-244).       *)
LEMMA PathsUnfold ==
    ASSUME NEW leaves, NEW i, NEW levels, levels = LevelsOf(leaves)
    PROVE  /\ PathsOf(leaves, i)[0] = StartPath(i)
           /\ \A k \in Nat : PathsOf(leaves, i)[k+1] = Extended(PathsOf(leaves, i)[k], levels[k])
<1>1. PICK f : f = [n \in Nat |-> (CHOOSE g : PathsTo(g, n, levels, i))[n]]
  OBVIOUS
<1>2. ASSUME NEW n \in Nat PROVE f[n] = IF n = 0 THEN StartPath(i) ELSE Extended(f[n-1], levels[n-1])
  <2>1. PICK g : g = CHOOSE x : PathsTo(x, n, levels, i)
    OBVIOUS
  <2>2. PathsTo(g, n, levels, i) /\ f[n] = g[n]
    BY <1>1, <2>1, PathsExist
  <2>3. n \in 0..n
    OBVIOUS
  <2>4. g[n] = IF n = 0 THEN StartPath(i) ELSE Extended(g[n-1], levels[n-1])
    BY <2>2, <2>3 DEF PathsTo
  <2>5. ASSUME n # 0 PROVE f[n-1] = g[n-1]
    <3>1. PICK m : m = n - 1
      OBVIOUS
    <3>2. m \in Nat /\ m <= n /\ m <= m
      BY <2>5, <3>1
    <3>3. PICK h : h = CHOOSE g_ : PathsTo(g_, m, levels, i)
      OBVIOUS
    <3>4. PathsTo(h, m, levels, i) /\ f[m] = h[m]
      BY <1>1, <3>2, <3>3, PathsExist
    <3> QED BY <2>2, <3>1, <3>2, <3>4, PathsAgree
  <2> QED BY <2>2, <2>4, <2>5
<1>3. f = [k \in Nat |-> IF k = 0 THEN StartPath(i) ELSE Extended(f[k-1], levels[k-1])]
  BY <1>1, <1>2
<1>4. PathsOf(leaves, i) =
          [k \in Nat |-> IF k = 0 THEN StartPath(i) ELSE Extended(PathsOf(leaves, i)[k-1], levels[k-1])]
  BY <1>3 DEF PathsOf
<1>5. PICK l : l = PathsOf(leaves, i)
  OBVIOUS
<1>6. l = [k \in Nat |-> IF k = 0 THEN StartPath(i) ELSE Extended(l[k-1], levels[k-1])]
  BY <1>4, <1>5
<1>7. \A k \in Nat : k + 1 \in Nat /\ k + 1 # 0 /\ k + 1 - 1 = k
  OBVIOUS
<1>8. \A k \in Nat : l[k+1] = Extended(l[k], levels[k])
  BY <1>6, <1>7
<1> QED BY <1>5, <1>6, <1>8

-----------------------------------------------------------------------------
(* The height of a tree *)

(* A round leaves fewer nodes while there are more than one, and at least  *)
(* one of any.                                                             *)
LEMMA NodesShrink ==
    ASSUME NEW n \in Nat
    PROVE  /\ \A k \in Nat : NodesAfter(n)[k] \in Nat
           /\ \A k \in Nat : n > 0 => NodesAfter(n)[k] > 0
           /\ \A k \in Nat : NodesAfter(n)[k] <= 1 \/ NodesAfter(n)[k] <= n - k
<1>1. PICK f : f = NodesAfter(n)
  OBVIOUS
<1>2. f[0] = n /\ \A k \in Nat : f[k+1] = DivCeil2(f[k])
  BY <1>1, NodesUnfold
<1>3. PICK S : S = {k \in Nat : f[k] \in Nat /\ (n > 0 => f[k] > 0) /\ (f[k] <= 1 \/ f[k] <= n - k)}
  OBVIOUS
<1>4. 0 \in S
  BY <1>2, <1>3
<1>5. ASSUME NEW k \in Nat, k \in S PROVE k + 1 \in S
  <2>1. f[k] \in Nat /\ (n > 0 => f[k] > 0) /\ (f[k] <= 1 \/ f[k] <= n - k)
    BY <1>3, <1>5
  <2>2. PICK a, b : a = f[k] /\ b = f[k+1]
    OBVIOUS
  <2>3. b = (a + 1) \div 2
    BY <1>2, <2>2 DEF DivCeil2
  <2>4. b \in Nat /\ (a > 0 => b > 0) /\ (a > 1 => b <= a - 1) /\ (a <= 1 => b <= 1)
    BY <2>1, <2>2, <2>3
  <2>5. b <= 1 \/ b <= n - (k + 1)
    BY <2>1, <2>2, <2>4
  <2> QED BY <1>3, <2>1, <2>2, <2>4, <2>5
<1>6. \A k \in Nat : k \in S
  BY <1>4, <1>5, Inductive
<1> QED BY <1>1, <1>3, <1>6

(* The loop ends after Height rounds, and not before.                      *)
LEMMA HeightFacts ==
    ASSUME NEW n \in Nat
    PROVE  /\ Height(n) \in 0..n
           /\ NodesAfter(n)[Height(n)] <= 1
           /\ \A j \in 0..(Height(n) - 1) : NodesAfter(n)[j] > 1
<1>1. PICK f : f = NodesAfter(n)
  OBVIOUS
<1>2. /\ \A k \in Nat : f[k] \in Nat
      /\ f[n] <= 1
  <2>1. \A k \in Nat : f[k] \in Nat /\ (f[k] <= 1 \/ f[k] <= n - k)
    BY <1>1, NodesShrink
  <2> QED BY <2>1
(* No round up to the k-th ends the loop, or one is the first to. *)
<1>3. PICK S : S = {k \in Nat : \/ \A j \in 0..k : f[j] > 1
                                \/ \E h \in 0..k : f[h] <= 1 /\ \A j \in 0..(h-1) : f[j] > 1}
  OBVIOUS
<1>4. 0 \in S
  <2>1. CASE f[0] <= 1
    <3>1. 0 \in 0..0 /\ \A j \in 0..(0 - 1) : f[j] > 1
      OBVIOUS
    <3> QED BY <1>3, <2>1, <3>1
  <2>2. CASE ~(f[0] <= 1)
    <3>1. \A j \in 0..0 : f[j] > 1
      BY <1>2, <2>2
    <3> QED BY <1>3, <3>1
  <2> QED BY <2>1, <2>2
<1>5. ASSUME NEW k \in Nat, k \in S PROVE k + 1 \in S
  <2>1. CASE \E h \in 0..k : f[h] <= 1 /\ \A j \in 0..(h-1) : f[j] > 1
    <3>1. \E h \in 0..(k+1) : f[h] <= 1 /\ \A j \in 0..(h-1) : f[j] > 1
      BY <2>1
    <3> QED BY <1>3, <3>1
  <2>2. CASE \A j \in 0..k : f[j] > 1
    <3>1. CASE f[k+1] <= 1
      <4>1. k + 1 \in 0..(k+1) /\ (k + 1) - 1 = k
        OBVIOUS
      <4>2. \E h \in 0..(k+1) : f[h] <= 1 /\ \A j \in 0..(h-1) : f[j] > 1
        BY <2>2, <3>1, <4>1
      <4> QED BY <1>3, <4>2
    <3>2. CASE ~(f[k+1] <= 1)
      <4>1. \A j \in 0..(k+1) : j \in 0..k \/ j = k + 1
        OBVIOUS
      <4>2. \A j \in 0..(k+1) : f[j] > 1
        BY <1>2, <2>2, <3>2, <4>1
      <4> QED BY <1>3, <4>2
    <3> QED BY <3>1, <3>2
  <2> QED BY <1>3, <1>5, <2>1, <2>2
<1>6. \A k \in Nat : k \in S
  BY <1>4, <1>5, Inductive
<1>7. \E h \in 0..n : f[h] <= 1 /\ \A j \in 0..(h-1) : f[j] > 1
  <2>1. n \in S /\ n \in 0..n
    BY <1>6
  <2> QED BY <1>2, <1>3, <2>1
<1>8. \E h \in 0..n : NodesAfter(n)[h] <= 1 /\ \A j \in 0..(h-1) : NodesAfter(n)[j] > 1
  BY <1>1, <1>7
<1> QED BY <1>8 DEF Height

-----------------------------------------------------------------------------
(* The root binds the leaves *)

(* Every level is a list of as many nodes as counted.                      *)
LEMMA LevelShape ==
    ASSUME NEW leaves, IsSeq(leaves), NEW k \in Nat
    PROVE  /\ IsSeq(LevelsOf(leaves)[k])
           /\ Len(LevelsOf(leaves)[k]) = NodesAfter(Len(leaves))[k]
<1>1. PICK l, f, n : l = LevelsOf(leaves) /\ f = NodesAfter(Len(leaves)) /\ n = Len(leaves)
  OBVIOUS
<1>2. l[0] = LeafLevel(leaves) /\ \A j \in Nat : l[j+1] = Parents(l[j])
  BY <1>1, LevelsUnfold
<1>3. f[0] = n /\ \A j \in Nat : f[j+1] = DivCeil2(f[j])
  BY <1>1, NodesUnfold
<1>4. PICK S : S = {j \in Nat : IsSeq(l[j]) /\ Len(l[j]) = f[j]}
  OBVIOUS
<1>5. 0 \in S
  BY <1>1, <1>2, <1>3, <1>4, LeafLevelShape
<1>6. ASSUME NEW j \in Nat, j \in S PROVE j + 1 \in S
  <2>1. IsSeq(l[j]) /\ Len(l[j]) = f[j]
    BY <1>4, <1>6
  <2>2. IsSeq(Parents(l[j])) /\ Len(Parents(l[j])) = DivCeil2(Len(l[j]))
    BY <2>1, ParentsShape
  <2>3. l[j+1] = Parents(l[j]) /\ f[j+1] = DivCeil2(f[j]) /\ j + 1 \in Nat
    BY <1>2, <1>3
  <2>4. IsSeq(l[j+1]) /\ Len(l[j+1]) = f[j+1]
    BY <2>1, <2>2, <2>3
  <2> QED BY <1>4, <2>3, <2>4
<1>7. \A j \in Nat : j \in S
  BY <1>5, <1>6, Inductive
<1> QED BY <1>1, <1>4, <1>7

(* The last level of any leaves is a single node, the root.                *)
LEMMA RootLevelOf ==
    ASSUME NEW leaves, IsSeq(leaves), Len(leaves) > 0
    PROVE  LET l == LevelsOf(leaves)[Height(Len(leaves))]
           IN  IsSeq(l) /\ Len(l) = 1 /\ MerkleRoot(leaves) = l[1]
<1>1. PICK n, h, l : n = Len(leaves) /\ h = Height(n) /\ l = LevelsOf(leaves)[h]
  OBVIOUS
<1>2. n \in Nat /\ n > 0
  BY <1>1 DEF IsSeq
<1>3. h \in Nat /\ NodesAfter(n)[h] <= 1
  BY <1>1, <1>2, HeightFacts
<1>4. NodesAfter(n)[h] \in Nat /\ NodesAfter(n)[h] > 0
  BY <1>2, <1>3, NodesShrink
<1>5. IsSeq(l) /\ Len(l) = NodesAfter(n)[h]
  BY <1>1, <1>3, LevelShape
<1>6. leaves # <<>>
  OBVIOUS
<1>7. MerkleRoot(leaves) = l[1]
  BY <1>1, <1>6 DEF MerkleRoot
<1>8. Len(l) = 1
  BY <1>3, <1>4, <1>5
<1> QED BY <1>1, <1>5, <1>7, <1>8

(* Levels of one length with the same parents are the same.                *)
LEMMA ParentsBind ==
    ASSUME NEW l, IsSeq(l), NEW m, IsSeq(m), Len(l) = Len(m), Parents(l) = Parents(m)
    PROVE  l = m
<1>1. PICK n, p, q : n = Len(l) /\ p = Parents(l) /\ q = Parents(m)
  OBVIOUS
<1>2. n \in Nat /\ l = [i \in 1..n |-> l[i]] /\ m = [i \in 1..n |-> m[i]]
  BY <1>1 DEF IsSeq
<1>3. /\ \A k \in 1..DivCeil2(n) :
            p[k] = IF 2*k <= n THEN NodeHash(l[2*k - 1], l[2*k]) ELSE l[2*k - 1]
      /\ \A k \in 1..DivCeil2(n) :
            q[k] = IF 2*k <= n THEN NodeHash(m[2*k - 1], m[2*k]) ELSE m[2*k - 1]
  BY <1>1, ParentsShape
<1>4. ASSUME NEW i \in 1..n PROVE l[i] = m[i]
  <2>1. PICK k \in 1..DivCeil2(n) : i = 2*k - 1 \/ i = 2*k
    <3>1. PICK k : k = (i + 1) \div 2
      OBVIOUS
    <3>2. k \in Int /\ 1 <= k /\ k <= (n + 1) \div 2 /\ (i = 2*k - 1 \/ i = 2*k)
      <4>1. i \in Int /\ n \in Int /\ 1 <= i /\ i <= n
        BY <1>2
      <4> QED BY ONLY <3>1, <4>1
    <3>3. k \in 1..DivCeil2(n)
      BY <1>2, <3>2 DEF DivCeil2
    <3> QED BY <3>2, <3>3
  <2>2. p[k] = q[k]
    BY <1>1
  <2>3. CASE 2*k <= n
    <3>1. NodeHash(l[2*k - 1], l[2*k]) = NodeHash(m[2*k - 1], m[2*k])
      BY <1>3, <2>2, <2>3
    <3>2. l[2*k - 1] = m[2*k - 1] /\ l[2*k] = m[2*k]
      BY <3>1, HashFacts
    <3> QED BY <2>1, <3>2
  <2>4. CASE ~(2*k <= n)
    <3>1. l[2*k - 1] = m[2*k - 1]
      BY <1>3, <2>2, <2>4
    <3>2. i # 2*k
      BY <1>2, <2>4
    <3> QED BY <2>1, <3>1, <3>2
  <2> QED BY <2>3, <2>4
<1> QED BY <1>2, <1>4

(* As many leaves under the same root are the same leaves                  *)
(* (crypto.rs:170-201).                                                    *)
LEMMA RootBinds ==
    ASSUME NEW s, IsSeq(s), NEW t, IsSeq(t), Len(s) = Len(t), Len(s) > 0,
           MerkleRoot(s) = MerkleRoot(t)
    PROVE  s = t
<1>1. PICK n, h, l, m : n = Len(s) /\ h = Height(n) /\ l = LevelsOf(s) /\ m = LevelsOf(t)
  OBVIOUS
<1>2. n \in Nat /\ h \in Nat
  <2>1. n \in Nat
    BY <1>1 DEF IsSeq
  <2> QED BY <1>1, <2>1, HeightFacts
<1>3. /\ l[0] = LeafLevel(s) /\ \A k \in Nat : l[k+1] = Parents(l[k])
      /\ m[0] = LeafLevel(t) /\ \A k \in Nat : m[k+1] = Parents(m[k])
  BY <1>1, LevelsUnfold
<1>4. \A k \in Nat : IsSeq(l[k]) /\ IsSeq(m[k]) /\ Len(l[k]) = Len(m[k])
  BY <1>1, LevelShape
<1>5. l[h] = m[h]
  <2>1. IsSeq(l[h]) /\ Len(l[h]) = 1 /\ MerkleRoot(s) = l[h][1]
    BY <1>1, RootLevelOf
  <2>2. IsSeq(m[h]) /\ Len(m[h]) = 1 /\ MerkleRoot(t) = m[h][1]
    BY <1>1, RootLevelOf
  <2>3. PICK a, b : a = l[h] /\ b = m[h]
    OBVIOUS
  <2>4. a = [i \in 1..1 |-> a[i]] /\ b = [i \in 1..1 |-> b[i]] /\ a[1] = b[1]
    BY <2>1, <2>2, <2>3 DEF IsSeq
  <2>5. \A i \in 1..1 : i = 1
    OBVIOUS
  <2>6. a = b
    BY <2>4, <2>5
  <2> QED BY <2>3, <2>6
<1>6. PICK S : S = {k \in Nat : l[k] = m[k] => s = t}
  OBVIOUS
<1>7. 0 \in S
  <2> SUFFICES ASSUME l[0] = m[0] PROVE s = t
    BY <1>6
  <2>1. LeafLevel(s) = LeafLevel(t)
    BY <1>3
  <2>2. ASSUME NEW i \in 1..n PROVE s[i] = t[i]
    <3>1. LeafHash(s[i]) = LeafHash(t[i])
      BY <1>1, <2>1, LeafLevelShape
    <3> QED BY <3>1, HashFacts
  <2> QED BY <1>1, <2>2 DEF IsSeq
<1>8. ASSUME NEW k \in Nat, k \in S PROVE k + 1 \in S
  <2> SUFFICES ASSUME l[k+1] = m[k+1] PROVE s = t
    BY <1>6
  <2>1. Parents(l[k]) = Parents(m[k])
    BY <1>3
  <2>2. l[k] = m[k]
    BY <1>4, <2>1, ParentsBind
  <2> QED BY <1>6, <1>8, <2>2
<1>9. \A k \in Nat : k \in S
  BY <1>7, <1>8, Inductive
<1> QED BY <1>2, <1>5, <1>6, <1>9

(* Below the root, the first node of a level is hashed from two.           *)
LEMMA FirstNode ==
    ASSUME NEW s, IsSeq(s), Len(s) > 0, NEW h, h = Height(Len(s)), NEW l, l = LevelsOf(s)
    PROVE  /\ h \in Nat /\ l[0][1] = LeafHash(s[1]) /\ l[h][1] = MerkleRoot(s)
           /\ \A k \in Nat : k < h => l[k+1][1] = NodeHash(l[k][1], l[k][2])
<1>1. PICK n : n = Len(s)
  OBVIOUS
<1>2. n \in Nat \ {0}
  BY <1>1 DEF IsSeq
<1>3. h \in Nat /\ \A j \in 0..(h - 1) : NodesAfter(n)[j] > 1
  BY <1>1, <1>2, HeightFacts
<1>4. l[h][1] = MerkleRoot(s)
  BY RootLevelOf
<1>5. l[0] = LeafLevel(s) /\ \A k \in Nat : l[k+1] = Parents(l[k])
  BY LevelsUnfold
<1>6. l[0][1] = LeafHash(s[1])
  <2>1. 1 \in 1..Len(s)
    BY <1>1, <1>2
  <2>2. LeafLevel(s)[1] = LeafHash(s[1])
    BY <2>1, LeafLevelShape
  <2> QED BY <1>5, <2>2
<1>7. ASSUME NEW k \in Nat, k < h PROVE l[k+1][1] = NodeHash(l[k][1], l[k][2])
  <2>1. PICK m : m = l[k]
    OBVIOUS
  <2>2. IsSeq(m) /\ Len(m) = NodesAfter(n)[k]
    BY <1>1, <2>1, LevelShape
  <2>3. Len(m) > 1 /\ Len(m) \in Nat
    BY <1>3, <1>7, <2>2 DEF IsSeq
  <2>4. 1 \in 1..DivCeil2(Len(m)) /\ 2 * 1 <= Len(m)
    BY <2>3 DEF DivCeil2
  <2>5. Parents(m)[1] = NodeHash(m[1], m[2])
    BY <2>2, <2>4, ParentsShape
  <2> QED BY <1>5, <2>1, <2>5
<1> QED BY <1>3, <1>4, <1>6, <1>7

(* Under one root the lower tree begins with the leaf the other does.      *)
LEMMA LowerRootFirst ==
    ASSUME NEW s, IsSeq(s), Len(s) > 0, NEW t, IsSeq(t), Len(t) > 0,
           MerkleRoot(s) = MerkleRoot(t), Height(Len(s)) <= Height(Len(t))
    PROVE  s[1] = t[1]
<1>1. PICK g, h, l, m : /\ g = Height(Len(s)) /\ h = Height(Len(t))
                        /\ l = LevelsOf(s) /\ m = LevelsOf(t)
  OBVIOUS
<1>2. /\ g \in Nat /\ l[0][1] = LeafHash(s[1]) /\ l[g][1] = MerkleRoot(s)
      /\ \A k \in Nat : k < g => l[k+1][1] = NodeHash(l[k][1], l[k][2])
  BY <1>1, FirstNode
<1>3. /\ h \in Nat /\ m[0][1] = LeafHash(t[1]) /\ m[h][1] = MerkleRoot(t)
      /\ \A k \in Nat : k < h => m[k+1][1] = NodeHash(m[k][1], m[k][2])
  BY <1>1, FirstNode
<1>4. PICK S : S = {d \in Nat : d <= g => l[g - d][1] = m[h - d][1]}
  OBVIOUS
<1>5. 0 \in S
  BY <1>2, <1>3, <1>4
<1>6. ASSUME NEW d \in Nat, d \in S PROVE d + 1 \in S
  <2> SUFFICES ASSUME d + 1 <= g PROVE l[g - (d + 1)][1] = m[h - (d + 1)][1]
    BY <1>4
  <2>1. l[g - d][1] = m[h - d][1]
    BY <1>2, <1>4, <1>6
  <2>2. PICK j, k : j = g - (d + 1) /\ k = h - (d + 1)
    OBVIOUS
  <2>3. j \in Nat /\ k \in Nat /\ j < g /\ k < h /\ j + 1 = g - d /\ k + 1 = h - d
    <3>1. g \in Nat /\ h \in Nat /\ g <= h /\ d + 1 <= g
      BY <1>1, <1>2, <1>3
    <3> QED BY <2>2, <3>1
  <2>4. NodeHash(l[j][1], l[j][2]) = NodeHash(m[k][1], m[k][2])
    BY <1>2, <1>3, <2>1, <2>3
  <2> QED BY <2>2, <2>4, HashFacts
<1>7. \A d \in Nat : d \in S
  BY <1>5, <1>6, Inductive
<1>8. PICK k : k = h - g
  OBVIOUS
<1>9. k \in Nat /\ k <= h /\ LeafHash(s[1]) = m[k][1]
  <2>1. l[g - g][1] = m[h - g][1]
    BY <1>2, <1>4, <1>7
  <2> QED BY <1>1, <1>2, <1>3, <1>8, <2>1
<1>10. k = 0
  <2> SUFFICES ASSUME k # 0 PROVE FALSE
    OBVIOUS
  <2>1. PICK j \in Nat : k = j + 1 /\ j < h
    <3>1. k - 1 \in Nat /\ k = (k - 1) + 1 /\ k - 1 < h
      BY <1>3, <1>9
    <3> QED BY <3>1
  <2> QED BY <1>3, <1>9, <2>1, HashFacts
<1> QED BY <1>3, <1>9, <1>10, HashFacts

(* Batches under the same root begin with the same leaf, also when they    *)
(* are not of one length.                                                  *)
LEMMA RootFirst ==
    ASSUME NEW s, IsSeq(s), Len(s) > 0, NEW t, IsSeq(t), Len(t) > 0,
           MerkleRoot(s) = MerkleRoot(t)
    PROVE  s[1] = t[1]
<1>1. Height(Len(s)) \in Nat /\ Height(Len(t)) \in Nat
  BY HeightFacts DEF IsSeq
<1>2. Height(Len(s)) <= Height(Len(t)) \/ Height(Len(t)) <= Height(Len(s))
  BY <1>1
<1> QED BY <1>2, LowerRootFirst

-----------------------------------------------------------------------------
(* The fold binds the leaf *)

(* A fold at a node of a level of n nodes. *)
FoldAt(f, n) == f.count = n /\ f.index \in 0..(n - 1)

(* A fold that wanted for a path entry. *)
FoldFailed(f, path) == f.count = 1 /\ f.path_pos = Len(path) + 1

(* Every turn moves a fold up one level, or fails it for good.             *)
LEMMA TurnKeeps ==
    ASSUME NEW path, NEW n \in Nat, n > 0, NEW f, FoldAt(f, n) \/ FoldFailed(f, path),
           f = [current |-> f.current, index |-> f.index, count |-> f.count,
                path_pos |-> f.path_pos],
           NEW g, g = Turn(f, path)
    PROVE  /\ g = [current |-> g.current, index |-> g.index, count |-> g.count,
                   path_pos |-> g.path_pos]
           /\ n > 1 => FoldAt(g, DivCeil2(n)) \/ FoldFailed(g, path)
           /\ n <= 1 => FoldAt(g, n) \/ FoldFailed(g, path)
           /\ FoldFailed(f, path) => FoldFailed(g, path)
<1>1. PICK c, i, k, o : /\ f = [current |-> o, index |-> i, count |-> k, path_pos |-> c]
  OBVIOUS
<1>2. CASE k <= 1
  BY <1>1, <1>2 DEF Turn, FoldAt, FoldFailed, DivCeil2
<1>3. CASE ~(k <= 1)
  <2>1. k = n /\ i \in 0..(n - 1) /\ ~FoldFailed(f, path) /\ n > 1
    BY <1>1, <1>3 DEF FoldAt, FoldFailed
  <2>2. i \div 2 \in 0..(DivCeil2(n) - 1)
    BY <2>1 DEF DivCeil2
  <2>3. CASE \E node, used : g = Climb(f, node, used)
    <3>1. PICK node, used : g = Climb(f, node, used)
      BY <2>3
    <3>2. g = [current |-> node, index |-> i \div 2, count |-> DivCeil2(n),
               path_pos |-> c + used]
      BY <1>1, <2>1, <3>1 DEF Climb
    <3> QED BY <2>1, <2>2, <3>2 DEF FoldAt
  <2>4. CASE g = [f EXCEPT !.count = 1, !.path_pos = Len(path) + 1]
    <3>1. g = [current |-> o, index |-> i, count |-> 1, path_pos |-> Len(path) + 1]
      BY <1>1, <2>4
    <3> QED BY <2>1, <3>1 DEF FoldFailed
  <2> QED BY <1>1, <1>3, <2>3, <2>4 DEF Turn
<1> QED BY <1>2, <1>3

(* Until it is done or has failed, a fold is where it should be.           *)
LEMMA FoldPlace ==
    ASSUME NEW leaf, NEW i \in Nat, NEW c \in Nat, i < c, NEW path,
           NEW k \in 0..Height(c), NEW f, f = FoldsOf(leaf, i, c, path)[k]
    PROVE  /\ f = [current |-> f.current, index |-> f.index, count |-> f.count,
                   path_pos |-> f.path_pos]
           /\ FoldAt(f, NodesAfter(c)[k]) \/ FoldFailed(f, path)
<1>1. PICK F, n, h : F = FoldsOf(leaf, i, c, path) /\ n = NodesAfter(c) /\ h = Height(c)
  OBVIOUS
<1>2. F[0] = StartFold(leaf, i, c) /\ \A j \in Nat : F[j+1] = Turn(F[j], path)
  BY <1>1, FoldsUnfold
<1>3. n[0] = c /\ \A j \in Nat : n[j+1] = DivCeil2(n[j])
  BY <1>1, NodesUnfold
<1>4. h \in Nat /\ (\A j \in 0..(h-1) : n[j] > 1) /\ \A j \in Nat : n[j] \in Nat /\ n[j] > 0
  BY <1>1, HeightFacts, NodesShrink
<1>5. PICK S : S = {j \in Nat : j <= h =>
                      /\ F[j] = [current |-> F[j].current, index |-> F[j].index,
                                 count |-> F[j].count, path_pos |-> F[j].path_pos]
                      /\ FoldAt(F[j], n[j]) \/ FoldFailed(F[j], path)}
  OBVIOUS
<1>6. 0 \in S
  BY <1>2, <1>3, <1>5 DEF StartFold, FoldAt
<1>7. ASSUME NEW j \in Nat, j \in S PROVE j + 1 \in S
  <2> SUFFICES ASSUME j + 1 <= h
               PROVE  /\ F[j+1] = [current |-> F[j+1].current, index |-> F[j+1].index,
                                   count |-> F[j+1].count, path_pos |-> F[j+1].path_pos]
                      /\ FoldAt(F[j+1], n[j+1]) \/ FoldFailed(F[j+1], path)
    BY <1>5
  <2>1. j <= h /\ j \in 0..(h-1)
    BY <1>4
  <2>2. /\ F[j] = [current |-> F[j].current, index |-> F[j].index,
                   count |-> F[j].count, path_pos |-> F[j].path_pos]
        /\ FoldAt(F[j], n[j]) \/ FoldFailed(F[j], path)
    BY <1>5, <1>7, <2>1
  <2>3. n[j] > 1 /\ n[j] \in Nat /\ n[j] > 0 /\ n[j+1] = DivCeil2(n[j]) /\ F[j+1] = Turn(F[j], path)
    BY <1>2, <1>3, <1>4, <2>1
  <2> QED BY <2>2, <2>3, TurnKeeps
<1>8. \A j \in Nat : j \in S
  BY <1>6, <1>7, Inductive
<1>9. k \in Nat /\ k <= h
  BY <1>1, <1>4
<1> QED BY <1>1, <1>5, <1>8, <1>9

(* A turn of a fold that reaches the parent started from the node.         *)
LEMMA TurnBinds ==
    ASSUME NEW path, NEW l, IsSeq(l), Len(l) > 1,
           NEW f, FoldAt(f, Len(l)), ~FoldFailed(Turn(f, path), path),
           FoldAt(Turn(f, path), DivCeil2(Len(l))),
           f = [current |-> f.current, index |-> f.index, count |-> f.count,
                path_pos |-> f.path_pos],
           Turn(f, path).current = Parents(l)[Turn(f, path).index + 1]
    PROVE  f.current = l[f.index + 1]
<1>1. PICK c, i, k, o : f = [current |-> o, index |-> i, count |-> k, path_pos |-> c]
  OBVIOUS
<1>2. k = Len(l) /\ i \in 0..(Len(l) - 1) /\ Len(l) \in Nat
  BY <1>1 DEF FoldAt, IsSeq
<1>3. PICK p, g, x : p = Parents(l) /\ g = Turn(f, path) /\ x = path[c + 1]
  OBVIOUS
<1>4. /\ i % 2 \in {0, 1}
      /\ i % 2 = 0 /\ i + 1 >= Len(l) => p[(i \div 2) + 1] = l[i + 1]
      /\ i % 2 = 0 /\ i + 1 < Len(l) => p[(i \div 2) + 1] = NodeHash(l[i + 1], l[i + 2])
      /\ i % 2 = 1 => p[(i \div 2) + 1] = NodeHash(l[i], l[i + 1])
  BY <1>2, <1>3, ParentOf
<1>5. g.current = p[g.index + 1] /\ ~FoldFailed(g, path) /\ ~(k <= 1)
  BY <1>2, <1>3
<1>6. CASE i % 2 = 0 /\ i + 1 >= k
  <2>1. g = [current |-> o, index |-> i \div 2, count |-> DivCeil2(k), path_pos |-> c + 0]
    BY <1>1, <1>3, <1>5, <1>6 DEF Turn, IsPromoted, IsLeft, Climb
  <2> QED BY <1>1, <1>2, <1>4, <1>5, <1>6, <2>1
<1>7. CASE ~(i % 2 = 0 /\ i + 1 >= k)
  <2>1. ~IsPromoted(f)
    BY <1>1, <1>7 DEF IsPromoted, IsLeft
  <2>2. HasNext(f, path)
    <3> SUFFICES ASSUME ~HasNext(f, path) PROVE FALSE
      OBVIOUS
    <3>1. g = [current |-> o, index |-> i, count |-> 1, path_pos |-> Len(path) + 1]
      BY <1>1, <1>3, <1>5, <2>1 DEF Turn
    <3> QED BY <1>5, <3>1 DEF FoldFailed
  <2>3. g = [current |-> Combine(f, path), index |-> i \div 2, count |-> DivCeil2(k),
             path_pos |-> c + 1]
    BY <1>1, <1>3, <1>5, <2>1, <2>2 DEF Turn, Climb
  <2>4. Combine(f, path) = p[(i \div 2) + 1]
    BY <1>5, <2>3
  <2>5. CASE i % 2 = 0
    <3>1. Combine(f, path) = NodeHash(o, x)
      BY <1>1, <1>3, <2>5 DEF Combine, IsLeft
    <3>2. NodeHash(o, x) = NodeHash(l[i + 1], l[i + 2])
      BY <1>2, <1>4, <1>7, <2>4, <2>5, <3>1
    <3>3. o = l[i + 1]
      BY <3>2, HashFacts
    <3> QED BY <1>1, <3>3
  <2>6. CASE i % 2 = 1
    <3>1. Combine(f, path) = NodeHash(x, o)
      BY <1>1, <1>3, <2>6 DEF Combine, IsLeft
    <3>2. NodeHash(x, o) = NodeHash(l[i], l[i + 1])
      BY <1>4, <2>4, <2>6, <3>1
    <3>3. o = l[i + 1]
      BY <3>2, HashFacts
    <3> QED BY <1>1, <3>3
  <2> QED BY <1>4, <2>5, <2>6
<1> QED BY <1>6, <1>7

(* A fold that stands at a node of the level and has not failed. *)
OnTree(f, level, path) ==
    /\ f = [current |-> f.current, index |-> f.index, count |-> f.count,
            path_pos |-> f.path_pos]
    /\ FoldAt(f, Len(level)) /\ ~FoldFailed(f, path)
    /\ f.current = level[f.index + 1]

(* What folds to the root of as many leaves climbed from node to node of   *)
(* their tree (crypto.rs:280-326).                                         *)
LEMMA FoldClimbs ==
    ASSUME NEW leaves, IsSeq(leaves), NEW leaf, NEW i \in Nat, NEW path, Len(path) \in Nat,
           MerkleInclusionVerify(leaf, i, Len(leaves), path, MerkleRoot(leaves))
    PROVE  /\ Len(leaves) \in Nat /\ i < Len(leaves) /\ Height(Len(leaves)) \in Nat
           /\ \A k \in 0..Height(Len(leaves)) :
                 OnTree(FoldsOf(leaf, i, Len(leaves), path)[k], LevelsOf(leaves)[k], path)
<1>0. PICK c : c = Len(leaves)
  OBVIOUS
<1>1. PICK h, F, L, n : /\ h = Height(c) /\ n = NodesAfter(c)
                        /\ F = FoldsOf(leaf, i, c, path) /\ L = LevelsOf(leaves)
  OBVIOUS
<1>a. h = Height(c) /\ n = NodesAfter(c)
  BY <1>1
<1>b. F = FoldsOf(leaf, i, c, path)
  BY <1>1
<1>2. c \in Nat /\ i < c /\ Lands(F[h], path, MerkleRoot(leaves))
  BY <1>0, <1>1 DEF MerkleInclusionVerify, IsSeq
<1>3. h \in Nat /\ (\A j \in 0..(h-1) : n[j] > 1)
  <2>1. c \in Nat
    BY <1>2
  <2> QED BY ONLY <1>a, <2>1, HeightFacts
<1>4. L[0] = LeafLevel(leaves) /\ \A j \in Nat : L[j+1] = Parents(L[j])
  BY <1>1, LevelsUnfold
<1>5. F[0] = StartFold(leaf, i, c) /\ \A j \in Nat : F[j+1] = Turn(F[j], path)
  BY ONLY <1>b, FoldsUnfold
<1>6. \A j \in Nat : IsSeq(L[j]) /\ Len(L[j]) = n[j] /\ n[j] \in Nat /\ n[j] > 0
  <2>1. \A j \in Nat : n[j] \in Nat /\ n[j] > 0
    BY <1>1, <1>2, NodesShrink
  <2>2. \A j \in Nat : IsSeq(L[j]) /\ Len(L[j]) = n[j]
    BY <1>0, <1>1, LevelShape
  <2> QED BY <2>1, <2>2
<1>7. \A j \in 0..h : /\ F[j] = [current |-> F[j].current, index |-> F[j].index,
                                 count |-> F[j].count, path_pos |-> F[j].path_pos]
                      /\ FoldAt(F[j], n[j]) \/ FoldFailed(F[j], path)
  BY <1>1, <1>2, FoldPlace
(* A fold that lands has not failed on the way. *)
<1>8. PICK S : S = {j \in Nat : j <= h => FoldAt(F[h-j], n[h-j]) /\ ~FoldFailed(F[h-j], path)
                                          /\ F[h-j].current = L[h-j][F[h-j].index + 1]}
  OBVIOUS
<1>9. 0 \in S
  <2>1. h - 0 = h /\ h \in 0..h
    BY <1>3
  <2>2. ~FoldFailed(F[h], path)
    BY <1>2 DEF FoldFailed, Lands
  <2>3. FoldAt(F[h], n[h])
    BY <1>7, <2>1, <2>2
  <2>4. IsSeq(L[h]) /\ Len(L[h]) = 1 /\ MerkleRoot(leaves) = L[h][1]
    BY <1>0, <1>1, <1>2, RootLevelOf
  <2>5. n[h] = 1 /\ F[h].index = 0
    <3>1. n[h] = 1
      BY <1>3, <1>6, <2>4
    <3>2. F[h].index \in 0..(1 - 1)
      BY <2>3, <3>1 DEF FoldAt
    <3> QED BY <3>1, <3>2
  <2>6. F[h].current = L[h][F[h].index + 1]
    BY <1>2, <2>4, <2>5 DEF Lands
  <2> QED BY <1>8, <2>1, <2>2, <2>3, <2>6
<1>10. ASSUME NEW j \in Nat, j \in S PROVE j + 1 \in S
  <2> SUFFICES ASSUME j + 1 <= h
               PROVE  /\ FoldAt(F[h-(j+1)], n[h-(j+1)]) /\ ~FoldFailed(F[h-(j+1)], path)
                      /\ F[h-(j+1)].current = L[h-(j+1)][F[h-(j+1)].index + 1]
    BY <1>8
  <2>1. PICK k : k = h - (j + 1)
    OBVIOUS
  <2>2. k \in Nat /\ k + 1 = h - j /\ k \in 0..h /\ k \in 0..(h-1) /\ j <= h
    BY <1>3, <2>1
  <2>3. FoldAt(F[k+1], n[k+1]) /\ ~FoldFailed(F[k+1], path) /\ F[k+1].current = L[k+1][F[k+1].index + 1]
    BY <1>8, <1>10, <2>2
  <2>4. PICK f, l, m : f = F[k] /\ l = L[k] /\ m = n[k]
    OBVIOUS
  <2>5. /\ f = [current |-> f.current, index |-> f.index, count |-> f.count,
                path_pos |-> f.path_pos]
        /\ FoldAt(f, m) \/ FoldFailed(f, path)
    BY <1>7, <2>2, <2>4
  <2>6. /\ F[k+1] = Turn(f, path) /\ L[k+1] = Parents(l) /\ m \in Nat /\ m > 0 /\ m > 1
        /\ IsSeq(l) /\ Len(l) = m
    BY <1>3, <1>4, <1>5, <1>6, <2>2, <2>4
  <2>7. ~FoldFailed(f, path)
    <3> SUFFICES ASSUME FoldFailed(f, path) PROVE FALSE
      OBVIOUS
    <3>1. FoldFailed(Turn(f, path), path)
      BY <2>5, <2>6, TurnKeeps
    <3> QED BY <2>3, <2>6, <3>1
  <2>8. FoldAt(f, m)
    BY <2>5, <2>7
  <2>9. FoldAt(Turn(f, path), DivCeil2(m))
    <3>1. FoldAt(Turn(f, path), DivCeil2(m)) \/ FoldFailed(Turn(f, path), path)
      BY <2>5, <2>6, TurnKeeps
    <3> QED BY <2>3, <2>6, <3>1
  <2>10. Turn(f, path).current = Parents(l)[Turn(f, path).index + 1]
    BY <2>3, <2>6
  <2>11. ~FoldFailed(Turn(f, path), path)
    BY <2>3, <2>6
  <2>12. f.current = l[f.index + 1]
    BY <2>5, <2>6, <2>8, <2>9, <2>10, <2>11, TurnBinds
  <2> QED BY <2>1, <2>4, <2>7, <2>8, <2>12
<1>11. \A j \in Nat : j \in S
  BY <1>9, <1>10, Inductive
<1>12. ASSUME NEW k \in 0..h PROVE OnTree(F[k], L[k], path)
  <2>1. PICK j : j = h - k
    OBVIOUS
  <2>2. j \in Nat /\ j <= h /\ h - j = k /\ k \in Nat
    BY <1>3, <2>1
  <2>3. FoldAt(F[k], n[k]) /\ ~FoldFailed(F[k], path) /\ F[k].current = L[k][F[k].index + 1]
    BY <1>8, <1>11, <2>2
  <2> QED BY <1>6, <1>7, <2>2, <2>3 DEF OnTree
<1> QED BY <1>0, <1>1, <1>2, <1>3, <1>12

(* So it is about the leaf at its index.                                   *)
LEMMA FoldBinds ==
    ASSUME NEW leaves, IsSeq(leaves), NEW leaf, NEW i \in Nat, NEW path, Len(path) \in Nat,
           MerkleInclusionVerify(leaf, i, Len(leaves), path, MerkleRoot(leaves))
    PROVE  i < Len(leaves) /\ leaf = leaves[i + 1]
<1>1. PICK c, h, F, L : /\ c = Len(leaves) /\ h = Height(c)
                        /\ F = FoldsOf(leaf, i, c, path) /\ L = LevelsOf(leaves)
  OBVIOUS
<1>2. /\ c \in Nat /\ i < c /\ h \in Nat
      /\ \A k \in 0..h : OnTree(F[k], L[k], path)
  BY <1>1, FoldClimbs
<1>3. F[0] = StartFold(leaf, i, c) /\ L[0] = LeafLevel(leaves)
  <2>1. F = FoldsOf(leaf, i, c, path)
    BY <1>1
  <2>2. F[0] = StartFold(leaf, i, c)
    BY ONLY <2>1, FoldsUnfold
  <2> QED BY <1>1, <2>2, LevelsUnfold
<1>4. F[0].current = L[0][F[0].index + 1]
  <2>1. 0 \in 0..h
    BY <1>2
  <2> QED BY <1>2, <2>1 DEF OnTree
<1>5. F[0].current = LeafHash(leaf) /\ F[0].index = i
  BY <1>3 DEF StartFold
<1>6. L[0][i + 1] = LeafHash(leaves[i + 1])
  <2>1. i + 1 \in 1..c
    BY <1>2
  <2> QED BY <1>1, <1>3, <2>1, LeafLevelShape
<1>7. leaf = leaves[i + 1]
  BY <1>4, <1>5, <1>6, HashFacts
<1> QED BY <1>1, <1>2, <1>7

InPath(f, path) == f.path_pos \in 0..Len(path)

(* A turn of the fold uses of the path what the level contributes to the   *)
(* exporter's.                                                             *)
LEMMA TurnReads ==
    ASSUME NEW path, Len(path) \in Nat, NEW l, IsSeq(l), Len(l) > 1,
           NEW f, OnTree(f, l, path), InPath(f, path),
           NEW g, g = Turn(f, path), OnTree(g, Parents(l), path),
           NEW s, s = Sibling(l, f.index)
    PROVE  /\ g.index = f.index \div 2
           /\ g.path_pos = f.path_pos + Len(s) /\ InPath(g, path)
           /\ IsSeq(s) /\ Len(s) \in Nat
           /\ \A j \in 1..Len(s) : path[f.path_pos + j] = s[j]
<1>1. PICK c, i, k, o : f = [current |-> o, index |-> i, count |-> k, path_pos |-> c]
  BY DEF OnTree
<1>2. /\ k = Len(l) /\ i \in 0..(Len(l) - 1) /\ Len(l) \in Nat /\ c \in 0..Len(path)
      /\ o = l[i + 1] /\ ~(k <= 1)
  BY <1>1 DEF OnTree, FoldAt, IsSeq, InPath
<1>3. PICK p, x : p = Parents(l) /\ x = path[c + 1]
  OBVIOUS
<1>4. /\ i % 2 \in {0, 1}
      /\ i % 2 = 0 /\ i + 1 < Len(l) => p[(i \div 2) + 1] = NodeHash(l[i + 1], l[i + 2])
      /\ i % 2 = 1 => p[(i \div 2) + 1] = NodeHash(l[i], l[i + 1])
  BY <1>2, <1>3, ParentOf
<1>5. /\ IsSeq(s) /\ Len(s) \in Nat
      /\ i % 2 = 0 /\ i + 1 >= Len(l) => Len(s) = 0
      /\ ~(i % 2 = 0 /\ i + 1 >= Len(l)) =>
            Len(s) = 1 /\ s[1] = IF i % 2 = 1 THEN l[i] ELSE l[i + 2]
  <2>1. s = Sibling(l, i)
    BY <1>1
  <2>2. IsSeq(s) /\ (i % 2 = 0 /\ i + 1 >= Len(l) => Len(s) = 0)
        /\ (~(i % 2 = 0 /\ i + 1 >= Len(l)) =>
              Len(s) = 1 /\ s[1] = IF i % 2 = 1 THEN l[i] ELSE l[i + 2])
    BY <1>2, <2>1, SiblingShape
  <2> QED BY <2>2 DEF IsSeq
<1>6. g.current = p[g.index + 1] /\ ~FoldFailed(g, path)
  BY <1>3 DEF OnTree
<1>7. CASE i % 2 = 0 /\ i + 1 >= k
  <2>1. g = [current |-> o, index |-> i \div 2, count |-> DivCeil2(k), path_pos |-> c + 0]
    BY <1>1, <1>2, <1>7 DEF Turn, IsPromoted, IsLeft, Climb
  <2>2. Len(s) = 0
    BY <1>2, <1>5, <1>7
  <2>3. g.index = i \div 2 /\ g.path_pos = c /\ f.index = i /\ f.path_pos = c
    BY <1>1, <1>2, <2>1
  <2> QED BY <1>2, <1>5, <2>2, <2>3 DEF InPath
<1>8. CASE ~(i % 2 = 0 /\ i + 1 >= k)
  <2>1. ~IsPromoted(f)
    BY <1>1, <1>8 DEF IsPromoted, IsLeft
  <2>2. HasNext(f, path)
    <3> SUFFICES ASSUME ~HasNext(f, path) PROVE FALSE
      OBVIOUS
    <3>1. g = [current |-> o, index |-> i, count |-> 1, path_pos |-> Len(path) + 1]
      BY <1>1, <1>2, <2>1 DEF Turn
    <3> QED BY <1>6, <3>1 DEF FoldFailed
  <2>3. g = [current |-> Combine(f, path), index |-> i \div 2, count |-> DivCeil2(k),
             path_pos |-> c + 1]
    BY <1>1, <1>2, <2>1, <2>2 DEF Turn, Climb
  <2>4. c + 1 <= Len(path)
    BY <1>1, <1>2, <2>2 DEF HasNext
  <2>5. Combine(f, path) = p[(i \div 2) + 1]
    BY <1>6, <2>3
  <2>6. Len(s) = 1 /\ s[1] = IF i % 2 = 1 THEN l[i] ELSE l[i + 2]
    BY <1>2, <1>5, <1>8
  <2>7. x = s[1]
    <3>1. CASE i % 2 = 0
      <4>1. Combine(f, path) = NodeHash(o, x)
        BY <1>1, <1>3, <3>1 DEF Combine, IsLeft
      <4>2. NodeHash(o, x) = NodeHash(l[i + 1], l[i + 2])
        BY <1>2, <1>4, <1>8, <2>5, <3>1, <4>1
      <4>3. x = l[i + 2]
        BY <4>2, HashFacts
      <4> QED BY <2>6, <3>1, <4>3
    <3>2. CASE i % 2 = 1
      <4>1. Combine(f, path) = NodeHash(x, o)
        BY <1>1, <1>3, <3>2 DEF Combine, IsLeft
      <4>2. NodeHash(x, o) = NodeHash(l[i], l[i + 1])
        BY <1>4, <2>5, <3>2, <4>1
      <4>3. x = l[i]
        BY <4>2, HashFacts
      <4> QED BY <2>6, <3>2, <4>3
    <3> QED BY <1>4, <3>1, <3>2
  <2>8. \A j \in 1..Len(s) : path[c + j] = s[j]
    <3>1. \A j \in 1..1 : j = 1
      OBVIOUS
    <3> QED BY <1>3, <2>6, <2>7, <3>1
  <2>9. c + 1 \in 0..Len(path)
    BY <1>2, <2>4
  <2>10. g.index = i \div 2 /\ g.path_pos = c + 1 /\ f.index = i /\ f.path_pos = c
    BY <1>1, <2>3
  <2> QED BY <1>5, <2>6, <2>8, <2>9, <2>10 DEF InPath
<1> QED BY <1>7, <1>8

(* A path of merkle_audit_path is a list of digests (crypto.rs:220-244).   *)
LEMMA AuditPathIsSeq ==
    ASSUME NEW leaves, IsSeq(leaves), NEW i
    PROVE  IsSeq(MerkleAuditPath(leaves, i))
<1>1. PICK L, P, h : L = LevelsOf(leaves) /\ P = PathsOf(leaves, i) /\ h = Height(Len(leaves))
  OBVIOUS
<1>2. h \in Nat
  <2>1. PICK c : c = Len(leaves)
    OBVIOUS
  <2>2. c \in Nat /\ h = Height(c)
    BY <1>1, <2>1 DEF IsSeq
  <2> QED BY ONLY <2>2, HeightFacts
<1>3. P[0] = StartPath(i) /\ \A k \in Nat : P[k+1] = Extended(P[k], L[k])
  <2>1. L = LevelsOf(leaves) /\ P = PathsOf(leaves, i)
    BY <1>1
  <2> QED BY ONLY <2>1, PathsUnfold
<1>4. IsSeq(<<>>)
  <2>1. <<>> \in Seq({0})
    OBVIOUS
  <2> QED BY <2>1, SeqIsSeq
<1>5. \A level, idx : IsSeq(Sibling(level, idx))
  <2> TAKE level, idx
  <2>1. \A x : IsSeq(<<x>>)
    <3> TAKE x
    <3>1. <<x>> \in Seq({x})
      OBVIOUS
    <3> QED BY <3>1, SeqIsSeq
  <2> QED BY <1>4, <2>1 DEF Sibling
<1>6. PICK S : S = {k \in Nat : IsSeq(P[k].path)}
  OBVIOUS
<1>7. 0 \in S
  BY <1>3, <1>4, <1>6 DEF StartPath
<1>8. ASSUME NEW k \in Nat, k \in S PROVE k + 1 \in S
  <2>1. PICK s, t : s = P[k].path /\ t = Sibling(L[k], P[k].index)
    OBVIOUS
  <2>2. P[k+1].path = s \o t
    <3>1. P[k+1] = Extended(P[k], L[k])
      BY <1>3
    <3>2. Extended(P[k], L[k]).path = P[k].path \o Sibling(L[k], P[k].index)
      BY DEF Extended
    <3> QED BY <2>1, <3>1, <3>2
  <2>3. IsSeq(s) /\ IsSeq(t)
    BY <1>5, <1>6, <1>8, <2>1
  <2>4. IsSeq(s \o t)
    BY <2>3, ConcatSeq
  <2>5. IsSeq(P[k+1].path) /\ k + 1 \in Nat
    BY <2>2, <2>4
  <2> HIDE DEF IsSeq
  <2> QED BY <1>6, <2>5
<1>9. \A k \in Nat : k \in S
  BY <1>7, <1>8, Inductive
<1> QED BY <1>1, <1>2, <1>4, <1>6, <1>9 DEF MerkleAuditPath

(* The path of an accepted proof for as many leaves is the exporter's      *)
(* (crypto.rs:213-246, 280-326).                                           *)
LEMMA PathBinds ==
    ASSUME NEW leaves, IsSeq(leaves), NEW leaf, NEW i \in Nat, NEW path, IsSeq(path),
           MerkleInclusionVerify(leaf, i, Len(leaves), path, MerkleRoot(leaves))
    PROVE  path = MerkleAuditPath(leaves, i)
<1>1. PICK c, h, F, L, P : /\ c = Len(leaves) /\ h = Height(c)
                           /\ F = FoldsOf(leaf, i, c, path) /\ L = LevelsOf(leaves)
                           /\ P = PathsOf(leaves, i)
  OBVIOUS
<1>2. Len(path) \in Nat
  BY DEF IsSeq
<1>3. /\ c \in Nat /\ i < c /\ h \in Nat
      /\ \A k \in 0..h : OnTree(F[k], L[k], path)
  BY <1>1, <1>2, FoldClimbs
<1>4. F[0] = StartFold(leaf, i, c) /\ \A k \in Nat : F[k+1] = Turn(F[k], path)
  <2>1. F = FoldsOf(leaf, i, c, path)
    BY <1>1
  <2> QED BY ONLY <2>1, FoldsUnfold
<1>5. P[0] = StartPath(i) /\ \A k \in Nat : P[k+1] = Extended(P[k], L[k])
  <2>1. L = LevelsOf(leaves) /\ P = PathsOf(leaves, i)
    BY <1>1
  <2> QED BY ONLY <2>1, PathsUnfold
<1>6. \A k \in Nat : L[k+1] = Parents(L[k]) /\ IsSeq(L[k])
  BY <1>1, LevelsUnfold, LevelShape
<1>7. \A k \in 0..(h - 1) : Len(L[k]) > 1
  <2>1. PICK n : n = NodesAfter(c)
    OBVIOUS
  <2>2. \A k \in 0..(h - 1) : n[k] > 1
    <3>1. h = Height(c)
      BY <1>1
    <3> QED BY ONLY <1>3, <2>1, <3>1, HeightFacts
  <2>3. \A k \in Nat : Len(L[k]) = n[k]
    BY <1>1, <2>1, LevelShape
  <2> QED BY <1>3, <2>2, <2>3
(* After k turns the fold has used the exporter's path after k rounds. *)
<1>8. PICK S : S = {k \in Nat : k <= h =>
                       /\ F[k].index = P[k].index /\ F[k].path_pos = Len(P[k].path)
                       /\ F[k].path_pos \in 0..Len(path) /\ IsSeq(P[k].path)
                       /\ \A j \in 1..Len(P[k].path) : path[j] = P[k].path[j]}
  OBVIOUS
<1>9. 0 \in S
  <2>1. F[0].index = i /\ F[0].path_pos = 0
    BY <1>4 DEF StartFold
  <2>2. P[0].index = i /\ P[0].path = <<>>
    BY <1>5 DEF StartPath
  <2>3. IsSeq(<<>>) /\ Len(<<>>) = 0
    <3>1. <<>> \in Seq({})
      OBVIOUS
    <3> QED BY <3>1, SeqIsSeq
  <2> QED BY <1>2, <1>8, <2>1, <2>2, <2>3
<1>10. ASSUME NEW k \in Nat, k \in S, k + 1 <= h
       PROVE  /\ F[k+1].index = P[k+1].index /\ F[k+1].path_pos = Len(P[k+1].path)
              /\ F[k+1].path_pos \in 0..Len(path) /\ IsSeq(P[k+1].path)
              /\ \A j \in 1..Len(P[k+1].path) : path[j] = P[k+1].path[j]
  <2>1. PICK f, g, l, q, s : /\ f = F[k] /\ g = F[k+1] /\ l = L[k] /\ q = P[k].path
                             /\ s = Sibling(l, f.index)
    OBVIOUS
  <2>2. k \in 0..h /\ k + 1 \in 0..h /\ k \in 0..(h - 1) /\ k <= h
    BY <1>3, <1>10
  <2>3. OnTree(f, l, path) /\ OnTree(g, Parents(l), path) /\ IsSeq(l) /\ Len(l) > 1
    BY <1>3, <1>6, <1>7, <1>10, <2>1, <2>2
  <2>4. /\ f.index = P[k].index /\ f.path_pos = Len(q)
        /\ f.path_pos \in 0..Len(path) /\ IsSeq(q)
        /\ \A j \in 1..Len(q) : path[j] = q[j]
    BY <1>8, <1>10, <2>1, <2>2
  <2>5. g = Turn(f, path)
    BY <1>4, <1>10, <2>1
  <2>6. /\ g.index = f.index \div 2
        /\ g.path_pos = f.path_pos + Len(s) /\ InPath(g, path)
        /\ IsSeq(s) /\ Len(s) \in Nat
        /\ \A j \in 1..Len(s) : path[f.path_pos + j] = s[j]
    <3>1. InPath(f, path) /\ s = Sibling(l, f.index)
      BY <2>1, <2>4 DEF InPath
    <3> QED BY ONLY <1>2, <2>3, <2>5, <3>1, TurnReads
  <2>7. P[k+1].index = f.index \div 2 /\ P[k+1].path = q \o s
    <3>1. P[k+1] = Extended(P[k], L[k])
      BY <1>5, <1>10
    <3>2. /\ Extended(P[k], L[k]).index = P[k].index \div 2
          /\ Extended(P[k], L[k]).path = P[k].path \o Sibling(L[k], P[k].index)
      BY DEF Extended
    <3> QED BY <2>1, <2>4, <3>1, <3>2
  <2>8. PICK u : u = q \o s
    OBVIOUS
  <2>9. /\ IsSeq(u) /\ Len(u) = Len(q) + Len(s)
        /\ \A j \in 1..Len(q) : u[j] = q[j]
        /\ \A j \in 1..Len(s) : u[Len(q) + j] = s[j]
    BY <2>4, <2>6, <2>8, ConcatSeq
  <2>10. ASSUME NEW j \in 1..Len(u) PROVE path[j] = u[j]
    <3>1. Len(q) \in Nat
      BY <2>4
    <3>2. CASE j \in 1..Len(q)
      BY <2>4, <2>9, <3>2
    <3>3. CASE j \notin 1..Len(q)
      <4>1. PICK m : m = j - Len(q)
        OBVIOUS
      <4>2. m \in 1..Len(s) /\ j = Len(q) + m
        BY <2>6, <2>9, <2>10, <3>1, <3>3, <4>1
      <4> QED BY <2>4, <2>6, <2>9, <4>2
    <3> QED BY <3>2, <3>3
  <2>11. g.path_pos = Len(u) /\ g.path_pos \in 0..Len(path)
    BY <2>4, <2>6, <2>9 DEF InPath
  <2>12. P[k+1].path = u /\ g.index = P[k+1].index
    BY <2>6, <2>7, <2>8
  <2> QED BY <2>1, <2>9, <2>10, <2>11, <2>12
<1>11. \A k \in Nat : k \in S
  <2>1. ASSUME NEW k \in Nat, k \in S PROVE k + 1 \in S
    BY <1>8, <1>10, <2>1
  <2> QED BY <1>9, <2>1, Inductive
<1>12. PICK q : q = P[h].path
  OBVIOUS
<1>13. F[h].path_pos = Len(q) /\ IsSeq(q) /\ \A j \in 1..Len(q) : path[j] = q[j]
  <2>1. h \in S /\ h <= h
    BY <1>3, <1>11
  <2> QED BY <1>8, <1>12, <2>1
<1>14. F[h].path_pos = Len(path)
  BY <1>1 DEF MerkleInclusionVerify, Lands
<1>15. path = q
  <2>1. Len(q) = Len(path)
    BY <1>13, <1>14
  <2>2. path = [j \in 1..Len(path) |-> path[j]] /\ q = [j \in 1..Len(path) |-> q[j]]
    BY <1>13, <2>1 DEF IsSeq
  <2> QED BY <1>13, <2>1, <2>2
<1>16. ~(i >= c)
  BY <1>3
<1> QED BY <1>1, <1>12, <1>15, <1>16 DEF MerkleAuditPath
=============================================================================
