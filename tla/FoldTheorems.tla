------------------------------ MODULE FoldTheorems -----------------------------
(***************************************************************************)
(* What the folds of the community modules compute, by induction over a    *)
(* set: sums over finite sets, the joining of sequences, the least of      *)
(* finitely many numbers.                                                  *)
(***************************************************************************)
EXTENDS Integers, SequencesExt, FiniteSetTheorems, SequenceTheorems, WellFoundedInduction, TLAPS

(* A set of numbers that has 0, and with a number the next one, has all.   *)
LEMMA Numbers ==
    ASSUME NEW S, 0 \in S, \A n \in Nat : n \in S => n + 1 \in S
    PROVE  Nat \subseteq S
<1> DEFINE Rest == {n \in Nat : n \notin S}
<1> SUFFICES ASSUME Rest # {} PROVE FALSE
  OBVIOUS
<1>1. PICK n \in Rest : \A m \in Rest : <<m, n>> \notin OpToRel(<, Nat)
  BY WFMin, NatLessThanWellFounded, Zenon
<1>2. n \in Nat /\ n # 0
  OBVIOUS
<1>3. n - 1 \in Nat /\ n - 1 < n /\ (n - 1) + 1 = n
  BY <1>2
<1>4. n - 1 \notin Rest
  BY <1>1, <1>2, <1>3 DEF OpToRel
<1> QED
  BY <1>2, <1>3, <1>4

(***************************************************************************)
(* Arithmetic of positions                                                 *)
(***************************************************************************)

LEMMA DivMod ==
    ASSUME NEW b \in Nat \ {0}, NEW q \in Nat, NEW r \in 0 .. b - 1
    PROVE  (q * b + r) \div b = q /\ (q * b + r) % b = r
  OBVIOUS

LEMMA DivParts ==
    ASSUME NEW b \in Nat \ {0}, NEW n \in Nat
    PROVE  /\ n \div b \in Nat /\ n % b \in 0 .. b - 1
           /\ n = (n \div b) * b + (n % b)
  OBVIOUS

LEMMA TimesLess ==
    ASSUME NEW b \in Nat, NEW m \in Nat, NEW n \in Nat, m <= n
    PROVE  m * b <= n * b /\ m * b \in Nat
<1>1. PICK d \in Nat : n = m + d
  <2>1. n - m \in Nat /\ n = m + (n - m)
    OBVIOUS
  <2>2. QED
    BY <2>1
<1>2. n * b = m * b + d * b /\ d * b \in Nat /\ m * b \in Nat
  BY <1>1
<1>3. QED
  BY <1>2

LEMMA TimesStep ==
    ASSUME NEW b \in Int, NEW m \in Int
    PROVE  /\ (m + 1) * b = m * b + b /\ (m - 1) * b = m * b - b
           /\ m * b \in Int
  OBVIOUS

LEMMA DivExact == ASSUME NEW b \in Nat \ {0}, NEW q \in Int PROVE (q * b) \div b = q
  OBVIOUS

LEMMA Cancels ==
    ASSUME NEW a \in Int, NEW b \in Int, NEW f \in Nat \ {0}, a * f >= b * f
    PROVE  a >= b
<1>1. ASSUME a < b PROVE FALSE
  <2>1. PICK d \in Nat \ {0} : b = a + d
    <3>1. b - a \in Nat \ {0} /\ b = a + (b - a)
      BY <1>1
    <3> QED
      BY <3>1
  <2>2. b * f = a * f + d * f /\ d * f \in Nat \ {0} /\ a * f \in Int
    BY <2>1
  <2> QED
    BY <2>2
<1> QED
  BY <1>1

LEMMA TimesMore ==
    ASSUME NEW a \in Int, NEW b \in Int, NEW f \in Nat, a >= b
    PROVE  a * f >= b * f
<1>1. PICK d \in Nat : a = b + d
  <2>1. a - b \in Nat /\ a = b + (a - b)
    OBVIOUS
  <2> QED
    BY <2>1
<1>2. a * f = b * f + d * f /\ d * f \in Nat /\ b * f \in Int
  BY <1>1
<1> QED
  BY <1>2

LEMMA DivBound ==
    ASSUME NEW b \in Nat \ {0}, NEW m \in Nat, NEW n \in 0 .. m * b - 1
    PROVE  n \div b \in 0 .. m - 1
<1>0. m * b \in Int /\ n \in Nat
  <2>1. m * b \in Int
    OBVIOUS
  <2>2. QED
    BY <2>1
<1>1. n \div b \in Nat /\ n % b \in 0 .. b - 1 /\ n = (n \div b) * b + (n % b)
  BY <1>0, DivParts
<1>2. ASSUME m <= n \div b PROVE FALSE
  <2>1. m * b <= (n \div b) * b
    BY <1>1, <1>2, TimesLess
  <2>2. (n \div b) * b \in Int /\ m * b \in Int
    BY <1>1
  <2>3. QED
    BY <1>1, <2>1, <2>2
<1>3. QED
  BY <1>1, <1>2

(***************************************************************************)
(* Sums of functions over finite sets                                      *)
(***************************************************************************)
Pick(s) == CHOOSE x \in s : TRUE

(* h sums f up over every part of S, taking off what is picked. *)
SumsUp(f, S, h) ==
    \A s \in SUBSET S : h[s] = IF s = {} THEN 0 ELSE f[Pick(s)] + h[s \ {Pick(s)}]

(* A part that is not empty loses one element. *)
LEMMA PickOne ==
    ASSUME NEW s, IsFiniteSet(s), s # {}
    PROVE  /\ Pick(s) \in s /\ s \ {Pick(s)} \in SUBSET s /\ IsFiniteSet(s \ {Pick(s)})
           /\ Cardinality(s) \in Nat \ {0} /\ Cardinality(s \ {Pick(s)}) = Cardinality(s) - 1
<1>1. Pick(s) \in s
  BY DEF Pick
<1>2. Cardinality(s) \in Nat /\ Cardinality(s) # 0
  BY FS_CardinalityType, FS_EmptySet
<1> QED
  BY <1>1, <1>2, FS_RemoveElement

(* There is such a function, *)
LEMMA SumExists ==
    ASSUME NEW S, IsFiniteSet(S), NEW f, \A x \in S : f[x] \in Int
    PROVE  \E h \in [SUBSET S -> Int] : SumsUp(f, S, h)
<1> DEFINE Upto(n) == {s \in SUBSET S : Cardinality(s) <= n}
           Sums(n, h) == \A s \in Upto(n) : h[s] = IF s = {} THEN 0 ELSE f[Pick(s)] + h[s \ {Pick(s)}]
           N == {n \in Nat : \E h \in [Upto(n) -> Int] : Sums(n, h)}
<1>1. \A s \in SUBSET S : IsFiniteSet(s) /\ Cardinality(s) \in Nat /\ Cardinality(s) <= Cardinality(S)
  BY FS_Subset, FS_CardinalityType
<1>2. 0 \in N
  <2> DEFINE h == [s \in Upto(0) |-> 0]
  <2>1. h \in [Upto(0) -> Int]
    OBVIOUS
  <2>2. \A s \in Upto(0) : s = {}
    BY <1>1, FS_EmptySet
  <2>3. Sums(0, h)
    BY <2>2
  <2> HIDE DEF h, Upto, Sums
  <2> QED
    BY <2>1, <2>3
<1>3. ASSUME NEW n \in Nat, n \in N PROVE n + 1 \in N
  <2>1. PICK h \in [Upto(n) -> Int] : Sums(n, h)
    BY <1>3
  <2> DEFINE g == [s \in Upto(n + 1) |-> IF s \in Upto(n) THEN h[s]
                                         ELSE f[Pick(s)] + h[s \ {Pick(s)}]]
  <2>2. \A s \in Upto(n + 1) : s # {} => /\ Pick(s) \in S /\ s \ {Pick(s)} \in Upto(n)
                                         /\ s \ {Pick(s)} \in Upto(n + 1)
    <3> TAKE s \in Upto(n + 1)
    <3> HAVE s # {}
    <3>1. s \in SUBSET S /\ IsFiniteSet(s) /\ Cardinality(s) <= n + 1
      BY <1>1
    <3>2. /\ Pick(s) \in s /\ s \ {Pick(s)} \in SUBSET s
          /\ Cardinality(s) \in Nat \ {0} /\ Cardinality(s \ {Pick(s)}) = Cardinality(s) - 1
      BY <3>1, PickOne
    <3> QED
      BY <3>1, <3>2
  <2>3. \A s \in Upto(n) : s \in Upto(n + 1)
    BY <1>1
  <2>4. {} \in Upto(n)
    BY FS_EmptySet
  <2> HIDE DEF Upto
  <2>5. g \in [Upto(n + 1) -> Int]
    <3> SUFFICES ASSUME NEW s \in Upto(n + 1)
                 PROVE  (IF s \in Upto(n) THEN h[s] ELSE f[Pick(s)] + h[s \ {Pick(s)}]) \in Int
      OBVIOUS
    <3>1. CASE s \in Upto(n)
      BY <3>1
    <3>2. CASE s \notin Upto(n)
      <4>1. f[Pick(s)] \in Int /\ h[s \ {Pick(s)}] \in Int
        BY <2>2, <2>4, <3>2
      <4> QED
        BY <3>2, <4>1
    <3> QED
      BY <3>1, <3>2
  <2>6. ASSUME NEW s \in Upto(n + 1)
        PROVE  g[s] = IF s = {} THEN 0 ELSE f[Pick(s)] + g[s \ {Pick(s)}]
    <3>1. s # {} => g[s \ {Pick(s)}] = h[s \ {Pick(s)}]
      BY <2>2, <2>6
    <3>2. CASE s \in Upto(n)
      BY <2>1, <3>1, <3>2
    <3>3. CASE s \notin Upto(n)
      BY <2>4, <3>1, <3>3
    <3> QED
      BY <3>2, <3>3
  <2>7. Sums(n + 1, g)
    BY <2>6
  <2> HIDE DEF g, Sums
  <2> QED
    BY <2>5, <2>7
<1>4. Cardinality(S) \in N
  <2>1. Cardinality(S) \in Nat
    BY FS_CardinalityType
  <2> HIDE DEF N
  <2> QED
    BY <1>2, <1>3, <2>1, Numbers
<1>5. Upto(Cardinality(S)) = SUBSET S
  BY <1>1
<1> QED
  BY <1>4, <1>5 DEF SumsUp

(* and only one. *)
LEMMA SumOnce ==
    ASSUME NEW S, IsFiniteSet(S), NEW f, NEW h, NEW g, SumsUp(f, S, h), SumsUp(f, S, g)
    PROVE  \A s \in SUBSET S : h[s] = g[s]
<1> DEFINE N == {n \in Nat : \A s \in SUBSET S : Cardinality(s) = n => h[s] = g[s]}
<1>1. \A s \in SUBSET S : IsFiniteSet(s) /\ Cardinality(s) \in Nat
  BY FS_Subset, FS_CardinalityType
<1>2. 0 \in N
  <2>1. \A s \in SUBSET S : Cardinality(s) = 0 => s = {}
    BY <1>1, FS_EmptySet
  <2> QED
    BY <2>1 DEF SumsUp
<1>3. ASSUME NEW n \in Nat, n \in N PROVE n + 1 \in N
  <2> SUFFICES ASSUME NEW s \in SUBSET S, Cardinality(s) = n + 1 PROVE h[s] = g[s]
    OBVIOUS
  <2>1. s # {}
    BY FS_EmptySet
  <2>2. s \ {Pick(s)} \in SUBSET S /\ Cardinality(s \ {Pick(s)}) = n
    BY <1>1, <2>1, PickOne
  <2>3. h[s \ {Pick(s)}] = g[s \ {Pick(s)}]
    BY <1>3, <2>2
  <2> QED
    BY <2>1, <2>3 DEF SumsUp
<1>4. Nat \subseteq N
  <2> HIDE DEF N
  <2> QED
    BY <1>2, <1>3, Numbers
<1> QED
  BY <1>1, <1>4

(* SumFunctionOnSet is that function at the whole set. *)
LEMMA SumIs ==
    ASSUME NEW S, IsFiniteSet(S), NEW f, NEW h \in [SUBSET S -> Int], SumsUp(f, S, h)
    PROVE  SumFunctionOnSet(f, S) = h[S]
<1> DEFINE D(i) == [s \in SUBSET S |-> IF s = {} THEN 0
                       ELSE f[CHOOSE x \in s : TRUE] + i[s \ {CHOOSE x \in s : TRUE}]]
           iter == CHOOSE i : i = D(i)
<1>1. SumFunctionOnSet(f, S) = iter[S]
  BY DEF SumFunctionOnSet, FoldFunctionOnSet, MapThenFoldSet
<1>2. h = D(h)
  BY DEF SumsUp, Pick
<1>3. iter = D(iter)
  BY <1>2
<1>4. SumsUp(f, S, iter)
  <2> HIDE DEF iter
  <2>1. \A s \in SUBSET S : iter[s] = D(iter)[s]
    BY <1>3
  <2> QED
    BY <2>1 DEF SumsUp, Pick
<1>5. h[S] = iter[S]
  <2> HIDE DEF iter
  <2>1. \A s \in SUBSET S : h[s] = iter[s]
    BY <1>4, SumOnce
  <2> QED
    BY <2>1
<1> QED
  BY <1>1, <1>5

(* A sum is a number, of nothing 0, and only of what is summed. *)
LEMMA SumNumber ==
    ASSUME NEW S, IsFiniteSet(S), NEW f, \A x \in S : f[x] \in Int
    PROVE  SumFunctionOnSet(f, S) \in Int
<1>1. PICK h \in [SUBSET S -> Int] : SumsUp(f, S, h)
  BY SumExists
<1> QED
  BY <1>1, SumIs

LEMMA SumEmpty == ASSUME NEW f PROVE SumFunctionOnSet(f, {}) = 0
<1>1. IsFiniteSet({})
  BY FS_EmptySet
<1>2. PICK h \in [SUBSET {} -> Int] : SumsUp(f, {}, h)
  BY <1>1, SumExists
<1>3. h[{}] = 0
  BY <1>2 DEF SumsUp
<1> QED
  BY <1>1, <1>2, <1>3, SumIs

LEMMA SumSame ==
    ASSUME NEW S, IsFiniteSet(S), NEW f, NEW g, \A x \in S : f[x] = g[x] /\ f[x] \in Int
    PROVE  SumFunctionOnSet(f, S) = SumFunctionOnSet(g, S)
<1>1. PICK h \in [SUBSET S -> Int] : SumsUp(f, S, h)
  BY SumExists
<1>2. \A s \in SUBSET S : s # {} => Pick(s) \in S
  BY DEF Pick
<1>3. SumsUp(g, S, h)
  BY <1>1, <1>2 DEF SumsUp
<1>4. SumFunctionOnSet(f, S) = h[S] /\ SumFunctionOnSet(g, S) = h[S]
  BY <1>1, <1>3, SumIs
<1> QED
  BY <1>4

(* A function that sums f up, and that takes one more. *)
SumTable(f, S, h) ==
    /\ IsFiniteSet(S) /\ \A x \in S : f[x] \in Int
    /\ h \in [SUBSET S -> Int] /\ SumsUp(f, S, h)
AddsOne(f, h, part, one) == h[part \cup {one}] = h[part] + f[one]

(* One term more, wherever it is picked. *)
LEMMA SumsAdd ==
    ASSUME NEW S, NEW f, NEW h, SumTable(f, S, h),
           NEW part, part \subseteq S, NEW one, one \in S, one \notin part
    PROVE  AddsOne(f, h, part, one)
<1>0. /\ IsFiniteSet(S) /\ \A x \in S : f[x] \in Int
      /\ h \in [SUBSET S -> Int] /\ SumsUp(f, S, h)
  BY DEF SumTable
<1> USE <1>0
<1> DEFINE Adds(n) == \A s \in SUBSET S : \A x \in S \ s : Cardinality(s) = n => h[s \cup {x}] = h[s] + f[x]
           N == {n \in Nat : Adds(n)}
<1>1. \A s \in SUBSET S : IsFiniteSet(s) /\ Cardinality(s) \in Nat
  BY FS_Subset, FS_CardinalityType
<1>2. \A x \in S : h[{x}] = f[x]
  <2> TAKE x \in S
  <2>1. {x} \in SUBSET S /\ {x} # {} /\ Pick({x}) = x /\ {x} \ {x} = {}
    BY DEF Pick
  <2>2. h[{}] = 0 /\ h[{x}] = f[x] + h[{}]
    BY <2>1 DEF SumsUp
  <2> QED
    BY <2>2
<1>3. Adds(0)
  <2> SUFFICES ASSUME NEW s \in SUBSET S, NEW x \in S \ s, Cardinality(s) = 0
               PROVE  h[s \cup {x}] = h[s] + f[x]
    OBVIOUS
  <2>1. s = {} /\ s \cup {x} = {x} /\ h[s] = 0
    BY <1>1, FS_EmptySet DEF SumsUp
  <2> QED
    BY <1>2, <2>1
<1>4. ASSUME NEW n \in Nat, Adds(n) PROVE Adds(n + 1)
  <2> SUFFICES ASSUME NEW s \in SUBSET S, NEW x \in S \ s, Cardinality(s) = n + 1
               PROVE  h[s \cup {x}] = h[s] + f[x]
    OBVIOUS
  <2> DEFINE t == s \cup {x}
  <2>0. t \in SUBSET S /\ t # {} /\ Pick(t) \in t
    BY DEF Pick
  <2>1. PICK y \in t : y = Pick(t)
    BY <2>0
  <2>2. h[t] = f[y] + h[t \ {y}]
    BY <2>0, <2>1 DEF SumsUp
  <2>3. CASE y = x
    <3>1. t \ {y} = s
      BY <2>3
    <3>2. h[s] \in Int /\ f[x] \in Int
      OBVIOUS
    <3>3. h[t] = f[x] + h[s]
      BY <2>2, <2>3, <3>1
    <3> HIDE DEF t
    <3>4. h[t] = h[s] + f[x]
      BY <3>2, <3>3
    <3> QED
      BY <3>4 DEF t
  <2>4. CASE y # x
    <3> DEFINE r == s \ {y}
    <3>0. y \in s /\ x \in S /\ x \notin s /\ s \in SUBSET S
      BY <2>4
    <3>1. y \in s /\ r \in SUBSET S /\ t \ {y} = r \cup {x} /\ s = r \cup {y}
          /\ x \in S \ r /\ y \in S \ r
      BY <2>4, <3>0
    <3>2. Cardinality(r) = n
      <4>1. Cardinality(s \ {y}) = Cardinality(s) - 1
        BY <1>1, <3>1, FS_RemoveElement
      <4> QED
        BY <4>1
    <3> HIDE DEF r, t
    <3>3. h[r \cup {x}] = h[r] + f[x]
      BY <1>4, <3>1, <3>2
    <3>4. h[r \cup {y}] = h[r] + f[y]
      BY <1>4, <3>1, <3>2
    <3>5. h[r] \in Int /\ f[x] \in Int /\ f[y] \in Int
      BY <3>1
    <3>6. h[t] = f[y] + (h[r] + f[x]) /\ h[s] = h[r] + f[y]
      BY <2>2, <3>1, <3>3, <3>4
    <3>7. h[t] = h[s] + f[x]
      BY <3>5, <3>6
    <3> QED
      BY <3>7 DEF t
  <2> QED
    BY <2>3, <2>4
<1>5. Nat \subseteq N
  <2> HIDE DEF Adds
  <2>1. 0 \in N /\ \A n \in Nat : n \in N => n + 1 \in N
    BY <1>3, <1>4
  <2> HIDE DEF N
  <2> QED
    BY <2>1, Numbers
<1>6. h[part \cup {one}] = h[part] + f[one]
  BY <1>1, <1>5
<1> QED
  BY <1>6 DEF AddsOne

LEMMA SumAdd ==
    ASSUME NEW S, IsFiniteSet(S), NEW x, x \notin S, NEW f, \A y \in S \cup {x} : f[y] \in Int
    PROVE  SumFunctionOnSet(f, S \cup {x}) = SumFunctionOnSet(f, S) + f[x]
<1> DEFINE T == S \cup {x}
<1>1. IsFiniteSet(T) /\ \A y \in T : f[y] \in Int
  BY FS_AddElement
<1>2. S \subseteq T /\ x \in T /\ T = S \cup {x}
  OBVIOUS
<1> HIDE DEF T
<1>3. PICK h \in [SUBSET T -> Int] : SumsUp(f, T, h)
  BY <1>1, SumExists
<1>4. h[S \cup {x}] = h[S] + f[x]
  <2>1. SumTable(f, T, h)
    BY <1>1, <1>3 DEF SumTable
  <2>2. AddsOne(f, h, S, x)
    BY <1>2, <2>1, SumsAdd
  <2> QED
    BY <2>2 DEF AddsOne
<1> DEFINE g == [s \in SUBSET S |-> h[s]]
<1>5. g \in [SUBSET S -> Int] /\ g[S] = h[S]
  BY <1>2
<1>6. SumsUp(f, S, g)
  <2>1. \A s \in SUBSET S : s \ {Pick(s)} \in SUBSET S /\ s \in SUBSET T
    BY <1>2
  <2> QED
    BY <1>3, <2>1 DEF SumsUp
<1> HIDE DEF g
<1>7. SumFunctionOnSet(f, S) = h[S]
  BY <1>5, <1>6, SumIs
<1>8. SumFunctionOnSet(f, T) = h[T]
  BY <1>1, <1>3, SumIs
<1> QED
  BY <1>2, <1>4, <1>7, <1>8

(* The function by which FlattenSeq joins the sequences of q, one by one. *)
Joined(q, f, n) == \A i \in 1 .. n : f[i] = IF i = 1 THEN q[i] ELSE f[i - 1] \o q[i]

(* There is such a function, *)
LEMMA JoinedExists ==
    ASSUME NEW T, NEW q \in Seq(Seq(T)), NEW n \in Nat, n <= Len(q)
    PROVE  \E f \in [1 .. n -> Seq(T)] : Joined(q, f, n)
<1> DEFINE S == {m \in Nat : m <= Len(q) => \E f \in [1 .. m -> Seq(T)] : Joined(q, f, m)}
<1>1. 0 \in S
  <2> DEFINE f == [i \in 1 .. 0 |-> <<>>]
  <2>1. f \in [1 .. 0 -> Seq(T)]
    OBVIOUS
  <2>2. Joined(q, f, 0)
    BY DEF Joined
  <2> HIDE DEF f
  <2> QED
    BY <2>1, <2>2
<1>2. ASSUME NEW m \in Nat, m \in S PROVE m + 1 \in S
  <2> SUFFICES ASSUME m + 1 <= Len(q)
               PROVE  \E f \in [1 .. m + 1 -> Seq(T)] : Joined(q, f, m + 1)
    OBVIOUS
  <2>1. PICK f \in [1 .. m -> Seq(T)] : Joined(q, f, m)
    BY <1>2
  <2> DEFINE g == [i \in 1 .. m + 1 |-> IF i <= m THEN f[i]
                                        ELSE IF i = 1 THEN q[i] ELSE f[i - 1] \o q[i]]
  <2>2. \A i \in 1 .. m + 1 : q[i] \in Seq(T)
    OBVIOUS
  <2>3. \A i \in 1 .. m + 1 : g[i] \in Seq(T)
    <3> TAKE i \in 1 .. m + 1
    <3>1. CASE i <= m
      BY <3>1
    <3>2. CASE i = m + 1 /\ i # 1
      BY <2>2, <3>2
    <3>3. CASE i = m + 1 /\ i = 1
      BY <2>2, <3>3
    <3> QED
      BY <3>1, <3>2, <3>3
  <2>4. g \in [1 .. m + 1 -> Seq(T)]
    BY <2>3
  <2>5. \A i \in 1 .. m + 1 : g[i] = IF i = 1 THEN q[i] ELSE g[i - 1] \o q[i]
    <3> TAKE i \in 1 .. m + 1
    <3>1. CASE i <= m
      <4>1. i = 1 \/ i - 1 \in 1 .. m
        BY <3>1
      <4>2. i \in 1 .. m /\ g[i] = f[i] /\ (i # 1 => g[i - 1] = f[i - 1])
        BY <3>1, <4>1
      <4> QED
        BY <2>1, <4>2 DEF Joined
    <3>2. CASE i = m + 1
      <4>1. g[i] = IF i = 1 THEN q[i] ELSE f[i - 1] \o q[i]
        BY <3>2
      <4>2. i # 1 => i - 1 \in 1 .. m /\ i - 1 \in 1 .. m + 1 /\ i - 1 <= m
        BY <3>2
      <4>3. i # 1 => g[i - 1] = f[i - 1]
        BY <4>2
      <4> QED
        BY <4>1, <4>3
    <3> QED
      BY <3>1, <3>2
  <2> HIDE DEF g
  <2> QED
    BY <2>4, <2>5 DEF Joined
<1>3. n \in S
  <2> HIDE DEF S
  <2> QED
    BY <1>1, <1>2, Numbers
<1> QED
  BY <1>3

(* and only one. *)
LEMMA JoinedOnce ==
    ASSUME NEW q, NEW p, NEW f, NEW g, NEW n \in Nat,
           Joined(q, f, n), Joined(p, g, n), \A i \in 1 .. n : q[i] = p[i]
    PROVE  \A i \in 1 .. n : f[i] = g[i]
<1> DEFINE S == {m \in Nat : m \in 1 .. n => f[m] = g[m]}
<1>1. 0 \in S
  OBVIOUS
<1>2. ASSUME NEW m \in Nat, m \in S PROVE m + 1 \in S
  <2> SUFFICES ASSUME m + 1 \in 1 .. n PROVE f[m + 1] = g[m + 1]
    OBVIOUS
  <2>1. CASE m = 0
    BY <2>1 DEF Joined
  <2>2. CASE m # 0
    <3>1. f[m] = g[m] /\ (m + 1) - 1 = m /\ m + 1 # 1
      BY <1>2, <2>2
    <3>2. f[m + 1] = f[m] \o q[m + 1] /\ g[m + 1] = g[m] \o p[m + 1]
      BY <3>1 DEF Joined
    <3> QED
      BY <3>1, <3>2
  <2> QED
    BY <2>1, <2>2
<1>3. Nat \subseteq S
  <2> HIDE DEF S
  <2> QED
    BY <1>1, <1>2, Numbers
<1> QED
  BY <1>3

(* FlattenSeq is the last one of any such function. *)
LEMMA FlattenJoined ==
    ASSUME NEW T, NEW q \in Seq(Seq(T)), q # <<>>,
           NEW f \in [1 .. Len(q) -> Seq(T)], Joined(q, f, Len(q))
    PROVE  FlattenSeq(q) = f[Len(q)]
<1> DEFINE D(h) == [i \in 1 .. Len(q) |-> IF i = 1 THEN q[i] ELSE h[i - 1] \o q[i]]
           flat == CHOOSE h : h = D(h)
<1>1. FlattenSeq(q) = flat[Len(q)]
  BY Len(q) # 0 DEF FlattenSeq
<1>2. f = D(f)
  BY DEF Joined
<1>3. flat = D(flat)
  BY <1>2
<1>4. Joined(q, flat, Len(q))
  <2> HIDE DEF flat
  <2>1. \A i \in 1 .. Len(q) : flat[i] = D(flat)[i]
    BY <1>3
  <2> QED
    BY <2>1 DEF Joined
<1>5. Len(q) \in 1 .. Len(q)
  OBVIOUS
<1>6. f[Len(q)] = flat[Len(q)]
  <2> HIDE DEF flat
  <2>1. Len(q) \in Nat
    OBVIOUS
  <2>2. \A i \in 1 .. Len(q) : f[i] = flat[i]
    BY <1>4, <2>1, JoinedOnce
  <2> QED
    BY <1>5, <2>2
<1> QED
  BY <1>1, <1>6

(* What FlattenSeq makes of one sequence more. *)
LEMMA FlattenAppend ==
    ASSUME NEW T, NEW q \in Seq(Seq(T)), NEW t \in Seq(T)
    PROVE  /\ FlattenSeq(q) \in Seq(T)
           /\ FlattenSeq(Append(q, t)) = FlattenSeq(q) \o t
<1> DEFINE n == Len(q)
           p == Append(q, t)
<1>1. /\ p \in Seq(Seq(T)) /\ Len(p) = n + 1 /\ p # <<>> /\ n \in Nat
      /\ p[n + 1] = t /\ \A i \in 1 .. n : p[i] = q[i]
  <2>1. p \in Seq(Seq(T)) /\ Len(p) = n + 1 /\ n \in Nat
    OBVIOUS
  <2>2. p # <<>>
    <3>1. Len(p) # 0
      BY <2>1
    <3> HIDE DEF p
    <3> QED
      BY <3>1
  <2>3. p[n + 1] = t
    OBVIOUS
  <2>4. \A i \in 1 .. n : p[i] = q[i]
    OBVIOUS
  <2> QED
    BY <2>1, <2>2, <2>3, <2>4
<1>2. PICK g \in [1 .. n + 1 -> Seq(T)] : Joined(p, g, n + 1)
  <2> HIDE DEF p, n
  <2>1. n + 1 \in Nat /\ n + 1 <= Len(p)
    BY <1>1
  <2> QED
    BY <1>1, <2>1, JoinedExists
<1>3. FlattenSeq(p) = g[n + 1]
  BY <1>1, <1>2, FlattenJoined
<1>4. CASE q = <<>>
  <2>1. FlattenSeq(q) = <<>>
    BY <1>4 DEF FlattenSeq
  <2>2. g[1] = t
    BY <1>1, <1>2, <1>4 DEF Joined
  <2> QED
    <3>1. n = 0 /\ <<>> \o t = t /\ <<>> \in Seq(T)
      BY <1>4
    <3>2. FlattenSeq(p) = t
      BY <1>3, <2>2, <3>1
    <3> HIDE DEF n
    <3> QED
      BY <2>1, <3>1, <3>2, Zenon
<1>5. CASE q # <<>>
  <2> DEFINE f == [i \in 1 .. n |-> g[i]]
  <2>1. n # 0 /\ n \in 1 .. n /\ n + 1 \in 1 .. n + 1 /\ (n + 1) - 1 = n /\ n + 1 # 1
    BY <1>5
  <2>2. f \in [1 .. n -> Seq(T)]
    OBVIOUS
  <2>3. Joined(q, f, n)
    <3> SUFFICES ASSUME NEW i \in 1 .. n
                 PROVE  f[i] = IF i = 1 THEN q[i] ELSE f[i - 1] \o q[i]
      BY DEF Joined
    <3>1. i \in 1 .. n + 1 /\ p[i] = q[i] /\ f[i] = g[i]
      BY <1>1
    <3>2. i # 1 => f[i - 1] = g[i - 1]
      BY <1>1
    <3> HIDE DEF p, f
    <3> QED
      BY <1>2, <3>1, <3>2 DEF Joined
  <2>4. FlattenSeq(q) = f[n]
    BY <1>5, <2>2, <2>3, FlattenJoined
  <2>5. g[n + 1] = g[n] \o t
    BY <1>1, <1>2, <2>1 DEF Joined
  <2> QED
    BY <1>3, <2>1, <2>2, <2>4, <2>5
<1> QED
  BY <1>4, <1>5

(* A sum over the first numbers, and the next one. *)
LEMMA SumNext ==
    ASSUME NEW n \in Nat, NEW f, \A i \in 1 .. n + 1 : f[i] \in Int
    PROVE  /\ SumFunctionOnSet(f, 1 .. n) \in Int
           /\ SumFunctionOnSet(f, 1 .. n + 1) = SumFunctionOnSet(f, 1 .. n) + f[n + 1]
<1> DEFINE S == 1 .. n
           x == n + 1
<1>1. IsFiniteSet(S) /\ x \notin S /\ 1 .. n + 1 = S \cup {x}
  BY FS_Interval
<1>2. \A i \in S \cup {x} : f[i] \in Int
  BY <1>1
<1>3. \A i \in S : f[i] \in Int
  OBVIOUS
<1> HIDE DEF S, x
<1>4. SumFunctionOnSet(f, S \cup {x}) = SumFunctionOnSet(f, S) + f[x]
  BY <1>1, <1>2, SumAdd
<1>5. SumFunctionOnSet(f, S) \in Int
  BY <1>1, <1>3, SumNumber
<1> QED
  BY <1>1, <1>4, <1>5 DEF S, x

(* Zeros at the end add nothing. *)
LEMMA SumPadded ==
    ASSUME NEW m \in Nat, NEW n \in Nat, m <= n,
           NEW f, \A i \in 1 .. n : f[i] \in Int, \A i \in m + 1 .. n : f[i] = 0
    PROVE  SumFunctionOnSet(f, 1 .. n) = SumFunctionOnSet(f, 1 .. m)
<1> DEFINE S == {k \in Nat : m + k <= n =>
                   SumFunctionOnSet(f, 1 .. m + k) = SumFunctionOnSet(f, 1 .. m)}
<1>1. 0 \in S
  OBVIOUS
<1>2. ASSUME NEW k \in Nat, k \in S PROVE k + 1 \in S
  <2> SUFFICES ASSUME m + (k + 1) <= n
               PROVE  SumFunctionOnSet(f, 1 .. m + (k + 1)) = SumFunctionOnSet(f, 1 .. m)
    OBVIOUS
  <2> DEFINE l == m + k
  <2>1. l \in Nat /\ l <= n /\ m + (k + 1) = l + 1 /\ l + 1 \in m + 1 .. n
    OBVIOUS
  <2>2. SumFunctionOnSet(f, 1 .. l) = SumFunctionOnSet(f, 1 .. m)
    BY <1>2, <2>1
  <2> HIDE DEF l
  <2>3. \A i \in 1 .. l + 1 : f[i] \in Int
    BY <2>1
  <2>4. /\ SumFunctionOnSet(f, 1 .. l) \in Int
        /\ SumFunctionOnSet(f, 1 .. l + 1) = SumFunctionOnSet(f, 1 .. l) + f[l + 1]
    BY <2>1, <2>3, SumNext
  <2>5. f[l + 1] = 0
    BY <2>1
  <2> QED
    BY <2>1, <2>2, <2>4, <2>5
<1>3. n - m \in S
  <2>1. n - m \in Nat
    OBVIOUS
  <2> HIDE DEF S
  <2> QED
    BY <1>1, <1>2, <2>1, Numbers
<1>4. m + (n - m) = n
  OBVIOUS
<1> QED
  BY <1>3, <1>4

(***************************************************************************)
(* Recursive functions and the least of finitely many                      *)
(***************************************************************************)

(* h goes n steps from a, by a step that stays in V. *)
Iterates(a, step, n, h) == h[0] = a /\ \A i \in 1 .. n : h[i] = step[<<i, h[i - 1]>>]
StaysIn(V, step, n) == \A i \in 1 .. n : \A v \in V : step[<<i, v>>] \in V

(* There is such a function. *)
LEMMA Iterate ==
    ASSUME NEW V, NEW a, a \in V, NEW step, NEW n, n \in Nat, StaysIn(V, step, n)
    PROVE  \E h \in [0 .. n -> V] : Iterates(a, step, n, h)
<1> USE DEF Iterates, StaysIn
<1> DEFINE Goes(m, h) == h[0] = a /\ \A i \in 1 .. m : h[i] = step[<<i, h[i - 1]>>]
           S == {m \in Nat : m <= n => \E h \in [0 .. m -> V] : Goes(m, h)}
<1>1. 0 \in S
  <2> DEFINE h == [i \in 0 .. 0 |-> a]
  <2>1. h \in [0 .. 0 -> V] /\ Goes(0, h)
    OBVIOUS
  <2> HIDE DEF h, Goes
  <2> QED
    BY <2>1
<1>2. ASSUME NEW m \in Nat, m \in S PROVE m + 1 \in S
  <2> SUFFICES ASSUME m + 1 <= n PROVE \E h \in [0 .. m + 1 -> V] : Goes(m + 1, h)
    OBVIOUS
  <2>1. PICK h \in [0 .. m -> V] : Goes(m, h)
    BY <1>2
  <2> DEFINE g == [i \in 0 .. m + 1 |-> IF i <= m THEN h[i] ELSE step[<<i, h[i - 1]>>]]
  <2>2. h[m] \in V /\ step[<<m + 1, h[m]>>] \in V
    OBVIOUS
  <2>3. \A i \in 0 .. m + 1 : (i <= m => g[i] = h[i]) /\ (i = m + 1 => g[i] = step[<<m + 1, h[m]>>])
    OBVIOUS
  <2>4. g \in [0 .. m + 1 -> V]
    <3>1. \A i \in 0 .. m + 1 : g[i] \in V
      <4> HIDE DEF g
      <4> QED
        BY <2>2, <2>3
    <3> QED
      BY <3>1
  <2> HIDE DEF g
  <2>5. g[0] = a
    BY <2>1, <2>3
  <2>6. ASSUME NEW i \in 1 .. m + 1 PROVE g[i] = step[<<i, g[i - 1]>>]
    <3>1. i - 1 \in 0 .. m + 1 /\ i - 1 <= m /\ i \in 0 .. m + 1
      OBVIOUS
    <3>2. g[i - 1] = h[i - 1]
      BY <2>3, <3>1
    <3>3. CASE i <= m
      BY <2>1, <2>3, <3>1, <3>2, <3>3
    <3>4. CASE i = m + 1
      BY <2>3, <3>1, <3>2, <3>4
    <3> QED
      BY <3>3, <3>4
  <2> QED
    BY <2>4, <2>5, <2>6
<1>3. n \in S
  <2> HIDE DEF S
  <2> QED
    BY <1>1, <1>2, Numbers
<1> QED
  BY <1>3

(* Functions that take the same steps are the same. *)
SameStep(n, h, g) == h[0] = g[0] /\ \A i \in 1 .. n : h[i - 1] = g[i - 1] => h[i] = g[i]
SameUpTo(n, h, g) == \A i \in 0 .. n : h[i] = g[i]

LEMMA SameSteps == ASSUME NEW n, n \in Nat, NEW h, NEW g, SameStep(n, h, g) PROVE SameUpTo(n, h, g)
<1> USE DEF SameStep, SameUpTo
<1> DEFINE S == {m \in Nat : m <= n => h[m] = g[m]}
<1>1. 0 \in S
  OBVIOUS
<1>2. ASSUME NEW m \in Nat, m \in S PROVE m + 1 \in S
  <2>1. m + 1 <= n => m + 1 \in 1 .. n /\ m <= n /\ (m + 1) - 1 = m
    OBVIOUS
  <2> QED
    BY <1>2, <2>1
<1>3. Nat \subseteq S
  <2> HIDE DEF S
  <2> QED
    BY <1>1, <1>2, Numbers
<1> QED
  BY <1>3

(* Steps without end: there is a function on all numbers. *)
GoesOn(a, step, p) == p[0] = a /\ \A n \in Nat : p[n + 1] = step[<<n + 1, p[n]>>]
StaysOn(V, step) == \A n \in Nat : StaysIn(V, step, n)

LEMMA IterateOn ==
    ASSUME NEW V, NEW a, a \in V, NEW step, StaysOn(V, step)
    PROVE  \E p \in [Nat -> V] : GoesOn(a, step, p)
<1> DEFINE Table(n, h) == h \in [0 .. n -> V] /\ Iterates(a, step, n, h)
           table(n) == CHOOSE h : Table(n, h)
           p == [n \in Nat |-> table(n)[n]]
<1>1. ASSUME NEW n \in Nat PROVE Table(n, table(n))
  <2>1. PICK h : Table(n, h)
    <3>1. StaysIn(V, step, n)
      BY DEF StaysOn
    <3> QED
      BY <3>1, Iterate
  <2> HIDE DEF Table
  <2> QED
    BY <2>1
<1> HIDE DEF table
<1>2. ASSUME NEW n \in Nat
      PROVE  /\ table(n)[0] = a
             /\ \A i \in 1 .. n : table(n)[i] = step[<<i, table(n)[i - 1]>>]
             /\ \A i \in 0 .. n : table(n)[i] \in V
  BY <1>1 DEF Iterates
<1>3. ASSUME NEW n \in Nat PROVE table(n + 1)[n] = table(n)[n]
  <2> DEFINE g == table(n + 1)
             h == table(n)
  <2>1. n + 1 \in Nat /\ \A i \in 1 .. n : i \in 1 .. n + 1
    OBVIOUS
  <2>2. g[0] = h[0] /\ \A i \in 1 .. n : g[i] = step[<<i, g[i - 1]>>] /\ h[i] = step[<<i, h[i - 1]>>]
    BY <1>2, <2>1
  <2> HIDE DEF g, h
  <2>3. SameStep(n, g, h)
    BY <2>2 DEF SameStep
  <2>4. SameUpTo(n, g, h)
    BY <2>3, SameSteps
  <2>5. g[n] = h[n]
    BY <2>4 DEF SameUpTo
  <2> QED
    BY <2>5 DEF g, h
<1>4. \A n \in Nat : p[n] = table(n)[n] /\ p[n] \in V
  BY <1>2
<1>5. p[0] = a
  BY <1>2, <1>4
<1>6. ASSUME NEW n \in Nat PROVE p[n + 1] = step[<<n + 1, p[n]>>]
  <2>1. n + 1 \in Nat /\ n + 1 \in 1 .. n + 1 /\ (n + 1) - 1 = n
    OBVIOUS
  <2>2. p[n + 1] = table(n + 1)[n + 1] /\ p[n] = table(n)[n]
    BY <1>4, <2>1
  <2>3. table(n + 1)[n + 1] = step[<<n + 1, table(n + 1)[n]>>]
    BY <1>2, <2>1
  <2> QED
    BY <1>3, <2>2, <2>3
<1>7. p \in [Nat -> V]
  BY <1>4
<1> HIDE DEF p
<1> QED
  BY <1>5, <1>6, <1>7 DEF GoesOn

LEMMA FiniteRange ==
    ASSUME NEW S, IsFiniteSet(S), NEW f
    PROVE  IsFiniteSet({f[x] : x \in S})
<1> DEFINE T == {f[x] : x \in S}
           g == [x \in S |-> f[x]]
<1>1. g \in Surjection(S, T)
  BY DEF Surjection
<1> HIDE DEF g
<1> QED
  BY <1>1, FS_Surjection

(* Finitely many numbers have a least one. *)
LEMMA LeastExists ==
    ASSUME NEW I, IsFiniteSet(I), I # {}, NEW f, \A x \in I : f[x] \in Int
    PROVE  \E m \in I : \A x \in I : f[m] <= f[x]
<1> DEFINE Least(s) == \E m \in s : \A x \in s : f[m] <= f[x]
           N == {n \in Nat : \A s \in SUBSET I : Cardinality(s) = n /\ s # {} => Least(s)}
<1>1. \A s \in SUBSET I : IsFiniteSet(s) /\ Cardinality(s) \in Nat
  BY FS_Subset, FS_CardinalityType
<1>2. 0 \in N
  BY <1>1, FS_EmptySet
<1>3. ASSUME NEW n \in Nat, n \in N PROVE n + 1 \in N
  <2> SUFFICES ASSUME NEW s \in SUBSET I, Cardinality(s) = n + 1, s # {} PROVE Least(s)
    OBVIOUS
  <2> DEFINE y == Pick(s)
             r == s \ {y}
  <2>1. y \in s /\ y \in I /\ r \in SUBSET I /\ Cardinality(r) = n /\ s = r \cup {y}
    BY <1>1, PickOne
  <2> HIDE DEF y, r
  <2>2. CASE r = {}
    BY <2>1, <2>2
  <2>3. CASE r # {}
    <3>1. PICK m \in r : \A x \in r : f[m] <= f[x]
      BY <1>3, <2>1, <2>3
    <3>2. m \in I /\ f[m] \in Int /\ f[y] \in Int /\ \A x \in r : f[x] \in Int
      BY <2>1
    <3>3. CASE f[m] <= f[y]
      BY <2>1, <3>1, <3>3
    <3>4. CASE ~(f[m] <= f[y])
      <4>1. \A x \in s : f[y] <= f[x]
        BY <2>1, <3>1, <3>2, <3>4
      <4> QED
        BY <2>1, <4>1
    <3> QED
      BY <3>3, <3>4
  <2> QED
    BY <2>2, <2>3
<1>4. Cardinality(I) \in N
  <2>1. Cardinality(I) \in Nat
    BY FS_CardinalityType
  <2> HIDE DEF N
  <2> QED
    BY <1>2, <1>3, <2>1, Numbers
<1> QED
  BY <1>4

LEMMA MaxIs ==
    ASSUME NEW S \in SUBSET Int, IsFiniteSet(S), S # {}
    PROVE  Max(S) \in S /\ \A x \in S : x <= Max(S)
<1> DEFINE f == [x \in S |-> 0 - x]
<1>1. \A x \in S : f[x] \in Int /\ f[x] = 0 - x /\ x \in Int
  OBVIOUS
<1> HIDE DEF f
<1>2. PICK m \in S : \A x \in S : f[m] <= f[x]
  BY <1>1, LeastExists
<1>3. \A x \in S : m >= x
  BY <1>1, <1>2
<1> QED
  BY <1>1, <1>3 DEF Max

LEMMA MinIs ==
    ASSUME NEW S \in SUBSET Int, IsFiniteSet(S), S # {}
    PROVE  Min(S) \in S /\ \A x \in S : Min(S) <= x
<1> DEFINE f == [x \in S |-> x]
<1>1. \A x \in S : f[x] \in Int /\ f[x] = x /\ x \in Int
  OBVIOUS
<1> HIDE DEF f
<1>2. PICK m \in S : \A x \in S : f[m] <= f[x]
  BY <1>1, LeastExists
<1>3. \A x \in S : m <= x
  BY <1>1, <1>2
<1> QED
  BY <1>1, <1>3 DEF Min

LEMMA ConcatIs ==
    ASSUME NEW T, NEW s \in Seq(T), NEW t \in Seq(T)
    PROVE  /\ Len(s \o t) = Len(s) + Len(t)
           /\ \A i \in 1 .. Len(s) : (s \o t)[i] = s[i]
           /\ \A i \in 1 .. Len(t) : (s \o t)[Len(s) + i] = t[i]
  OBVIOUS

(* Elements of sequences *)
LEMMA RangeAppended ==
    ASSUME NEW T, NEW s \in Seq(T), NEW t \in T
    PROVE  Append(s, t) \in Seq(T) /\ Range(Append(s, t)) = Range(s) \cup {t}
<1>1. /\ Append(s, t) \in Seq(T) /\ DOMAIN Append(s, t) = 1 .. Len(s) + 1 /\ DOMAIN s = 1 .. Len(s)
      /\ \A i \in 1 .. Len(s) : Append(s, t)[i] = s[i]
      /\ Append(s, t)[Len(s) + 1] = t
  OBVIOUS
<1>2. \A i \in 1 .. Len(s) + 1 : i \in 1 .. Len(s) \/ i = Len(s) + 1
  OBVIOUS
<1>3. \A i \in 1 .. Len(s) : i \in 1 .. Len(s) + 1
  OBVIOUS
<1>4. Len(s) + 1 \in 1 .. Len(s) + 1
  OBVIOUS
<1> QED
  BY <1>1, <1>2, <1>3, <1>4 DEF Range

(* Joined sequences have what each has, *)
RangesOf(q) == UNION {Range(q[i]) : i \in 1 .. Len(q)}
(* each once if no two share an element. *)
Apart(q) == \A i, j \in 1 .. Len(q) : i # j => Range(q[i]) \cap Range(q[j]) = {}
Distinct(q) == \A i \in 1 .. Len(q) : IsInjective(q[i])

LEMMA ConcatRange ==
    ASSUME NEW T, NEW s \in Seq(T), NEW t \in Seq(T)
    PROVE  /\ Range(s \o t) = Range(s) \cup Range(t)
           /\ IsInjective(s) /\ IsInjective(t) /\ Range(s) \cap Range(t) = {} => IsInjective(s \o t)
<1> DEFINE m == Len(s)
           n == Len(t)
<1>1. /\ m \in Nat /\ n \in Nat /\ DOMAIN s = 1 .. m /\ DOMAIN t = 1 .. n /\ DOMAIN (s \o t) = 1 .. m + n
      /\ \A i \in 1 .. m : (s \o t)[i] = s[i]
      /\ \A i \in 1 .. n : (s \o t)[m + i] = t[i]
  BY ConcatIs
<1> HIDE DEF m, n
<1>2. \A i \in 1 .. m + n : i \in 1 .. m \/ (i - m \in 1 .. n /\ m + (i - m) = i)
  BY <1>1
<1>3. \A i \in 1 .. m : i \in 1 .. m + n
  BY <1>1
<1>4. \A i \in 1 .. n : m + i \in 1 .. m + n
  BY <1>1
<1>5. Range(s \o t) = Range(s) \cup Range(t)
  <2>1. \A i \in 1 .. m + n : (s \o t)[i] \in Range(s) \cup Range(t)
    <3> TAKE i \in 1 .. m + n
    <3>1. CASE i \in 1 .. m
      BY <1>1, <3>1 DEF Range
    <3>2. CASE i - m \in 1 .. n /\ m + (i - m) = i
      <4>1. (s \o t)[m + (i - m)] = t[i - m]
        BY <1>1, <3>2
      <4>2. t[i - m] \in Range(t)
        BY <1>1, <3>2 DEF Range
      <4> QED
        BY <3>2, <4>1, <4>2
    <3> QED
      BY <1>2, <3>1, <3>2
  <2>2. Range(s) \subseteq Range(s \o t)
    BY <1>1, <1>3 DEF Range
  <2>3. Range(t) \subseteq Range(s \o t)
    BY <1>1, <1>4 DEF Range
  <2>4. Range(s \o t) \subseteq Range(s) \cup Range(t)
    <3>1. Range(s \o t) = {(s \o t)[i] : i \in 1 .. m + n}
      BY <1>1 DEF Range
    <3> QED
      BY <2>1, <3>1
  <2> QED
    BY <2>2, <2>3, <2>4
<1>6. ASSUME IsInjective(s), IsInjective(t), Range(s) \cap Range(t) = {} PROVE IsInjective(s \o t)
  <2> SUFFICES ASSUME NEW i \in 1 .. m + n, NEW j \in 1 .. m + n, (s \o t)[i] = (s \o t)[j] PROVE i = j
    BY <1>1 DEF IsInjective
  <2> DEFINE a == i - m
             b == j - m
  <2>1. \/ i \in 1 .. m /\ (s \o t)[i] = s[i]
        \/ a \in 1 .. n /\ m + a = i /\ (s \o t)[i] = t[a]
    <3>1. i \in 1 .. m \/ (i - m \in 1 .. n /\ m + (i - m) = i)
      BY <1>2
    <3> QED
      BY <1>1, <3>1
  <2>2. \/ j \in 1 .. m /\ (s \o t)[j] = s[j]
        \/ b \in 1 .. n /\ m + b = j /\ (s \o t)[j] = t[b]
    <3>1. j \in 1 .. m \/ (j - m \in 1 .. n /\ m + (j - m) = j)
      BY <1>2
    <3> QED
      BY <1>1, <3>1
  <2> HIDE DEF a, b
  <2>3. \A x \in 1 .. m : \A y \in 1 .. n : s[x] # t[y]
    <3> TAKE x \in 1 .. m
    <3> TAKE y \in 1 .. n
    <3>1. s[x] \in Range(s) /\ t[y] \in Range(t)
      BY <1>1 DEF Range
    <3> QED
      BY <1>6, <3>1
  <2>4. /\ \A x, y \in 1 .. m : s[x] = s[y] => x = y
        /\ \A x, y \in 1 .. n : t[x] = t[y] => x = y
    BY <1>1, <1>6 DEF IsInjective
  <2> QED
    BY <2>1, <2>2, <2>3, <2>4
<1> QED
  BY <1>5, <1>6

LEMMA FlattenRanges ==
    ASSUME NEW T, NEW q \in Seq(Seq(T))
    PROVE  /\ FlattenSeq(q) \in Seq(T) /\ Range(FlattenSeq(q)) = RangesOf(q)
           /\ Distinct(q) /\ Apart(q) => IsInjective(FlattenSeq(q))
<1> DEFINE Holds(p) == /\ FlattenSeq(p) \in Seq(T) /\ Range(FlattenSeq(p)) = RangesOf(p)
                       /\ Distinct(p) /\ Apart(p) => IsInjective(FlattenSeq(p))
           S == {n \in Nat : \A p \in Seq(Seq(T)) : Len(p) = n => Holds(p)}
<1>1. 0 \in S
  <2>1. Holds(<<>>)
    <3>1. FlattenSeq(<<>>) = <<>>
      BY DEF FlattenSeq
    <3>2. Range(<<>>) = {} /\ RangesOf(<<>>) = {} /\ IsInjective(<<>>)
      BY DEF Range, RangesOf, IsInjective
    <3>3. FlattenSeq(<<>>) \in Seq(T)
      <4>1. <<>> \in Seq(T)
        OBVIOUS
      <4> QED
        BY <3>1, <4>1, Zenon
    <3>4. Range(FlattenSeq(<<>>)) = RangesOf(<<>>) /\ IsInjective(FlattenSeq(<<>>))
      BY <3>1, <3>2
    <3> QED
      BY <3>3, <3>4
  <2>2. \A p \in Seq(Seq(T)) : Len(p) = 0 => p = <<>>
    OBVIOUS
  <2> HIDE DEF Holds
  <2> QED
    BY <2>1, <2>2
<1>2. ASSUME NEW n \in Nat, n \in S PROVE n + 1 \in S
  <2> SUFFICES ASSUME NEW p \in Seq(Seq(T)), Len(p) = n + 1 PROVE Holds(p)
    OBVIOUS
  <2> DEFINE r == SubSeq(p, 1, n)
             t == p[n + 1]
  <2>1. /\ r \in Seq(Seq(T)) /\ Len(r) = n /\ t \in Seq(T) /\ p = Append(r, t)
        /\ \A i \in 1 .. n : r[i] = p[i]
    OBVIOUS
  <2>2. /\ FlattenSeq(r) \in Seq(T) /\ Range(FlattenSeq(r)) = RangesOf(r)
        /\ Distinct(r) /\ Apart(r) => IsInjective(FlattenSeq(r))
    BY <1>2, <2>1
  <2>3. FlattenSeq(p) = FlattenSeq(r) \o t
    BY <2>1, FlattenAppend
  <2> HIDE DEF r, S
  <2>4. 1 .. n + 1 = (1 .. n) \cup {n + 1} /\ n + 1 \notin 1 .. n
    OBVIOUS
  <2>5. RangesOf(p) = RangesOf(r) \cup Range(t)
    <3>1. \A x : x \in RangesOf(p) <=> \E i \in 1 .. n + 1 : x \in Range(p[i])
      BY DEF RangesOf
    <3>2. \A x : x \in RangesOf(r) <=> \E i \in 1 .. n : x \in Range(r[i])
      BY <2>1 DEF RangesOf
    <3>3. \A i \in 1 .. n + 1 : (i \in 1 .. n /\ p[i] = r[i]) \/ (i = n + 1 /\ p[i] = t)
      BY <2>1, <2>4
    <3>4. \A x : (\E i \in 1 .. n + 1 : x \in Range(p[i])) <=> (\E i \in 1 .. n : x \in Range(r[i])) \/ x \in Range(t)
      <4> HIDE DEF t
      <4>1. n + 1 \in 1 .. n + 1 /\ p[n + 1] = t
        BY DEF t
      <4>2. \A i \in 1 .. n : i \in 1 .. n + 1 /\ p[i] = r[i]
        BY <2>1
      <4> QED
        BY <3>3, <4>1, <4>2
    <3> QED
      BY <3>1, <3>2, <3>4
  <2>6. Distinct(p) => Distinct(r) /\ IsInjective(t)
    BY <2>1, <2>4 DEF Distinct
  <2>7. Apart(p) => Apart(r) /\ RangesOf(r) \cap Range(t) = {}
    <3> SUFFICES ASSUME Apart(p) PROVE Apart(r) /\ RangesOf(r) \cap Range(t) = {}
      OBVIOUS
    <3>1. Apart(r)
      BY <2>1, <2>4 DEF Apart
    <3>2. \A i \in 1 .. n : Range(r[i]) \cap Range(t) = {}
      BY <2>1, <2>4 DEF Apart
    <3>3. RangesOf(r) \cap Range(t) = {}
      BY <2>1, <3>2 DEF RangesOf
    <3> QED
      BY <3>1, <3>3
  <2> HIDE DEF t
  <2>8. /\ Range(FlattenSeq(r) \o t) = Range(FlattenSeq(r)) \cup Range(t)
        /\ IsInjective(FlattenSeq(r)) /\ IsInjective(t) /\ Range(FlattenSeq(r)) \cap Range(t) = {}
             => IsInjective(FlattenSeq(r) \o t)
    BY <2>1, <2>2, ConcatRange
  <2>9. FlattenSeq(p) \in Seq(T)
    BY <2>1, <2>2, <2>3
  <2> QED
    BY <2>2, <2>3, <2>5, <2>6, <2>7, <2>8, <2>9
<1>3. Len(q) \in S
  <2>1. Len(q) \in Nat
    OBVIOUS
  <2> HIDE DEF S
  <2> QED
    BY <1>1, <1>2, <2>1, Numbers
<1> QED
  BY <1>3

(* Element r of sequence n comes after those of the sequences before it. *)
Lengths(len, q) == \A i \in 1 .. Len(q) : len[i] = Len(q[i])
FoundAt(q, n, r, i) == FlattenSeq(q)[i] = q[n][r]

LEMMA FlattenAt ==
    ASSUME NEW T, NEW q, q \in Seq(Seq(T)), NEW n, n \in 1 .. Len(q), NEW r, r \in 1 .. Len(q[n]),
           NEW len, Lengths(len, q)
    PROVE  FoundAt(q, n, r, SumFunctionOnSet(len, 1 .. n - 1) + r)
<1>0. \A i \in 1 .. Len(q) : len[i] = Len(q[i])
  BY DEF Lengths
<1> USE <1>0
<1> DEFINE Before(m) == SumFunctionOnSet(len, 1 .. m)
           N == Len(q)
<1>1. N \in Nat /\ N \in 1 .. N /\ q # <<>> /\ \A i \in 1 .. N : q[i] \in Seq(T) /\ len[i] \in Nat
  OBVIOUS
<1> HIDE DEF N
<1>2. \A m \in Nat : m + 1 <= N => Before(m) \in Int /\ Before(m + 1) = Before(m) + len[m + 1]
  <2> TAKE m \in Nat
  <2> HAVE m + 1 <= N
  <2>1. \A i \in 1 .. m + 1 : len[i] \in Int
    BY <1>1
  <2> QED
    BY <2>1, SumNext
<1>3. Before(0) = 0
  <2>1. 1 .. 0 = {}
    OBVIOUS
  <2> QED
    BY <2>1, SumEmpty
<1>4. PICK f \in [1 .. N -> Seq(T)] : Joined(q, f, N)
  <2>1. N \in Nat /\ N <= Len(q)
    BY <1>1 DEF N
  <2> QED
    BY <2>1, JoinedExists
<1>5. FlattenSeq(q) = f[N]
  BY <1>1, <1>4, FlattenJoined DEF N
<1> HIDE DEF Before
(* What has been joined is as long as it should be, and keeps what it has. *)
<1> DEFINE Place == {m \in Nat : m + 1 <= N =>
                /\ Before(m) \in Nat /\ Len(f[m + 1]) = Before(m) + len[m + 1]
                /\ \A k \in 0 .. m : /\ Before(k) \in Nat
                                     /\ \A i \in 1 .. len[k + 1] :
                                           /\ Before(k) + i \in 1 .. Len(f[m + 1])
                                           /\ f[m + 1][Before(k) + i] = q[k + 1][i]}
<1>6. 0 \in Place
  <2> SUFFICES ASSUME 1 <= N
               PROVE  /\ Before(0) \in Nat /\ Len(f[1]) = Before(0) + len[1]
                      /\ \A i \in 1 .. len[1] : Before(0) + i \in 1 .. Len(f[1])
                                              /\ f[1][Before(0) + i] = q[1][i]
    OBVIOUS
  <2>1. f[1] = q[1]
    <3>1. 1 \in 1 .. N
      BY <1>1
    <3> QED
      BY <1>4, <3>1 DEF Joined
  <2>2. len[1] = Len(q[1])
    BY <1>1 DEF N
  <2> QED
    BY <1>1, <1>3, <2>1, <2>2
<1>7. ASSUME NEW m \in Nat, m \in Place PROVE m + 1 \in Place
  <2> SUFFICES ASSUME m + 2 <= N
               PROVE  /\ Before(m + 1) \in Nat /\ Len(f[m + 2]) = Before(m + 1) + len[m + 2]
                      /\ \A k \in 0 .. m + 1 :
                            /\ Before(k) \in Nat
                            /\ \A i \in 1 .. len[k + 1] :
                                  /\ Before(k) + i \in 1 .. Len(f[m + 2])
                                  /\ f[m + 2][Before(k) + i] = q[k + 1][i]
    <3>1. (m + 1) + 1 = m + 2
      OBVIOUS
    <3> QED
      BY <3>1
  <2>1. m + 1 \in 1 .. N /\ m + 2 \in 1 .. N /\ (m + 2) - 1 = m + 1 /\ m + 2 # 1 /\ m + 1 <= N
    BY <1>1
  <2>2. f[m + 2] = f[m + 1] \o q[m + 2]
    BY <1>4, <2>1 DEF Joined
  <2>3. /\ Before(m) \in Nat /\ Len(f[m + 1]) = Before(m) + len[m + 1]
        /\ \A k \in 0 .. m : /\ Before(k) \in Nat
                             /\ \A i \in 1 .. len[k + 1] :
                                   /\ Before(k) + i \in 1 .. Len(f[m + 1])
                                   /\ f[m + 1][Before(k) + i] = q[k + 1][i]
    BY <1>7, <2>1
  <2> HIDE DEF Place
  <2> DEFINE old == f[m + 1]
             more == q[m + 2]
             new == f[m + 2]
             b == Before(m + 1)
  <2>4. /\ b = Len(old) /\ len[m + 2] = Len(more) /\ old \in Seq(T) /\ more \in Seq(T)
        /\ Len(old) \in Nat /\ Len(more) \in Nat
    <3>1. Before(m + 1) = Before(m) + len[m + 1]
      BY <1>2, <2>1
    <3>2. len[m + 2] = Len(more)
      BY <2>1 DEF N
    <3>3. old \in Seq(T) /\ more \in Seq(T)
      BY <1>1, <2>1
    <3>4. b = Len(old)
      BY <2>3, <3>1
    <3> HIDE DEF b, old, more
    <3>5. Len(old) \in Nat /\ Len(more) \in Nat
      BY <3>3
    <3> QED
      BY <3>2, <3>3, <3>4, <3>5
  <2> HIDE DEF old, more, new
  <2>5. /\ Len(new) = Len(old) + Len(more)
        /\ \A i \in 1 .. Len(old) : new[i] = old[i]
        /\ \A i \in 1 .. Len(more) : new[Len(old) + i] = more[i]
    <3>1. new = old \o more
      BY <2>2 DEF old, more, new
    <3> QED
      BY <2>4, <3>1, ConcatIs
  <2>6. ASSUME NEW k \in 0 .. m + 1, NEW i \in 1 .. len[k + 1]
        PROVE  Before(k) + i \in 1 .. Len(new) /\ new[Before(k) + i] = q[k + 1][i]
    <3>1. CASE k \in 0 .. m
      <4>1. Before(k) + i \in 1 .. Len(old) /\ old[Before(k) + i] = q[k + 1][i]
        BY <2>3, <3>1 DEF old
      <4> DEFINE p == Before(k) + i
      <4> HIDE DEF p
      <4>2. p \in 1 .. Len(old) => p \in 1 .. Len(new)
        BY <2>4, <2>5
      <4> QED
        BY <2>5, <4>1, <4>2 DEF p
    <3>2. CASE k = m + 1
      <4>1. k + 1 = m + 2 /\ Before(k) = Len(old) /\ i \in 1 .. Len(more) /\ q[k + 1] = more
        <5>1. k + 1 = m + 2
          BY <3>2
        <5> QED
          BY <2>4, <3>2, <5>1 DEF more
      <4>2. new[Len(old) + i] = more[i]
        BY <2>5, <4>1
      <4>3. Len(old) + i \in 1 .. Len(new)
        BY <2>4, <2>5, <4>1
      <4> QED
        BY <4>1, <4>2, <4>3
    <3> QED
      BY <3>1, <3>2
  <2>7. \A k \in 0 .. m + 1 : Before(k) \in Nat
    <3> TAKE k \in 0 .. m + 1
    <3>1. k \in 0 .. m \/ k = m + 1
      OBVIOUS
    <3> QED
      BY <2>3, <2>4, <3>1
  <2>8. Len(new) = b + len[m + 2]
    BY <2>4, <2>5
  <2> QED
    BY <2>4, <2>6, <2>7, <2>8 DEF new
<1>8. N - 1 \in Place
  <2>1. N - 1 \in Nat
    BY <1>1
  <2> HIDE DEF Place
  <2> QED
    BY <1>6, <1>7, <2>1, Numbers
<1>9. n - 1 \in 0 .. N - 1 /\ (n - 1) + 1 = n /\ (N - 1) + 1 = N /\ N - 1 + 1 <= N
  BY <1>1 DEF N
<1>10. len[n] = Len(q[n])
  OBVIOUS
<1>11. f[N][Before(n - 1) + r] = q[n][r]
  <2>1. \A k \in 0 .. N - 1 : \A i \in 1 .. len[k + 1] : f[(N - 1) + 1][Before(k) + i] = q[k + 1][i]
    BY <1>8, <1>9
  <2>2. \A i \in 1 .. len[(n - 1) + 1] : f[(N - 1) + 1][Before(n - 1) + i] = q[(n - 1) + 1][i]
    BY <1>9, <2>1
  <2> QED
    BY <1>9, <1>10, <2>2
<1> QED
  BY <1>5, <1>11 DEF Before, FoundAt
================================================================================
